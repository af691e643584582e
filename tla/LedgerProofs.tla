---------------------------- MODULE LedgerProofs ----------------------------
(***************************************************************************)
(* The Ledger agrees with Replay, returns the integral of the balances and *)
(* fails only on histories that cannot be: the proofs, for every history,  *)
(* every exclusion stream, every Epoch length and every choice of the      *)
(* Epochs asked for.                                                       *)
(***************************************************************************)
EXTENDS Ledger, WellFoundedInduction, TLAPS

-----------------------------------------------------------------------------
(* The inductive invariant: a simulation of every Replay still to be asked   *)
(* for by the one Ledger.                                                    *)

(* Where the open sub-interval of a standing starts, in Epoch e. *)
From(s, e) == IF Listed(s) THEN s.since ELSE WindowStart(e)

(* The Ledger's standing s says in Epoch e what Replay's standing r says. Replay *)
(* never takes an address off its list; the Ledger does, when nothing is held.   *)
Like(s, r, e) ==
    /\ s.balance = r.balance /\ s.weighted = r.weighted
    /\ s.firstBuyAt = r.firstBuyAt /\ s.lastSellAt = r.lastSellAt
    /\ From(s, e) = From(r, e)
    /\ Listed(s) => Listed(r)
    /\ ~Listed(s) => s.balance = 0 /\ s.weighted = 0

(* How far the Ledger has walked: no transfer applied is at or past it. *)
Horizon == IF pc = "idle" THEN WindowStart(floor) ELSE WindowEnd(epoch)

OrderInv == Ascending(ordered)
PcInv    == /\ pc = "walk" => ~failed /\ reply = "none" /\ floor <= epoch
            /\ reply = "holders" => pc = "idle"
PastInv  == ~failed => \A i \in 1..next : ordered[i].time < Horizon

(* The Epoch under way is in step with its Replay. *)
NowInv   == pc = "walk" => /\ epoch \notin broken
                           /\ \A a \in Accounts : Like(state[a], replays[epoch][a], epoch)

(* Every later one would be, were its window opened now. *)
Later(e) == IF pc = "idle" THEN e >= floor ELSE e > epoch
LaterInv == ~failed => \A e \in Epochs : Later(e) =>
                /\ e \notin broken
                /\ \A a \in Accounts : Like(OpenAt(state[a], e), replays[e][a], e)

LedgerInv == TypeOK /\ OrderInv /\ PcInv /\ PastInv /\ NowInv /\ LaterInv /\ LedgerAgrees

-----------------------------------------------------------------------------
(* Windows.                                                                  *)

(* Windows are in order and do not overlap. *)
LEMMA Windows ==
  /\ \A e \in Nat : WindowStart(e) \in Nat /\ WindowEnd(e) \in Nat
  /\ \A e \in Nat : WindowEnd(e) = WindowStart(e + 1)
  /\ \A e, f \in Nat : e <= f => WindowStart(e) <= WindowStart(f) /\ WindowEnd(e) <= WindowEnd(f)
  /\ \A e, f \in Nat : e < f => WindowEnd(e) <= WindowStart(f)
<1>1. \A i, j, k \in Nat : i <= j => i * k <= j * k
  OBVIOUS
<1>2. \A i, k \in Nat : i * k \in Nat
  OBVIOUS
<1>3. EpochSeconds \in Nat
  BY LedgerAssumption
<1>4. \A e \in Nat : WindowStart(e) \in Nat /\ WindowEnd(e) \in Nat
  BY <1>2, <1>3 DEF WindowStart, WindowEnd
<1>5. \A e \in Nat : WindowEnd(e) = WindowStart(e + 1)
  BY DEF WindowStart, WindowEnd
<1>6. \A e, f \in Nat : e <= f => WindowStart(e) <= WindowStart(f)
  BY <1>1, <1>3 DEF WindowStart
<1>7. \A e, f \in Nat : e <= f => WindowEnd(e) <= WindowEnd(f)
  BY <1>5, <1>6
<1>8. \A e, f \in Nat : e < f => WindowEnd(e) <= WindowStart(f)
  BY <1>5, <1>6
<1>. QED  BY <1>4, <1>5, <1>6, <1>7, <1>8

-----------------------------------------------------------------------------
(* What each operation does to a standing, field by field.                   *)

(* at changes the start of the sub-interval, and nothing else. *)
LEMMA AtFields ==
  ASSUME NEW s \in Standing, NEW e \in Nat
  PROVE  /\ At(s, e) \in Standing /\ At(s, e).since \in Nat
         /\ At(s, e).since = From(s, e)
         /\ At(s, e).balance = s.balance /\ At(s, e).weighted = s.weighted
         /\ At(s, e).firstBuyAt = s.firstBuyAt /\ At(s, e).lastSellAt = s.lastSellAt
<1>1. WindowStart(e) \in Nat
  BY Windows
<1>. QED  BY <1>1 DEF At, From, Standing, Listed, Idle, Instant

(* A balance weighs an integer. *)
LEMMA AreaType ==
  ASSUME NEW s \in Standing, NEW ts \in Nat
  PROVE  Area(s, ts) \in Int
BY DEF Area, Standing, Instant

(* accrueTo changes the sum and the start of the sub-interval, and nothing else. *)
LEMMA AccrueFields ==
  ASSUME NEW s \in Standing, NEW ts \in Nat
  PROVE  /\ AccrueTo(s, ts) \in Standing
         /\ AccrueTo(s, ts).weighted = IF ts <= s.since THEN s.weighted ELSE s.weighted + Area(s, ts)
         /\ AccrueTo(s, ts).since = IF ts <= s.since THEN s.since ELSE ts
         /\ AccrueTo(s, ts).balance = s.balance
         /\ AccrueTo(s, ts).firstBuyAt = s.firstBuyAt /\ AccrueTo(s, ts).lastSellAt = s.lastSellAt
<1>1. /\ s.since \in Int /\ s.weighted \in Int
      /\ s = [balance |-> s.balance, since |-> s.since, weighted |-> s.weighted,
              firstBuyAt |-> s.firstBuyAt, lastSellAt |-> s.lastSellAt]
  BY DEF Standing, Instant
<1>2. CASE ts <= s.since
  BY <1>2 DEF AccrueTo
<1>3. CASE ~(ts <= s.since)
  <2>. DEFINE q == [s EXCEPT !.weighted = s.weighted + Area(s, ts), !.since = ts]
  <2>1. AccrueTo(s, ts) = q
    BY <1>3 DEF AccrueTo
  <2>2. s.weighted + Area(s, ts) \in Int
    BY <1>1, AreaType
  <2>3. /\ q \in Standing
        /\ q.weighted = s.weighted + Area(s, ts) /\ q.since = ts
        /\ q.balance = s.balance /\ q.firstBuyAt = s.firstBuyAt /\ q.lastSellAt = s.lastSellAt
    <3>1. \A v \in Instant, z \in Int : [s EXCEPT !.weighted = z, !.since = v] \in Standing
      BY DEF Standing
    <3>. QED  BY <2>2, <3>1 DEF Standing, Instant
  <2>. QED  BY <1>3, <2>1, <2>3
<1>. QED  BY <1>2, <1>3

(* open restarts the accrual of what is listed. *)
LEMMA OpenFields ==
  ASSUME NEW s \in Standing, NEW e \in Nat
  PROVE  /\ OpenAt(s, e) \in Standing
         /\ OpenAt(s, e).balance = s.balance
         /\ OpenAt(s, e).firstBuyAt = s.firstBuyAt /\ OpenAt(s, e).lastSellAt = s.lastSellAt
         /\ OpenAt(s, e).weighted = IF Listed(s) THEN 0 ELSE s.weighted
         /\ OpenAt(s, e).since = IF Listed(s) /\ s.balance # 0 THEN WindowStart(e) ELSE Idle
<1>1. CASE ~Listed(s)
  BY <1>1 DEF OpenAt, Listed
<1>2. CASE Listed(s)
  <2>. DEFINE w == IF s.balance = 0 THEN Idle ELSE WindowStart(e)
  <2>1. w \in Instant
    BY Windows DEF Instant, Idle
  <2>. DEFINE z == 0
              q == [s EXCEPT !.weighted = z, !.since = w]
  <2>2. z \in Int
    OBVIOUS
  <2>3. OpenAt(s, e) = q
    BY <1>2 DEF OpenAt
  <2>. HIDE DEF w, z
  <2>4. /\ q \in Standing /\ q.weighted = z /\ q.since = w
        /\ q.balance = s.balance /\ q.firstBuyAt = s.firstBuyAt /\ q.lastSellAt = s.lastSellAt
    BY <2>1, <2>2 DEF Standing
  <2>. HIDE DEF q
  <2>. QED  BY <1>2, <2>3, <2>4 DEF w, z
<1>. QED  BY <1>1, <1>2

(* A sender ends up with less, and has accrued. *)
LEMMA SendFields ==
  ASSUME NEW s \in Standing, NEW e \in Nat, NEW tr \in Transfer
  PROVE  LET p == AccrueTo(At(s, e), tr.time)
         IN /\ Send(s, e, tr) \in Standing
            /\ Send(s, e, tr).balance = s.balance - tr.value
            /\ Send(s, e, tr).lastSellAt = tr.time
            /\ Send(s, e, tr).weighted = p.weighted
            /\ Send(s, e, tr).since = p.since /\ p.since \in Nat
            /\ Send(s, e, tr).firstBuyAt = s.firstBuyAt
<1>. DEFINE p == AccrueTo(At(s, e), tr.time)
<1>1. tr.time \in Nat /\ tr.value \in Int
  BY DEF Transfer
<1>2. /\ p \in Standing /\ p.balance = s.balance /\ p.since \in Nat
      /\ p.firstBuyAt = s.firstBuyAt
  <2>1. /\ At(s, e) \in Standing /\ At(s, e).since \in Nat
        /\ At(s, e).balance = s.balance /\ At(s, e).firstBuyAt = s.firstBuyAt
    BY AtFields
  <2>. QED  BY <1>1, <2>1, AccrueFields
<1>. DEFINE b == p.balance - tr.value
            t == tr.time
            q == [p EXCEPT !.balance = b, !.lastSellAt = t]
<1>3. Send(s, e, tr) = q
  BY DEF Send
<1>. HIDE DEF p
<1>4. b \in Int /\ t \in Nat
  BY <1>1, <1>2 DEF Standing
<1>. HIDE DEF b, t
<1>5. /\ q \in Standing /\ q.balance = b /\ q.lastSellAt = t
      /\ q.weighted = p.weighted /\ q.since = p.since /\ q.firstBuyAt = p.firstBuyAt
  BY <1>2, <1>4 DEF Standing
<1>. HIDE DEF q
<1>. QED  BY <1>2, <1>3, <1>5 DEF p, b, t

(* A receiver ends up with more, and has accrued. *)
LEMMA ReceiveFields ==
  ASSUME NEW s \in Standing, NEW e \in Nat, NEW tr \in Transfer
  PROVE  LET p == AccrueTo(At(s, e), tr.time)
         IN /\ Receive(s, e, tr) \in Standing
            /\ Receive(s, e, tr).balance = s.balance + tr.value
            /\ Receive(s, e, tr).lastSellAt = s.lastSellAt
            /\ Receive(s, e, tr).weighted = p.weighted
            /\ Receive(s, e, tr).since = p.since /\ p.since \in Nat
            /\ Receive(s, e, tr).firstBuyAt = IF s.firstBuyAt = Never THEN tr.time ELSE s.firstBuyAt
<1>. DEFINE p == AccrueTo(At(s, e), tr.time)
            f == IF p.firstBuyAt = Never THEN tr.time ELSE p.firstBuyAt
            b == p.balance + tr.value
            q == [p EXCEPT !.balance = b, !.firstBuyAt = f]
<1>1. tr.time \in Nat /\ tr.value \in Int
  BY DEF Transfer
<1>2. /\ p \in Standing /\ p.balance = s.balance /\ p.since \in Nat
      /\ p.firstBuyAt = s.firstBuyAt /\ p.lastSellAt = s.lastSellAt
  <2>1. /\ At(s, e) \in Standing /\ At(s, e).since \in Nat /\ At(s, e).balance = s.balance
        /\ At(s, e).firstBuyAt = s.firstBuyAt /\ At(s, e).lastSellAt = s.lastSellAt
    BY AtFields
  <2>. QED  BY <1>1, <2>1, AccrueFields
<1>3. Receive(s, e, tr) = q
  BY DEF Receive
<1>. HIDE DEF p
<1>4. b \in Int /\ f \in Instant /\ f = IF s.firstBuyAt = Never THEN tr.time ELSE s.firstBuyAt
  BY <1>1, <1>2 DEF Standing, Instant
<1>. HIDE DEF b, f
<1>5. /\ q \in Standing /\ q.balance = b /\ q.firstBuyAt = f
      /\ q.weighted = p.weighted /\ q.since = p.since /\ q.lastSellAt = p.lastSellAt
  BY <1>2, <1>4 DEF Standing
<1>. HIDE DEF q
<1>. QED  BY <1>2, <1>3, <1>4, <1>5 DEF p, b

-----------------------------------------------------------------------------
(* The simulation, standing by standing.                                     *)

(* Accruing keeps two standings alike. *)
LEMMA LikeAccrued ==
  ASSUME NEW s \in Standing, NEW r \in Standing, NEW e \in Nat, NEW ts \in Nat, Like(s, r, e)
  PROVE  LET p == AccrueTo(At(s, e), ts)  q == AccrueTo(At(r, e), ts)
         IN p.weighted = q.weighted /\ p.since = q.since
<1>1. /\ At(s, e) \in Standing /\ At(r, e) \in Standing
      /\ At(s, e).since = At(r, e).since
      /\ At(s, e).balance = At(r, e).balance /\ At(s, e).weighted = At(r, e).weighted
  <2>1. /\ At(s, e) \in Standing /\ At(s, e).since = From(s, e)
        /\ At(s, e).balance = s.balance /\ At(s, e).weighted = s.weighted
    BY AtFields, Zenon
  <2>2. /\ At(r, e) \in Standing /\ At(r, e).since = From(r, e)
        /\ At(r, e).balance = r.balance /\ At(r, e).weighted = r.weighted
    BY AtFields, Zenon
  <2>3. From(s, e) = From(r, e) /\ s.balance = r.balance /\ s.weighted = r.weighted
    BY DEF Like
  <2>. QED  BY <2>1, <2>2, <2>3, Zenon
<1>2. Area(At(s, e), ts) = Area(At(r, e), ts)
  BY <1>1 DEF Area
<1>. QED  BY <1>1, <1>2, AccrueFields

(* So does a transfer, at the sending and at the receiving end. *)
LEMMA LikeMoved ==
  ASSUME NEW s \in Standing, NEW r \in Standing, NEW e \in Nat, NEW tr \in Transfer, Like(s, r, e)
  PROVE  /\ Like(Send(s, e, tr), Send(r, e, tr), e)
         /\ Like(Receive(s, e, tr), Receive(r, e, tr), e)
<1>1. tr.time \in Nat
  BY DEF Transfer
<1>. DEFINE p == AccrueTo(At(s, e), tr.time)
            q == AccrueTo(At(r, e), tr.time)
<1>2. p.weighted = q.weighted /\ p.since = q.since
  BY <1>1, LikeAccrued
<1>3. /\ Send(s, e, tr).balance = s.balance - tr.value
      /\ Send(s, e, tr).lastSellAt = tr.time
      /\ Send(s, e, tr).weighted = p.weighted
      /\ Send(s, e, tr).since = p.since /\ p.since \in Nat
      /\ Send(s, e, tr).firstBuyAt = s.firstBuyAt
  BY SendFields
<1>4. /\ Send(r, e, tr).balance = r.balance - tr.value
      /\ Send(r, e, tr).lastSellAt = tr.time
      /\ Send(r, e, tr).weighted = q.weighted
      /\ Send(r, e, tr).since = q.since
      /\ Send(r, e, tr).firstBuyAt = r.firstBuyAt
  BY SendFields
<1>5. /\ Receive(s, e, tr).balance = s.balance + tr.value
      /\ Receive(s, e, tr).lastSellAt = s.lastSellAt
      /\ Receive(s, e, tr).weighted = p.weighted
      /\ Receive(s, e, tr).since = p.since
      /\ Receive(s, e, tr).firstBuyAt = IF s.firstBuyAt = Never THEN tr.time ELSE s.firstBuyAt
  BY ReceiveFields
<1>6. /\ Receive(r, e, tr).balance = r.balance + tr.value
      /\ Receive(r, e, tr).lastSellAt = r.lastSellAt
      /\ Receive(r, e, tr).weighted = q.weighted
      /\ Receive(r, e, tr).since = q.since
      /\ Receive(r, e, tr).firstBuyAt = IF r.firstBuyAt = Never THEN tr.time ELSE r.firstBuyAt
  BY ReceiveFields
<1>. HIDE DEF p, q
<1>7. Like(Send(s, e, tr), Send(r, e, tr), e)
  BY <1>2, <1>3, <1>4 DEF Like, From, Listed, Idle
<1>8. Like(Receive(s, e, tr), Receive(r, e, tr), e)
  BY <1>2, <1>3, <1>5, <1>6 DEF Like, From, Listed, Idle
<1>. QED  BY <1>7, <1>8

(* A transfer before window f opens, applied in any Epoch e, moves balances in *)
(* Replay of f without accruing, and open drops what it accrued in e.          *)
LEMMA LikeMovedBefore ==
  ASSUME NEW s \in Standing, NEW r \in Standing, NEW e \in Nat, NEW f \in Nat, NEW tr \in Transfer,
         tr.time <= WindowStart(f), Like(OpenAt(s, f), r, f)
  PROVE  /\ Like(OpenAt(Send(s, e, tr), f), Send(r, f, tr), f)
         /\ Like(OpenAt(Receive(s, e, tr), f), Receive(r, f, tr), f)
<1>1. tr.time \in Nat /\ tr.value \in Int /\ WindowStart(f) \in Nat
  BY Windows DEF Transfer
<1>2. /\ OpenAt(s, f).weighted = IF Listed(s) THEN 0 ELSE s.weighted
      /\ OpenAt(s, f).since = IF Listed(s) /\ s.balance # 0 THEN WindowStart(f) ELSE Idle
      /\ OpenAt(s, f).balance = s.balance
      /\ OpenAt(s, f).firstBuyAt = s.firstBuyAt /\ OpenAt(s, f).lastSellAt = s.lastSellAt
  BY OpenFields
<1>3. /\ From(r, f) = WindowStart(f) /\ r.weighted = 0
      /\ r.balance = s.balance /\ r.firstBuyAt = s.firstBuyAt /\ r.lastSellAt = s.lastSellAt
  BY <1>1, <1>2 DEF Like, From, Listed, Idle
<1>4. /\ AccrueTo(At(r, f), tr.time).weighted = 0
      /\ AccrueTo(At(r, f), tr.time).since = WindowStart(f)
  <2>1. At(r, f) \in Standing /\ At(r, f).since = WindowStart(f) /\ At(r, f).weighted = 0
    BY <1>3, AtFields
  <2>. QED  BY <1>1, <2>1, AccrueFields
<1>5. Like(OpenAt(Send(s, e, tr), f), Send(r, f, tr), f)
  <2>. DEFINE x == Send(s, e, tr)
  <2>1. /\ x \in Standing /\ x.since \in Nat
        /\ x.balance = s.balance - tr.value /\ x.lastSellAt = tr.time /\ x.firstBuyAt = s.firstBuyAt
    BY SendFields
  <2>2. /\ Send(r, f, tr).balance = s.balance - tr.value /\ Send(r, f, tr).lastSellAt = tr.time
        /\ Send(r, f, tr).weighted = 0 /\ Send(r, f, tr).since = WindowStart(f)
        /\ Send(r, f, tr).firstBuyAt = s.firstBuyAt
    <3>1. /\ Send(r, f, tr).balance = r.balance - tr.value /\ Send(r, f, tr).lastSellAt = tr.time
          /\ Send(r, f, tr).weighted = AccrueTo(At(r, f), tr.time).weighted
          /\ Send(r, f, tr).since = AccrueTo(At(r, f), tr.time).since
          /\ Send(r, f, tr).firstBuyAt = r.firstBuyAt
      BY SendFields, Zenon
    <3>. QED  BY <1>3, <1>4, <3>1
  <2>. HIDE DEF x
  <2>3. /\ OpenAt(x, f).balance = x.balance
        /\ OpenAt(x, f).firstBuyAt = x.firstBuyAt /\ OpenAt(x, f).lastSellAt = x.lastSellAt
        /\ OpenAt(x, f).weighted = 0
        /\ OpenAt(x, f).since = IF x.balance # 0 THEN WindowStart(f) ELSE Idle
    <3>1. Listed(x)
      BY <2>1 DEF Listed, Idle
    <3>2. /\ OpenAt(x, f).balance = x.balance
          /\ OpenAt(x, f).firstBuyAt = x.firstBuyAt /\ OpenAt(x, f).lastSellAt = x.lastSellAt
          /\ OpenAt(x, f).weighted = IF Listed(x) THEN 0 ELSE x.weighted
          /\ OpenAt(x, f).since = IF Listed(x) /\ x.balance # 0 THEN WindowStart(f) ELSE Idle
      BY <2>1, OpenFields, Zenon
    <3>. QED  BY <3>1, <3>2
  <2>4. Like(OpenAt(x, f), Send(r, f, tr), f)
    BY <1>1, <2>1, <2>2, <2>3 DEF Like, From, Listed, Idle
  <2>. QED  BY <2>4 DEF x
<1>6. Like(OpenAt(Receive(s, e, tr), f), Receive(r, f, tr), f)
  <2>. DEFINE x == Receive(s, e, tr)
  <2>1. /\ x \in Standing /\ x.since \in Nat
        /\ x.balance = s.balance + tr.value /\ x.lastSellAt = s.lastSellAt
        /\ x.firstBuyAt = IF s.firstBuyAt = Never THEN tr.time ELSE s.firstBuyAt
    BY ReceiveFields
  <2>2. /\ Receive(r, f, tr).balance = s.balance + tr.value /\ Receive(r, f, tr).lastSellAt = s.lastSellAt
        /\ Receive(r, f, tr).weighted = 0 /\ Receive(r, f, tr).since = WindowStart(f)
        /\ Receive(r, f, tr).firstBuyAt = IF s.firstBuyAt = Never THEN tr.time ELSE s.firstBuyAt
    <3>1. /\ Receive(r, f, tr).balance = r.balance + tr.value /\ Receive(r, f, tr).lastSellAt = r.lastSellAt
          /\ Receive(r, f, tr).weighted = AccrueTo(At(r, f), tr.time).weighted
          /\ Receive(r, f, tr).since = AccrueTo(At(r, f), tr.time).since
          /\ Receive(r, f, tr).firstBuyAt = IF r.firstBuyAt = Never THEN tr.time ELSE r.firstBuyAt
      BY ReceiveFields, Zenon
    <3>. QED  BY <1>3, <1>4, <3>1
  <2>. HIDE DEF x
  <2>3. /\ OpenAt(x, f).balance = x.balance
        /\ OpenAt(x, f).firstBuyAt = x.firstBuyAt /\ OpenAt(x, f).lastSellAt = x.lastSellAt
        /\ OpenAt(x, f).weighted = 0
        /\ OpenAt(x, f).since = IF x.balance # 0 THEN WindowStart(f) ELSE Idle
    <3>1. Listed(x)
      BY <2>1 DEF Listed, Idle
    <3>2. /\ OpenAt(x, f).balance = x.balance
          /\ OpenAt(x, f).firstBuyAt = x.firstBuyAt /\ OpenAt(x, f).lastSellAt = x.lastSellAt
          /\ OpenAt(x, f).weighted = IF Listed(x) THEN 0 ELSE x.weighted
          /\ OpenAt(x, f).since = IF Listed(x) /\ x.balance # 0 THEN WindowStart(f) ELSE Idle
      BY <2>1, OpenFields, Zenon
    <3>. QED  BY <3>1, <3>2
  <2>4. Like(OpenAt(x, f), Receive(r, f, tr), f)
    BY <1>1, <2>1, <2>2, <2>3 DEF Like, From, Listed, Idle
  <2>. QED  BY <2>4 DEF x
<1>. QED  BY <1>5, <1>6

(* Opening a window in between changes nothing for a later one. *)
LEMMA LikeReopened ==
  ASSUME NEW s \in Standing, NEW r \in Standing, NEW e \in Nat, NEW f \in Nat, Like(OpenAt(s, f), r, f)
  PROVE  Like(OpenAt(OpenAt(s, e), f), r, f)
<1>. DEFINE x == OpenAt(s, e)
<1>1. WindowStart(e) \in Nat /\ WindowStart(f) \in Nat
  BY Windows
<1>2. /\ x \in Standing /\ x.balance = s.balance
      /\ x.firstBuyAt = s.firstBuyAt /\ x.lastSellAt = s.lastSellAt
      /\ x.weighted = IF Listed(s) THEN 0 ELSE s.weighted
      /\ x.since = IF Listed(s) /\ s.balance # 0 THEN WindowStart(e) ELSE Idle
  BY OpenFields
<1>. HIDE DEF x
<1>3. /\ OpenAt(x, f).balance = x.balance
      /\ OpenAt(x, f).firstBuyAt = x.firstBuyAt /\ OpenAt(x, f).lastSellAt = x.lastSellAt
      /\ OpenAt(x, f).weighted = IF Listed(x) THEN 0 ELSE x.weighted
      /\ OpenAt(x, f).since = IF Listed(x) /\ x.balance # 0 THEN WindowStart(f) ELSE Idle
  BY <1>2, OpenFields
<1>4. /\ OpenAt(s, f).balance = s.balance
      /\ OpenAt(s, f).firstBuyAt = s.firstBuyAt /\ OpenAt(s, f).lastSellAt = s.lastSellAt
      /\ OpenAt(s, f).weighted = IF Listed(s) THEN 0 ELSE s.weighted
      /\ OpenAt(s, f).since = IF Listed(s) /\ s.balance # 0 THEN WindowStart(f) ELSE Idle
  BY OpenFields
<1>5. Like(OpenAt(x, f), r, f)
  BY <1>1, <1>2, <1>3, <1>4 DEF Like, From, Listed, Idle
<1>. QED  BY <1>5 DEF x

(* Nor does closing the open sub-interval. *)
LEMMA LikeClosed ==
  ASSUME NEW s \in Standing, NEW r \in Standing, NEW ts \in Nat, NEW f \in Nat,
         Listed(s), Like(OpenAt(s, f), r, f)
  PROVE  Like(OpenAt(AccrueTo(s, ts), f), r, f)
<1>. DEFINE x == AccrueTo(s, ts)
<1>1. WindowStart(f) \in Nat
  BY Windows
<1>2. /\ x \in Standing /\ x.balance = s.balance /\ Listed(x)
      /\ x.firstBuyAt = s.firstBuyAt /\ x.lastSellAt = s.lastSellAt
  BY AccrueFields DEF Listed, Idle
<1>. HIDE DEF x
<1>3. /\ OpenAt(x, f).balance = s.balance
      /\ OpenAt(x, f).firstBuyAt = s.firstBuyAt /\ OpenAt(x, f).lastSellAt = s.lastSellAt
      /\ OpenAt(x, f).weighted = OpenAt(s, f).weighted
      /\ OpenAt(x, f).since = OpenAt(s, f).since
  BY <1>2, OpenFields
<1>4. /\ OpenAt(s, f).balance = s.balance
      /\ OpenAt(s, f).firstBuyAt = s.firstBuyAt /\ OpenAt(s, f).lastSellAt = s.lastSellAt
  BY OpenFields
<1>5. Like(OpenAt(x, f), r, f)
  BY <1>3, <1>4 DEF Like, From, Listed
<1>. QED  BY <1>5 DEF x

(* Like standings have the same average, and what the Ledger does not list has none. *)
LEMMA LikeAverage ==
  ASSUME NEW s \in Standing, NEW r \in Standing, NEW e \in Nat, Like(s, r, e)
  PROVE  /\ Listed(s) /\ Average(s, e) > 0 <=> Listed(r) /\ Average(r, e) > 0
         /\ Listed(s) => Average(s, e) = Average(r, e)
<1>1. WindowEnd(e) \in Nat /\ WindowStart(e) \in Nat /\ EpochSeconds \in Nat \ {0}
  BY Windows, LedgerAssumption
<1>2. CASE Listed(s)
  <2>1. s.since = r.since /\ Listed(r) /\ s.weighted = r.weighted /\ s.balance = r.balance
    BY <1>2 DEF Like, From
  <2>2. Area(s, WindowEnd(e)) = Area(r, WindowEnd(e))
    BY <2>1 DEF Area
  <2>3. AccrueTo(s, WindowEnd(e)).weighted = AccrueTo(r, WindowEnd(e)).weighted
    BY <1>1, <2>1, <2>2 DEF AccrueTo, Standing, Area, Instant
  <2>. QED  BY <1>2, <2>1, <2>3 DEF Average
<1>3. CASE ~Listed(s)
  <2>1. r.balance = 0 /\ r.weighted = 0
    BY <1>3 DEF Like
  <2>2. Area(r, WindowEnd(e)) = 0
    <3>1. WindowEnd(e) - r.since \in Int
      BY <1>1 DEF Standing, Instant
    <3>2. \A d \in Int : d * 0 = 0
      OBVIOUS
    <3>. QED  BY <2>1, <3>1, <3>2 DEF Area
  <2>3. AccrueTo(r, WindowEnd(e)).weighted = 0
    BY <1>1, <2>1, <2>2 DEF AccrueTo, Standing, Instant
  <2>4. Average(r, e) = 0
    BY <1>1, <2>3 DEF Average
  <2>. QED  BY <1>3, <2>4
<1>. QED  BY <1>2, <1>3

-----------------------------------------------------------------------------
(* The simulation, over all accounts.                                        *)

Standings == [Accounts -> Standing]

(* The standing s of account a, when tr has been sent and not yet received. *)
Sent(s, a, e, tr) == IF a = tr.from THEN Send(s, e, tr) ELSE s

(* A transfer in terms of its two ends. *)
LEMMA ApplyFields ==
  ASSUME NEW st \in Standings, NEW e \in Nat, NEW tr \in Transfer
  PROVE  /\ Apply(st, e, tr) \in Standings
         /\ \A a \in Accounts : Apply(st, e, tr)[a] =
               IF tr.value = 0 THEN st[a]
               ELSE IF a = tr.to THEN Receive(Sent(st[a], a, e, tr), e, tr) ELSE Sent(st[a], a, e, tr)
<1>. DEFINE sent == [a \in Accounts |-> Sent(st[a], a, e, tr)]
<1>1. \A a \in Accounts : st[a] \in Standing /\ Sent(st[a], a, e, tr) \in Standing
  BY SendFields DEF Standings, Sent
<1>2. sent \in Standings
  BY <1>1 DEF Standings
<1>3. \A a \in Accounts : sent[a] \in Standing /\ Receive(sent[a], e, tr) \in Standing
  BY <1>2, ReceiveFields DEF Standings
<1>4. tr.from \in Accounts \cup {Zero} /\ tr.to \in Accounts \cup {Zero} /\ Zero \notin Accounts
  BY LedgerAssumption DEF Transfer
<1>5. sent = IF tr.from = Zero THEN st ELSE [st EXCEPT ![tr.from] = Send(@, e, tr)]
  BY <1>4 DEF Standings, Sent
<1>6. Apply(st, e, tr) = IF tr.value = 0 THEN st
                         ELSE IF tr.to = Zero THEN sent
                         ELSE [sent EXCEPT ![tr.to] = Receive(@, e, tr)]
  BY <1>5 DEF Apply
<1>. HIDE DEF sent
<1>7. /\ Apply(st, e, tr) \in Standings
      /\ \A a \in Accounts : Apply(st, e, tr)[a] =
            IF tr.value = 0 THEN st[a]
            ELSE IF a = tr.to THEN Receive(sent[a], e, tr) ELSE sent[a]
  BY <1>2, <1>3, <1>4, <1>6 DEF Standings
<1>. QED  BY <1>2, <1>7 DEF sent

(* A transfer keeps the Epoch under way in step with its Replay. *)
LEMMA ApplyNow ==
  ASSUME NEW st \in Standings, NEW rt \in Standings, NEW e \in Nat, NEW tr \in Transfer,
         \A a \in Accounts : Like(st[a], rt[a], e)
  PROVE  \A a \in Accounts : Like(Apply(st, e, tr)[a], Apply(rt, e, tr)[a], e)
<1>. TAKE a \in Accounts
<1>. DEFINE s == Sent(st[a], a, e, tr)
            r == Sent(rt[a], a, e, tr)
<1>1. st[a] \in Standing /\ rt[a] \in Standing /\ Like(st[a], rt[a], e)
  BY DEF Standings
<1>2. s \in Standing /\ r \in Standing /\ Like(s, r, e)
  BY <1>1, SendFields, LikeMoved DEF Sent
<1>3. /\ Apply(st, e, tr)[a] = IF tr.value = 0 THEN st[a] ELSE IF a = tr.to THEN Receive(s, e, tr) ELSE s
      /\ Apply(rt, e, tr)[a] = IF tr.value = 0 THEN rt[a] ELSE IF a = tr.to THEN Receive(r, e, tr) ELSE r
  BY ApplyFields
<1>. HIDE DEF s, r
<1>4. Like(Receive(s, e, tr), Receive(r, e, tr), e)
  BY <1>2, LikeMoved
<1>. QED  BY <1>1, <1>2, <1>3, <1>4

(* And every later one ready for the day its window opens. *)
LEMMA ApplyLater ==
  ASSUME NEW st \in Standings, NEW rt \in Standings, NEW e \in Nat, NEW f \in Nat, NEW tr \in Transfer,
         tr.time <= WindowStart(f),
         \A a \in Accounts : Like(OpenAt(st[a], f), rt[a], f)
  PROVE  \A a \in Accounts : Like(OpenAt(Apply(st, e, tr)[a], f), Apply(rt, f, tr)[a], f)
<1>. TAKE a \in Accounts
<1>. DEFINE s == Sent(st[a], a, e, tr)
            r == Sent(rt[a], a, f, tr)
<1>1. st[a] \in Standing /\ rt[a] \in Standing /\ Like(OpenAt(st[a], f), rt[a], f)
  BY DEF Standings
<1>2. s \in Standing /\ r \in Standing /\ Like(OpenAt(s, f), r, f)
  BY <1>1, SendFields, LikeMovedBefore DEF Sent
<1>3. /\ Apply(st, e, tr)[a] = IF tr.value = 0 THEN st[a] ELSE IF a = tr.to THEN Receive(s, e, tr) ELSE s
      /\ Apply(rt, f, tr)[a] = IF tr.value = 0 THEN rt[a] ELSE IF a = tr.to THEN Receive(r, f, tr) ELSE r
  BY ApplyFields
<1>. HIDE DEF s, r
<1>4. Like(OpenAt(Receive(s, e, tr), f), Receive(r, f, tr), f)
  BY <1>2, LikeMovedBefore
<1>. QED  BY <1>1, <1>2, <1>3, <1>4

(* Standings that are alike have the same Holders. *)
LEMMA SameHolders ==
  ASSUME NEW st \in Standings, NEW rt \in Standings, NEW e \in Nat, NEW x,
         \A a \in Accounts : Like(st[a], rt[a], e)
  PROVE  HoldersOf(st, e, x) = HoldersOf(rt, e, x)
<1>1. \A a \in Accounts : st[a] \in Standing /\ rt[a] \in Standing
  BY DEF Standings
<1>2. \A a \in Accounts :
         /\ Listed(st[a]) /\ Average(st[a], e) > 0 <=> Listed(rt[a]) /\ Average(rt[a], e) > 0
         /\ Listed(st[a]) => Average(st[a], e) = Average(rt[a], e)
         /\ st[a].firstBuyAt = rt[a].firstBuyAt /\ st[a].lastSellAt = rt[a].lastSellAt
  BY <1>1, LikeAverage DEF Like
<1>. DEFINE D(t) == {a \in Accounts \ x : Listed(t[a]) /\ Average(t[a], e) > 0}
            V(t, a) == [twab |-> Average(t[a], e), firstBuyAt |-> t[a].firstBuyAt, lastSellAt |-> t[a].lastSellAt]
<1>3. D(st) = D(rt)
  BY <1>2
<1>4. \A a \in D(st) : V(st, a) = V(rt, a)
  BY <1>2
<1>5. HoldersOf(st, e, x) = [a \in D(st) |-> V(st, a)] /\ HoldersOf(rt, e, x) = [a \in D(rt) |-> V(rt, a)]
  BY DEF HoldersOf
<1>. HIDE DEF D, V
<1>. QED  BY <1>3, <1>4, <1>5

(* A transfer of a stream has a time. *)
LEMMA TimeType ==
  ASSUME NEW s \in Seq(Transfer), NEW i \in 1..Len(s)
  PROVE  s[i] \in Transfer /\ s[i].time \in Nat
<1>1. s[i] \in Transfer
  OBVIOUS
<1>. QED  BY <1>1 DEF Transfer

-----------------------------------------------------------------------------
(* The invariant holds initially, and every step keeps it.                    *)

(* Before the first call nothing was applied, by the Ledger or by any Replay. *)
LEMMA LedgerInit == Init => LedgerInv
<1>. SUFFICES ASSUME Init PROVE LedgerInv
  OBVIOUS
<1>1. Nobody \in Standing /\ ~Listed(Nobody)
  BY DEF Nobody, Standing, Instant, Idle, Never, Listed
<1>2. PICK h \in Histories : ordered \in SortedCopies(h)
  BY DEF Init
<1>3. h \in Seq(Transfer)
  BY HistoryAssumption
<1>4. PICK p \in [1..Len(h) -> 1..Len(h)] : ordered = [i \in 1..Len(h) |-> h[p[i]]]
  BY <1>2 DEF SortedCopies
<1>5. ordered \in Seq(Transfer) /\ Ascending(ordered)
  BY <1>2, <1>3, <1>4 DEF SortedCopies
<1>6. 0 \in Epochs /\ 0 \in 0..(MaxEpoch + 1) /\ Len(ordered) \in Nat
  BY <1>5, LedgerAssumption DEF Epochs
<1>7. TypeOK
  <2>1. state \in [Accounts -> Standing] /\ replays \in [Epochs -> [Accounts -> Standing]]
    BY <1>1 DEF Init
  <2>2. exclusions \in SUBSET Exclusion
    BY HistoryAssumption DEF Init
  <2>3. next \in 0..Len(ordered) /\ block \in Nat \cup {NoBlock} /\ moved \subseteq Accounts
    BY <1>6 DEF Init
  <2>. QED  BY <1>5, <1>6, <2>1, <2>2, <2>3 DEF Init, TypeOK
<1>8. OrderInv /\ PcInv /\ PastInv /\ NowInv /\ LedgerAgrees
  BY <1>5 DEF Init, OrderInv, PcInv, PastInv, NowInv, LedgerAgrees
<1>9. LaterInv
  <2>1. \A e \in Epochs : Like(OpenAt(Nobody, e), Nobody, e)
    BY <1>1 DEF OpenAt, Like, Nobody
  <2>. QED  BY <2>1 DEF Init, LaterInv
<1>. QED  BY <1>7, <1>8, <1>9 DEF LedgerInv

(* Opening a window: the Epoch asked for becomes the one under way. *)
LEMMA LedgerOpen ==
  ASSUME LedgerInv, NEW e \in Epochs, Open(e)
  PROVE  LedgerInv'
<1>. USE DEF LedgerInv
<1>1. /\ e \in Nat /\ floor \in Nat /\ e >= floor /\ pc = "idle" /\ ~failed
      /\ state \in Standings /\ \A f \in Epochs : f \in Nat /\ replays[f] \in Standings
  BY LedgerAssumption DEF Open, TypeOK, Epochs, Standings
<1>2. \A a \in Accounts : state[a] \in Standing /\ \A f \in Epochs : replays[f][a] \in Standing
  BY <1>1 DEF Standings
<1>3. state' = [a \in Accounts |-> OpenAt(state[a], e)] /\ state' \in [Accounts -> Standing]
  BY <1>1, <1>2, OpenFields DEF Open
<1>4. TypeOK'
  BY <1>3 DEF Open, TypeOK, inputs
<1>5. OrderInv' /\ PcInv' /\ LedgerAgrees'
  BY <1>1 DEF OrderInv, PcInv, LedgerAgrees, Open, inputs, Ascending
<1>6. PastInv'
  <2>1. WindowStart(floor) <= WindowStart(e) /\ WindowStart(e) <= WindowEnd(e)
    <3>1. WindowEnd(e) = WindowStart(e + 1) /\ e + 1 \in Nat /\ e <= e + 1
      BY <1>1, Windows
    <3>. QED  BY <1>1, <3>1, Windows
  <2>2. /\ \A i \in 1..next : ordered[i].time < WindowStart(floor)
        /\ next' = next /\ ordered' = ordered /\ pc' = "walk" /\ epoch' = e
    BY <1>1 DEF PastInv, Horizon, Open, inputs
  <2>3. WindowStart(floor) \in Nat /\ WindowStart(e) \in Nat /\ WindowEnd(e) \in Nat
    BY <1>1, Windows
  <2>4. \A i \in 1..next : ordered[i].time \in Nat
    <3>1. ordered \in Seq(Transfer) /\ Len(ordered) \in Nat /\ next \in 0..Len(ordered)
      BY DEF TypeOK
    <3>. QED  BY <3>1, TimeType
  <2>5. \A i \in 1..next : ordered[i].time < WindowEnd(e)
    BY <2>1, <2>2, <2>3, <2>4
  <2>. QED  BY <2>2, <2>5 DEF PastInv, Horizon
<1>7. NowInv'
  <2>1. e \notin broken /\ \A a \in Accounts : Like(OpenAt(state[a], e), replays[e][a], e)
    BY <1>1 DEF LaterInv, Later
  <2>. QED  BY <1>3, <2>1 DEF NowInv, Open
<1>8. LaterInv'
  <2>. SUFFICES ASSUME NEW f \in Epochs, f > e
                PROVE  /\ f \notin broken
                       /\ \A a \in Accounts : Like(OpenAt(OpenAt(state[a], e), f), replays[f][a], f)
    BY <1>3 DEF LaterInv, Later, Open
  <2>1. f >= floor
    BY <1>1
  <2>2. f \notin broken /\ \A a \in Accounts : Like(OpenAt(state[a], f), replays[f][a], f)
    BY <1>1, <2>1 DEF LaterInv, Later
  <2>. QED  BY <1>1, <1>2, <2>2, LikeReopened
<1>. QED  BY <1>4, <1>5, <1>6, <1>7, <1>8

(* Applying a transfer: the Ledger and every Replay that sees it move together. *)
LEMMA LedgerStep ==
  ASSUME LedgerInv, Step
  PROVE  LedgerInv'
<1>. USE DEF LedgerInv
<1>. DEFINE tr   == Pending
            sees == {e \in Epochs : tr.time < WindowEnd(e)}
<1>1. /\ ordered \in Seq(Transfer) /\ next \in Nat /\ next + 1 \in 1..Len(ordered) /\ Len(ordered) \in Nat
      /\ epoch \in Epochs /\ epoch \in Nat /\ pc = "walk" /\ ~failed
      /\ state \in Standings /\ \A f \in Epochs : f \in Nat /\ replays[f] \in Standings
  BY LedgerAssumption DEF Step, TypeOK, Epochs, Standings, More, PcInv
<1>2. /\ tr \in Transfer /\ tr.time < WindowEnd(epoch) /\ tr.time \in Nat
      /\ tr = ordered[next + 1]
  BY <1>1, TimeType DEF Step, Pending
<1>3. CASE tr.value < 0
  <2>1. /\ failed' = TRUE /\ pc' = "idle" /\ reply' = "error"
        /\ broken' = broken \cup sees
        /\ UNCHANGED <<next, state, block, moved, replays, inputs, epoch, floor, holders>>
    BY <1>3 DEF Step, Fail
  <2>2. TypeOK'
    BY <2>1 DEF TypeOK, inputs
  <2>. QED  BY <2>1, <2>2 DEF OrderInv, PcInv, PastInv, NowInv, LaterInv, LedgerAgrees, Ascending, inputs
<1>4. CASE ~(tr.value < 0)
  <2>1. /\ state' = Apply(state, epoch, tr)
        /\ replays' = [e \in Epochs |-> IF e \in sees THEN Apply(replays[e], e, tr) ELSE replays[e]]
        /\ moved' = moved \cup Senders(tr)
        /\ next' = next + 1
        /\ block' = tr.time
        /\ UNCHANGED <<failed, pc, reply, broken, inputs, epoch, floor, holders>>
    BY <1>4 DEF Step
  <2>. HIDE DEF tr
  <2>2. state' \in Standings /\ replays' \in [Epochs -> Standings]
    <3>1. \A e \in Epochs : Apply(replays[e], e, tr) \in Standings
      BY <1>1, <1>2, ApplyFields
    <3>. QED  BY <1>1, <1>2, <2>1, <3>1, ApplyFields
  <2>3. moved' \subseteq Accounts
    BY <1>2, <2>1 DEF TypeOK, Transfer, Senders
  <2>4. TypeOK'
    BY <1>1, <1>2, <2>1, <2>2, <2>3 DEF TypeOK, inputs, Standings
  <2>5. OrderInv' /\ PcInv'
    BY <2>1 DEF OrderInv, PcInv, Ascending, inputs
  <2>6. PastInv'
    <3>1. \A i \in 1..(next + 1) : ordered[i].time < WindowEnd(epoch)
      BY <1>1, <1>2 DEF PastInv, Horizon
    <3>. QED  BY <1>1, <2>1, <3>1 DEF PastInv, Horizon, inputs
  <2>7. NowInv'
    <3>1. epoch \in sees
      BY <1>1, <1>2
    <3>2. \A a \in Accounts : Like(Apply(state, epoch, tr)[a], Apply(replays[epoch], epoch, tr)[a], epoch)
      BY <1>1, <1>2, ApplyNow DEF NowInv
    <3>3. replays'[epoch] = Apply(replays[epoch], epoch, tr)
      BY <1>1, <2>1, <3>1
    <3>. QED  BY <1>1, <2>1, <3>2, <3>3 DEF NowInv
  <2>8. LaterInv'
    <3>. SUFFICES ASSUME NEW f \in Epochs, f > epoch
                  PROVE  f \notin broken /\ \A a \in Accounts : Like(OpenAt(state'[a], f), replays'[f][a], f)
      BY <1>1, <2>1 DEF LaterInv, Later
    <3>1. /\ WindowEnd(epoch) <= WindowStart(f) /\ WindowEnd(epoch) <= WindowEnd(f)
          /\ WindowEnd(epoch) \in Nat /\ WindowStart(f) \in Nat /\ WindowEnd(f) \in Nat
      BY <1>1, Windows
    <3>2. tr.time <= WindowStart(f) /\ f \in sees
      BY <1>2, <3>1
    <3>3. f \notin broken /\ \A a \in Accounts : Like(OpenAt(state[a], f), replays[f][a], f)
      BY <1>1 DEF LaterInv, Later
    <3>4. \A a \in Accounts : Like(OpenAt(Apply(state, epoch, tr)[a], f), Apply(replays[f], f, tr)[a], f)
      BY <1>1, <1>2, <3>2, <3>3, ApplyLater
    <3>5. replays'[f] = Apply(replays[f], f, tr)
      BY <2>1, <3>2
    <3>. QED  BY <2>1, <3>3, <3>4, <3>5
  <2>9. LedgerAgrees'
    BY <1>1, <2>1 DEF LedgerAgrees, PcInv
  <2>. QED  BY <2>4, <2>5, <2>6, <2>7, <2>8, <2>9
<1>. QED  BY <1>3, <1>4

(* Settling a block: the Ledger sees someone overdrawn exactly when the Replays do. *)
LEMMA LedgerSettle ==
  ASSUME LedgerInv, Settle
  PROVE  LedgerInv'
<1>. USE DEF LedgerInv
<1>. DEFINE over == {e \in Epochs : block < WindowEnd(e) /\ \E a \in moved : replays[e][a].balance < 0}
<1>1. /\ pc = "walk" /\ ~failed /\ epoch \in Epochs /\ moved \subseteq Accounts
      /\ state \in Standings /\ \A f \in Epochs : f \in Nat /\ replays[f] \in Standings
      /\ block' = NoBlock /\ moved' = {} /\ broken' = broken \cup over
      /\ UNCHANGED <<inputs, next, state, epoch, floor, holders, replays>>
  BY LedgerAssumption DEF Settle, TypeOK, Epochs, Standings, PcInv
<1>2. CASE \E a \in moved : state[a].balance < 0
  <2>1. failed' = TRUE /\ pc' = "idle" /\ reply' = "error"
    BY <1>2 DEF Settle, Fail
  <2>2. TypeOK'
    BY <1>1, <2>1 DEF TypeOK, inputs
  <2>. QED  BY <1>1, <2>1, <2>2 DEF OrderInv, PcInv, PastInv, NowInv, LaterInv, LedgerAgrees, Ascending, inputs
<1>3. CASE ~\E a \in moved : state[a].balance < 0
  <2>1. UNCHANGED <<failed, pc, reply>>
    BY <1>3 DEF Settle
  <2>2. TypeOK'
    BY <1>1, <2>1 DEF TypeOK, inputs
  <2>3. \A e \in Epochs : e >= epoch => e \notin over
    <3>. SUFFICES ASSUME NEW e \in Epochs, e >= epoch, NEW a \in moved
                  PROVE  ~(replays[e][a].balance < 0)
      OBVIOUS
    <3>1. a \in Accounts /\ state[a] \in Standing /\ e \in Nat /\ epoch \in Nat
      BY <1>1 DEF Standings
    <3>2. CASE e = epoch
      BY <1>1, <1>3, <3>1, <3>2 DEF NowInv, Like
    <3>3. CASE e # epoch
      <4>1. e > epoch
        BY <3>1, <3>3
      <4>2. Like(OpenAt(state[a], e), replays[e][a], e)
        BY <1>1, <3>1, <4>1 DEF LaterInv, Later
      <4>3. replays[e][a].balance = state[a].balance
        BY <3>1, <4>2, OpenFields DEF Like
      <4>. QED  BY <1>3, <4>3
    <3>. QED  BY <3>2, <3>3
  <2>4. OrderInv' /\ PcInv' /\ PastInv'
    BY <1>1, <2>1 DEF OrderInv, PcInv, PastInv, Horizon, Ascending, inputs
  <2>5. NowInv'
    BY <1>1, <2>1, <2>3 DEF NowInv
  <2>6. LaterInv'
    <3>1. \A e \in Epochs : e > epoch => e >= epoch
      BY <1>1
    <3>. QED  BY <1>1, <2>1, <2>3, <3>1 DEF LaterInv, Later
  <2>7. LedgerAgrees'
    BY <1>1, <2>1 DEF LedgerAgrees, PcInv
  <2>. QED  BY <2>2, <2>4, <2>5, <2>6, <2>7
<1>. QED  BY <1>2, <1>3

(* Closing an Epoch: what is returned is what its Replay returns. *)
LEMMA LedgerEmit ==
  ASSUME LedgerInv, Emit
  PROVE  LedgerInv'
<1>. USE DEF LedgerInv
<1>. DEFINE x == ExcludedAsOf(epoch, exclusions)
<1>1. /\ pc = "walk" /\ ~failed /\ epoch \in Epochs /\ epoch \in Nat /\ MaxEpoch \in Nat
      /\ ordered \in Seq(Transfer) /\ Len(ordered) \in Nat /\ next \in 0..Len(ordered)
      /\ state \in Standings /\ \A f \in Epochs : f \in Nat /\ replays[f] \in Standings
  BY LedgerAssumption DEF Emit, TypeOK, Epochs, Standings, PcInv
<1>2. /\ floor' = epoch + 1 /\ pc' = "idle" /\ reply' = "holders"
      /\ holders' = HoldersOf(state, epoch, x) /\ state' = ClosedAt(state, epoch, x)
      /\ UNCHANGED <<inputs, next, block, moved, epoch, failed, replays, broken>>
  BY DEF Emit
<1>. HIDE DEF x
<1>3. \A a \in Accounts : state[a] \in Standing /\ AccrueTo(state[a], WindowEnd(epoch)) \in Standing
  BY <1>1, Windows, AccrueFields DEF Standings
<1>4. /\ state' \in Standings
      /\ \A a \in Accounts : state'[a] = IF Listed(state[a]) /\ a \notin x
                                         THEN AccrueTo(state[a], WindowEnd(epoch)) ELSE state[a]
  BY <1>1, <1>2, <1>3 DEF ClosedAt, Standings
<1>5. TypeOK'
  <2>1. floor' \in 0..(MaxEpoch + 1)
    BY <1>1, <1>2 DEF Epochs
  <2>. QED  BY <1>2, <1>4, <2>1 DEF TypeOK, inputs, Standings
<1>6. OrderInv' /\ PcInv'
  BY <1>1, <1>2 DEF OrderInv, PcInv, Ascending, inputs
<1>7. \A i \in 1..next : ordered[i].time < WindowEnd(epoch)
  BY <1>1 DEF PastInv, Horizon
<1>8. PastInv'
  <2>1. WindowEnd(epoch) = WindowStart(epoch + 1)
    BY <1>1, Windows
  <2>. QED  BY <1>2, <1>7, <2>1 DEF PastInv, Horizon, inputs
<1>9. NowInv'
  BY <1>2 DEF NowInv
<1>10. LaterInv'
  <2>. SUFFICES ASSUME NEW f \in Epochs, f >= epoch + 1
                PROVE  f \notin broken /\ \A a \in Accounts : Like(OpenAt(state'[a], f), replays[f][a], f)
    BY <1>2 DEF LaterInv, Later
  <2>1. f > epoch /\ f \in Nat
    BY <1>1
  <2>2. f \notin broken /\ \A a \in Accounts : Like(OpenAt(state[a], f), replays[f][a], f)
    BY <1>1, <2>1 DEF LaterInv, Later
  <2>3. \A a \in Accounts : replays[f][a] \in Standing /\ WindowEnd(epoch) \in Nat
    BY <1>1, Windows DEF Standings
  <2>4. \A a \in Accounts : Listed(state[a]) =>
            Like(OpenAt(AccrueTo(state[a], WindowEnd(epoch)), f), replays[f][a], f)
    BY <1>3, <2>1, <2>2, <2>3, LikeClosed
  <2>. QED  BY <1>4, <2>2, <2>4
<1>11. LedgerAgrees'
  <2>1. \A a \in Accounts : Like(state[a], replays[epoch][a], epoch)
    BY <1>1 DEF NowInv
  <2>2. HoldersOf(state, epoch, x) = HoldersOf(replays[epoch], epoch, x)
    BY <1>1, <2>1, SameHolders
  <2>3. epoch \notin broken
    BY <1>1 DEF NowInv
  <2>4. \A i \in 1..Len(ordered) : ordered[i].time < WindowEnd(epoch) <=> i <= next
    <3>. SUFFICES ASSUME NEW i \in 1..Len(ordered), i > next PROVE ~(ordered[i].time < WindowEnd(epoch))
      BY <1>1, <1>7
    <3>1. next + 1 \in 1..Len(ordered) /\ next + 1 <= i
      BY <1>1
    <3>2. ordered[next + 1].time >= WindowEnd(epoch)
      BY <1>1, <3>1 DEF Emit, More, Pending
    <3>3. ordered[next + 1].time <= ordered[i].time
      <4>1. ordered[i].time \in Nat
        BY <1>1, TimeType
      <4>. QED  BY <1>1, <3>1, <4>1 DEF OrderInv, Ascending
    <3>4. ordered[next + 1].time \in Nat /\ ordered[i].time \in Nat /\ WindowEnd(epoch) \in Nat
      BY <1>1, <3>1, Windows, TimeType
    <3>. QED  BY <3>2, <3>3, <3>4
  <2>. QED  BY <1>2, <2>2, <2>3, <2>4 DEF LedgerAgrees, inputs, x
<1>. QED  BY <1>5, <1>6, <1>8, <1>9, <1>10, <1>11

(* One step keeps the invariant. *)
LEMMA LedgerNext == LedgerInv /\ [Next]_vars => LedgerInv'
<1>. SUFFICES ASSUME LedgerInv, [Next]_vars PROVE LedgerInv'
  OBVIOUS
<1>1. CASE \E e \in Epochs : Refuse(e)
  <2>1. /\ pc = "idle" /\ reply' = "error"
        /\ UNCHANGED <<inputs, next, state, block, moved, epoch, floor, failed, pc, replays, broken>>
    BY <1>1 DEF Refuse
  <2>2. TypeOK' /\ OrderInv'
    BY <2>1 DEF LedgerInv, TypeOK, OrderInv, Ascending, inputs
  <2>3. PcInv' /\ PastInv' /\ NowInv' /\ LedgerAgrees'
    BY <2>1 DEF LedgerInv, PcInv, PastInv, NowInv, LedgerAgrees, Horizon, inputs
  <2>4. LaterInv'
    BY <2>1 DEF LedgerInv, LaterInv, Later
  <2>. QED  BY <2>2, <2>3, <2>4 DEF LedgerInv
<1>2. CASE \E e \in Epochs : Open(e)
  BY <1>2, LedgerOpen
<1>3. CASE Step
  BY <1>3, LedgerStep
<1>4. CASE Settle
  BY <1>4, LedgerSettle
<1>5. CASE Emit
  BY <1>5, LedgerEmit
<1>6. CASE UNCHANGED vars
  BY <1>6 DEF vars, inputs, LedgerInv, TypeOK, OrderInv, PcInv, PastInv, NowInv, LaterInv, LedgerAgrees,
              Horizon, Later, Ascending, More, Pending
<1>. QED  BY <1>1, <1>2, <1>3, <1>4, <1>5, <1>6 DEF Next

-----------------------------------------------------------------------------
(* What Ledger.Advance returns for an Epoch is what Replay returns for it, over    *)
(* every history and whichever Epochs were closed or skipped before: the agreement *)
(* ledger.go claims as its whole correctness.                                      *)
THEOREM LedgerAgreesWithReplay == Spec => []LedgerAgrees
<1>1. LedgerInv => LedgerAgrees
  BY DEF LedgerInv
<1>. QED  BY <1>1, LedgerInit, LedgerNext, PTL DEF Spec

(* The Ledger's state keeps its type: in particular no time in it is unset where one *)
(* is read.                                                                          *)
THEOREM LedgerTypeCorrect == Spec => []TypeOK
<1>1. LedgerInv => TypeOK
  BY DEF LedgerInv
<1>. QED  BY <1>1, LedgerInit, LedgerNext, PTL DEF Spec

-----------------------------------------------------------------------------
(* Sums of a row of numbers, member by member.                               *)

(* g is the running sum of d as far as n. *)
Runs(g, d, n) ==
    /\ g \in [0..n -> Int] /\ g[0] = 0
    /\ \A i \in 1..n : g[i] = g[i - 1] + d[i]

(* Every row has a running sum. *)
LEMMA RunsExist ==
  ASSUME NEW n \in Nat, NEW d \in [1..n -> Int]
  PROVE  \E g : Runs(g, d, n)
<1>. DEFINE T == {k \in 0..n : ~ \E g : Runs(g, d, k)}
<1>0. n \in 0..n
  OBVIOUS
<1>. SUFFICES ASSUME T # {} PROVE FALSE
  BY <1>0, Zenon
<1>1. T \subseteq Nat
  OBVIOUS
<1>2. PICK k \in T : \A y \in T : ~(<<y, k>> \in OpToRel(<, Nat))
  BY <1>1, NatLessThanWellFounded, WFMin
<1>3. \A y \in T : ~(y < k)
  BY <1>1, <1>2, Zenon DEF OpToRel
<1>4. k \in 0..n /\ ~ \E g : Runs(g, d, k)
  BY <1>2
<1>5. k # 0
  <2>1. Runs([i \in 0..0 |-> 0], d, 0)
    BY DEF Runs
  <2>. QED  BY <1>4, <2>1
<1>6. k - 1 \in 0..n /\ k - 1 < k
  BY <1>4, <1>5
<1>7. PICK g : Runs(g, d, k - 1)
  BY <1>3, <1>6
<1>. DEFINE h == [i \in 0..k |-> IF i = k THEN g[k - 1] + d[k] ELSE g[i]]
<1>8. Runs(h, d, k)
  <2>1. /\ g \in [0..(k - 1) -> Int] /\ g[0] = 0 /\ \A i \in 1..(k - 1) : g[i] = g[i - 1] + d[i]
    BY <1>7 DEF Runs
  <2>2. k \in 1..n /\ d[k] \in Int
    BY <1>4, <1>5
  <2>3. h \in [0..k -> Int] /\ h[0] = 0
    BY <2>1, <2>2
  <2>4. \A i \in 1..k : h[i] = h[i - 1] + d[i]
    BY <2>1, <2>2
  <2>. QED  BY <2>3, <2>4 DEF Runs
<1>. QED  BY <1>4, <1>8

(* Two that agree at the start and step alike agree throughout. *)
LEMMA RunsAgree ==
  ASSUME NEW n \in Nat, NEW d, NEW g, NEW h, Runs(g, d, n),
         \A i \in 0..n : h[i] = IF i = 0 THEN 0 ELSE h[i - 1] + d[i]
  PROVE  \A i \in 0..n : h[i] = g[i]
<1>. DEFINE T == {k \in 0..n : h[k] # g[k]}
<1>. SUFFICES ASSUME T # {} PROVE FALSE
  OBVIOUS
<1>1. T \subseteq Nat
  OBVIOUS
<1>2. PICK k \in T : \A y \in T : ~(<<y, k>> \in OpToRel(<, Nat))
  BY <1>1, NatLessThanWellFounded, WFMin
<1>3. \A y \in T : ~(y < k)
  BY <1>1, <1>2, Zenon DEF OpToRel
<1>4. k \in 0..n /\ h[k] # g[k]
  BY <1>2
<1>5. k # 0
  BY <1>4 DEF Runs
<1>6. k - 1 \in 0..n /\ k - 1 < k /\ k \in 1..n
  BY <1>4, <1>5
<1>7. h[k - 1] = g[k - 1]
  BY <1>3, <1>6
<1>. QED  BY <1>4, <1>5, <1>6, <1>7 DEF Runs

(* SumTo is the running sum, as far as d goes. *)
LEMMA SumRuns ==
  ASSUME NEW n \in Nat, NEW d, NEW g, Runs(g, d, n), NEW k \in 0..n
  PROVE  SumTo(d, k) = g[k]
<1>. DEFINE Sums(f) == f = [i \in 0..k |-> IF i = 0 THEN 0 ELSE f[i - 1] + d[i]]
            sum == CHOOSE f : Sums(f)
            part == [i \in 0..k |-> g[i]]
<1>1. Runs(part, d, k)
  BY DEF Runs
<1>2. Sums(part)
  <2>1. \A i \in 0..k : part[i] = IF i = 0 THEN 0 ELSE part[i - 1] + d[i]
    BY <1>1 DEF Runs
  <2>. QED  BY <2>1
<1>3. Sums(sum)
  BY <1>2
<1>4. \A i \in 0..k : sum[i] = IF i = 0 THEN 0 ELSE sum[i - 1] + d[i]
  BY <1>3
<1>5. SumTo(d, k) = sum[k]
  BY DEF SumTo
<1>. HIDE DEF sum, Sums
<1>6. \A i \in 0..k : sum[i] = part[i]
  <2>. HIDE DEF part
  <2>. QED  BY <1>1, <1>4, RunsAgree
<1>. QED  BY <1>5, <1>6

(* A sum is an integer, of nothing is zero, and grows by the next member. *)
LEMMA SumSteps ==
  ASSUME NEW n \in Nat, NEW d \in [1..n -> Int]
  PROVE  /\ \A k \in 0..n : SumTo(d, k) \in Int
         /\ SumTo(d, 0) = 0
         /\ \A k \in 1..n : SumTo(d, k) = SumTo(d, k - 1) + d[k]
<1>1. PICK g : Runs(g, d, n)
  BY RunsExist
<1>2. \A k \in 0..n : SumTo(d, k) = g[k]
  BY <1>1, SumRuns
<1>. QED  BY <1>1, <1>2 DEF Runs

(* Over members that are all c, a sum grows by so many times c. *)
LEMMA SumFrom ==
  ASSUME NEW n \in Nat, NEW d \in [1..n -> Int], NEW k \in 0..n, NEW l \in k..n, NEW c \in Int,
         \A i \in (k + 1)..l : d[i] = c
  PROVE  SumTo(d, l) = SumTo(d, k) + (l - k) * c
<1>. DEFINE T == {m \in k..l : SumTo(d, m) # SumTo(d, k) + (m - k) * c}
<1>0. l \in k..l
  OBVIOUS
<1>. SUFFICES ASSUME T # {} PROVE FALSE
  BY <1>0, Zenon
<1>1. T \subseteq Nat
  OBVIOUS
<1>2. PICK m \in T : \A y \in T : ~(<<y, m>> \in OpToRel(<, Nat))
  BY <1>1, NatLessThanWellFounded, WFMin
<1>3. \A y \in T : ~(y < m)
  BY <1>1, <1>2, Zenon DEF OpToRel
<1>4. m \in k..l /\ SumTo(d, m) # SumTo(d, k) + (m - k) * c
  BY <1>2
<1>5. /\ \A j \in 0..n : SumTo(d, j) \in Int
      /\ \A j \in 1..n : SumTo(d, j) = SumTo(d, j - 1) + d[j]
  BY SumSteps
<1>6. m # k
  <2>1. (k - k) * c = 0
    OBVIOUS
  <2>. QED  BY <1>4, <1>5, <2>1
<1>7. m - 1 \in k..l /\ m - 1 < m /\ m \in 1..n /\ m \in (k + 1)..l
  BY <1>4, <1>6
<1>8. SumTo(d, m - 1) = SumTo(d, k) + ((m - 1) - k) * c
  BY <1>3, <1>7
<1>9. (m - k) * c = ((m - 1) - k) * c + c
  <2>1. \A x, y \in Int : x * y = (x - 1) * y + y
    OBVIOUS
  <2>2. m - k \in Int /\ (m - 1) - k = (m - k) - 1
    BY <1>4
  <2>. QED  BY <2>1, <2>2
<1>10. ((m - 1) - k) * c \in Int /\ SumTo(d, k) \in Int
  BY <1>4, <1>5
<1>11. SumTo(d, m) = SumTo(d, m - 1) + c
  BY <1>5, <1>7
<1>. QED  BY <1>4, <1>8, <1>9, <1>10, <1>11

(* Equal rows have equal sums. *)
LEMMA SumSame ==
  ASSUME NEW n \in Nat, NEW m \in Nat, NEW d \in [1..n -> Int], NEW f \in [1..m -> Int],
         NEW k \in Nat, k <= n, k <= m, \A i \in 1..k : d[i] = f[i]
  PROVE  SumTo(d, k) = SumTo(f, k)
<1>1. PICK g : Runs(g, d, n)
  BY RunsExist
<1>2. PICK h : Runs(h, f, m)
  BY RunsExist
<1>. DEFINE part == [i \in 0..k |-> g[i]]
<1>3. Runs(part, d, k)
  BY <1>1 DEF Runs
<1>4. \A i \in 0..k : h[i] = IF i = 0 THEN 0 ELSE h[i - 1] + d[i]
  BY <1>2 DEF Runs
<1>5. h[k] = part[k]
  <2>. HIDE DEF part
  <2>1. \A i \in 0..k : h[i] = part[i]
    BY <1>3, <1>4, RunsAgree
  <2>. QED  BY <2>1
<1>6. SumTo(d, k) = g[k] /\ SumTo(f, k) = h[k]
  BY <1>1, <1>2, SumRuns
<1>. QED  BY <1>5, <1>6

-----------------------------------------------------------------------------
(* Balances.                                                                  *)

(* What each transfer adds to what a holds. *)
Gains(a) == [i \in 1..Len(ordered) |-> Gain(a, ordered[i])]

(* The standings are those of the transfers applied. *)
BalanceInv == \A a \in Accounts : state[a].balance = SumTo(Gains(a), next)

(* The block under way is the last transfer's. *)
BlockInv ==
    /\ block # NoBlock => next > 0 /\ ordered[next].time = block
    /\ block = NoBlock => moved = {}
    /\ reply = "holders" => block = NoBlock /\ ~failed

(* Who did not send in the block under way is not overdrawn, and before it nobody was. *)
SolventInv ==
    ~failed => /\ \A a \in Accounts \ moved : state[a].balance >= 0
               /\ \A i \in 1..next : /\ ordered[i].value >= 0
                                     /\ ordered[i].time # block =>
                                           \A a \in Accounts : BalanceAt(a, ordered[i].time) >= 0

RefusalInv == LedgerInv /\ BalanceInv /\ BlockInv /\ SolventInv /\ (failed => Unusable(epoch))

(* A transfer adds an integer, and one of zero adds nothing. *)
LEMMA GainType ==
  ASSUME NEW a, NEW tr \in Transfer
  PROVE  /\ Gain(a, tr) \in Int
         /\ tr.value = 0 => Gain(a, tr) = 0
BY DEF Gain, Transfer

(* The row of what each transfer adds is one of integers. *)
LEMMA GainsType ==
  ASSUME ordered \in Seq(Transfer), NEW a
  PROVE  /\ Gains(a) \in [1..Len(ordered) -> Int] /\ Len(ordered) \in Nat
         /\ \A i \in 1..Len(ordered) : Gains(a)[i] = Gain(a, ordered[i])
<1>1. \A i \in 1..Len(ordered) : ordered[i] \in Transfer
  OBVIOUS
<1>2. \A i \in 1..Len(ordered) : Gain(a, ordered[i]) \in Int
  BY <1>1, GainType
<1>. QED  BY <1>2 DEF Gains

(* What a transfer does to a balance, whoever applies it. *)
LEMMA ApplyGain ==
  ASSUME NEW st \in Standings, NEW e \in Nat, NEW tr \in Transfer, NEW a \in Accounts
  PROVE  Apply(st, e, tr)[a].balance = st[a].balance + Gain(a, tr)
<1>. DEFINE s == Sent(st[a], a, e, tr)
<1>1. st[a] \in Standing /\ tr.value \in Int /\ st[a].balance \in Int
  BY DEF Standings, Standing, Transfer
<1>2. s \in Standing /\ s.balance = IF a = tr.from THEN st[a].balance - tr.value ELSE st[a].balance
  BY <1>1, SendFields DEF Sent
<1>3. Apply(st, e, tr)[a] = IF tr.value = 0 THEN st[a] ELSE IF a = tr.to THEN Receive(s, e, tr) ELSE s
  BY ApplyFields
<1>. HIDE DEF s
<1>4. Receive(s, e, tr).balance = s.balance + tr.value
  BY <1>2, ReceiveFields
<1>. QED  BY <1>1, <1>2, <1>3, <1>4 DEF Gain

(* The balance of a second is the sum of the first k transfers when the others *)
(* came later, and the later ones among these did nothing.                     *)
LEMMA BalanceOfFirst ==
  ASSUME ordered \in Seq(Transfer), NEW a, NEW ts \in Int, NEW k \in 0..Len(ordered),
         \A i \in 1..k : ordered[i].time <= ts \/ Gain(a, ordered[i]) = 0,
         \A i \in (k + 1)..Len(ordered) : ordered[i].time > ts
  PROVE  BalanceAt(a, ts) = SumTo(Gains(a), k)
<1>. DEFINE n == Len(ordered)
            d == [i \in 1..n |-> IF i \in Seen(ts) THEN Gain(a, ordered[i]) ELSE 0]
<1>1. n \in Nat /\ Gains(a) \in [1..n -> Int] /\ \A i \in 1..n : Gains(a)[i] = Gain(a, ordered[i])
  BY GainsType
<1>2. \A i \in 1..n : Gain(a, ordered[i]) \in Int /\ ordered[i].time \in Nat
  BY <1>1, TimeType
<1>3. d \in [1..n -> Int]
  BY <1>2
<1>4. \A i \in 1..k : d[i] = Gains(a)[i]
  BY <1>1, <1>2 DEF Seen
<1>5. \A i \in (k + 1)..n : d[i] = 0
  BY <1>1, <1>2 DEF Seen
<1>6. BalanceAt(a, ts) = SumTo(d, n)
  BY DEF BalanceAt
<1>. HIDE DEF d, n
<1>7. k \in 0..n /\ k \in Nat /\ k <= n
  BY <1>1 DEF n
<1>8. SumTo(d, n) = SumTo(d, k) + (n - k) * 0
  <2>1. n \in k..n /\ 0 \in Int
    BY <1>1, <1>7
  <2>2. PICK z \in Int : z = 0
    OBVIOUS
  <2>3. SumTo(d, n) = SumTo(d, k) + (n - k) * z
    BY <1>1, <1>3, <1>5, <1>7, <2>1, <2>2, SumFrom
  <2>. QED  BY <2>2, <2>3
<1>9. SumTo(d, k) = SumTo(Gains(a), k)
  BY <1>1, <1>3, <1>4, <1>7, SumSame
<1>10. SumTo(d, k) \in Int
  BY <1>1, <1>3, <1>7, SumSteps
<1>. QED  BY <1>1, <1>6, <1>7, <1>8, <1>9, <1>10

(* A balance is an integer. *)
LEMMA BalanceType ==
  ASSUME ordered \in Seq(Transfer), NEW a, NEW ts \in Int
  PROVE  BalanceAt(a, ts) \in Int
<1>. DEFINE n == Len(ordered)
            d == [i \in 1..n |-> IF i \in Seen(ts) THEN Gain(a, ordered[i]) ELSE 0]
<1>1. n \in Nat /\ \A i \in 1..n : Gain(a, ordered[i]) \in Int
  BY GainsType
<1>2. d \in [1..n -> Int]
  BY <1>1
<1>3. BalanceAt(a, ts) = SumTo(d, n)
  BY DEF BalanceAt
<1>. HIDE DEF d, n
<1>4. n \in 0..n
  BY <1>1
<1>. QED  BY <1>1, <1>2, <1>3, <1>4, SumSteps

(* One more transfer applied. *)
LEMMA NextGain ==
  ASSUME ordered \in Seq(Transfer), NEW a, NEW k \in 0..Len(ordered), k < Len(ordered)
  PROVE  /\ SumTo(Gains(a), k) \in Int
         /\ SumTo(Gains(a), k + 1) = SumTo(Gains(a), k) + Gain(a, ordered[k + 1])
<1>1. /\ Gains(a) \in [1..Len(ordered) -> Int] /\ Len(ordered) \in Nat
      /\ \A i \in 1..Len(ordered) : Gains(a)[i] = Gain(a, ordered[i])
  BY GainsType
<1>2. k + 1 \in 1..Len(ordered) /\ (k + 1) - 1 = k
  BY <1>1
<1>3. /\ \A j \in 0..Len(ordered) : SumTo(Gains(a), j) \in Int
      /\ \A j \in 1..Len(ordered) : SumTo(Gains(a), j) = SumTo(Gains(a), j - 1) + Gains(a)[j]
  BY <1>1, SumSteps
<1>. QED  BY <1>1, <1>2, <1>3

(* The sums are over the transfers, which do not change. *)
LEMMA SumsStay ==
  ASSUME UNCHANGED ordered
  PROVE  /\ \A a : Gains(a)' = Gains(a)
         /\ \A a, ts : BalanceAt(a, ts)' = BalanceAt(a, ts)
         /\ \A e : Unusable(e)' <=> Unusable(e)
<1>1. \A a : Gains(a)' = Gains(a)
  BY DEF Gains
<1>2. \A a, ts : BalanceAt(a, ts)' = BalanceAt(a, ts)
  BY DEF BalanceAt, Seen
<1>3. \A e : Unusable(e)' <=> Unusable(e)
  BY <1>2 DEF Unusable, Seen
<1>. QED  BY <1>1, <1>2, <1>3

(* Before the first call nothing was applied and nothing refused. *)
LEMMA RefusalInit == Init => RefusalInv
<1>. SUFFICES ASSUME Init PROVE RefusalInv
  OBVIOUS
<1>1. LedgerInv
  BY LedgerInit
<1>2. ordered \in Seq(Transfer) /\ next = 0
  BY <1>1 DEF LedgerInv, TypeOK, Init
<1>3. BalanceInv
  <2>1. \A a \in Accounts : SumTo(Gains(a), 0) = 0
    BY <1>2, GainsType, SumSteps
  <2>. QED  BY <1>2, <2>1 DEF Init, BalanceInv, Nobody
<1>4. BlockInv
  BY DEF Init, BlockInv
<1>5. SolventInv
  BY DEF Init, SolventInv, Nobody
<1>6. ~failed
  BY DEF Init
<1>. QED  BY <1>1, <1>3, <1>4, <1>5, <1>6 DEF RefusalInv

(* Opening a window moves no balance. *)
LEMMA RefusalOpen ==
  ASSUME RefusalInv, LedgerInv', NEW e \in Epochs, Open(e)
  PROVE  RefusalInv'
<1>1. /\ e \in Nat /\ state \in Standings
      /\ UNCHANGED <<ordered, next, block, moved, failed>> /\ ~failed /\ reply' = "none"
      /\ state' = [a \in Accounts |-> OpenAt(state[a], e)]
  BY LedgerAssumption DEF Epochs, Open, inputs, RefusalInv, LedgerInv, TypeOK, Standings
<1>2. \A a \in Accounts : state'[a].balance = state[a].balance
  BY <1>1, OpenFields DEF Standings
<1>3. /\ \A a : Gains(a)' = Gains(a)
      /\ \A a, ts : BalanceAt(a, ts)' = BalanceAt(a, ts)
  BY <1>1, SumsStay
<1>4. BalanceInv'
  BY <1>1, <1>2, <1>3 DEF RefusalInv, BalanceInv
<1>5. BlockInv'
  BY <1>1 DEF RefusalInv, BlockInv
<1>6. SolventInv'
  BY <1>1, <1>2, <1>3 DEF RefusalInv, SolventInv
<1>. QED  BY <1>1, <1>4, <1>5, <1>6 DEF RefusalInv

(* A transfer: what it takes below zero is a sender, to be judged when the second ends. *)
LEMMA RefusalStep ==
  ASSUME RefusalInv, LedgerInv', Step
  PROVE  RefusalInv'
<1>. DEFINE tr == Pending
            sees == {e \in Epochs : tr.time < WindowEnd(e)}
<1>1. /\ pc = "walk" /\ next < Len(ordered) /\ tr.time < WindowEnd(epoch)
      /\ block \in {NoBlock, tr.time}
      /\ UNCHANGED <<ordered, epoch>>
  BY DEF Step, More, inputs
<1>2. /\ epoch \in Nat /\ state \in Standings /\ ordered \in Seq(Transfer)
      /\ next \in 0..Len(ordered) /\ Len(ordered) \in Nat /\ next \in Nat
      /\ ~failed /\ reply = "none" /\ moved \subseteq Accounts
  BY <1>1, LedgerAssumption DEF Epochs, RefusalInv, LedgerInv, TypeOK, Standings, PcInv
<1>3. tr = ordered[next + 1] /\ next + 1 \in 1..Len(ordered) /\ tr \in Transfer
  BY <1>1, <1>2 DEF Pending
<1>4. tr.time \in Nat /\ tr.value \in Int
  BY <1>3 DEF Transfer
<1>5. /\ \A a : Gains(a)' = Gains(a)
      /\ \A a, ts : BalanceAt(a, ts)' = BalanceAt(a, ts)
      /\ \A e : Unusable(e)' <=> Unusable(e)
  BY <1>1, SumsStay
<1>6. CASE tr.value < 0
  <2>1. failed' /\ reply' = "error" /\ UNCHANGED <<next, state, block, moved>>
    BY <1>6 DEF Step, Fail
  <2>2. Unusable(epoch)
    <3>1. WindowEnd(epoch) \in Nat
      BY <1>2, Windows
    <3>2. next + 1 \in Seen(WindowEnd(epoch) - 1)
      BY <1>1, <1>3, <1>4, <3>1 DEF Seen
    <3>. QED  BY <1>3, <1>6, <3>2 DEF Unusable
  <2>3. BalanceInv'
    BY <1>5, <2>1 DEF RefusalInv, BalanceInv
  <2>4. BlockInv'
    BY <1>1, <2>1 DEF RefusalInv, BlockInv
  <2>. QED  BY <1>1, <1>5, <2>1, <2>2, <2>3, <2>4 DEF RefusalInv, SolventInv
<1>7. CASE ~(tr.value < 0)
  <2>1. /\ state' = Apply(state, epoch, tr) /\ moved' = moved \cup Senders(tr)
        /\ next' = next + 1 /\ block' = tr.time /\ UNCHANGED <<failed, reply>>
    BY <1>7 DEF Step
  <2>. HIDE DEF tr, sees
  <2>2. \A a \in Accounts : state'[a].balance = state[a].balance + Gain(a, tr) /\ state[a].balance \in Int
    <3>1. \A a \in Accounts : state[a].balance \in Int
      BY <1>2 DEF Standings, Standing
    <3>. QED  BY <1>2, <1>3, <2>1, <3>1, ApplyGain
  <2>3. BalanceInv'
    <3>1. \A a \in Accounts : SumTo(Gains(a), next + 1) = SumTo(Gains(a), next) + Gain(a, tr)
      BY <1>1, <1>2, <1>3, NextGain
    <3>2. \A a \in Accounts : state[a].balance = SumTo(Gains(a), next)
      BY DEF RefusalInv, BalanceInv
    <3>. QED  BY <1>5, <2>1, <2>2, <3>1, <3>2 DEF BalanceInv
  <2>4. BlockInv'
    BY <1>1, <1>2, <1>3, <1>4, <2>1 DEF BlockInv, NoBlock
  <2>5. SolventInv'
    <3>1. \A a \in Accounts \ moved' : state'[a].balance >= 0
      <4>. SUFFICES ASSUME NEW a \in Accounts, a \notin moved' PROVE state'[a].balance >= 0
        OBVIOUS
      <4>1. a \notin moved /\ a \notin Senders(tr) /\ a # Zero
        BY <2>1, LedgerAssumption
      <4>2. state[a].balance >= 0
        BY <1>2, <4>1 DEF RefusalInv, SolventInv
      <4>3. Gain(a, tr) \in Int /\ Gain(a, tr) >= 0
        BY <1>4, <1>7, <4>1 DEF Senders, Gain
      <4>. QED  BY <2>2, <4>2, <4>3
    <3>2. \A i \in 1..next : /\ ordered[i].value >= 0
                             /\ ordered[i].time # block =>
                                   \A a \in Accounts : BalanceAt(a, ordered[i].time) >= 0
      BY <1>2 DEF RefusalInv, SolventInv
    <3>3. ASSUME NEW i \in 1..(next + 1)
          PROVE  /\ ordered[i].value >= 0
                 /\ ordered[i].time # block' => \A a \in Accounts : BalanceAt(a, ordered[i].time) >= 0
      <4>1. CASE i = next + 1
        BY <1>3, <1>4, <1>7, <2>1, <4>1
      <4>2. CASE i # next + 1
        <5>1. i \in 1..next /\ i \in 1..Len(ordered)
          BY <1>2, <1>3, <4>2
        <5>2. ordered[i].time \in Nat
          BY <1>2, <5>1, TimeType
        <5>3. ordered[i].time # block' => ordered[i].time # block
          BY <1>1, <2>1, <5>2 DEF NoBlock
        <5>. QED  BY <3>2, <5>1, <5>3
      <4>. QED  BY <4>1, <4>2
    <3>. QED  BY <1>1, <1>5, <2>1, <3>1, <3>3 DEF SolventInv
  <2>. QED  BY <1>2, <2>1, <2>3, <2>4, <2>5 DEF RefusalInv
<1>. QED  BY <1>6, <1>7

(* The second ends: now the balances are those of its end. *)
LEMMA RefusalSettle ==
  ASSUME RefusalInv, LedgerInv', Settle
  PROVE  RefusalInv'
<1>1. /\ pc = "walk" /\ block # NoBlock /\ (More => Pending.time # block)
      /\ UNCHANGED <<ordered, next, state, epoch>> /\ block' = NoBlock /\ moved' = {}
  BY DEF Settle, inputs
<1>2. /\ epoch \in Nat /\ state \in Standings /\ ordered \in Seq(Transfer)
      /\ next \in 0..Len(ordered) /\ Len(ordered) \in Nat /\ next \in Nat
      /\ ~failed /\ reply = "none" /\ moved \subseteq Accounts /\ Ascending(ordered)
      /\ \A i \in 1..next : ordered[i].time < WindowEnd(epoch)
  BY <1>1, LedgerAssumption
     DEF Epochs, RefusalInv, LedgerInv, TypeOK, Standings, PcInv, OrderInv, PastInv, Horizon
<1>3. /\ \A a : Gains(a)' = Gains(a)
      /\ \A a, ts : BalanceAt(a, ts)' = BalanceAt(a, ts)
      /\ \A e : Unusable(e)' <=> Unusable(e)
  BY <1>1, SumsStay
<1>4. next \in 1..Len(ordered) /\ ordered[next].time = block /\ block \in Nat
  <2>1. next > 0 /\ ordered[next].time = block
    BY <1>1 DEF RefusalInv, BlockInv
  <2>2. next \in 1..Len(ordered)
    BY <1>2, <2>1
  <2>. QED  BY <1>2, <2>1, <2>2, TimeType
<1>5. \A a \in Accounts : BalanceAt(a, block) = state[a].balance
  <2>. SUFFICES ASSUME NEW a \in Accounts PROVE BalanceAt(a, block) = SumTo(Gains(a), next)
    BY DEF RefusalInv, BalanceInv
  <2>1. \A i \in 1..Len(ordered) : ordered[i].time \in Nat
    BY <1>2, TimeType
  <2>2. \A i \in 1..next : ordered[i].time <= block
    <3>. SUFFICES ASSUME NEW i \in 1..next PROVE ordered[i].time <= ordered[next].time
      BY <1>4
    <3>1. i \in 1..Len(ordered) /\ (i < next \/ i = next)
      BY <1>2
    <3>. QED  BY <1>2, <1>4, <2>1, <3>1 DEF Ascending
  <2>3. \A i \in (next + 1)..Len(ordered) : ordered[i].time > block
    <3>. SUFFICES ASSUME NEW i \in (next + 1)..Len(ordered) PROVE ordered[i].time > block
      OBVIOUS
    <3>1. i \in 1..Len(ordered) /\ next + 1 \in 1..Len(ordered) /\ (next + 1 < i \/ i = next + 1) /\ next < next + 1
      BY <1>2
    <3>2. ordered[next + 1].time # block
      BY <1>1, <1>2, <3>1 DEF More, Pending
    <3>3. ordered[next].time <= ordered[next + 1].time
      BY <1>2, <1>4, <3>1 DEF Ascending
    <3>4. ordered[next + 1].time <= ordered[i].time
      BY <1>2, <2>1, <3>1 DEF Ascending
    <3>. QED  BY <1>4, <2>1, <3>1, <3>2, <3>3, <3>4
  <2>4. block \in Int
    BY <1>4
  <2>. QED  BY <1>2, <2>2, <2>3, <2>4, BalanceOfFirst
<1>6. BalanceInv'
  BY <1>1, <1>3 DEF RefusalInv, BalanceInv
<1>7. CASE \E a \in moved : state[a].balance < 0
  <2>1. failed' /\ reply' = "error"
    BY <1>7 DEF Settle, Fail
  <2>2. PICK a \in moved : state[a].balance < 0
    BY <1>7
  <2>3. a \in Accounts /\ BalanceAt(a, ordered[next].time) < 0
    BY <1>2, <1>4, <1>5, <2>2
  <2>4. next \in Seen(WindowEnd(epoch) - 1)
    <3>1. WindowEnd(epoch) \in Nat /\ block < WindowEnd(epoch)
      <4>1. next \in 1..next
        BY <1>4
      <4>. QED  BY <1>2, <1>4, <4>1, Windows
    <3>. QED  BY <1>4, <3>1 DEF Seen
  <2>5. Unusable(epoch)
    BY <2>3, <2>4 DEF Unusable
  <2>6. BlockInv'
    BY <1>1, <2>1 DEF BlockInv
  <2>. QED  BY <1>1, <1>3, <1>6, <2>1, <2>5, <2>6 DEF RefusalInv, SolventInv
<1>8. CASE ~ \E a \in moved : state[a].balance < 0
  <2>1. UNCHANGED <<failed, reply>>
    BY <1>8 DEF Settle
  <2>2. BlockInv'
    BY <1>1, <1>2, <2>1 DEF BlockInv
  <2>3. \A a \in Accounts : state[a].balance \in Int /\ state[a].balance >= 0
    <3>1. \A a \in Accounts : state[a].balance \in Int
      BY <1>2 DEF Standings, Standing
    <3>2. \A a \in Accounts \ moved : state[a].balance >= 0
      BY <1>2 DEF RefusalInv, SolventInv
    <3>. QED  BY <1>8, <3>1, <3>2
  <2>4. ASSUME NEW i \in 1..next
        PROVE  ordered[i].value >= 0 /\ \A a \in Accounts : BalanceAt(a, ordered[i].time) >= 0
    BY <1>2, <1>5, <2>3 DEF RefusalInv, SolventInv
  <2>5. SolventInv'
    BY <1>1, <1>3, <2>3, <2>4 DEF SolventInv
  <2>. QED  BY <1>2, <1>6, <2>1, <2>2, <2>5 DEF RefusalInv
<1>. QED  BY <1>7, <1>8

(* Closing an Epoch moves no balance. *)
LEMMA RefusalEmit ==
  ASSUME RefusalInv, LedgerInv', Emit
  PROVE  RefusalInv'
<1>1. /\ pc = "walk" /\ block = NoBlock /\ reply' = "holders"
      /\ UNCHANGED <<ordered, next, block, moved, epoch, failed>>
      /\ state' = ClosedAt(state, epoch, ExcludedAsOf(epoch, exclusions))
  BY DEF Emit, inputs
<1>2. /\ epoch \in Nat /\ state \in Standings /\ ~failed
  BY <1>1, LedgerAssumption DEF Epochs, RefusalInv, LedgerInv, TypeOK, Standings, PcInv
<1>3. \A a \in Accounts : state'[a].balance = state[a].balance
  <2>1. WindowEnd(epoch) \in Nat
    BY <1>2, Windows
  <2>2. \A a \in Accounts : AccrueTo(state[a], WindowEnd(epoch)).balance = state[a].balance
    BY <1>2, <2>1, AccrueFields DEF Standings
  <2>. QED  BY <1>1, <2>2 DEF ClosedAt
<1>4. /\ \A a : Gains(a)' = Gains(a)
      /\ \A a, ts : BalanceAt(a, ts)' = BalanceAt(a, ts)
  BY <1>1, SumsStay
<1>5. BalanceInv'
  BY <1>1, <1>3, <1>4 DEF RefusalInv, BalanceInv
<1>6. BlockInv'
  BY <1>1, <1>2 DEF RefusalInv, BlockInv
<1>7. SolventInv'
  BY <1>1, <1>3, <1>4 DEF RefusalInv, SolventInv
<1>. QED  BY <1>1, <1>2, <1>5, <1>6, <1>7 DEF RefusalInv

(* Every step keeps it. *)
LEMMA RefusalNext == RefusalInv /\ [Next]_vars => RefusalInv'
<1>. SUFFICES ASSUME RefusalInv, [Next]_vars PROVE RefusalInv'
  OBVIOUS
<1>1. LedgerInv'
  BY LedgerNext DEF RefusalInv
<1>2. ASSUME UNCHANGED <<ordered, next, state, block, moved, epoch, failed>>, reply' = "error" \/ reply' = reply
      PROVE  RefusalInv'
  <2>1. /\ \A a : Gains(a)' = Gains(a)
        /\ \A a, ts : BalanceAt(a, ts)' = BalanceAt(a, ts)
        /\ \A e : Unusable(e)' <=> Unusable(e)
    BY <1>2, SumsStay
  <2>2. BalanceInv'
    BY <1>2, <2>1 DEF RefusalInv, BalanceInv
  <2>3. BlockInv'
    BY <1>2 DEF RefusalInv, BlockInv
  <2>4. SolventInv'
    BY <1>2, <2>1 DEF RefusalInv, SolventInv
  <2>. QED  BY <1>1, <1>2, <2>1, <2>2, <2>3, <2>4 DEF RefusalInv
<1>3. CASE \E e \in Epochs : Refuse(e)
  BY <1>2, <1>3 DEF Refuse, inputs
<1>4. CASE \E e \in Epochs : Open(e)
  BY <1>1, <1>4, RefusalOpen
<1>5. CASE Step
  BY <1>1, <1>5, RefusalStep
<1>6. CASE Settle
  BY <1>1, <1>6, RefusalSettle
<1>7. CASE Emit
  BY <1>1, <1>7, RefusalEmit
<1>8. CASE UNCHANGED vars
  BY <1>2, <1>8 DEF vars, inputs
<1>. QED  BY <1>3, <1>4, <1>5, <1>6, <1>7, <1>8 DEF Next

(* Advance fails exactly on a history that cannot be: a negative value, or an      *)
(* address overdrawn at the end of a second before the boundary                    *)
(* (internal/twab/ledger.go, settle).                                              *)
THEOREM RefusalsAreJustified == Spec => []RefusalJustified
<1>1. RefusalInv => RefusalJustified
  <2>. SUFFICES ASSUME RefusalInv, reply = "holders" PROVE ~Unusable(epoch)
    BY DEF RefusalInv, RefusalJustified
  <2>1. /\ block = NoBlock /\ ~failed
        /\ ordered \in Seq(Transfer) /\ epoch \in Nat
        /\ \A i \in 1..Len(ordered) : ordered[i].time < WindowEnd(epoch) <=> i <= next
    BY LedgerAssumption DEF RefusalInv, BlockInv, LedgerInv, LedgerAgrees, TypeOK, Epochs
  <2>2. ASSUME NEW i \in Seen(WindowEnd(epoch) - 1)
        PROVE  ~(ordered[i].value < 0) /\ \A a \in Accounts : ~(BalanceAt(a, ordered[i].time) < 0)
    <3>1. i \in 1..Len(ordered) /\ ordered[i].time <= WindowEnd(epoch) - 1 /\ ordered[i].time \in Nat
      BY <2>1, TimeType DEF Seen
    <3>2. i \in 1..next
      <4>1. next \in Nat /\ i \in Nat /\ i >= 1
        BY <3>1 DEF RefusalInv, LedgerInv, TypeOK
      <4>2. ordered[i].time < WindowEnd(epoch)
        <5>1. WindowEnd(epoch) \in Nat
          BY <2>1, Windows
        <5>. QED  BY <3>1, <5>1
      <4>. QED  BY <2>1, <3>1, <4>1, <4>2
    <3>3. ordered[i].time # block
      BY <2>1, <3>1 DEF NoBlock
    <3>4. ordered[i].value >= 0 /\ \A a \in Accounts : BalanceAt(a, ordered[i].time) >= 0
      BY <2>1, <3>2, <3>3 DEF RefusalInv, SolventInv
    <3>5. ordered[i] \in Transfer /\ ordered[i].value \in Int
      <4>1. ordered[i] \in Transfer
        BY <2>1, <3>1
      <4>. QED  BY <4>1 DEF Transfer
    <3>6. \A a \in Accounts : BalanceAt(a, ordered[i].time) \in Int
      BY <2>1, <3>1, BalanceType
    <3>. QED  BY <3>4, <3>5, <3>6
  <2>. QED  BY <2>2 DEF Unusable
<1>. QED  BY <1>1, RefusalInit, RefusalNext, PTL DEF Spec

-----------------------------------------------------------------------------
(* The integral. It is followed in the Replay of each Epoch, which starts from *)
(* nothing and forgets nothing; LedgerAgrees takes it to the Ledger.           *)

(* What a holds in each second of the window of e. *)
Seconds(a, e) == [s \in 1..EpochSeconds |-> BalanceAt(a, WindowStart(e) + s - 1)]

(* The Replay of e has seen every transfer applied so far. *)
Live(e) == \A i \in 1..next : ordered[i].time < WindowEnd(e)

(* What was accrued is the sum over the seconds before the open sub-interval, in which *)
(* the balance has not changed.                                                        *)
AccrualInv(r, a, e) ==
    /\ r.balance = SumTo(Gains(a), next)
    /\ WindowStart(e) <= From(r, e) /\ From(r, e) < WindowEnd(e)
    /\ r.weighted = SumTo(Seconds(a, e), From(r, e) - WindowStart(e))
    /\ \A i \in 1..next : ordered[i].time <= From(r, e) \/ Gain(a, ordered[i]) = 0
    /\ ~Listed(r) => r.balance = 0 /\ r.weighted = 0

Buys(a)  == {i \in 1..next : ordered[i].to = a /\ ordered[i].value > 0}
Sells(a) == {i \in 1..next : ordered[i].from = a /\ ordered[i].value > 0}

(* The first buy and the last sell; who never bought has nothing to weigh. *)
StreakInv(r, a) ==
    /\ IF r.firstBuyAt = Never
       THEN Buys(a) = {} /\ r.balance <= 0 /\ r.weighted <= 0
       ELSE /\ \E i \in Buys(a) : ordered[i].time = r.firstBuyAt
            /\ \A i \in Buys(a) : r.firstBuyAt <= ordered[i].time
    /\ r.lastSellAt = 0 \/ \E i \in Sells(a) : ordered[i].time = r.lastSellAt
    /\ \A i \in Sells(a) : ordered[i].time <= r.lastSellAt

IntegralInv ==
    /\ LedgerInv
    /\ \A e \in Epochs : Live(e) =>
          \A a \in Accounts : AccrualInv(replays[e][a], a, e) /\ StreakInv(replays[e][a], a)

(* A window is EpochSeconds long. *)
LEMMA WindowLength ==
  ASSUME NEW e \in Nat
  PROVE  /\ WindowStart(e) \in Nat /\ WindowEnd(e) = WindowStart(e) + EpochSeconds
         /\ EpochSeconds \in Nat /\ EpochSeconds > 0
<1>1. EpochSeconds \in Nat /\ EpochSeconds > 0
  BY LedgerAssumption
<1>2. \A x, y \in Nat : (x + 1) * y = x * y + y
  OBVIOUS
<1>. QED  BY <1>1, <1>2, Windows DEF WindowStart, WindowEnd

(* The row of the seconds is one of integers. *)
LEMMA SecondsType ==
  ASSUME ordered \in Seq(Transfer), NEW a, NEW e \in Nat
  PROVE  /\ Seconds(a, e) \in [1..EpochSeconds -> Int]
         /\ \A s \in 1..EpochSeconds : Seconds(a, e)[s] = BalanceAt(a, WindowStart(e) + s - 1)
<1>1. WindowStart(e) \in Nat
  BY WindowLength
<1>2. \A s \in 1..EpochSeconds : WindowStart(e) + s - 1 \in Int
  BY <1>1
<1>3. \A s \in 1..EpochSeconds : BalanceAt(a, WindowStart(e) + s - 1) \in Int
  BY <1>2, BalanceType
<1>. QED  BY <1>3 DEF Seconds

(* The open sub-interval, up to a time at which nothing is left to apply before it. *)
LEMMA IntervalWeighs ==
  ASSUME ordered \in Seq(Transfer), next \in 0..Len(ordered), NEW e \in Nat, NEW a, NEW r \in Standing,
         AccrualInv(r, a, e), NEW ts \in Nat, From(r, e) <= ts, ts <= WindowEnd(e),
         \A i \in (next + 1)..Len(ordered) : ordered[i].time >= ts
  PROVE  SumTo(Seconds(a, e), ts - WindowStart(e)) = r.weighted + (ts - From(r, e)) * r.balance
<1>. DEFINE d == Seconds(a, e)
            w == WindowStart(e)
            f == From(r, e)
            k == f - w
            l == ts - w
<1>1. w \in Nat /\ WindowEnd(e) = w + EpochSeconds /\ EpochSeconds \in Nat
  BY WindowLength
<1>2. f \in Nat /\ w <= f /\ f < WindowEnd(e) /\ r.balance \in Int /\ r.weighted = SumTo(d, k)
      /\ r.balance = SumTo(Gains(a), next)
      /\ \A i \in 1..next : ordered[i].time <= f \/ Gain(a, ordered[i]) = 0
  BY <1>1 DEF AccrualInv, From, Listed, Idle, Standing, Instant
<1>3. d \in [1..EpochSeconds -> Int] /\ \A s \in 1..EpochSeconds : d[s] = BalanceAt(a, w + s - 1)
  BY SecondsType
<1>4. f <= ts /\ ts <= WindowEnd(e)
  OBVIOUS
<1>. HIDE DEF d, w, f
<1>5. k \in 0..EpochSeconds /\ l \in k..EpochSeconds /\ l - k = ts - f
  BY <1>1, <1>2, <1>4
<1>6. ASSUME NEW s \in (k + 1)..l PROVE d[s] = r.balance
  <2>1. s \in 1..EpochSeconds
    BY <1>1, <1>2, <1>4
  <2>2. w + s - 1 \in Int /\ f <= w + s - 1 /\ w + s - 1 < ts
    BY <1>1, <1>2, <1>4
  <2>. DEFINE t == w + s - 1
  <2>3. Len(ordered) \in Nat /\ \A i \in 1..Len(ordered) : ordered[i].time \in Nat
    BY TimeType
  <2>4. \A i \in 1..next : ordered[i].time <= t \/ Gain(a, ordered[i]) = 0
    BY <1>2, <2>2, <2>3
  <2>5. \A i \in (next + 1)..Len(ordered) : ordered[i].time > t
    BY <1>2, <2>2, <2>3
  <2>. HIDE DEF t
  <2>6. BalanceAt(a, t) = SumTo(Gains(a), next)
    BY <2>2, <2>4, <2>5, BalanceOfFirst DEF t
  <2>. QED  BY <1>2, <1>3, <2>1, <2>6 DEF t
<1>. HIDE DEF k, l
<1>7. SumTo(d, l) = SumTo(d, k) + (l - k) * r.balance
  BY <1>1, <1>2, <1>3, <1>5, <1>6, SumFrom
<1>. QED  BY <1>2, <1>5, <1>7 DEF d, w, f, l

(* Nothing positive accrues to a balance that is not. *)
LEMMA NothingPositive ==
  ASSUME NEW n \in Nat, NEW b \in Int, b <= 0
  PROVE  n * b \in Int /\ n * b <= 0
<1>1. PICK c \in Nat : b = -c
  <2>1. -b \in Nat /\ b = -(-b)
    OBVIOUS
  <2>. QED  BY <2>1
<1>2. n * c \in Nat /\ n * (-c) = -(n * c)
  OBVIOUS
<1>. QED  BY <1>1, <1>2

(* Accruing up to a transfer's time. *)
LEMMA AccruedInterval ==
  ASSUME ordered \in Seq(Transfer), next \in 0..Len(ordered), NEW e \in Nat, NEW a, NEW r \in Standing,
         AccrualInv(r, a, e), NEW ts \in Nat, ts < WindowEnd(e),
         \A i \in (next + 1)..Len(ordered) : ordered[i].time >= ts
  PROVE  LET p == AccrueTo(At(r, e), ts)
         IN /\ p.since \in Nat /\ WindowStart(e) <= p.since /\ p.since < WindowEnd(e)
            /\ From(r, e) <= p.since /\ ts <= p.since
            /\ p.weighted = SumTo(Seconds(a, e), p.since - WindowStart(e))
            /\ (r.balance <= 0 /\ r.weighted <= 0) => p.weighted <= 0
<1>. DEFINE q == At(r, e)
            p == AccrueTo(q, ts)
            f == From(r, e)
<1>1. /\ q \in Standing /\ q.since = f /\ q.balance = r.balance /\ q.weighted = r.weighted /\ q.since \in Nat
  BY AtFields
<1>2. /\ p.weighted = IF ts <= q.since THEN q.weighted ELSE q.weighted + Area(q, ts)
      /\ p.since = IF ts <= q.since THEN q.since ELSE ts
  <2>. HIDE DEF q
  <2>. QED  BY <1>1, AccrueFields
<1>3. /\ WindowStart(e) \in Nat /\ WindowEnd(e) \in Nat
      /\ WindowStart(e) <= f /\ f < WindowEnd(e) /\ r.balance \in Int /\ r.weighted \in Int
      /\ r.weighted = SumTo(Seconds(a, e), f - WindowStart(e))
  BY Windows DEF AccrualInv, Standing
<1>4. Area(q, ts) = (ts - f) * r.balance
  BY <1>1 DEF Area
<1>. DEFINE Goal == /\ p.since \in Nat /\ WindowStart(e) <= p.since /\ p.since < WindowEnd(e)
                    /\ f <= p.since /\ ts <= p.since
                    /\ p.weighted = SumTo(Seconds(a, e), p.since - WindowStart(e))
                    /\ (r.balance <= 0 /\ r.weighted <= 0) => p.weighted <= 0
<1>. HIDE DEF q, p
<1>5. ASSUME ts <= f PROVE Goal
  BY <1>1, <1>2, <1>3, <1>5
<1>6. ASSUME ~(ts <= f) PROVE Goal
  <2>1. f \in Nat /\ f <= ts /\ ts - f \in Nat
    BY <1>1, <1>6
  <2>2. SumTo(Seconds(a, e), ts - WindowStart(e)) = r.weighted + (ts - f) * r.balance
    <3>1. ts <= WindowEnd(e)
      BY <1>3
    <3>. QED  BY <2>1, <3>1, IntervalWeighs
  <2>3. p.since = ts /\ p.weighted = r.weighted + (ts - f) * r.balance
    BY <1>1, <1>2, <1>4, <1>6
  <2>4. (r.balance <= 0 /\ r.weighted <= 0) => p.weighted <= 0
    <3>. SUFFICES ASSUME r.balance <= 0, r.weighted <= 0 PROVE p.weighted <= 0
      OBVIOUS
    <3>1. (ts - f) * r.balance \in Int /\ (ts - f) * r.balance <= 0
      BY <1>3, <2>1, NothingPositive
    <3>. QED  BY <1>3, <2>3, <3>1
  <2>. HIDE DEF f
  <2>. QED  BY <1>3, <2>1, <2>2, <2>3, <2>4
<1>7. Goal
  BY <1>5, <1>6
<1>. QED  BY <1>7 DEF p, q

(* A transfer between its two ends: both accrue to the same time, once. *)
LEMMA TouchedFields ==
  ASSUME NEW st \in Standings, NEW e \in Nat, NEW tr \in Transfer, NEW a \in Accounts,
         tr.value # 0, tr.from = a \/ tr.to = a
  PROVE  LET r == st[a]  p == AccrueTo(At(r, e), tr.time)  q == Apply(st, e, tr)[a]
         IN /\ q \in Standing
            /\ q.balance = r.balance + Gain(a, tr)
            /\ q.weighted = p.weighted /\ q.since = p.since
            /\ q.firstBuyAt = IF tr.to = a /\ r.firstBuyAt = Never THEN tr.time ELSE r.firstBuyAt
            /\ q.lastSellAt = IF tr.from = a THEN tr.time ELSE r.lastSellAt
<1>. DEFINE r == st[a]
            p == AccrueTo(At(r, e), tr.time)
            s == Sent(r, a, e, tr)
            q == Apply(st, e, tr)[a]
<1>1. r \in Standing /\ tr.time \in Nat
  BY DEF Standings, Transfer
<1>2. q = IF a = tr.to THEN Receive(s, e, tr) ELSE s
  BY ApplyFields
<1>3. q \in Standing
  BY ApplyFields DEF Standings
<1>4. q.balance = r.balance + Gain(a, tr)
  BY ApplyGain
<1>5. CASE tr.from = a
  <2>1. s = Send(r, e, tr)
    BY <1>5 DEF Sent
  <2>2. /\ s \in Standing /\ s.lastSellAt = tr.time /\ s.weighted = p.weighted
        /\ s.since = p.since /\ p.since \in Nat /\ s.firstBuyAt = r.firstBuyAt
    <3>. HIDE DEF s, r
    <3>. QED  BY <1>1, <2>1, SendFields
  <2>3. p.since >= tr.time
    <3>1. At(r, e) \in Standing /\ At(r, e).since \in Nat
      BY <1>1, AtFields
    <3>2. p.since = IF tr.time <= At(r, e).since THEN At(r, e).since ELSE tr.time
      BY <1>1, <3>1, AccrueFields
    <3>. QED  BY <1>1, <3>1, <3>2
  <2>. HIDE DEF p, s, r
  <2>. DEFINE x == AccrueTo(At(s, e), tr.time)
  <2>4. x.weighted = s.weighted /\ x.since = s.since
    <3>1. At(s, e) \in Standing /\ At(s, e).since = s.since /\ At(s, e).weighted = s.weighted
      BY <2>2, AtFields DEF From, Listed, Idle
    <3>. QED  BY <1>1, <2>2, <2>3, <3>1, AccrueFields
  <2>5. /\ Receive(s, e, tr).weighted = x.weighted /\ Receive(s, e, tr).since = x.since
        /\ Receive(s, e, tr).lastSellAt = s.lastSellAt
        /\ Receive(s, e, tr).firstBuyAt = IF s.firstBuyAt = Never THEN tr.time ELSE s.firstBuyAt
    BY <2>2, ReceiveFields
  <2>. HIDE DEF x, q
  <2>6. /\ q.weighted = p.weighted /\ q.since = p.since /\ q.lastSellAt = tr.time
        /\ q.firstBuyAt = IF tr.to = a /\ r.firstBuyAt = Never THEN tr.time ELSE r.firstBuyAt
    BY <1>2, <2>2, <2>4, <2>5
  <2>. QED  BY <1>3, <1>4, <1>5, <2>6 DEF r, p, q
<1>6. CASE tr.from # a
  <2>1. s = r /\ tr.to = a
    BY <1>6 DEF Sent
  <2>2. /\ Receive(r, e, tr).weighted = p.weighted /\ Receive(r, e, tr).since = p.since
        /\ Receive(r, e, tr).lastSellAt = r.lastSellAt
        /\ Receive(r, e, tr).firstBuyAt = IF r.firstBuyAt = Never THEN tr.time ELSE r.firstBuyAt
    BY <1>1, ReceiveFields
  <2>. HIDE DEF p, s, r, q
  <2>3. q = Receive(r, e, tr)
    BY <1>2, <2>1
  <2>. QED  BY <1>3, <1>4, <1>6, <2>1, <2>2, <2>3 DEF r, p, q
<1>. QED  BY <1>5, <1>6

(* One transfer more, in the Replay of an Epoch that sees it. *)
LEMMA StandingStep ==
  ASSUME ordered \in Seq(Transfer), Ascending(ordered), next \in 0..Len(ordered), next < Len(ordered),
         UNCHANGED ordered, next' = next + 1,
         NEW e \in Nat, NEW a \in Accounts, NEW st \in Standings, NEW tr, tr = ordered[next + 1],
         tr.value >= 0, tr.time < WindowEnd(e),
         NEW r, r = st[a], AccrualInv(r, a, e), StreakInv(r, a),
         NEW q, q = Apply(st, e, tr)[a]
  PROVE  AccrualInv(q, a, e)' /\ StreakInv(q, a)'
<1>1. /\ Len(ordered) \in Nat /\ next \in Nat /\ next + 1 \in 1..Len(ordered)
      /\ tr \in Transfer /\ tr.time \in Nat /\ tr.value \in Int /\ r \in Standing
  <2>1. next + 1 \in 1..Len(ordered)
    OBVIOUS
  <2>2. tr \in Transfer
    BY <2>1
  <2>. QED  BY <2>1, <2>2 DEF Transfer, Standings
<1>2. \A i \in 1..Len(ordered) : ordered[i].time \in Nat
  BY TimeType
<1>3. \A i \in 1..next : ordered[i].time <= tr.time
  <2>. SUFFICES ASSUME NEW i \in 1..next PROVE ordered[i].time <= tr.time
    OBVIOUS
  <2>1. i \in 1..Len(ordered) /\ i < next + 1
    BY <1>1
  <2>. QED  BY <1>1, <2>1 DEF Ascending
<1>4. \A i \in (next + 1)..Len(ordered) : ordered[i].time >= tr.time
  <2>. SUFFICES ASSUME NEW i \in (next + 1)..Len(ordered) PROVE ordered[i].time >= tr.time
    OBVIOUS
  <2>1. i \in 1..Len(ordered) /\ (next + 1 < i \/ i = next + 1)
    BY <1>1
  <2>2. CASE next + 1 < i
    BY <1>1, <1>2, <2>1, <2>2 DEF Ascending
  <2>3. CASE i = next + 1
    BY <1>1, <2>3
  <2>. QED  BY <2>1, <2>2, <2>3
<1>5. /\ \A x : Gains(x)' = Gains(x)
      /\ Seconds(a, e)' = Seconds(a, e)
  <2>1. /\ \A x : Gains(x)' = Gains(x)
        /\ \A x, ts : BalanceAt(x, ts)' = BalanceAt(x, ts)
    BY SumsStay
  <2>. QED  BY <2>1 DEF Seconds, WindowStart
<1>6. /\ SumTo(Gains(a), next) \in Int
      /\ SumTo(Gains(a), next + 1) = SumTo(Gains(a), next) + Gain(a, tr)
  BY NextGain
<1>7. /\ r.balance \in Int /\ r.weighted \in Int /\ r.lastSellAt \in Nat
      /\ r.firstBuyAt = Never \/ r.firstBuyAt \in Nat
  BY <1>1 DEF Standing, Instant, Never
<1>8. /\ WindowStart(e) \in Nat /\ WindowEnd(e) \in Nat /\ WindowStart(e)' = WindowStart(e)
      /\ WindowEnd(e)' = WindowEnd(e) /\ From(r, e)' = From(r, e) /\ From(q, e)' = From(q, e)
  BY Windows DEF WindowStart, WindowEnd, From
<1>9. /\ Buys(a) \subseteq 1..next /\ Sells(a) \subseteq 1..next
      /\ Buys(a)' = Buys(a) \cup (IF tr.to = a /\ tr.value > 0 THEN {next + 1} ELSE {})
      /\ Sells(a)' = Sells(a) \cup (IF tr.from = a /\ tr.value > 0 THEN {next + 1} ELSE {})
  <2>1. 1..(next + 1) = (1..next) \cup {next + 1}
    BY <1>1
  <2>. QED  BY <2>1 DEF Buys, Sells
<1>10. CASE tr.value = 0 \/ (tr.from # a /\ tr.to # a)
  <2>1. q = r
    <3>1. q = IF tr.value = 0 THEN st[a]
              ELSE IF a = tr.to THEN Receive(Sent(st[a], a, e, tr), e, tr) ELSE Sent(st[a], a, e, tr)
      <4>1. \A b \in Accounts : Apply(st, e, tr)[b] =
               IF tr.value = 0 THEN st[b]
               ELSE IF b = tr.to THEN Receive(Sent(st[b], b, e, tr), e, tr) ELSE Sent(st[b], b, e, tr)
        <5>1. st \in Standings /\ e \in Nat /\ tr \in Transfer
          BY <1>1
        <5>. QED  BY ONLY <5>1, ApplyFields
      <4>. QED  BY <4>1, Zenon
    <3>. QED  BY <1>10, <3>1 DEF Sent
  <2>2. Gain(a, tr) = 0
    BY <1>1, <1>10 DEF Gain
  <2>3. Buys(a)' = Buys(a) /\ Sells(a)' = Sells(a)
    BY <1>1, <1>9, <1>10
  <2>4. AccrualInv(r, a, e)'
    <3>1. r.balance = SumTo(Gains(a), next + 1)
      BY <1>6, <1>7, <2>2 DEF AccrualInv
    <3>2. \A i \in 1..(next + 1) : ordered[i].time <= From(r, e) \/ Gain(a, ordered[i]) = 0
      BY <1>1, <2>2 DEF AccrualInv
    <3>. QED  BY <1>5, <1>8, <3>1, <3>2 DEF AccrualInv
  <2>5. StreakInv(r, a)'
    BY <2>3 DEF StreakInv
  <2>. QED  BY <2>1, <2>4, <2>5
<1>11. CASE tr.value # 0 /\ (tr.from = a \/ tr.to = a)
  <2>. DEFINE p == AccrueTo(At(r, e), tr.time)
  <2>1. /\ q \in Standing
        /\ q.balance = r.balance + Gain(a, tr)
        /\ q.weighted = p.weighted /\ q.since = p.since
        /\ q.firstBuyAt = IF tr.to = a /\ r.firstBuyAt = Never THEN tr.time ELSE r.firstBuyAt
        /\ q.lastSellAt = IF tr.from = a THEN tr.time ELSE r.lastSellAt
    BY <1>1, <1>11, TouchedFields
  <2>2. /\ p.since \in Nat /\ WindowStart(e) <= p.since /\ p.since < WindowEnd(e)
        /\ From(r, e) <= p.since /\ tr.time <= p.since
        /\ p.weighted = SumTo(Seconds(a, e), p.since - WindowStart(e))
        /\ (r.balance <= 0 /\ r.weighted <= 0) => p.weighted <= 0
    BY <1>1, <1>4, AccruedInterval
  <2>. HIDE DEF p
  <2>3. Listed(q) /\ From(q, e) = p.since
    BY <2>1, <2>2 DEF Listed, From, Idle
  <2>4. AccrualInv(q, a, e)'
    <3>1. q.balance = SumTo(Gains(a), next + 1)
      BY <1>6, <2>1 DEF AccrualInv
    <3>2. \A i \in 1..(next + 1) : ordered[i].time <= p.since
      <4>. SUFFICES ASSUME NEW i \in 1..(next + 1) PROVE ordered[i].time <= p.since
        OBVIOUS
      <4>1. i \in 1..Len(ordered) /\ (i \in 1..next \/ i = next + 1)
        BY <1>1
      <4>2. ordered[i].time \in Nat /\ ordered[i].time <= tr.time
        BY <1>1, <1>2, <1>3, <4>1
      <4>. QED  BY <1>1, <2>2, <4>2
    <3>. QED  BY <1>5, <1>8, <2>1, <2>2, <2>3, <3>1, <3>2 DEF AccrualInv
  <2>5. ordered'[next + 1].time = tr.time /\ ordered' = ordered /\ tr.value > 0
    BY <1>1, <1>11
  <2>6. IF q.firstBuyAt = Never
        THEN Buys(a)' = {} /\ q.balance <= 0 /\ q.weighted <= 0
        ELSE /\ \E i \in Buys(a)' : ordered[i].time = q.firstBuyAt
             /\ \A i \in Buys(a)' : q.firstBuyAt <= ordered[i].time
    <3>1. CASE tr.to = a /\ r.firstBuyAt = Never
      <4>1. Buys(a) = {}
        BY <3>1 DEF StreakInv
      <4>2. Buys(a)' = {next + 1} /\ q.firstBuyAt = tr.time /\ q.firstBuyAt # Never
        BY <1>1, <1>9, <2>1, <2>5, <3>1, <4>1 DEF Never
      <4>. QED  BY <1>1, <4>2
    <3>2. CASE tr.to # a /\ r.firstBuyAt = Never
      <4>1. Buys(a) = {} /\ r.balance <= 0 /\ r.weighted <= 0
        BY <3>2 DEF StreakInv
      <4>2. Buys(a)' = {} /\ q.firstBuyAt = Never
        BY <1>9, <2>1, <3>2, <4>1
      <4>3. Gain(a, tr) \in Int /\ Gain(a, tr) <= 0
        BY <1>1, <3>2, <2>5 DEF Gain
      <4>. QED  BY <1>7, <2>1, <2>2, <4>1, <4>2, <4>3
    <3>3. CASE r.firstBuyAt # Never
      <4>1. /\ \E i \in Buys(a) : ordered[i].time = r.firstBuyAt
            /\ \A i \in Buys(a) : r.firstBuyAt <= ordered[i].time
        BY <3>3 DEF StreakInv
      <4>2. q.firstBuyAt = r.firstBuyAt
        BY <2>1, <3>3
      <4>3. r.firstBuyAt <= tr.time
        BY <1>1, <1>3, <1>9, <4>1
      <4>. QED  BY <1>1, <1>9, <3>3, <4>1, <4>2, <4>3
    <3>. QED  BY <3>1, <3>2, <3>3
  <2>7. /\ q.lastSellAt = 0 \/ \E i \in Sells(a)' : ordered[i].time = q.lastSellAt
        /\ \A i \in Sells(a)' : ordered[i].time <= q.lastSellAt
    <3>1. /\ r.lastSellAt = 0 \/ \E i \in Sells(a) : ordered[i].time = r.lastSellAt
          /\ \A i \in Sells(a) : ordered[i].time <= r.lastSellAt
      BY DEF StreakInv
    <3>2. CASE tr.from = a
      <4>1. Sells(a)' = Sells(a) \cup {next + 1} /\ q.lastSellAt = tr.time
        BY <1>9, <2>1, <2>5, <3>2
      <4>. QED  BY <1>1, <1>3, <1>9, <4>1
    <3>3. CASE tr.from # a
      BY <1>9, <2>1, <3>1, <3>3
    <3>. QED  BY <3>2, <3>3
  <2>8. StreakInv(q, a)'
    BY <2>5, <2>6, <2>7 DEF StreakInv
  <2>. QED  BY <2>4, <2>8
<1>. QED  BY <1>10, <1>11

(* Before the first call no Replay has seen anything. *)
LEMMA IntegralInit == Init => IntegralInv
<1>. SUFFICES ASSUME Init PROVE IntegralInv
  OBVIOUS
<1>1. LedgerInv
  BY LedgerInit
<1>2. ordered \in Seq(Transfer) /\ next = 0
  BY <1>1 DEF LedgerInv, TypeOK, Init
<1>. SUFFICES ASSUME NEW e \in Epochs, NEW a \in Accounts
              PROVE  AccrualInv(replays[e][a], a, e) /\ StreakInv(replays[e][a], a)
  BY <1>1 DEF IntegralInv
<1>3. replays[e][a] = Nobody /\ e \in Nat
  BY LedgerAssumption DEF Init, Epochs
<1>4. SumTo(Gains(a), 0) = 0
  BY <1>2, GainsType, SumSteps
<1>5. WindowStart(e) \in Nat /\ WindowEnd(e) \in Nat /\ WindowStart(e) < WindowEnd(e) /\ EpochSeconds \in Nat
  BY <1>3, WindowLength
<1>6. SumTo(Seconds(a, e), 0) = 0
  BY <1>2, <1>3, <1>5, SecondsType, SumSteps
<1>7. From(Nobody, e) = WindowStart(e) /\ ~Listed(Nobody) /\ Nobody.balance = 0 /\ Nobody.weighted = 0
  BY DEF From, Listed, Nobody
<1>8. AccrualInv(Nobody, a, e)
  BY <1>2, <1>4, <1>5, <1>6, <1>7 DEF AccrualInv
<1>9. StreakInv(Nobody, a)
  BY <1>2 DEF StreakInv, Nobody, Buys, Sells
<1>. QED  BY <1>3, <1>8, <1>9

(* Only a transfer changes a Replay. *)
LEMMA IntegralNext == IntegralInv /\ [Next]_vars => IntegralInv'
<1>. SUFFICES ASSUME IntegralInv, [Next]_vars PROVE IntegralInv'
  OBVIOUS
<1>1. LedgerInv /\ LedgerInv'
  BY LedgerNext DEF IntegralInv
<1>2. ASSUME UNCHANGED <<ordered, next, replays>> PROVE IntegralInv'
  <2>1. \A e \in Epochs : Live(e)' <=> Live(e)
    BY <1>2 DEF Live, WindowEnd
  <2>2. ASSUME NEW e \in Epochs, NEW a \in Accounts, NEW r,
               AccrualInv(r, a, e), StreakInv(r, a)
        PROVE  AccrualInv(r, a, e)' /\ StreakInv(r, a)'
    <3>1. /\ \A x : Gains(x)' = Gains(x)
          /\ \A x, ts : BalanceAt(x, ts)' = BalanceAt(x, ts)
      BY <1>2, SumsStay
    <3>2. Seconds(a, e)' = Seconds(a, e)
      BY <3>1 DEF Seconds, WindowStart
    <3>3. AccrualInv(r, a, e)'
      BY <1>2, <2>2, <3>1, <3>2 DEF AccrualInv, From, WindowStart, WindowEnd
    <3>4. Buys(a)' = Buys(a) /\ Sells(a)' = Sells(a)
      BY <1>2 DEF Buys, Sells
    <3>5. StreakInv(r, a)'
      BY <1>2, <2>2, <3>4 DEF StreakInv
    <3>. QED  BY <3>3, <3>5
  <2>3. ASSUME NEW e \in Epochs, Live(e)', NEW a \in Accounts
        PROVE  AccrualInv(replays[e][a], a, e)' /\ StreakInv(replays[e][a], a)'
    <3>1. PICK r : r = replays[e][a]
      OBVIOUS
    <3>2. AccrualInv(r, a, e) /\ StreakInv(r, a)
      BY <2>1, <2>3, <3>1 DEF IntegralInv
    <3>3. AccrualInv(r, a, e)' /\ StreakInv(r, a)'
      BY <2>2, <3>2
    <3>4. replays'[e][a] = r
      BY <1>2, <3>1
    <3>. QED  BY <3>3, <3>4 DEF AccrualInv, StreakInv
  <2>. QED  BY <1>1, <2>3 DEF IntegralInv
<1>3. CASE Step
  <2>. DEFINE tr == Pending
              sees == {e \in Epochs : tr.time < WindowEnd(e)}
  <2>1. /\ ordered \in Seq(Transfer) /\ Ascending(ordered) /\ next \in 0..Len(ordered)
        /\ next < Len(ordered) /\ UNCHANGED ordered
        /\ replays \in [Epochs -> [Accounts -> Standing]] /\ tr = ordered[next + 1]
        /\ Len(ordered) \in Nat /\ next \in Nat /\ tr.value \in Int
    <3>1. /\ ordered \in Seq(Transfer) /\ Ascending(ordered) /\ next \in 0..Len(ordered)
          /\ next < Len(ordered) /\ UNCHANGED ordered
          /\ replays \in [Epochs -> [Accounts -> Standing]] /\ tr = ordered[next + 1]
      BY <1>1, <1>3 DEF LedgerInv, TypeOK, OrderInv, Step, More, Pending, inputs
    <3>2. tr \in Transfer
      BY <3>1
    <3>. QED  BY <3>1, <3>2 DEF Transfer
  <2>2. CASE tr.value < 0
    <3>1. UNCHANGED <<ordered, next, replays>>
      BY <1>3, <2>1, <2>2 DEF Step
    <3>. QED  BY <1>2, <3>1
  <2>3. CASE ~(tr.value < 0)
    <3>1. /\ next' = next + 1
          /\ replays' = [e \in Epochs |-> IF e \in sees THEN Apply(replays[e], e, tr) ELSE replays[e]]
      BY <1>3, <2>3 DEF Step
    <3>2. ASSUME NEW e \in Epochs, Live(e)', NEW a \in Accounts
          PROVE  AccrualInv(replays[e][a], a, e)' /\ StreakInv(replays[e][a], a)'
      <4>1. Live(e) /\ tr.time < WindowEnd(e)
        <5>1. \A i \in 1..(next + 1) : ordered[i].time < WindowEnd(e)
          BY <2>1, <3>1, <3>2 DEF Live, WindowEnd
        <5>. QED  BY <2>1, <5>1 DEF Live
      <4>2. PICK r : r = replays[e][a]
        OBVIOUS
      <4>3. PICK q : q = replays'[e][a]
        OBVIOUS
      <4>4. PICK st : st = replays[e]
        OBVIOUS
      <4>5. PICK x : x = tr
        OBVIOUS
      <4>6. /\ AccrualInv(r, a, e) /\ StreakInv(r, a) /\ r = st[a] /\ st \in Standings /\ e \in Nat
            /\ q = Apply(st, e, x)[a] /\ x = ordered[next + 1] /\ x.value >= 0 /\ x.time < WindowEnd(e)
        <5>1. AccrualInv(r, a, e) /\ StreakInv(r, a)
          BY <4>1, <4>2 DEF IntegralInv
        <5>2. st \in Standings /\ e \in Nat /\ r = st[a]
          BY <2>1, <4>2, <4>4, LedgerAssumption DEF Standings, Epochs
        <5>3. q = Apply(st, e, x)[a]
          BY <3>1, <4>1, <4>3, <4>4, <4>5
        <5>. QED  BY <2>1, <2>3, <4>1, <4>5, <5>1, <5>2, <5>3
      <4>7. AccrualInv(q, a, e)' /\ StreakInv(q, a)'
        BY <2>1, <3>1, <4>6, StandingStep
      <4>. QED  BY <4>3, <4>7 DEF AccrualInv, StreakInv
    <3>. QED  BY <1>1, <3>2 DEF IntegralInv
  <2>. QED  BY <2>2, <2>3
<1>4. CASE ~Step
  <2>1. UNCHANGED <<ordered, next, replays>>
    BY <1>4 DEF Next, Refuse, Open, Settle, Emit, vars, inputs
  <2>. QED  BY <1>2, <2>1
<1>. QED  BY <1>3, <1>4

(* A floor of what is not positive is not positive. *)
LEMMA FloorNotPositive ==
  ASSUME NEW x \in Int, NEW d \in Nat, d > 0, x <= 0
  PROVE  ~(x \div d > 0)
<1>1. x \div d \in Int /\ d * (x \div d) <= x
  OBVIOUS
<1>. DEFINE y == x \div d
<1>2. y \in Int /\ d * y <= 0
  BY <1>1
<1>. HIDE DEF y
<1>3. SUFFICES ASSUME y > 0 PROVE FALSE
  BY DEF y
<1>4. d * y > 0
  <2>1. \A m, n \in Nat : (m > 0 /\ n > 0) => m * n > 0
    OBVIOUS
  <2>. QED  BY <1>2, <1>3, <2>1
<1>. QED  BY <1>2, <1>4

(* At the boundary, Replay's average of an address is its integral. *)
LEMMA AverageIsIntegral ==
  ASSUME ordered \in Seq(Transfer), next \in 0..Len(ordered), NEW e \in Nat, NEW a, NEW r \in Standing,
         AccrualInv(r, a, e),
         \A i \in 1..Len(ordered) : ordered[i].time < WindowEnd(e) <=> i <= next
  PROVE  /\ Listed(r) => Average(r, e) = TimeWeighted(a, e)
         /\ TimeWeighted(a, e) > 0 => Listed(r) /\ ~(r.balance <= 0 /\ r.weighted <= 0)
<1>. DEFINE w == WindowStart(e)
            z == WindowEnd(e)
            f == From(r, e)
            total == SumTo(Seconds(a, e), EpochSeconds)
<1>1. w \in Nat /\ z = w + EpochSeconds /\ EpochSeconds \in Nat /\ EpochSeconds > 0 /\ z \in Nat
  <2>1. w \in Nat /\ z = w + EpochSeconds /\ EpochSeconds \in Nat /\ EpochSeconds > 0
    BY WindowLength
  <2>. QED  BY <2>1
<1>2. /\ f \in Nat /\ w <= f /\ f < z /\ r.balance \in Int /\ r.weighted \in Int
      /\ ~Listed(r) => r.balance = 0 /\ r.weighted = 0
  BY <1>1 DEF AccrualInv, From, Listed, Idle, Standing, Instant
<1>3. \A i \in (next + 1)..Len(ordered) : ordered[i].time >= z
  <2>. SUFFICES ASSUME NEW i \in (next + 1)..Len(ordered) PROVE ordered[i].time >= z
    OBVIOUS
  <2>1. i \in 1..Len(ordered) /\ ~(i <= next)
    OBVIOUS
  <2>2. ordered[i].time \in Nat /\ ~(ordered[i].time < z)
    BY <2>1, TimeType
  <2>. QED  BY <1>1, <2>2
<1>4. total = r.weighted + (z - f) * r.balance
  <2>1. f <= z /\ z <= WindowEnd(e) /\ z - w = EpochSeconds
    BY <1>1, <1>2
  <2>2. SumTo(Seconds(a, e), z - w) = r.weighted + (z - f) * r.balance
    <3>. HIDE DEF z, f
    <3>1. PICK ts : ts = z
      OBVIOUS
    <3>2. ts \in Nat /\ From(r, e) <= ts /\ ts <= WindowEnd(e) /\ \A i \in (next + 1)..Len(ordered) : ordered[i].time >= ts
      BY <1>1, <1>3, <2>1, <3>1 DEF f
    <3>3. SumTo(Seconds(a, e), ts - WindowStart(e)) = r.weighted + (ts - From(r, e)) * r.balance
      BY <3>2, IntervalWeighs
    <3>. QED  BY <3>1, <3>3 DEF f
  <2>. QED  BY <2>1, <2>2
<1>5. TimeWeighted(a, e) = total \div EpochSeconds
  BY DEF TimeWeighted, Seconds
<1>6. ASSUME Listed(r) PROVE Average(r, e) = TimeWeighted(a, e)
  <2>1. f = r.since
    BY <1>6 DEF From
  <2>2. AccrueTo(r, z).weighted = IF z <= r.since THEN r.weighted ELSE r.weighted + Area(r, z)
    BY <1>1, AccrueFields
  <2>3. Area(r, z) = (z - f) * r.balance
    BY <2>1 DEF Area
  <2>4. AccrueTo(r, z).weighted = total
    <3>. HIDE DEF z, f, total
    <3>. QED  BY <1>1, <1>2, <1>4, <2>1, <2>2, <2>3
  <2>. QED  BY <1>5, <2>4 DEF Average
<1>7. ASSUME r.balance <= 0, r.weighted <= 0 PROVE ~(TimeWeighted(a, e) > 0)
  <2>1. z - f \in Nat
    BY <1>1, <1>2
  <2>2. (z - f) * r.balance \in Int /\ (z - f) * r.balance <= 0
    <3>1. PICK n : n = z - f
      OBVIOUS
    <3>2. n * r.balance \in Int /\ n * r.balance <= 0
      BY <1>2, <1>7, <2>1, <3>1, NothingPositive
    <3>. QED  BY <3>1, <3>2
  <2>3. total \in Int /\ total <= 0
    <3>. HIDE DEF z, f, total
    <3>. QED  BY <1>2, <1>4, <1>7, <2>2
  <2>. HIDE DEF total
  <2>. QED  BY <1>1, <1>5, <2>3, FloorNotPositive
<1>8. ASSUME TimeWeighted(a, e) > 0 PROVE Listed(r) /\ ~(r.balance <= 0 /\ r.weighted <= 0)
  BY <1>2, <1>7, <1>8
<1>. QED  BY <1>6, <1>8

(* Its first buy and last sell are those before the boundary. *)
LEMMA StreakIsExact ==
  ASSUME ordered \in Seq(Transfer), next \in 0..Len(ordered), NEW e \in Nat, NEW a, NEW r \in Standing,
         StreakInv(r, a),
         \A i \in 1..Len(ordered) : ordered[i].time < WindowEnd(e) <=> i <= next
  PROVE  /\ r.firstBuyAt # Never => r.firstBuyAt = Min(Bought(a, e))
         /\ r.lastSellAt = Max({0} \cup Sold(a, e))
<1>1. Seen(WindowEnd(e) - 1) = 1..next
  <2>1. WindowEnd(e) \in Nat
    BY Windows
  <2>2. \A i \in 1..Len(ordered) : ordered[i].time \in Nat
    BY TimeType
  <2>3. \A i \in 1..Len(ordered) : ordered[i].time <= WindowEnd(e) - 1 <=> i <= next
    BY <2>1, <2>2
  <2>4. Len(ordered) \in Nat /\ next \in Nat /\ next <= Len(ordered)
    OBVIOUS
  <2>. QED  BY <2>3, <2>4 DEF Seen
<1>2. Bought(a, e) = {ordered[i].time : i \in Buys(a)} /\ Sold(a, e) = {ordered[i].time : i \in Sells(a)}
  BY <1>1 DEF Bought, Sold, Buys, Sells
<1>3. /\ \A i \in Buys(a) \cup Sells(a) : ordered[i].time \in Nat
      /\ r.lastSellAt \in Nat
  <2>1. \A i \in 1..next : i \in 1..Len(ordered)
    OBVIOUS
  <2>2. \A i \in 1..next : ordered[i].time \in Nat
    BY <2>1, TimeType
  <2>. QED  BY <2>2 DEF Buys, Sells, Standing
<1>4. ASSUME r.firstBuyAt # Never PROVE r.firstBuyAt = Min(Bought(a, e))
  <2>. DEFINE S == Bought(a, e)
  <2>1. S \subseteq Nat /\ r.firstBuyAt \in S /\ \A y \in S : r.firstBuyAt <= y
    BY <1>2, <1>3, <1>4 DEF StreakInv
  <2>. HIDE DEF S
  <2>2. Min(S) \in S /\ \A y \in S : Min(S) <= y
    BY <2>1 DEF Min
  <2>3. r.firstBuyAt <= Min(S) /\ Min(S) <= r.firstBuyAt /\ Min(S) \in Nat /\ r.firstBuyAt \in Nat
    BY <2>1, <2>2
  <2>. QED  BY <2>3 DEF S
<1>5. r.lastSellAt = Max({0} \cup Sold(a, e))
  <2>. DEFINE S == {0} \cup Sold(a, e)
  <2>1. S \subseteq Nat /\ r.lastSellAt \in S /\ \A y \in S : r.lastSellAt >= y
    BY <1>2, <1>3 DEF StreakInv
  <2>. HIDE DEF S
  <2>2. Max(S) \in S /\ \A y \in S : Max(S) >= y
    BY <2>1 DEF Max
  <2>3. r.lastSellAt <= Max(S) /\ Max(S) <= r.lastSellAt /\ Max(S) \in Nat /\ r.lastSellAt \in Nat
    BY <2>1, <2>2
  <2>. QED  BY <2>3 DEF S
<1>. QED  BY <1>4, <1>5

(* The Holders of an Epoch are the addresses whose balance, integrated over its window *)
(* a second at a time, averages above zero, each with that average and its first buy   *)
(* and last sell: for every history, whichever Epochs Advance was asked for before     *)
(* (internal/twab/ledger.go, holders).                                                 *)
THEOREM HoldersAreTheIntegral == Spec => []IntegralExact
<1>1. IntegralInv => IntegralExact
  <2>. SUFFICES ASSUME IntegralInv, reply = "holders" PROVE IntegralExact
    BY DEF IntegralExact
  <2>. DEFINE e == epoch
              R(a) == replays[e][a]
              out == ExcludedAsOf(e, exclusions)
              weighing == {a \in Accounts : TimeWeighted(a, e) > 0
                             /\ \A x \in exclusions : x.account = a => x.time >= WindowEnd(e)}
  <2>1. /\ ordered \in Seq(Transfer) /\ next \in 0..Len(ordered) /\ e \in Epochs /\ e \in Nat
        /\ exclusions \in SUBSET Exclusion /\ \A a \in Accounts : R(a) \in Standing
        /\ \A i \in 1..Len(ordered) : ordered[i].time < WindowEnd(e) <=> i <= next
        /\ holders = HoldersOf(replays[e], e, out)
    <3>1. /\ ordered \in Seq(Transfer) /\ next \in 0..Len(ordered) /\ e \in Epochs
          /\ exclusions \in SUBSET Exclusion /\ replays \in [Epochs -> [Accounts -> Standing]]
      BY DEF IntegralInv, LedgerInv, TypeOK
    <3>2. e \in Nat /\ \A a \in Accounts : R(a) \in Standing
      BY <3>1, LedgerAssumption DEF Epochs
    <3>3. /\ \A i \in 1..Len(ordered) : ordered[i].time < WindowEnd(e) <=> i <= next
          /\ holders = HoldersOf(replays[e], e, out)
      BY DEF IntegralInv, LedgerInv, LedgerAgrees
    <3>. QED  BY <3>1, <3>2, <3>3
  <2>2. Live(e)
    <3>1. \A i \in 1..next : i \in 1..Len(ordered) /\ i <= next
      BY <2>1
    <3>. QED  BY <2>1, <3>1 DEF Live
  <2>3. \A a \in Accounts : AccrualInv(R(a), a, e) /\ StreakInv(R(a), a)
    BY <2>1, <2>2 DEF IntegralInv
  <2>. HIDE DEF e, R
  <2>4. ASSUME NEW a \in Accounts
        PROVE  /\ Listed(R(a)) /\ Average(R(a), e) > 0 <=> TimeWeighted(a, e) > 0
               /\ TimeWeighted(a, e) > 0 =>
                     /\ Average(R(a), e) = TimeWeighted(a, e)
                     /\ R(a).firstBuyAt = Min(Bought(a, e))
               /\ R(a).lastSellAt = Max({0} \cup Sold(a, e))
    <3>1. /\ Listed(R(a)) => Average(R(a), e) = TimeWeighted(a, e)
          /\ TimeWeighted(a, e) > 0 => Listed(R(a)) /\ ~(R(a).balance <= 0 /\ R(a).weighted <= 0)
      BY <2>1, <2>3, AverageIsIntegral
    <3>2. /\ R(a).firstBuyAt # Never => R(a).firstBuyAt = Min(Bought(a, e))
          /\ R(a).lastSellAt = Max({0} \cup Sold(a, e))
      BY <2>1, <2>3, StreakIsExact
    <3>3. R(a).firstBuyAt = Never => R(a).balance <= 0 /\ R(a).weighted <= 0
      BY <2>3 DEF StreakInv
    <3>. QED  BY <3>1, <3>2, <3>3
  <2>5. \A a \in Accounts : a \notin out <=> \A x \in exclusions : x.account = a => x.time >= WindowEnd(e)
    <3>1. WindowEnd(e) \in Nat /\ \A x \in exclusions : x.time \in Nat
      BY <2>1, Windows DEF Exclusion
    <3>. QED  BY <3>1 DEF ExcludedAsOf
  <2>6. weighing = {x \in Accounts \ out : Listed(R(x)) /\ Average(R(x), e) > 0}
    <3>. HIDE DEF out
    <3>. QED  BY <2>4, <2>5
  <2>7. holders = [a \in {x \in Accounts \ out : Listed(R(x)) /\ Average(R(x), e) > 0} |->
                      [twab |-> Average(R(a), e), firstBuyAt |-> R(a).firstBuyAt, lastSellAt |-> R(a).lastSellAt]]
    BY <2>1 DEF HoldersOf, R
  <2>8. DOMAIN holders = weighing
    <3>. HIDE DEF weighing, out
    <3>. QED  BY <2>6, <2>7
  <2>9. ASSUME NEW a \in weighing
        PROVE  holders[a] = [twab |-> TimeWeighted(a, e), firstBuyAt |-> Min(Bought(a, e)),
                             lastSellAt |-> Max({0} \cup Sold(a, e))]
    <3>1. a \in Accounts /\ TimeWeighted(a, e) > 0
      OBVIOUS
    <3>2. holders[a] = [twab |-> Average(R(a), e), firstBuyAt |-> R(a).firstBuyAt, lastSellAt |-> R(a).lastSellAt]
      <4>. HIDE DEF weighing, out
      <4>. QED  BY <2>6, <2>7
    <3>. QED  BY <2>4, <3>1, <3>2
  <2>. QED  BY <2>8, <2>9 DEF IntegralExact, e
<1>. QED  BY <1>1, IntegralInit, IntegralNext, PTL DEF Spec
=============================================================================
