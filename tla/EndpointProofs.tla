--------------------------- MODULE EndpointProofs ---------------------------
(***************************************************************************)
(* What a JSON-RPC endpoint's callers get and what they cost it: the       *)
(* proofs, for any number of concurrent calls, batches of any length, any  *)
(* replies, number of attempts and capacity of the pacer.                  *)
(***************************************************************************)
EXTENDS Endpoint, SequenceTheorems, FiniteSetTheorems, TLAPS

-----------------------------------------------------------------------------
(* The inductive invariant.                                                   *)

Outcomes == {"none", "ok", "gave up", "broken", "cancelled", "refused", "bad reply"}

(* TypeOK says of ids, attempt, out and result what they hold for each call; they are *)
(* functions on the calls, and so is replies.                                         *)
Shape ==
    /\ TypeOK
    /\ ids \in [Calls -> Seq(Nat)] /\ attempt \in [Calls -> 0..MaxAttempts]
    /\ out \in [Calls -> Seq(Headers)] /\ result \in [Calls -> Outcomes]
    /\ replies \in [Calls -> Seq([id : Nat, header : Headers \cup {NoHeader}])]

(* A batch is posted once all its requests have an id, and no two have the same. *)
IdsInv(c) ==
    /\ pc[c] = "start" => ids[c] = <<>>
    /\ pc[c] = "request" => Len(ids[c]) < Len(Wanted[c])
    /\ (pc[c] \in {"pace", "wait", "sent"} /\ trip[c] = "batch") => Len(ids[c]) = Len(Wanted[c])
    /\ \A i, j \in 1..Len(ids[c]) : ids[c][i] = ids[c][j] => i = j

(* What c has so far is what it asked for first, and it is not over before it has all. *)
OutInv(c) ==
    /\ \A i \in 1..Len(out[c]) : out[c][i] = Wanted[c][i]
    /\ pc[c] # "done" => /\ Len(out[c]) < Len(Wanted[c])
                         /\ replies[c] = <<>> /\ result[c] = "none"
    /\ result[c] = "ok" => out[c] = Wanted[c]

(* The array that answered c's batch has every header it asked for. *)
Complete(c) == Answers(c, replies[c])

CallInv(c) ==
    /\ IdsInv(c) /\ OutInv(c)
    /\ (pc[c] = "done" /\ Complete(c)) => result[c] = "ok"

(* The pacer's tokens on a line, the endpoint's budget on the same one. Each call that *)
(* waits has Requests(c) of them to itself, the ones above at[c]: they lie below the   *)
(* budget and above the tokens nobody has taken yet, and are there once c's wait is    *)
(* over. A sum over the calls that wait would say no more.                             *)
Reserves(at) ==
    /\ \A c \in Calls : pc[c] = "wait" =>
          /\ tokens <= at[c] /\ at[c] + Requests(c) <= budget
          /\ IF due[c] = 0 THEN at[c] >= 0 ELSE at[c] = -due[c]
    /\ \A c, d \in Calls : (c # d /\ pc[c] = "wait" /\ pc[d] = "wait") =>
          at[c] + Requests(c) <= at[d] \/ at[d] + Requests(d) <= at[c]

PaceInv ==
    /\ tokens <= budget /\ BudgetKept
    /\ \E at \in [Calls -> Int] : Reserves(at)

EndpointInv ==
    Shape /\ PaceInv /\ \A c \in Calls : CallInv(c)

-----------------------------------------------------------------------------
(* The operators of the model.                                                *)

(* Max and Min are CHOOSEs; of two integers they are what they should be. *)
LEMMA MaxOfTwo ==
    ASSUME NEW x \in Int, NEW y \in Int
    PROVE  Max({x, y}) = IF x >= y THEN x ELSE y
<1>1. \E m \in {x, y} : \A z \in {x, y} : m >= z
  OBVIOUS
<1>2. Max({x, y}) \in {x, y} /\ \A z \in {x, y} : Max({x, y}) >= z
  BY <1>1 DEF Max
<1> QED
  BY <1>2

(* The same of Min. *)
LEMMA MinOfTwo ==
    ASSUME NEW x \in Int, NEW y \in Int
    PROVE  Min({x, y}) = IF x <= y THEN x ELSE y
<1>1. \E m \in {x, y} : \A z \in {x, y} : m <= z
  OBVIOUS
<1>2. Min({x, y}) \in {x, y} /\ \A z \in {x, y} : Min({x, y}) <= z
  BY <1>1 DEF Min
<1> QED
  BY <1>2

(* And of a single one. *)
LEMMA MaxOfOne ==
    ASSUME NEW k \in Int
    PROVE  Max({k}) = k
<1>1. \E m \in {k} : \A z \in {k} : m >= z
  OBVIOUS
<1>2. Max({k}) \in {k}
  BY <1>1 DEF Max
<1> QED
  BY <1>2

(* A round trip costs one call at least, and never more than the pacer can hold. *)
LEMMA RequestsBounded ==
    ASSUME NEW c \in Calls
    PROVE  Requests(c) \in 1..Capacity /\ Requests(c) \in Nat /\ Requests(c) >= 1 /\ Requests(c) <= Capacity
<1>1. Capacity \in Nat /\ Len(Wanted[c]) \in 1..Capacity
  BY EndpointAssumption
<1>2. Capacity >= 1
  BY <1>1
<1> QED
  BY <1>1, <1>2 DEF Requests

(* A complete array answers every request once: as many replies as requests, and a *)
(* reply for each.                                                                 *)
LEMMA CompleteMatches ==
    ASSUME NEW c \in Calls, Shape, IdsInv(c), Len(ids[c]) = Len(Wanted[c]),
           NEW rs \in Seq([id : Nat, header : Headers \cup {NoHeader}]),
           Answers(c, rs)
    PROVE  \A i \in DOMAIN ids[c] : IsBlock(Matched(c, rs)[i], Wanted[c][i])
<1> DEFINE n == Len(Wanted[c])
           I == 1..n
<1>1. /\ n \in Nat /\ DOMAIN rs = I /\ DOMAIN ids[c] = I /\ DOMAIN Wanted[c] = I
      /\ \A i, j \in I : ids[c][i] = ids[c][j] => i = j
  BY EndpointAssumption DEF Shape, IdsInv, Answers
<1>2. \A i \in I : \E k \in I : rs[k] = [id |-> ids[c][i], header |-> Wanted[c][i]]
  BY <1>1 DEF Range, Answers
<1> DEFINE f == [i \in I |-> CHOOSE k \in I : rs[k] = [id |-> ids[c][i], header |-> Wanted[c][i]]]
<1>3. \A i \in I : f[i] \in I /\ rs[f[i]] = [id |-> ids[c][i], header |-> Wanted[c][i]]
  BY <1>2
<1>4. f \in [I -> I]
  BY <1>3
<1> HIDE DEF f, I, n
<1>5. ASSUME NEW i \in I
      PROVE  rs[f[i]].id = ids[c][i] /\ rs[f[i]].header = Wanted[c][i]
  <2>1. rs[f[i]] = [id |-> ids[c][i], header |-> Wanted[c][i]]
    BY <1>3
  <2> QED
    BY <2>1
<1>6. f \in Injection(I, I)
  <2>1. ASSUME NEW i \in I, NEW j \in I, f[i] = f[j] PROVE i = j
    BY <1>1, <1>5, <2>1
  <2> QED
    BY <1>4, <2>1 DEF Injection, IsInjective
<1>7. IsFiniteSet(I)
  <2>1. n \in Int /\ 1 \in Int
    BY <1>1
  <2> QED
    BY <2>1, FS_Interval, Zenon DEF I
<1>8. f \in Surjection(I, I)
  BY <1>6, <1>7, FS_Injection
<1>9. ASSUME NEW i \in I
      PROVE  Matched(c, rs)[i] = Wanted[c][i]
  <2> DEFINE mine == {k \in DOMAIN rs : rs[k].id = ids[c][i]}
  <2>1. ASSUME NEW k \in mine PROVE k = f[i]
    <3>1. PICK j \in I : f[j] = k
      BY <1>1, <1>8, <2>1 DEF Surjection
    <3>2. ids[c][j] = ids[c][i]
      BY <1>5, <2>1, <3>1
    <3> QED
      BY <1>1, <1>9, <3>1, <3>2
  <2>2. f[i] \in mine
    BY <1>1, <1>4, <1>5, <1>9
  <2>3. mine = {f[i]}
    BY <2>1, <2>2
  <2>4. f[i] \in Int
    BY <1>1, <1>4, <1>9 DEF I
  <2>5. Max(mine) = f[i]
    BY <2>3, <2>4, MaxOfOne
  <2>6. Matched(c, rs)[i] = IF mine = {} THEN NoHeader ELSE rs[Max(mine)].header
    BY <1>1, <1>9 DEF Matched
  <2> HIDE DEF mine
  <2> QED
    BY <1>5, <1>9, <2>3, <2>5, <2>6
<1> QED
  BY <1>1, <1>9 DEF IsBlock

(* An array that has the right block for every request is what was asked for. *)
LEMMA MatchedIsWanted ==
    ASSUME NEW c \in Calls, NEW rs, Shape, Len(ids[c]) = Len(Wanted[c]),
           \A i \in DOMAIN ids[c] : IsBlock(Matched(c, rs)[i], Wanted[c][i])
    PROVE  Matched(c, rs) = Wanted[c]
<1>1. /\ ids[c] \in Seq(Nat) /\ Wanted[c] \in Seq(Headers)
      /\ DOMAIN ids[c] = 1..Len(Wanted[c]) /\ DOMAIN Wanted[c] = 1..Len(Wanted[c])
  BY EndpointAssumption DEF Shape
<1>2. DOMAIN Matched(c, rs) = DOMAIN ids[c] /\ Matched(c, rs) = [i \in DOMAIN ids[c] |-> Matched(c, rs)[i]]
  BY DEF Matched
<1>3. \A i \in DOMAIN ids[c] : Matched(c, rs)[i] = Wanted[c][i]
  BY DEF IsBlock
<1>4. Wanted[c] = [i \in 1..Len(Wanted[c]) |-> Wanted[c][i]]
  BY <1>1
<1> QED
  BY <1>1, <1>2, <1>3, <1>4

(* The arrays are sequences of replies. *)
LEMMA ArraysAreReplies ==
    ASSUME NEW c \in Calls, Shape, NEW rs \in Arrays(c)
    PROVE  rs \in Seq([id : Nat, header : Headers \cup {NoHeader}])
<1> DEFINE R == [id : Range(ids[c]), header : Headers \cup {NoHeader}]
<1>1. PICK m \in 0..Len(Wanted[c]) : rs \in [1..m -> R]
  BY DEF Arrays, SeqOf
<1>2. R \subseteq [id : Nat, header : Headers \cup {NoHeader}]
  <2>1. Range(ids[c]) \subseteq Nat
    BY DEF Range, Shape
  <2> QED
    BY <2>1
<1>3. m \in Nat
  BY EndpointAssumption
<1> DEFINE Q == [id : Nat, header : Headers \cup {NoHeader}]
<1>4. rs \in [1..m -> Q]
  BY <1>1, <1>2
<1> HIDE DEF R, Q
<1>5. rs \in Seq(Q)
  BY <1>3, <1>4
<1> QED
  BY <1>5 DEF Q

-----------------------------------------------------------------------------
(* The steps. Each leaves the pacer alone or the calls' headers.              *)

(* A call that does not move keeps its invariant. *)
SameCall(c) ==
    /\ pc'[c] = pc[c] /\ trip'[c] = trip[c] /\ ids'[c] = ids[c]
    /\ replies'[c] = replies[c] /\ out'[c] = out[c] /\ result'[c] = result[c]

(* A call that a step leaves alone keeps its part of the invariant. *)
LEMMA OthersKeep ==
    ASSUME NEW c \in Calls, CallInv(c), SameCall(c)
    PROVE  CallInv(c)'
BY DEF SameCall, CallInv, IdsInv, OutInv, Complete, Answers

(* Whoever does not start to wait leaves the reservations as they are. *)
LEMMA PaceKeeps ==
    ASSUME PaceInv, UNCHANGED paceVars,
           \A c \in Calls : pc'[c] = "wait" => pc[c] = "wait" /\ trip'[c] = trip[c]
    PROVE  PaceInv'
<1>1. PICK at \in [Calls -> Int] : Reserves(at)
  BY DEF PaceInv
<1>2. \A c \in Calls : pc'[c] = "wait" => Requests(c)' = Requests(c)
  BY DEF Requests
<1>3. Reserves(at)'
  BY <1>1, <1>2 DEF Reserves, paceVars
<1> QED
  BY <1>1, <1>3 DEF PaceInv, BudgetKept, paceVars

(* Nothing was asked for, and the bucket is full on both sides. *)
LEMMA EndpointInit == ASSUME Init PROVE EndpointInv
<1>1. Shape
  <2>1. /\ MaxAttempts \in Nat \ {0} /\ Capacity \in Nat
        /\ \A c \in Calls : Len(Wanted[c]) \in Nat
    BY EndpointAssumption
  <2>2. /\ ids \in [Calls -> Seq(Nat)] /\ attempt \in [Calls -> 0..MaxAttempts]
        /\ out \in [Calls -> Seq(Headers)] /\ result \in [Calls -> Outcomes]
    BY <2>1 DEF Init, Outcomes
  <2>3. replies \in [Calls -> Seq([id : Nat, header : Headers \cup {NoHeader}])]
    BY DEF Init
  <2>4. ASSUME NEW c \in Calls
        PROVE  /\ ids[c] = <<>> /\ out[c] = <<>> /\ attempt[c] = 0 /\ result[c] = "none"
    BY DEF Init
  <2>5. TypeOK
    <3>1. \A c \in Calls : ids[c] \in Seq(1..nextID) /\ Len(ids[c]) <= Len(Wanted[c])
                            /\ out[c] \in Seq(Headers) /\ Len(out[c]) <= Len(Wanted[c])
      <4>1. <<>> \in Seq(1..nextID) /\ <<>> \in Seq(Headers) /\ Len(<<>>) = 0
        OBVIOUS
      <4>2. ASSUME NEW c \in Calls
            PROVE  ids[c] \in Seq(1..nextID) /\ out[c] \in Seq(Headers)
        BY <2>4, <4>1, Zenon
      <4>3. ASSUME NEW c \in Calls
            PROVE  Len(ids[c]) <= Len(Wanted[c]) /\ Len(out[c]) <= Len(Wanted[c])
        BY <2>1, <2>4, <4>1
      <4> QED
        BY <4>2, <4>3
    <3>2. \A c \in Calls : attempt[c] \in 0..MaxAttempts /\ attempt[c] # MaxAttempts
      BY <2>1, <2>4
    <3>3. \A c \in Calls : result[c] \in Outcomes
      BY <2>2
    <3>4. nextID \in Nat /\ tokens \in Int /\ tokens <= Capacity /\ budget \in Int /\ budget <= Capacity
      BY <2>1 DEF Init
    <3> QED
      BY <3>1, <3>2, <3>3, <3>4 DEF Init, TypeOK, Outcomes, nature
  <2> QED
    BY <2>2, <2>3, <2>5 DEF Shape
<1>2. PaceInv
  <2>1. Reserves([c \in Calls |-> 0])
    BY DEF Init, Reserves
  <2>2. [c \in Calls |-> 0] \in [Calls -> Int]
    OBVIOUS
  <2> QED
    BY <2>1, <2>2, EndpointAssumption DEF Init, PaceInv, BudgetKept
<1>3. ASSUME NEW c \in Calls PROVE CallInv(c)
  <2>1. Len(Wanted[c]) \in Nat /\ Len(Wanted[c]) >= 1
    BY EndpointAssumption
  <2> QED
    BY <2>1 DEF Init, CallInv, IdsInv, OutInv, Complete, Answers
<1> QED
  BY <1>1, <1>2, <1>3 DEF EndpointInv

(* Nothing happens. *)
LEMMA StutterStep == ASSUME EndpointInv, UNCHANGED vars PROVE EndpointInv'
<1>1. Shape'
  BY DEF EndpointInv, Shape, TypeOK, vars, paceVars, nature
<1>2. PaceInv'
  BY PaceKeeps DEF EndpointInv, vars, paceVars
<1>3. ASSUME NEW c \in Calls PROVE CallInv(c)'
  BY OthersKeep DEF SameCall, EndpointInv, vars
<1> QED
  BY <1>1, <1>2, <1>3 DEF EndpointInv

(* The endpoint recovers, which no call notices. *)
LEMMA RecoversStep == ASSUME EndpointInv, Recovers PROVE EndpointInv'
<1>1. Shape'
  BY DEF EndpointInv, Shape, TypeOK, paceVars, Recovers
<1>2. PaceInv'
  BY PaceKeeps DEF EndpointInv, Recovers
<1>3. ASSUME NEW c \in Calls PROVE CallInv(c)'
  BY OthersKeep DEF SameCall, EndpointInv, Recovers
<1> QED
  BY <1>1, <1>2, <1>3 DEF EndpointInv

(* A call starts, by batch or, once the endpoint has no batches, by single reads. *)
LEMMA BeginStep == ASSUME EndpointInv, NEW c \in Calls, Begin(c) PROVE EndpointInv'
<1>1. Shape'
  BY DEF EndpointInv, Shape, TypeOK, paceVars, Begin, nature
<1>2. PaceInv'
  <2>1. \A d \in Calls : pc'[d] = "wait" => pc[d] = "wait" /\ trip'[d] = trip[d]
    BY DEF EndpointInv, Shape, TypeOK, Begin, nature
  <2> QED
    BY <2>1, PaceKeeps DEF EndpointInv, Begin
<1>3. CallInv(c)'
  <2>1. Len(Wanted[c]) \in Nat /\ Len(Wanted[c]) >= 1
    BY EndpointAssumption
  <2>2. pc[c] = "start" /\ pc'[c] \in {"ask", "request"} /\ ids'[c] = ids[c] /\ ids[c] = <<>>
    BY DEF EndpointInv, Shape, TypeOK, Begin, CallInv, IdsInv, nature
  <2>3. IdsInv(c)'
    BY <2>1, <2>2 DEF IdsInv
  <2>4. OutInv(c)'
    BY <2>2 DEF EndpointInv, CallInv, OutInv, Begin
  <2> QED
    BY <2>2, <2>3, <2>4 DEF CallInv
<1>4. ASSUME NEW d \in Calls, d # c PROVE CallInv(d)'
  BY <1>4, OthersKeep DEF SameCall, EndpointInv, Begin, Shape, TypeOK, nature
<1> QED
  BY <1>1, <1>2, <1>3, <1>4 DEF EndpointInv

(* A single read takes an id and goes to the pacer. *)
LEMMA AskStep == ASSUME EndpointInv, NEW c \in Calls, Ask(c) PROVE EndpointInv'
<1>1. Shape'
  <2>1. nextID \in Nat /\ nextID' = nextID + 1
    BY DEF EndpointInv, Shape, TypeOK, Ask, nature
  <2>2. ASSUME NEW d \in Calls PROVE ids'[d] \in Seq(1..nextID')
    <3>1. ids[d] \in Seq(1..nextID) /\ ids' = ids
      BY DEF EndpointInv, Shape, TypeOK, Ask, nature
    <3>2. 1..nextID \subseteq 1..nextID'
      BY <2>1
    <3> QED
      BY <3>1, <3>2, SeqMonotonic
  <2>3. attempt' \in [Calls -> 0..MaxAttempts]
    BY EndpointAssumption DEF EndpointInv, Shape, Ask
  <2>4. ASSUME NEW d \in Calls PROVE attempt'[d] = MaxAttempts => pc'[d] = "done"
    BY EndpointAssumption DEF EndpointInv, Shape, TypeOK, Ask, nature
  <2>5. TypeOK'
    <3>1. nextID' \in Nat
      BY <2>1
    <3> QED
      BY <2>2, <2>3, <2>4, <3>1 DEF EndpointInv, Shape, TypeOK, paceVars, Ask, nature
  <2> QED
    BY <2>3, <2>5 DEF EndpointInv, Shape, Ask
<1>2. PaceInv'
  <2>1. \A d \in Calls : pc'[d] = "wait" => pc[d] = "wait" /\ trip'[d] = trip[d]
    BY DEF EndpointInv, Shape, TypeOK, Ask, nature
  <2> QED
    BY <2>1, PaceKeeps DEF EndpointInv, Ask
<1>3. CallInv(c)'
  <2>1. pc[c] = "ask" /\ pc'[c] = "pace" /\ trip'[c] = "single"
    BY DEF EndpointInv, Shape, TypeOK, Ask, nature
  <2> QED
    BY <2>1 DEF EndpointInv, CallInv, IdsInv, OutInv, Ask
<1>4. ASSUME NEW d \in Calls, d # c PROVE CallInv(d)'
  BY <1>4, OthersKeep DEF SameCall, EndpointInv, Ask, Shape, TypeOK, nature
<1> QED
  BY <1>1, <1>2, <1>3, <1>4 DEF EndpointInv

(* A batch takes an id per request, in turns with other calls. *)
LEMMA RequestStep == ASSUME EndpointInv, NEW c \in Calls, Request(c) PROVE EndpointInv'
<1>1. /\ nextID \in Nat /\ nextID' = nextID + 1 /\ pc[c] = "request"
      /\ ids[c] \in Seq(1..nextID) /\ ids'[c] = Append(ids[c], nextID + 1)
      /\ Len(ids[c]) < Len(Wanted[c]) /\ Len(ids[c]) \in Nat /\ Len(Wanted[c]) \in Nat
      /\ trip'[c] = "batch" /\ pc'[c] = IF Missing(c) = 1 THEN "pace" ELSE "request"
  <2>1. nextID \in Nat /\ ids[c] \in Seq(1..nextID) /\ Wanted[c] \in Seq(Headers)
    BY EndpointAssumption DEF EndpointInv, Shape, TypeOK, nature
  <2>2. Len(ids[c]) \in Nat /\ Len(Wanted[c]) \in Nat
    BY <2>1
  <2>3. /\ nextID' = nextID + 1 /\ pc[c] = "request" /\ ids'[c] = Append(ids[c], nextID + 1)
        /\ trip'[c] = "batch" /\ pc'[c] = IF Missing(c) = 1 THEN "pace" ELSE "request"
    BY DEF EndpointInv, Shape, TypeOK, Request, nature
  <2>4. Len(ids[c]) < Len(Wanted[c])
    BY <2>3 DEF EndpointInv, CallInv, IdsInv
  <2> QED
    BY <2>1, <2>2, <2>3, <2>4
<1>2. /\ ids'[c] \in Seq(1..nextID') /\ ids'[c] \in Seq(Nat) /\ Len(ids'[c]) = Len(ids[c]) + 1
      /\ \A i \in 1..Len(ids[c]) : ids'[c][i] = ids[c][i]
      /\ ids'[c][Len(ids[c]) + 1] = nextID + 1
  BY <1>1
<1>3. Shape'
  <2>1. ASSUME NEW d \in Calls PROVE ids'[d] \in Seq(1..nextID') /\ Len(ids'[d]) <= Len(Wanted[d])
    <3>1. CASE d = c
      <4>1. Len(ids'[c]) <= Len(Wanted[c])
        BY <1>1, <1>2
      <4> QED
        BY <1>2, <3>1, <4>1
    <3>2. CASE d # c
      <4>1. ids[d] \in Seq(1..nextID) /\ ids'[d] = ids[d] /\ Len(ids[d]) <= Len(Wanted[d])
        BY <3>2 DEF EndpointInv, Shape, TypeOK, Request, nature
      <4>2. 1..nextID \subseteq 1..nextID'
        BY <1>1
      <4> QED
        BY <4>1, <4>2, SeqMonotonic
    <3> QED
      BY <3>1, <3>2
  <2>2. ids' \in [Calls -> Seq(Nat)]
    <3>1. ids' = [ids EXCEPT ![c] = ids'[c]]
      BY <1>1 DEF Request, EndpointInv, Shape
    <3> QED
      BY <1>2, <3>1 DEF EndpointInv, Shape
  <2>3. /\ pc' \in [Calls -> {"start", "request", "ask", "pace", "wait", "sent", "done"}]
        /\ trip' \in [Calls -> {"batch", "single"}]
    BY DEF EndpointInv, Shape, TypeOK, Request, nature
  <2>4. ASSUME NEW d \in Calls PROVE attempt'[d] = MaxAttempts => pc'[d] = "done"
    BY <1>1 DEF EndpointInv, Shape, TypeOK, Request, nature
  <2>5. nextID' \in Nat
    BY <1>1
  <2> QED
    BY <2>1, <2>2, <2>3, <2>4, <2>5 DEF EndpointInv, Shape, TypeOK, paceVars, Request, nature
<1>4. PaceInv'
  <2>1. \A d \in Calls : pc'[d] = "wait" => pc[d] = "wait" /\ trip'[d] = trip[d]
    BY DEF EndpointInv, Shape, TypeOK, Request, nature
  <2> QED
    BY <2>1, PaceKeeps DEF EndpointInv, Request
<1>5. CallInv(c)'
  <2>1. \A i \in 1..Len(ids[c]) : ids[c][i] \in 1..nextID
    BY <1>1
  <2>2. \A i, j \in 1..Len(ids'[c]) : ids'[c][i] = ids'[c][j] => i = j
    <3>1. \A i, j \in 1..Len(ids[c]) : ids[c][i] = ids[c][j] => i = j
      BY DEF EndpointInv, CallInv, IdsInv
    <3> DEFINE old == ids[c]
               new == ids'[c]
    <3>2. /\ Len(old) \in Nat /\ Len(new) = Len(old) + 1 /\ nextID \in Nat
          /\ \A i \in 1..Len(old) : new[i] = old[i] /\ old[i] \in 1..nextID
          /\ new[Len(old) + 1] = nextID + 1
          /\ \A i, j \in 1..Len(old) : old[i] = old[j] => i = j
      BY <1>1, <1>2, <2>1, <3>1
    <3> HIDE DEF old, new
    <3>3. ASSUME NEW i \in 1..Len(new), NEW j \in 1..Len(new), new[i] = new[j] PROVE i = j
      BY <3>2, <3>3
    <3> QED
      BY <3>3 DEF new
  <2>3. IdsInv(c)'
    <3>1. pc'[c] = "pace" => Len(ids'[c]) = Len(Wanted[c])
      BY <1>1, <1>2 DEF Missing
    <3>2. pc'[c] = "request" => Len(ids'[c]) < Len(Wanted[c])
      BY <1>1, <1>2 DEF Missing
    <3>3. pc'[c] \in {"pace", "request"}
      BY <1>1
    <3> QED
      BY <2>2, <3>1, <3>2, <3>3 DEF IdsInv
  <2>4. OutInv(c)' /\ pc'[c] # "done"
    BY <1>1 DEF EndpointInv, CallInv, OutInv, Request
  <2> QED
    BY <2>3, <2>4 DEF CallInv
<1>6. ASSUME NEW d \in Calls, d # c PROVE CallInv(d)'
  BY <1>6, OthersKeep DEF SameCall, EndpointInv, Request, Shape, TypeOK, nature
<1> QED
  BY <1>3, <1>4, <1>5, <1>6 DEF EndpointInv

(* The call is charged below what the others have reserved. *)
LEMMA ChargeStep == ASSUME EndpointInv, NEW c \in Calls, Charge(c) PROVE EndpointInv'
<1> DEFINE r == Requests(c)
<1>1. tokens \in Int /\ budget \in Int /\ tokens <= Capacity /\ Capacity \in Nat /\ r \in Nat /\ r >= 1
  BY RequestsBounded, EndpointAssumption DEF EndpointInv, Shape, TypeOK, nature
<1> HIDE DEF r
<1>2. /\ tokens' = tokens - r /\ pc[c] = "pace" /\ pc'[c] = "wait" /\ budget' = budget
      /\ \A d \in Calls \ {c} : pc'[d] = pc[d] /\ due'[d] = due[d]
      /\ due' = [due EXCEPT ![c] = Max({0, -tokens'})] /\ due'[c] = Max({0, -tokens'})
      /\ UNCHANGED <<nextID, noBatch, nature, budget, trip, ids, attempt, replies, out, result>>
  BY DEF EndpointInv, Shape, TypeOK, Charge, r, nature
<1>3. tokens' \in Int /\ -tokens' \in Int
  BY <1>1, <1>2
<1>4. Max({0, -tokens'}) = IF 0 >= -tokens' THEN 0 ELSE -tokens'
  <2> DEFINE debt == -tokens'
  <2>1. debt \in Int /\ 0 \in Int
    BY <1>3
  <2> HIDE DEF debt
  <2>2. Max({0, debt}) = IF 0 >= debt THEN 0 ELSE debt
    BY <2>1, MaxOfTwo
  <2> QED
    BY <2>2 DEF debt
<1>5. due'[c] \in Nat /\ (IF due'[c] = 0 THEN tokens' >= 0 ELSE tokens' = -due'[c])
  BY <1>2, <1>3, <1>4
<1>6. Shape'
  <2>1. due' \in [Calls -> Nat] /\ pc' \in [Calls -> {"start", "request", "ask", "pace", "wait", "sent", "done"}]
    <3>1. due' = [due EXCEPT ![c] = due'[c]]
      BY <1>2
    <3> QED
      BY <1>5, <3>1 DEF EndpointInv, Shape, TypeOK, Charge, nature
  <2>2. tokens' \in Int /\ tokens' <= Capacity
    BY <1>1, <1>2
  <2>3. \A d \in Calls : attempt'[d] = MaxAttempts => pc'[d] = "done"
    BY <1>2 DEF EndpointInv, Shape, TypeOK, nature
  <2> QED
    BY <1>2, <2>1, <2>2, <2>3 DEF EndpointInv, Shape, TypeOK, nature
<1>7. PaceInv'
  <2>1. PICK at \in [Calls -> Int] : Reserves(at)
    BY DEF EndpointInv, PaceInv
  <2>2. PICK new \in [Calls -> Int] : new[c] = tokens' /\ \A d \in Calls \ {c} : new[d] = at[d]
    <3>1. [at EXCEPT ![c] = tokens'] \in [Calls -> Int]
      BY <1>3, <2>1
    <3> QED
      BY <2>1, <3>1
  <2>3. \A d \in Calls : Requests(d)' = Requests(d) /\ Requests(d) \in Nat
    BY <1>2, RequestsBounded DEF Requests
  <2>4. tokens <= budget
    BY DEF EndpointInv, PaceInv
  <2>5. ASSUME NEW d \in Calls, pc'[d] = "wait"
        PROVE  /\ tokens' <= new[d] /\ new[d] + Requests(d) <= budget'
               /\ IF due'[d] = 0 THEN new[d] >= 0 ELSE new[d] = -due'[d]
    <3>1. CASE d = c
      BY <1>1, <1>2, <1>3, <1>5, <2>2, <2>4, <3>1 DEF r
    <3>2. CASE d # c
      <4>1. new[d] = at[d] /\ pc[d] = "wait" /\ due'[d] = due[d] /\ at[d] \in Int
        BY <1>2, <2>1, <2>2, <2>5, <3>2
      <4>2. tokens <= at[d] /\ at[d] + Requests(d) <= budget
            /\ IF due[d] = 0 THEN at[d] >= 0 ELSE at[d] = -due[d]
        BY <2>1, <4>1 DEF Reserves
      <4> QED
        BY <1>1, <1>2, <4>1, <4>2
    <3> QED
      BY <3>1, <3>2
  <2>6. ASSUME NEW d \in Calls, NEW e \in Calls, d # e, pc'[d] = "wait", pc'[e] = "wait"
        PROVE  new[d] + Requests(d) <= new[e] \/ new[e] + Requests(e) <= new[d]
    <3>1. ASSUME NEW f \in Calls, f # c, pc'[f] = "wait"
          PROVE  new[c] + Requests(c) <= new[f]
      <4>1. pc[f] = "wait" /\ new[f] = at[f] /\ at[f] \in Int
        BY <1>2, <2>1, <2>2, <3>1
      <4>2. tokens <= at[f]
        BY <2>1, <4>1 DEF Reserves
      <4> QED
        BY <1>1, <1>2, <2>2, <4>1, <4>2 DEF r
    <3>2. CASE d = c \/ e = c
      BY <2>6, <3>1, <3>2
    <3>3. CASE d # c /\ e # c
      BY <1>2, <2>1, <2>2, <2>6, <3>3 DEF Reserves
    <3> QED
      BY <3>2, <3>3
  <2>7. Reserves(new)'
    BY <2>2, <2>3, <2>5, <2>6 DEF Reserves
  <2>8. tokens' <= budget' /\ BudgetKept'
    BY <1>1, <1>2, <2>4 DEF EndpointInv, PaceInv, BudgetKept
  <2> QED
    BY <2>2, <2>7, <2>8 DEF PaceInv
<1>8. CallInv(c)'
  BY <1>2 DEF EndpointInv, CallInv, IdsInv, OutInv
<1>9. ASSUME NEW d \in Calls, d # c PROVE CallInv(d)'
  BY <1>2, <1>9, OthersKeep DEF SameCall, EndpointInv
<1> QED
  BY <1>6, <1>7, <1>8, <1>9 DEF EndpointInv

(* The call spends what it has reserved; what lies above moves down, and none of that *)
(* is still waited for.                                                               *)
LEMMA SendStep == ASSUME EndpointInv, NEW c \in Calls, Send(c) PROVE EndpointInv'
<1> DEFINE r == Requests(c)
<1>1. tokens \in Int /\ budget \in Int /\ budget <= Capacity /\ Capacity \in Nat /\ r \in Nat /\ r >= 1
  BY RequestsBounded, EndpointAssumption DEF EndpointInv, Shape, TypeOK, nature
<1> HIDE DEF r
<1>2. /\ budget' = budget - r /\ pc[c] = "wait" /\ due[c] = 0 /\ pc'[c] = "sent"
      /\ \A d \in Calls \ {c} : pc'[d] = pc[d]
      /\ UNCHANGED <<nextID, noBatch, nature, tokens, due, trip, ids, attempt, replies, out, result>>
  BY DEF EndpointInv, Shape, TypeOK, Send, r, nature
<1>3. Shape'
  <2>1. budget' \in Int /\ budget' <= Capacity
    BY <1>1, <1>2
  <2>2. \A d \in Calls : attempt'[d] = MaxAttempts => pc'[d] = "done"
    BY <1>2 DEF EndpointInv, Shape, TypeOK, nature
  <2>3. pc' \in [Calls -> {"start", "request", "ask", "pace", "wait", "sent", "done"}]
    BY DEF EndpointInv, Shape, TypeOK, Send, nature
  <2> QED
    BY <1>2, <2>1, <2>2, <2>3 DEF EndpointInv, Shape, TypeOK, nature
<1>4. PaceInv'
  <2>1. PICK at \in [Calls -> Int] : Reserves(at)
    BY DEF EndpointInv, PaceInv
  <2>2. at[c] \in Int /\ tokens <= at[c] /\ at[c] + r <= budget /\ at[c] >= 0
    BY <1>2, <2>1 DEF Reserves, r
  <2>3. [d \in Calls |-> IF at[d] >= at[c] + r THEN at[d] - r ELSE at[d]] \in [Calls -> Int]
    BY <1>1, <2>1, <2>2
  <2>4. PICK new \in [Calls -> Int] :
            \A d \in Calls : new[d] = IF at[d] >= at[c] + r THEN at[d] - r ELSE at[d]
    BY <2>3
  <2>5. \A d \in Calls : Requests(d)' = Requests(d) /\ Requests(d) \in Nat
    BY <1>2, RequestsBounded DEF Requests
  <2>6. ASSUME NEW d \in Calls, pc'[d] = "wait"
        PROVE  /\ at[d] \in Int /\ d # c /\ pc[d] = "wait" /\ due[d] \in Nat
               /\ tokens <= at[d] /\ at[d] + Requests(d) <= budget
               /\ IF due[d] = 0 THEN at[d] >= 0 ELSE at[d] = -due[d]
               /\ at[c] + r <= at[d] \/ at[d] + Requests(d) <= at[c]
    <3>1. d # c /\ pc[d] = "wait" /\ due[d] \in Nat
      BY <1>2, <2>6 DEF EndpointInv, Shape, TypeOK, nature
    <3> QED
      BY <1>2, <2>1, <3>1 DEF Reserves, r
  <2>7. ASSUME NEW d \in Calls, pc'[d] = "wait"
        PROVE  /\ tokens <= new[d] /\ new[d] + Requests(d) <= budget'
               /\ IF due[d] = 0 THEN new[d] >= 0 ELSE new[d] = -due[d]
    <3>1. Requests(d) \in Nat /\ at[d] \in Int /\ due[d] \in Nat
      BY <2>5, <2>6, <2>7
    <3>2. CASE at[d] >= at[c] + r
      <4>1. new[d] = at[d] - r
        BY <2>4, <3>2
      <4>2. due[d] = 0
        BY <1>1, <2>2, <2>6, <2>7, <3>1, <3>2
      <4> QED
        BY <1>1, <1>2, <2>2, <2>6, <2>7, <3>1, <3>2, <4>1, <4>2
    <3>3. CASE ~(at[d] >= at[c] + r)
      <4>1. new[d] = at[d] /\ at[d] + Requests(d) <= at[c]
        BY <1>1, <2>2, <2>4, <2>6, <2>7, <3>1, <3>3
      <4> QED
        BY <1>1, <1>2, <2>2, <2>6, <2>7, <3>1, <4>1
    <3> QED
      BY <3>2, <3>3
  <2>8. ASSUME NEW d \in Calls, NEW e \in Calls, d # e, pc'[d] = "wait", pc'[e] = "wait"
        PROVE  new[d] + Requests(d) <= new[e] \/ new[e] + Requests(e) <= new[d]
    <3>1. at[d] + Requests(d) <= at[e] \/ at[e] + Requests(e) <= at[d]
      BY <2>1, <2>6, <2>8 DEF Reserves
    <3>2. /\ at[d] \in Int /\ at[e] \in Int /\ Requests(d) \in Nat /\ Requests(e) \in Nat
          /\ at[c] + r <= at[d] \/ at[d] + Requests(d) <= at[c]
          /\ at[c] + r <= at[e] \/ at[e] + Requests(e) <= at[c]
          /\ new[d] = IF at[d] >= at[c] + r THEN at[d] - r ELSE at[d]
          /\ new[e] = IF at[e] >= at[c] + r THEN at[e] - r ELSE at[e]
      BY <2>4, <2>5, <2>6, <2>8
    <3> QED
      BY <1>1, <2>2, <3>1, <3>2
  <2>9. Reserves(new)'
    BY <1>2, <2>5, <2>7, <2>8 DEF Reserves
  <2>10. tokens' <= budget' /\ BudgetKept'
    BY <1>1, <1>2, <2>2 DEF BudgetKept
  <2> QED
    BY <2>4, <2>9, <2>10 DEF PaceInv
<1>5. CallInv(c)'
  BY <1>2 DEF EndpointInv, CallInv, IdsInv, OutInv
<1>6. ASSUME NEW d \in Calls, d # c PROVE CallInv(d)'
  BY <1>2, <1>6, OthersKeep DEF SameCall, EndpointInv
<1> QED
  BY <1>3, <1>4, <1>5, <1>6 DEF EndpointInv

(* Time: what is waited for lies below zero, and so moves up with the tokens although *)
(* the budget is full.                                                                *)
LEMMA TickStep == ASSUME EndpointInv, Tick PROVE EndpointInv'
<1>1. tokens \in Int /\ budget \in Int /\ budget <= Capacity /\ Capacity \in Nat /\ tokens <= budget
      /\ due \in [Calls -> Nat] /\ budget >= 0
  BY EndpointAssumption DEF EndpointInv, Shape, TypeOK, PaceInv, BudgetKept, nature
<1>2. /\ tokens' = IF Capacity <= tokens + 1 THEN Capacity ELSE tokens + 1
      /\ budget' = IF Capacity <= budget + 1 THEN Capacity ELSE budget + 1
  <2>1. Capacity \in Int /\ tokens + 1 \in Int /\ budget + 1 \in Int
    BY <1>1
  <2> QED
    BY <2>1, MinOfTwo DEF Tick
<1>3. ASSUME NEW c \in Calls PROVE due'[c] = IF 0 >= due[c] - 1 THEN 0 ELSE due[c] - 1
  <2>1. 0 \in Int /\ due[c] - 1 \in Int /\ due'[c] = Max({0, due[c] - 1})
    BY <1>1 DEF Tick
  <2> QED
    BY <2>1, MaxOfTwo
<1>4. due' \in [Calls -> Nat]
  <2>1. \A c \in Calls : due'[c] \in Nat
    BY <1>1, <1>3
  <2>2. due' = [c \in Calls |-> due'[c]]
    BY DEF Tick
  <2> QED
    BY <2>1, <2>2
<1>5. UNCHANGED <<nextID, noBatch, nature, pc, trip, ids, attempt, replies, out, result>>
  BY DEF Tick
<1>6. Shape'
  <2>1. tokens' \in Int /\ tokens' <= Capacity /\ budget' \in Int /\ budget' <= Capacity
    BY <1>1, <1>2
  <2> QED
    BY <1>4, <1>5, <2>1 DEF EndpointInv, Shape, TypeOK, nature
<1>7. PaceInv'
  <2>1. PICK at \in [Calls -> Int] : Reserves(at)
    BY DEF EndpointInv, PaceInv
  <2>2. PICK new \in [Calls -> Int] : \A d \in Calls : new[d] = at[d] + 1
    <3>1. [d \in Calls |-> at[d] + 1] \in [Calls -> Int]
      BY <2>1
    <3> QED
      BY <3>1
  <2>3. \A d \in Calls : Requests(d)' = Requests(d) /\ Requests(d) \in Nat /\ Requests(d) <= Capacity
    BY <1>5, RequestsBounded DEF Requests
  <2>4. ASSUME NEW d \in Calls, pc'[d] = "wait"
        PROVE  /\ tokens' <= new[d] /\ new[d] + Requests(d) <= budget'
               /\ IF due'[d] = 0 THEN new[d] >= 0 ELSE new[d] = -due'[d]
    <3>1. due[d] \in Nat /\ due[d] > 0 /\ at[d] \in Int /\ pc[d] = "wait"
      BY <1>1, <1>5, <2>1, <2>4 DEF Tick
    <3>2. tokens <= at[d] /\ at[d] + Requests(d) <= budget /\ at[d] = -due[d]
      BY <2>1, <3>1 DEF Reserves
    <3>3. due'[d] = due[d] - 1
      BY <1>3, <3>1
    <3> QED
      BY <1>1, <1>2, <2>2, <2>3, <3>1, <3>2, <3>3
  <2>5. ASSUME NEW d \in Calls, NEW e \in Calls, d # e, pc'[d] = "wait", pc'[e] = "wait"
        PROVE  new[d] + Requests(d) <= new[e] \/ new[e] + Requests(e) <= new[d]
    <3>1. at[d] + Requests(d) <= at[e] \/ at[e] + Requests(e) <= at[d]
      BY <1>5, <2>1, <2>5 DEF Reserves
    <3> QED
      BY <2>1, <2>2, <2>3, <3>1
  <2>6. Reserves(new)'
    BY <2>3, <2>4, <2>5 DEF Reserves
  <2>7. tokens' <= budget' /\ BudgetKept'
    BY <1>1, <1>2 DEF BudgetKept
  <2> QED
    BY <2>2, <2>6, <2>7 DEF PaceInv
<1>8. ASSUME NEW d \in Calls PROVE CallInv(d)'
  BY <1>5, OthersKeep DEF SameCall, EndpointInv
<1> QED
  BY <1>6, <1>7, <1>8 DEF EndpointInv

(* What ends a round trip leaves the pacer and the other calls alone. *)
LEMMA EndStep ==
    ASSUME EndpointInv, NEW c \in Calls, Shape', CallInv(c)',
           UNCHANGED <<nextID, paceVars, trip, ids>>, pc'[c] # "wait",
           \A d \in Calls \ {c} : SameCall(d)
    PROVE  EndpointInv'
<1>1. PaceInv'
  <2>1. \A d \in Calls : pc'[d] = "wait" => pc[d] = "wait" /\ trip'[d] = trip[d]
    BY DEF SameCall
  <2> QED
    BY <2>1, PaceKeeps DEF EndpointInv
<1>2. ASSUME NEW d \in Calls, d # c PROVE CallInv(d)'
  BY <1>2, OthersKeep DEF EndpointInv
<1> QED
  BY <1>1, <1>2 DEF EndpointInv

(* A call that returns an error has no complete array of replies. *)
LEMMA FailedCall ==
    ASSUME EndpointInv, NEW c \in Calls, pc[c] # "done", pc'[c] = "done",
           result'[c] \in Outcomes \ {"none", "ok"},
           UNCHANGED <<trip, ids, replies, out>>
    PROVE  CallInv(c)'
<1>1. Len(Wanted[c]) \in Nat /\ Len(Wanted[c]) >= 1
  BY EndpointAssumption
<1>2. replies'[c] = <<>>
  BY DEF EndpointInv, CallInv, OutInv
<1>3. ~Complete(c)'
  BY <1>1, <1>2 DEF Complete, Answers
<1>4. IdsInv(c)' /\ OutInv(c)'
  BY DEF EndpointInv, CallInv, IdsInv, OutInv
<1> QED
  BY <1>3, <1>4 DEF CallInv

(* A rate limit: the call goes back to the pacer, or gives up at the last attempt. *)
LEMMA BusyStep == ASSUME EndpointInv, NEW c \in Calls, Busy(c) PROVE EndpointInv'
<1> USE DEF Busy, Fail
<1>1. /\ pc[c] = "sent" /\ attempt[c] \in 0..MaxAttempts /\ attempt[c] # MaxAttempts
      /\ MaxAttempts \in Nat \ {0} /\ attempt'[c] = attempt[c] + 1
  BY EndpointAssumption DEF EndpointInv, Shape, TypeOK, nature
<1>2. Shape'
  <2>1. attempt'[c] \in 0..MaxAttempts
    <3> HIDE DEF Busy
    <3> QED
      BY <1>1
  <2>2. attempt' \in [Calls -> 0..MaxAttempts]
    <3>1. attempt' = [attempt EXCEPT ![c] = attempt'[c]]
      BY <1>1
    <3> QED
      BY <2>1, <3>1 DEF EndpointInv, Shape
  <2>3. /\ pc' \in [Calls -> {"start", "request", "ask", "pace", "wait", "sent", "done"}]
        /\ result' \in [Calls -> Outcomes]
    BY DEF EndpointInv, Shape, TypeOK, Outcomes, nature
  <2>4. \A d \in Calls : attempt'[d] = MaxAttempts => pc'[d] = "done"
    <3>1. \A d \in Calls \ {c} : attempt'[d] = attempt[d] /\ pc'[d] = pc[d]
      BY DEF EndpointInv, Shape, TypeOK, nature
    <3>2. attempt'[c] = MaxAttempts => pc'[c] = "done"
      BY <1>1 DEF EndpointInv, Shape, TypeOK, nature
    <3> QED
      BY <3>1, <3>2 DEF EndpointInv, Shape, TypeOK, nature
  <2>5. \A d \in Calls : result'[d] \in Outcomes
    BY <2>3
  <2>6. UNCHANGED <<nextID, noBatch, nature, paceVars, trip, ids, replies, out>>
    OBVIOUS
  <2>7. TypeOK'
    BY <2>2, <2>3, <2>4, <2>5, <2>6 DEF EndpointInv, Shape, TypeOK, Outcomes, paceVars, nature
  <2> HIDE DEF Busy
  <2> QED
    BY <2>2, <2>3, <2>6, <2>7 DEF EndpointInv, Shape
<1>3. CallInv(c)'
  <2>1. CASE attempt[c] + 1 = MaxAttempts
    <3>1. pc'[c] = "done" /\ result'[c] = "gave up"
      BY <2>1 DEF EndpointInv, Shape, TypeOK, nature
    <3> QED
      BY <1>1, <3>1, FailedCall DEF Outcomes
  <2>2. CASE attempt[c] + 1 # MaxAttempts
    <3>1. pc'[c] = "pace" /\ result' = result
      BY <2>2 DEF EndpointInv, Shape, TypeOK, nature
    <3> QED
      BY <1>1, <3>1 DEF EndpointInv, CallInv, IdsInv, OutInv
  <2> QED
    BY <2>1, <2>2
<1>4. pc'[c] # "wait" /\ \A d \in Calls \ {c} : SameCall(d)
  BY DEF EndpointInv, Shape, TypeOK, SameCall, nature
<1> QED
  BY <1>2, <1>3, <1>4, EndStep

(* The connection breaks, and the call ends. *)
LEMMA BreaksStep == ASSUME EndpointInv, NEW c \in Calls, Breaks(c) PROVE EndpointInv'
<1> USE DEF Breaks, Fail
<1>1. Shape'
  BY DEF EndpointInv, Shape, TypeOK, Outcomes, paceVars, nature
<1>2. pc[c] # "done" /\ pc'[c] = "done" /\ result'[c] = "broken"
  BY DEF EndpointInv, Shape, TypeOK, nature
<1>3. CallInv(c)'
  BY <1>2, FailedCall DEF Outcomes
<1>4. \A d \in Calls \ {c} : SameCall(d)
  BY DEF EndpointInv, Shape, TypeOK, SameCall, nature
<1> QED
  BY <1>1, <1>2, <1>3, <1>4, EndStep

(* The caller's context ends, and the call with it. *)
LEMMA CancelledStep == ASSUME EndpointInv, NEW c \in Calls, Cancelled(c) PROVE EndpointInv'
<1> USE DEF Cancelled, Fail
<1>1. Shape'
  BY DEF EndpointInv, Shape, TypeOK, Outcomes, paceVars, nature
<1>2. pc[c] # "done" /\ pc'[c] = "done" /\ result'[c] = "cancelled"
  BY DEF EndpointInv, Shape, TypeOK, nature
<1>3. CallInv(c)'
  BY <1>2, FailedCall DEF Outcomes
<1>4. \A d \in Calls \ {c} : SameCall(d)
  BY DEF EndpointInv, Shape, TypeOK, SameCall, nature
<1> QED
  BY <1>1, <1>2, <1>3, <1>4, EndStep

(* The endpoint answers with an error; refusing a batch takes it off batches. *)
LEMMA RefusesStep == ASSUME EndpointInv, NEW c \in Calls, Refuses(c) PROVE EndpointInv'
<1> USE DEF Refuses, Fail
<1>1. Shape'
  BY DEF EndpointInv, Shape, TypeOK, Outcomes, paceVars, nature
<1>3. pc[c] = "sent"
  OBVIOUS
<1>4. CallInv(c)'
  <2>1. CASE trip[c] = "batch"
    <3>1. pc'[c] = "ask" /\ result' = result
      BY <2>1 DEF EndpointInv, Shape, TypeOK, nature
    <3> QED
      BY <1>3, <3>1 DEF EndpointInv, CallInv, IdsInv, OutInv
  <2>2. CASE trip[c] # "batch"
    <3>1. pc'[c] = "done" /\ result'[c] = "refused"
      BY <2>2 DEF EndpointInv, Shape, TypeOK, nature
    <3> QED
      BY <1>3, <3>1, FailedCall DEF Outcomes
  <2> QED
    BY <2>1, <2>2
<1>5. pc'[c] # "wait" /\ \A d \in Calls \ {c} : SameCall(d)
  BY DEF EndpointInv, Shape, TypeOK, SameCall, nature
<1> QED
  BY <1>1, <1>4, <1>5, EndStep

(* An array of replies arrives, in any order and of any make-up. *)
LEMMA ArrayStep ==
    ASSUME EndpointInv, NEW c \in Calls, NEW rs \in Arrays(c), Array(c, rs)
    PROVE  EndpointInv'
<1>1. /\ pc[c] = "sent" /\ trip[c] = "batch" /\ replies'[c] = rs
      /\ replies' = [replies EXCEPT ![c] = rs]
      /\ pc' = [pc EXCEPT ![c] = "done"] /\ pc'[c] = "done"
      /\ UNCHANGED <<nextID, noBatch, nature, paceVars, trip, ids, attempt>>
  BY DEF EndpointInv, Shape, TypeOK, Array, Succeed, Fail, nature
<1>2. rs \in Seq([id : Nat, header : Headers \cup {NoHeader}])
  BY ArraysAreReplies DEF EndpointInv
<1>3. Len(ids[c]) = Len(Wanted[c]) /\ Wanted[c] \in Seq(Headers) /\ Shape
  BY <1>1, EndpointAssumption DEF EndpointInv, CallInv, IdsInv
<1> DEFINE right == \A i \in DOMAIN ids[c] : IsBlock(Matched(c, rs)[i], Wanted[c][i])
<1>4. CASE right
  <2>1. Matched(c, rs) = Wanted[c]
    BY <1>3, <1>4, MatchedIsWanted
  <2>2. out' = [out EXCEPT ![c] = Wanted[c]] /\ result' = [result EXCEPT ![c] = "ok"]
    BY <1>4, <2>1 DEF Array, Succeed
  <2>3. out'[c] = Wanted[c] /\ result'[c] = "ok"
    BY <2>2 DEF EndpointInv, Shape
  <2> HIDE DEF right
  <2>4. Shape'
    <3>1. out' \in [Calls -> Seq(Headers)] /\ result' \in [Calls -> Outcomes]
      BY <1>3, <2>2 DEF EndpointInv, Shape, Outcomes
    <3>2. replies' \in [Calls -> Seq([id : Nat, header : Headers \cup {NoHeader}])]
      BY <1>1, <1>2 DEF EndpointInv, Shape
    <3>3. \A d \in Calls : out'[d] \in Seq(Headers) /\ Len(out'[d]) <= Len(Wanted[d])
      <4>1. Len(Wanted[c]) \in Nat
        BY <1>3
      <4> QED
        BY <1>3, <2>2, <4>1 DEF EndpointInv, Shape, TypeOK, nature
    <3>4. /\ pc' \in [Calls -> {"start", "request", "ask", "pace", "wait", "sent", "done"}]
          /\ \A d \in Calls : attempt'[d] = MaxAttempts => pc'[d] = "done"
      BY <1>1 DEF EndpointInv, Shape, TypeOK, nature
    <3>5. \A d \in Calls : result'[d] \in Outcomes
      BY <3>1
    <3>6. TypeOK'
      BY <1>1, <3>3, <3>4, <3>5 DEF EndpointInv, Shape, TypeOK, Outcomes, paceVars, nature
    <3> QED
      BY <1>1, <3>1, <3>2, <3>6 DEF EndpointInv, Shape
  <2>5. CallInv(c)'
    <3>1. IdsInv(c)'
      BY <1>1 DEF EndpointInv, CallInv, IdsInv
    <3> QED
      BY <1>1, <2>3, <3>1 DEF CallInv, OutInv
  <2>6. \A d \in Calls \ {c} : SameCall(d)
    BY <1>1, <2>2 DEF EndpointInv, Shape, TypeOK, SameCall, nature
  <2> QED
    BY <1>1, <2>4, <2>5, <2>6, EndStep
<1>5. CASE ~right
  <2>1. out' = out /\ result' = [result EXCEPT ![c] = "bad reply"]
    BY <1>5 DEF Array, Fail
  <2>2. result'[c] = "bad reply"
    BY <2>1 DEF EndpointInv, Shape
  <2>3. ~Complete(c)'
    <3>1. SUFFICES ASSUME Complete(c)' PROVE FALSE
      OBVIOUS
    <3>2. Answers(c, rs)
      BY <1>1, <3>1 DEF Complete, Answers
    <3>3. IdsInv(c)
      BY DEF EndpointInv, CallInv
    <3> QED
      BY <1>2, <1>3, <1>5, <3>2, <3>3, CompleteMatches
  <2> HIDE DEF right
  <2>4. Shape'
    <3>1. result' \in [Calls -> Outcomes]
      BY <2>1 DEF EndpointInv, Shape, Outcomes
    <3>2. replies' \in [Calls -> Seq([id : Nat, header : Headers \cup {NoHeader}])]
      BY <1>1, <1>2 DEF EndpointInv, Shape
    <3>4. /\ pc' \in [Calls -> {"start", "request", "ask", "pace", "wait", "sent", "done"}]
          /\ \A d \in Calls : attempt'[d] = MaxAttempts => pc'[d] = "done"
      BY <1>1 DEF EndpointInv, Shape, TypeOK, nature
    <3>5. \A d \in Calls : result'[d] \in Outcomes
      BY <3>1
    <3>6. TypeOK'
      BY <1>1, <2>1, <3>4, <3>5 DEF EndpointInv, Shape, TypeOK, Outcomes, paceVars, nature
    <3> QED
      BY <1>1, <2>1, <3>1, <3>2, <3>6 DEF EndpointInv, Shape
  <2>5. CallInv(c)'
    <3>1. IdsInv(c)' /\ OutInv(c)'
      BY <1>1, <2>1, <2>2 DEF EndpointInv, CallInv, IdsInv, OutInv
    <3> QED
      BY <2>3, <3>1 DEF CallInv
  <2>6. \A d \in Calls \ {c} : SameCall(d)
    BY <1>1, <2>1 DEF EndpointInv, Shape, TypeOK, SameCall, nature
  <2> QED
    BY <1>1, <2>4, <2>5, <2>6, EndStep
<1> QED
  BY <1>4, <1>5

(* One reply arrives, for one header. *)
LEMMA SingleStep ==
    ASSUME EndpointInv, NEW c \in Calls, NEW header \in Headers \cup {NoHeader}, Single(c, header)
    PROVE  EndpointInv'
<1> DEFINE k == Len(out[c]) + 1
           asked == Wanted[c][k]
<1>1. /\ pc[c] = "sent" /\ trip[c] = "single" /\ Len(out[c]) \in Nat /\ Len(Wanted[c]) \in Nat
      /\ Len(out[c]) < Len(Wanted[c]) /\ Wanted[c] \in Seq(Headers) /\ out[c] \in Seq(Headers)
      /\ replies[c] = <<>> /\ result[c] = "none"
  <2>1. Wanted[c] \in Seq(Headers) /\ out[c] \in Seq(Headers)
    BY EndpointAssumption DEF EndpointInv, Shape
  <2>2. pc[c] = "sent" /\ trip[c] = "single"
    BY DEF Single
  <2> QED
    BY <2>1, <2>2 DEF EndpointInv, CallInv, OutInv
<1>2. k \in 1..Len(Wanted[c]) /\ asked \in Headers
  BY <1>1
<1>3. UNCHANGED <<nextID, noBatch, nature, paceVars, trip, ids, attempt, replies>>
  BY DEF Single
<1>4. CASE ~IsBlock(header, asked)
  <2>1. /\ out' = out /\ result' = [result EXCEPT ![c] = "bad reply"]
        /\ pc' = [pc EXCEPT ![c] = "done"]
    BY <1>4 DEF Single, Fail, Asked
  <2>2. Shape'
    BY <1>3, <2>1 DEF EndpointInv, Shape, TypeOK, Outcomes, paceVars, nature
  <2>3. pc'[c] = "done" /\ result'[c] = "bad reply"
    BY <2>1 DEF EndpointInv, Shape, TypeOK, nature
  <2>4. CallInv(c)'
    BY <1>1, <1>3, <2>1, <2>3, FailedCall DEF Outcomes
  <2>5. \A d \in Calls \ {c} : SameCall(d)
    BY <1>3, <2>1 DEF EndpointInv, Shape, TypeOK, SameCall, nature
  <2> QED
    BY <1>3, <2>2, <2>3, <2>4, <2>5, EndStep
<1>5. CASE IsBlock(header, asked)
  <2> DEFINE longer == Append(out[c], header)
  <2>1. header = asked
    BY <1>5 DEF IsBlock
  <2> HIDE DEF asked
  <2>2. longer \in Seq(Headers) /\ Len(longer) = k /\ longer[k] = asked
        /\ \A i \in 1..Len(out[c]) : longer[i] = out[c][i]
    BY <1>1, <1>2, <2>1
  <2> HIDE DEF longer
  <2>3. \A i \in 1..Len(longer) : longer[i] = Wanted[c][i]
    <3>1. ASSUME NEW i \in 1..Len(longer), i # k PROVE longer[i] = Wanted[c][i]
      <4>1. i \in 1..Len(out[c])
        BY <1>1, <2>2, <3>1
      <4> QED
        BY <2>2, <4>1 DEF EndpointInv, CallInv, OutInv
    <3> QED
      BY <2>2, <3>1 DEF asked
  <2>4. /\ out' = [out EXCEPT ![c] = longer]
        /\ IF k = Len(Wanted[c])
           THEN pc' = [pc EXCEPT ![c] = "done"] /\ result' = [result EXCEPT ![c] = "ok"]
           ELSE pc' = [pc EXCEPT ![c] = "ask"] /\ result' = result
    BY <1>5 DEF Single, Succeed, longer, asked, Asked
  <2>5. out'[c] = longer /\ \A d \in Calls \ {c} : out'[d] = out[d]
    BY <2>4 DEF EndpointInv, Shape
  <2>6. Shape'
    <3>1. out' \in [Calls -> Seq(Headers)] /\ result' \in [Calls -> Outcomes]
      BY <2>2, <2>4 DEF EndpointInv, Shape, Outcomes
    <3>2. \A d \in Calls : out'[d] \in Seq(Headers) /\ Len(out'[d]) <= Len(Wanted[d])
      <4>1. Len(longer) <= Len(Wanted[c])
        BY <1>1, <1>2, <2>2
      <4> QED
        BY <2>2, <2>5, <4>1 DEF EndpointInv, Shape, TypeOK, nature
    <3>3. /\ pc' \in [Calls -> {"start", "request", "ask", "pace", "wait", "sent", "done"}]
          /\ \A d \in Calls : attempt'[d] = MaxAttempts => pc'[d] = "done"
      BY <1>1, <1>3, <2>4 DEF EndpointInv, Shape, TypeOK, nature
    <3>4. \A d \in Calls : result'[d] \in Outcomes
      BY <3>1
    <3>5. TypeOK'
      BY <1>3, <3>2, <3>3, <3>4 DEF EndpointInv, Shape, TypeOK, Outcomes, paceVars, nature
    <3> QED
      BY <1>3, <3>1, <3>5 DEF EndpointInv, Shape
  <2>7. CallInv(c)'
    <3>1. CASE k = Len(Wanted[c])
      <4>1. pc'[c] = "done" /\ result'[c] = "ok"
        BY <2>4, <3>1 DEF EndpointInv, Shape, TypeOK, nature
      <4>2. longer = Wanted[c]
        BY <1>1, <2>2, <2>3, <3>1, SeqEqual
      <4>3. IdsInv(c)'
        BY <1>3, <4>1 DEF EndpointInv, CallInv, IdsInv
      <4> QED
        BY <2>3, <2>5, <4>1, <4>2, <4>3 DEF CallInv, OutInv
    <3>2. CASE k # Len(Wanted[c])
      <4>1. pc'[c] = "ask" /\ result'[c] = "none" /\ replies'[c] = <<>>
        BY <1>1, <1>3, <2>4, <3>2 DEF EndpointInv, Shape, TypeOK, nature
      <4>2. Len(longer) < Len(Wanted[c])
        BY <1>1, <1>2, <2>2, <3>2
      <4>3. IdsInv(c)'
        BY <1>3, <4>1 DEF EndpointInv, CallInv, IdsInv
      <4> QED
        BY <2>3, <2>5, <4>1, <4>2, <4>3 DEF CallInv, OutInv
    <3> QED
      BY <3>1, <3>2
  <2>8. pc'[c] # "wait" /\ \A d \in Calls \ {c} : SameCall(d)
    BY <1>3, <2>4 DEF EndpointInv, Shape, TypeOK, SameCall, nature
  <2> QED
    BY <1>3, <2>6, <2>7, <2>8, EndStep
<1> QED
  BY <1>4, <1>5

-----------------------------------------------------------------------------
(* The theorems.                                                              *)

(* Every step keeps the invariant. *)
LEMMA EndpointStep == ASSUME EndpointInv, [Next]_vars PROVE EndpointInv'
<1>1. CASE UNCHANGED vars
  BY <1>1, StutterStep
<1>2. CASE Tick
  BY <1>2, TickStep
<1>3. CASE Returned
  BY <1>3, StutterStep DEF Returned
<1>4. CASE Recovers
  BY <1>4, RecoversStep
<1>5. ASSUME NEW c \in Calls, Begin(c) \/ Request(c) \/ Ask(c) \/ Charge(c) \/ Send(c)
      PROVE  EndpointInv'
  BY <1>5, BeginStep, RequestStep, AskStep, ChargeStep, SendStep
<1>6. ASSUME NEW c \in Calls, Ends(c)
      PROVE  EndpointInv'
  <2>1. CASE Busy(c) \/ Breaks(c) \/ Cancelled(c) \/ Refuses(c)
    BY <2>1, BusyStep, BreaksStep, CancelledStep, RefusesStep
  <2>2. ASSUME NEW rs \in Arrays(c), Array(c, rs)
        PROVE  EndpointInv'
    BY <2>2, ArrayStep
  <2>3. ASSUME NEW header \in Headers \cup {NoHeader}, Single(c, header)
        PROVE  EndpointInv'
    BY <2>3, SingleStep
  <2> QED
    BY <1>6, <2>1, <2>2, <2>3 DEF Ends
<1> QED
  BY <1>1, <1>2, <1>3, <1>4, <1>5, <1>6 DEF Next, Call

(* The invariant always holds. *)
LEMMA EndpointInductive == Spec => []EndpointInv
BY EndpointInit, EndpointStep, PTL DEF Spec

(* The shapes of the variables; and a round trip that was turned away MaxAttempts *)
(* times is over (chain/rpc.go, roundTrip).                                       *)
THEOREM EndpointTypeCorrect == Spec => []TypeOK
<1>1. EndpointInv => TypeOK
  BY DEF EndpointInv, Shape
<1> QED
  BY <1>1, EndpointInductive, PTL

(* blocksByNumber returns the headers that were asked for, each in its place, whatever *)
(* the endpoint answers and in whatever order; and a complete array of replies, in any *)
(* order, is a success (chain/rpc.go, callBatch).                                      *)
THEOREM HeadersAreAsAsked == Spec => []HeadersAsAsked
<1>1. EndpointInv => HeadersAsAsked
  BY DEF EndpointInv, CallInv, OutInv, Complete, Answers, HeadersAsAsked
<1> QED
  BY <1>1, EndpointInductive, PTL

(* The pacer never lets more calls through than an endpoint of the same rate and *)
(* capacity takes, however many callers wait, retry or give up (chain/rpc.go,    *)
(* pacer.wait).                                                                  *)
THEOREM PacerKeepsTheBudget == Spec => []BudgetKept
<1>1. EndpointInv => BudgetKept
  BY DEF EndpointInv, PaceInv
<1> QED
  BY <1>1, EndpointInductive, PTL

-----------------------------------------------------------------------------
(* Who began since the endpoint is well.                                      *)

(* The endpoint does not fall back into trouble, and whoever began since has not failed. *)
ServedInv == ServedOnceWell /\ \A c \in Calls : relied[c] => well

(* Nobody has begun. *)
LEMMA ServedInit == ASSUME Init PROVE ServedInv
BY DEF Init, ServedInv, ServedOnceWell

(* A step that begins no call may do to c only what is not a failure, if c began since *)
(* the endpoint is well.                                                               *)
LEMMA ServedKeeps ==
    ASSUME EndpointInv, ServedInv, NEW c \in Calls, UNCHANGED nature,
           \A d \in Calls \ {c} : result'[d] = result[d] /\ pc'[d] = pc[d],
           (well /\ pc'[c] = "done") => result'[c] \in {"ok", "cancelled"}
    PROVE  ServedInv'
BY DEF ServedInv, ServedOnceWell, nature

(* A rate limit is beyond the budget, which the pacer keeps. *)
LEMMA ServedBusy ==
    ASSUME EndpointInv, ServedInv, NEW c \in Calls, well => budget < 0, Busy(c)
    PROVE  ServedInv'
<1>1. ~well
  <2>1. ~(budget < 0)
    <3>1. budget \in Int /\ budget >= 0
      BY DEF EndpointInv, Shape, TypeOK, PaceInv, BudgetKept
    <3> QED
      BY <3>1
  <2> QED
    BY <2>1, Zenon
<1>2. UNCHANGED nature /\ \A d \in Calls \ {c} : result'[d] = result[d] /\ pc'[d] = pc[d]
  BY DEF EndpointInv, Shape, TypeOK, Busy, Fail
<1> QED
  BY <1>1, <1>2, ServedKeeps

(* A batch refused is not over. *)
LEMMA ServedRefuses ==
    ASSUME EndpointInv, ServedInv, NEW c \in Calls,
           well => trip[c] = "batch" /\ ~batches, Refuses(c)
    PROVE  ServedInv'
<1>1. UNCHANGED nature /\ \A d \in Calls \ {c} : result'[d] = result[d] /\ pc'[d] = pc[d]
  BY DEF EndpointInv, Shape, TypeOK, Refuses, Fail
<1>2. trip[c] = "batch" => pc'[c] # "done"
  BY DEF Refuses, EndpointInv, Shape, TypeOK
<1> QED
  BY <1>1, <1>2, ServedKeeps

(* Every header is in the array, under the id of its request. *)
LEMMA ServedArray ==
    ASSUME EndpointInv, ServedInv, NEW c \in Calls, NEW rs \in Arrays(c),
           well => batches /\ Answers(c, rs), Array(c, rs)
    PROVE  ServedInv'
<1>1. UNCHANGED nature /\ \A d \in Calls \ {c} : result'[d] = result[d] /\ pc'[d] = pc[d]
  BY DEF EndpointInv, Shape, TypeOK, Array, Succeed, Fail
<1>2. ASSUME well PROVE result'[c] = "ok"
  <2>1. Answers(c, rs) /\ Shape /\ IdsInv(c) /\ Len(ids[c]) = Len(Wanted[c])
    BY <1>2 DEF Array, EndpointInv, CallInv, IdsInv
  <2>2. rs \in Seq([id : Nat, header : Headers \cup {NoHeader}])
    BY <2>1, ArraysAreReplies
  <2>3. \A i \in DOMAIN ids[c] : IsBlock(Matched(c, rs)[i], Wanted[c][i])
    BY <2>1, <2>2, CompleteMatches
  <2>4. result' = [result EXCEPT ![c] = "ok"]
    BY <2>3 DEF Array, Succeed
  <2> QED
    BY <2>4 DEF EndpointInv, Shape
<1> QED
  BY <1>1, <1>2, ServedKeeps

(* The header is the one asked for. *)
LEMMA ServedSingle ==
    ASSUME EndpointInv, ServedInv, NEW c \in Calls, NEW header,
           well => header = Asked(c), Single(c, header)
    PROVE  ServedInv'
<1>1. UNCHANGED nature /\ \A d \in Calls \ {c} : result'[d] = result[d] /\ pc'[d] = pc[d]
  BY DEF EndpointInv, Shape, TypeOK, Single, Succeed, Fail
<1>2. ASSUME well PROVE pc'[c] = "done" => result'[c] = "ok"
  <2>1. IsBlock(header, Asked(c))
    BY <1>2 DEF IsBlock
  <2>2. pc' = [pc EXCEPT ![c] = "ask"] \/ result' = [result EXCEPT ![c] = "ok"]
    BY <2>1 DEF Single, Succeed
  <2> QED
    BY <2>2 DEF EndpointInv, Shape, TypeOK
<1> QED
  BY <1>1, <1>2, ServedKeeps

(* Every step keeps it. *)
LEMMA ServedStep == ASSUME EndpointInv, ServedInv, [Next]_vars PROVE ServedInv'
<1>1. CASE Tick \/ Returned \/ UNCHANGED vars
  BY <1>1 DEF Tick, Returned, vars, nature, ServedInv, ServedOnceWell
<1>2. CASE Recovers
  BY <1>2 DEF Recovers, ServedInv, ServedOnceWell
<1>3. ASSUME NEW c \in Calls, Begin(c) PROVE ServedInv'
  <2>1. pc'[c] # "done" /\ \A d \in Calls \ {c} : pc'[d] = pc[d]
    BY <1>3 DEF Begin, EndpointInv, Shape, TypeOK
  <2>2. relied'[c] = well /\ \A d \in Calls \ {c} : relied'[d] = relied[d]
    BY <1>3 DEF Begin, EndpointInv, Shape, TypeOK
  <2> QED
    BY <1>3, <2>1, <2>2 DEF Begin, ServedInv, ServedOnceWell
<1>4. ASSUME NEW c \in Calls, Request(c) \/ Ask(c) \/ Charge(c) \/ Send(c) PROVE ServedInv'
  <2>1. pc'[c] # "done" /\ \A d \in Calls \ {c} : pc'[d] = pc[d]
    BY <1>4 DEF Request, Ask, Charge, Send, EndpointInv, Shape, TypeOK
  <2>2. UNCHANGED <<nature, result>>
    BY <1>4 DEF Request, Ask, Charge, Send
  <2> QED
    BY <2>1, <2>2, ServedKeeps
<1>5. ASSUME NEW c \in Calls, Ends(c) PROVE ServedInv'
  <2>1. CASE ~well /\ Breaks(c)
    BY <2>1, ServedKeeps DEF Breaks, Fail, EndpointInv, Shape, TypeOK
  <2>2. CASE Cancelled(c)
    BY <2>2, ServedKeeps DEF Cancelled, Fail, EndpointInv, Shape, TypeOK
  <2>3. CASE (well => budget < 0) /\ Busy(c)
    BY <2>3, ServedBusy
  <2>4. CASE (well => trip[c] = "batch" /\ ~batches) /\ Refuses(c)
    BY <2>4, ServedRefuses
  <2>5. ASSUME NEW rs \in Arrays(c), well => batches /\ Answers(c, rs), Array(c, rs)
        PROVE  ServedInv'
    BY <2>5, ServedArray
  <2>6. ASSUME NEW header \in Headers \cup {NoHeader}, Single(c, header), well => header = Asked(c)
        PROVE  ServedInv'
    BY <2>6, ServedSingle
  <2> QED
    BY <1>5, <2>1, <2>2, <2>3, <2>4, <2>5, <2>6 DEF Ends
<1> QED
  BY <1>1, <1>2, <1>3, <1>4, <1>5 DEF Next, Call

(* A call that begins once the endpoint is well returns its headers or is cancelled by *)
(* its caller: it does not fail for what earlier calls met, for the noBatch they left, *)
(* for what the other calls do at the same time, nor for a rate limit they run into    *)
(* together (chain/reader.go, blocksByNumber; chain/rpc.go, callBatch and pacer.wait). *)
THEOREM WellEndpointServes == Spec => []ServedOnceWell
<1>1. ServedInv => ServedOnceWell
  BY DEF ServedInv
<1> QED
  BY <1>1, EndpointInductive, EndpointStep, ServedInit, ServedStep, PTL DEF Spec
=============================================================================
