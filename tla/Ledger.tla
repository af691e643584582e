------------------------------- MODULE Ledger -------------------------------
(***************************************************************************)
(* The Ledger: time-weighted average balances, Epoch after Epoch, in one   *)
(* pass over the transfers (internal/twab/ledger.go), beside Replay, which *)
(* starts over for each Epoch (internal/twab/replay.go) and is what the    *)
(* rules mean.                                                             *)
(*                                                                         *)
(* Both walk the same transfers in the same order, so the Replay of every  *)
(* Epoch is stepped along with the Ledger: replays[e] is the state Replay  *)
(* of Epoch e is in after the transfers the Ledger has applied.            *)
(***************************************************************************)
EXTENDS Integers, Sequences, FiniteSetsExt

CONSTANTS
    Accounts,       \* the addresses, the zero address apart
    Zero,           \* zeroAddress, the counterparty of mints and burns
    EpochSeconds,   \* 3600
    MaxEpoch,       \* bound: the last Epoch asked for
    Histories,      \* the transfer streams a Ledger may be given
    Exclusions      \* the ExcludedAppended streams it may be given

ASSUME LedgerAssumption ==
    /\ Zero \notin Accounts
    /\ EpochSeconds \in Nat \ {0}
    /\ MaxEpoch \in Nat

Epochs    == 0..MaxEpoch
Transfer  == [time : Nat, from : Accounts \cup {Zero}, to : Accounts \cup {Zero}, value : Int]
Exclusion == [time : Nat, account : Accounts]

ASSUME HistoryAssumption ==
    /\ Histories \subseteq Seq(Transfer)
    /\ Exclusions \subseteq SUBSET Exclusion

(* WindowOf: half open, and the end of one is the start of the next. *)
WindowStart(e) == e * EpochSeconds
WindowEnd(e)   == (e + 1) * EpochSeconds

-----------------------------------------------------------------------------
(* One address's standing, and what a transfer does to it in Epoch e.        *)

(* since is Idle for an address that is not on the active list: the code leaves   *)
(* the old value there and overwrites it before reading it. firstBuyAt is Never   *)
(* where the code's bought is false.                                              *)
Idle    == -1
Never   == -1
Instant == Nat \cup {-1}

Standing == [balance : Int, since : Instant, weighted : Int, firstBuyAt : Instant, lastSellAt : Nat]

(* An address not in the map yet. *)
Nobody == [balance |-> 0, since |-> Idle, weighted |-> 0, firstBuyAt |-> Never, lastSellAt |-> 0]

Listed(s) == s.since # Idle

(* at: a standing that was idle rejoins at the window's opening. *)
At(s, e) == IF Listed(s) THEN s ELSE [s EXCEPT !.since = WindowStart(e)]

(* What the balance of s weighs over the sub-interval that ends at ts. *)
Area(s, ts) == (ts - s.since) * s.balance

(* Mutant: time before the window counts. *)
AccrueAlways(s, ts) == [s EXCEPT !.weighted = @ + Area(s, ts), !.since = ts]

(* accrueTo closes the sub-interval that ends at ts. *)
AccrueTo(s, ts) ==
    IF ts <= s.since THEN s ELSE [s EXCEPT !.weighted = @ + Area(s, ts), !.since = ts]

Send(s, e, tr) ==
    LET p == AccrueTo(At(s, e), tr.time)
    IN [p EXCEPT !.balance = @ - tr.value, !.lastSellAt = tr.time]

Receive(s, e, tr) ==
    LET p == AccrueTo(At(s, e), tr.time)
    IN [p EXCEPT !.balance = @ + tr.value,
                 !.firstBuyAt = IF @ = Never THEN tr.time ELSE @]

(* apply, of a value that is not negative: nothing for zero, no standing for Zero. *)
Apply(st, e, tr) ==
    LET sent == IF tr.from = Zero THEN st ELSE [st EXCEPT ![tr.from] = Send(@, e, tr)]
    IN IF tr.value = 0 THEN st
       ELSE IF tr.to = Zero THEN sent
       ELSE [sent EXCEPT ![tr.to] = Receive(@, e, tr)]

(* Mutant: the accrual of the last Epoch asked for is carried over. *)
OpenCarried(s, e) ==
    IF Listed(s) THEN [s EXCEPT !.since = IF s.balance = 0 THEN Idle ELSE WindowStart(e)]
    ELSE s

(* open: accrual restarts, and a standing that holds nothing leaves the list. *)
OpenAt(s, e) ==
    IF Listed(s) THEN [s EXCEPT !.weighted = 0, !.since = IF s.balance = 0 THEN Idle ELSE WindowStart(e)]
    ELSE s

(* ExcludedAsOf: a set, where the code keeps it sorted and without repeats. *)
ExcludedAsOf(e, stream) == {x.account : x \in {y \in stream : y.time < WindowEnd(e)}}

(* holders: what is listed and weighs something, the open sub-interval closed. *)
Average(s, e) == AccrueTo(s, WindowEnd(e)).weighted \div EpochSeconds

HoldersOf(st, e, excluded) ==
    [a \in {x \in Accounts \ excluded : Listed(st[x]) /\ Average(st[x], e) > 0} |->
        [twab |-> Average(st[a], e), firstBuyAt |-> st[a].firstBuyAt, lastSellAt |-> st[a].lastSellAt]]

(* and it leaves the sub-interval closed. *)
ClosedAt(st, e, excluded) ==
    [a \in Accounts |-> IF Listed(st[a]) /\ a \notin excluded THEN AccrueTo(st[a], WindowEnd(e)) ELSE st[a]]

-----------------------------------------------------------------------------
VARIABLES
    ordered,     \* the transfers, by time
    exclusions,
    next,        \* how many of them were applied
    state,       \* the Ledger's standings
    block,       \* the time of the block being applied, or NoBlock
    moved,       \* who sent something in it
    epoch,       \* the Epoch whose window is open, or was last
    floor,       \* the earliest it still accepts
    failed,      \* a walk met a history that cannot be
    pc,          \* "idle" between calls, "walk" inside Advance
    reply,       \* of the last call: "none", "holders", "error"
    holders,     \* the Holders it returned
    replays,     \* the standings of Replay(e, ...), for every Epoch e
    broken       \* the Epochs whose Replay has failed

inputs  == <<ordered, exclusions>>
vars    == <<inputs, next, state, block, moved, epoch, floor, failed, pc, reply, holders, replays, broken>>
NoBlock == -1

(* The walk's next transfer, if one is left. *)
More    == next < Len(ordered)
Pending == ordered[next + 1]

(* Advance refuses an Epoch behind the floor, and everything once it failed. *)
Refuse(e) ==
    /\ pc = "idle"
    /\ failed \/ e < floor
    /\ reply' = "error" /\ holders' = <<>>
    /\ UNCHANGED <<inputs, next, state, block, moved, epoch, floor, failed, pc, replays, broken>>

Open(e) ==
    /\ pc = "idle"
    /\ ~failed /\ e >= floor
    /\ epoch' = e
    /\ state' = [a \in Accounts |-> OpenAt(state[a], e)]
    /\ pc' = "walk"
    /\ reply' = "none" /\ holders' = <<>>
    /\ UNCHANGED <<inputs, next, block, moved, floor, failed, replays, broken>>

Fail ==
    /\ failed' = TRUE
    /\ pc' = "idle" /\ reply' = "error"

(* Mutant: the zero address sends too. *)
SendersAny(tr) == IF tr.value = 0 THEN {} ELSE {tr.from}

(* Who moved: the sender of something, a mint has none. *)
Senders(tr) == IF tr.value = 0 THEN {} ELSE {tr.from} \ {Zero}

(* One transfer, before the boundary and of the block under way if there is one. *)
Step ==
    /\ pc = "walk"
    /\ More /\ Pending.time < WindowEnd(epoch)
    /\ block \in {NoBlock, Pending.time}
    /\ LET tr   == Pending
           sees == {e \in Epochs : tr.time < WindowEnd(e)}
       IN IF tr.value < 0
          THEN /\ Fail
               /\ broken' = broken \cup sees
               /\ UNCHANGED <<next, state, block, moved, replays>>
          ELSE /\ state' = Apply(state, epoch, tr)
               /\ replays' = [e \in Epochs |-> IF e \in sees THEN Apply(replays[e], e, tr) ELSE replays[e]]
               /\ moved' = moved \cup Senders(tr)
               /\ next' = next + 1
               /\ block' = tr.time
               /\ UNCHANGED <<failed, pc, reply, broken>>
    /\ UNCHANGED <<inputs, epoch, floor, holders>>

(* Mutant: judge who moved after every transfer. *)
SettleEarly ==
    /\ pc = "walk" /\ block # NoBlock
    /\ block' = NoBlock /\ moved' = {}
    /\ broken' = broken
    /\ IF \E a \in moved : state[a].balance < 0 THEN Fail ELSE UNCHANGED <<failed, pc, reply>>
    /\ UNCHANGED <<inputs, next, state, epoch, floor, holders, replays>>

(* settle: the block is complete, and nobody who sent in it may be overdrawn. *)
Settle ==
    /\ pc = "walk" /\ block # NoBlock
    /\ More => Pending.time # block
    /\ IF \E a \in moved : state[a].balance < 0
       THEN Fail ELSE UNCHANGED <<failed, pc, reply>>
    /\ broken' = broken \cup {e \in Epochs : /\ block < WindowEnd(e)
                                             /\ \E a \in moved : replays[e][a].balance < 0}
    /\ block' = NoBlock /\ moved' = {}
    /\ UNCHANGED <<inputs, next, state, epoch, floor, holders, replays>>

(* The boundary is reached: the Epoch closes. *)
Emit ==
    /\ pc = "walk" /\ block = NoBlock
    /\ More => Pending.time >= WindowEnd(epoch)
    /\ floor' = epoch + 1
    /\ LET excluded == ExcludedAsOf(epoch, exclusions)
       IN /\ holders' = HoldersOf(state, epoch, excluded)
          /\ state' = ClosedAt(state, epoch, excluded)
    /\ pc' = "idle" /\ reply' = "holders"
    /\ UNCHANGED <<inputs, next, block, moved, epoch, failed, replays, broken>>

(* sortedByTimestamp: ascending; how ties fall is left open. *)
Ascending(s)    == \A i, j \in 1..Len(s) : i < j => s[i].time <= s[j].time
SortedCopies(h) ==
    {s \in {[i \in 1..Len(h) |-> h[p[i]]] : p \in [1..Len(h) -> 1..Len(h)]} :
        /\ Ascending(s)
        /\ \A t \in {h[i] : i \in 1..Len(h)} :
              Cardinality({i \in 1..Len(h) : h[i] = t}) = Cardinality({i \in 1..Len(h) : s[i] = t})}

Init ==
    /\ \E h \in Histories : ordered \in SortedCopies(h)
    /\ exclusions \in Exclusions
    /\ next = 0 /\ block = NoBlock /\ moved = {}
    /\ state = [a \in Accounts |-> Nobody]
    /\ epoch = 0 /\ floor = 0 /\ failed = FALSE
    /\ pc = "idle" /\ reply = "none" /\ holders = <<>>
    /\ replays = [e \in Epochs |-> [a \in Accounts |-> Nobody]]
    /\ broken = {}

Next ==
    \/ \E e \in Epochs : Refuse(e) \/ Open(e)
    \/ Step \/ Settle \/ Emit

Spec == Init /\ [][Next]_vars

-----------------------------------------------------------------------------
(* What the rules ask of it, stated over the transfers themselves.           *)

Seen(ts) == {i \in 1..Len(ordered) : ordered[i].time <= ts}

(* The sum of the first n members of d. *)
SumTo(d, n) ==
    LET sum[i \in 0..n] == IF i = 0 THEN 0 ELSE sum[i - 1] + d[i]
    IN  sum[n]

(* What a transfer adds to what a holds. *)
Gain(a, tr) == (IF tr.to = a THEN tr.value ELSE 0) - (IF tr.from = a THEN tr.value ELSE 0)

(* What a holds from second ts on. *)
BalanceAt(a, ts) ==
    SumTo([i \in 1..Len(ordered) |-> IF i \in Seen(ts) THEN Gain(a, ordered[i]) ELSE 0], Len(ordered))

(* The integral over Epoch e, a second at a time. *)
TimeWeighted(a, e) ==
    SumTo([s \in 1..EpochSeconds |-> BalanceAt(a, WindowStart(e) + s - 1)], EpochSeconds) \div EpochSeconds

Bought(a, e) == {ordered[i].time : i \in {j \in Seen(WindowEnd(e) - 1) : ordered[j].to = a /\ ordered[j].value > 0}}
Sold(a, e)   == {ordered[i].time : i \in {j \in Seen(WindowEnd(e) - 1) : ordered[j].from = a /\ ordered[j].value > 0}}

(* The shapes of the variables; the zero address never moves anything. *)
TypeOK ==
    /\ ordered \in Seq(Transfer) /\ exclusions \in SUBSET Exclusion
    /\ next \in 0..Len(ordered)
    /\ state \in [Accounts -> Standing]
    /\ block \in Nat \cup {NoBlock} /\ moved \subseteq Accounts
    /\ epoch \in Epochs /\ floor \in 0..(MaxEpoch + 1) /\ failed \in BOOLEAN
    /\ pc \in {"idle", "walk"} /\ reply \in {"none", "holders", "error"}
    /\ replays \in [Epochs -> [Accounts -> Standing]] /\ broken \subseteq Epochs

(* The Ledger agrees with Replay: what Advance returns for an Epoch is what Replay *)
(* of that Epoch returns over the same history, whichever Epochs were closed or    *)
(* skipped before it. Both have seen exactly the transfers before the boundary.    *)
LedgerAgrees ==
    reply = "holders" =>
        /\ \A i \in 1..Len(ordered) : ordered[i].time < WindowEnd(epoch) <=> i <= next
        /\ epoch \notin broken
        /\ holders = HoldersOf(replays[epoch], epoch, ExcludedAsOf(epoch, exclusions))

(* The Holders of an Epoch are exactly the addresses not excluded before it closed *)
(* whose balance, integrated over its window, averages above zero, with their      *)
(* first buy and last sell before the boundary.                                    *)
IntegralExact ==
    reply = "holders" =>
        LET weighing == {a \in Accounts : TimeWeighted(a, epoch) > 0
                             /\ \A x \in exclusions : x.account = a => x.time >= WindowEnd(epoch)}
        IN /\ DOMAIN holders = weighing
           /\ \A a \in weighing :
                 holders[a] = [twab |-> TimeWeighted(a, epoch),
                               firstBuyAt |-> Min(Bought(a, epoch)),
                               lastSellAt |-> Max({0} \cup Sold(a, epoch))]

(* A history that cannot be: a negative value, or an overdraft at a second's end. *)
Unusable(e) ==
    \/ \E i \in Seen(WindowEnd(e) - 1) : ordered[i].value < 0
    \/ \E a \in Accounts, i \in Seen(WindowEnd(e) - 1) : BalanceAt(a, ordered[i].time) < 0

(* A walk to an Epoch's boundary fails exactly when a transfer before it has a     *)
(* negative value or leaves someone overdrawn at the end of its second; passing    *)
(* below zero inside one is no reason.                                             *)
RefusalJustified ==
    /\ reply = "holders" => ~Unusable(epoch)
    /\ failed => Unusable(epoch)
=============================================================================
