----------------------------- MODULE Distributor -----------------------------
(***************************************************************************)
(* The Distributor contract, as far as the Verifier depends on it: the     *)
(* book ledger() answers from, and the RootPosted stream. The contract is  *)
(* not part of this repository. What is modelled is what epoch/roots.go,   *)
(* epoch/engine.go and internal/report say they rely on: Roots are posted  *)
(* in order and after their Epoch closed, funding of an Epoch stops at the *)
(* mark, a Root passes over the Epochs it leaves behind, only the latest   *)
(* Root can be voided, and a Void keeps the funding.                       *)
(*                                                                         *)
(* One reward token stands for the five, which never mix. What the rules   *)
(* allocate to an Epoch's Holders is base less some dust; a Root is        *)
(* written as the base it was built over.                                  *)
(***************************************************************************)
EXTENDS Integers, Sequences, FiniteSetsExt

CONSTANTS
    MaxEpoch,      \* the Epochs are 1..MaxEpoch; the contract is deployed in 1
    Funding,       \* what an Epoch may be funded with
    Draws,         \* ids a Draw may have
    Populations,   \* which Epochs may have Holders with weight
    Dust,          \* what floors away: the remainder of base by Dust
    MaxLogs,       \* bound on the RootPosted logs
    MaxVoids       \* bound on the Voids

ASSUME DistributorAssumption ==
    /\ MaxEpoch \in Nat \ {0} /\ Funding \subseteq Nat \ {0}
    /\ Dust \in Nat \ {0} /\ MaxLogs \in Nat /\ MaxVoids \in Nat
    /\ Populations \subseteq [1..MaxEpoch -> BOOLEAN] /\ Draws \subseteq Nat

Epochs == 1..MaxEpoch
NoRoot == 0

VARIABLES
    eligible,   \* eligible[e]: has Epoch e a Holder with weight
    now,        \* the Epoch the head falls in
    height,     \* the head; the contract was deployed at block 0
    endBlock,   \* endBlock[e]: the last block of a closed Epoch
    funded,     \* funded[e], rootOf[e], skipped[e]: the book
    rootOf,
    skipped,
    mark,       \* the last Epoch settled by a Root
    voidable,   \* may the Root at the mark still be voided
    voids,      \* Voids so far
    logs        \* the RootPosted stream, in block order

contract == <<eligible, now, height, endBlock, funded, rootOf, skipped, mark, voidable, voids, logs>>

(* f[from] + ... + f[to], added up one by one. *)
Total(f, from, to) ==
    LET sum[n \in 0..to] == IF n < from THEN 0 ELSE sum[n - 1] + f[n]
    IN sum[to]

(* The rules over one Epoch: what alloc.Allocate makes of a base. *)
Allocated(e, base) == IF eligible[e] THEN base - (base % Dust) ELSE 0
RootOver(e, base)  == IF Allocated(e, base) = 0 THEN NoRoot ELSE base

(* What the Roots before e leave it, by definition: the dust of the last standing *)
(* Root, over the carryIn it was posted with, and the funding since.              *)
Standing == {e \in Epochs : rootOf[e] # NoRoot}
LogsOf(e) == {i \in DOMAIN logs : logs[i].kind = "epoch" /\ logs[i].id = e}
LogOf(e) == logs[Max(LogsOf(e))]
Left(p)  == LET base == funded[p] + LogOf(p).carryIn IN base - Allocated(p, base)
Owed(e)  ==
    LET before == {p \in Standing : p < e}
    IN IF before = {} THEN Total(funded, 1, e - 1)
       ELSE Left(Max(before)) + Total(funded, Max(before) + 1, e - 1)

-----------------------------------------------------------------------------
(* Time passes into the next Epoch. *)
Tick ==
    /\ now <= MaxEpoch
    /\ endBlock' = [endBlock EXCEPT ![now] = height]
    /\ now' = now + 1 /\ height' = height + 1
    /\ UNCHANGED <<eligible, funded, rootOf, skipped, mark, voidable, voids, logs>>

(* Funding of an Epoch not settled yet; bounded to once per Epoch. *)
Fund(e, amount) ==
    /\ e > mark /\ e <= now /\ funded[e] = 0
    /\ funded' = [funded EXCEPT ![e] = amount]
    /\ UNCHANGED <<eligible, now, height, endBlock, rootOf, skipped, mark, voidable, voids, logs>>

(* A Root for a closed Epoch past the mark, at most the Epoch's base, with whatever *)
(* root, totals and carryIn the poster chose. fair says they were the right ones.   *)
Post(e, root, totals, carryIn) ==
    /\ mark < e /\ e < now /\ Len(logs) < MaxLogs
    /\ root # NoRoot /\ totals >= 0 /\ totals <= funded[e] + carryIn
    /\ logs' = Append(logs,
            [kind |-> "epoch", id |-> e, root |-> root, totals |-> totals, carryIn |-> carryIn,
             block |-> height + 1,
             fair |-> LET base == funded[e] + Owed(e)
                      IN carryIn = Owed(e) /\ root = RootOver(e, base) /\ totals = Allocated(e, base)])
    /\ rootOf' = [rootOf EXCEPT ![e] = root]
    /\ skipped' = [i \in Epochs |-> skipped[i] \/ (mark < i /\ i < e /\ funded[i] > 0)]
    /\ mark' = e /\ voidable' = TRUE /\ height' = height + 1
    /\ UNCHANGED <<eligible, now, endBlock, funded, voids>>

(* The latest Root is voided; its Epoch may be posted again, its funding stays. *)
Void ==
    /\ voidable /\ voids < MaxVoids
    /\ rootOf' = [rootOf EXCEPT ![mark] = NoRoot]
    /\ mark' = mark - 1 /\ voidable' = FALSE /\ voids' = voids + 1 /\ height' = height + 1
    /\ UNCHANGED <<eligible, now, endBlock, funded, skipped, logs>>

(* The Draw's Roots share the stream and the topic. *)
PostDraw(id) ==
    /\ Len(logs) < MaxLogs /\ \A i \in DOMAIN logs : logs[i].kind # "draw"
    /\ logs' = Append(logs, [kind |-> "draw", id |-> id, root |-> -2, totals |-> 0,
                             carryIn |-> 0, block |-> height + 1, fair |-> FALSE])
    /\ height' = height + 1
    /\ UNCHANGED <<eligible, now, endBlock, funded, rootOf, skipped, mark, voidable, voids>>

InitContract ==
    /\ eligible \in Populations
    /\ now = 1 /\ height = 0
    /\ endBlock = [e \in Epochs |-> 0]
    /\ funded = [e \in Epochs |-> 0]
    /\ rootOf = [e \in Epochs |-> NoRoot]
    /\ skipped = [e \in Epochs |-> FALSE]
    /\ mark = 0 /\ voidable = FALSE /\ voids = 0 /\ logs = <<>>

(* A poster that means well, one that carries too much, and ones that post some *)
(* other tree or some other totals.                                             *)
Posts(e) ==
    \E carryIn \in {Owed(e), Owed(e) + 1} :
        LET base == funded[e] + carryIn
        IN \/ Post(e, RootOver(e, base), Allocated(e, base), carryIn)
           \/ carryIn = Owed(e) /\ Post(e, -1, Allocated(e, base), carryIn)
           \/ carryIn = Owed(e) /\ Post(e, RootOver(e, base), Allocated(e, base) - 1, carryIn)

Move ==
    \/ Tick \/ Void
    \/ \E e \in Epochs : Posts(e) \/ \E amount \in Funding : Fund(e, amount)
    \/ \E id \in Draws : PostDraw(id)
=============================================================================
