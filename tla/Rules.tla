------------------------------- MODULE Rules -------------------------------
(***************************************************************************)
(* From an Epoch's Holders to the Root and back: Allocate weighs them,     *)
(* divides what there is, leaves out who gets nothing (internal/alloc/),   *)
(* and builds the Merkle tree (merkle/tree.go), from which a claimant then *)
(* derives a proof and checks it as the Distributor does.                  *)
(*                                                                         *)
(* Loops are steps. Holders come in ascending order of their accounts, as  *)
(* the Ledger emits them.                                                  *)
(***************************************************************************)
EXTENDS Integers, Sequences, FiniteSets

CONSTANTS
    Accounts,          \* addresses, as numbers
    DevWallet,         \* the one held at 1.00x; may be no account
    Tokens,            \* the reward tokens
    End,               \* when the Epoch closes
    Holdings,          \* what the Ledger may say of a Holder
    Fundings,          \* what an Epoch may be funded with, and carried into it
    LeafHash(_),       \* leafHashOf: the hash of a claim
    Keccak(_, _),      \* the hash of two hashes, in this order
    Less(_, _)         \* bytes.Compare of two hashes

Holder == [account : Accounts, twab : Nat \ {0}, firstBuyAt : 0..End, lastSellAt : 0..End]

ASSUME RulesAssumption ==
    /\ Accounts \subseteq Nat /\ End \in Nat
    /\ \A holders \in Holdings :
          /\ holders \in Seq(Holder)
          /\ \A i, j \in 1..Len(holders) : i < j => holders[i].account < holders[j].account
    /\ \A f \in Fundings : f \in [Tokens -> Nat]

VARIABLES
    funded, carryIn,   \* Params.Funded and Params.CarryIn
    holders,           \* the Epoch's Holders
    pc,                \* the loop Allocate, New, Proof or Verify is in
    i,                 \* and where in it
    weight,            \* weight[h]: of the h-th row
    W,                 \* Result.TotalWeight
    amounts,           \* amounts[h][t]: of the h-th row
    claims,            \* Result.Allocations: the rows that are left, by their index
    totals, carryOut,
    nodes,             \* Tree.nodes, from index 0
    leafAt,            \* Tree.leafAt
    asked, shown,      \* the claim a proof is asked for, and the one it is shown with
    proof,
    computed           \* Verify's hash so far

inVars    == <<funded, carryIn, holders>>
rowVars   == <<weight, W, amounts>>
allocVars == <<claims, totals, carryOut>>
treeVars  == <<nodes, leafAt>>
proofVars == <<asked, shown, proof, computed>>
vars      == <<inVars, pc, i, rowVars, allocVars, treeVars, proofVars>>

Rows == 1..Len(holders)

-----------------------------------------------------------------------------
(* Allocate.                                                                 *)

secondsPerDay == 86400
StreakWeek    == 7
StreakMonth   == 30

(* Mutant: a sale does not end the streak. *)
SinceBought(h) == h.firstBuyAt

(* Since when the Holder has held without sending. *)
Since(h) == IF h.lastSellAt > h.firstBuyAt THEN h.lastSellAt ELSE h.firstBuyAt

StreakDays(h) == (End - Since(h)) \div secondsPerDay

(* The Multiplier in basis points; the dev wallet's is flat. *)
MultBps(h) ==
    IF h.account = DevWallet THEN 10000
    ELSE IF StreakDays(h) >= StreakMonth THEN 15000
    ELSE IF StreakDays(h) >= StreakWeek THEN 12500
    ELSE 10000

(* Mutant: the Carry is left to the next Epoch. *)
BaseOfFunding(t) == funded[t]

(* What is divided: the funding and the Carry. *)
base(t) == funded[t] + carryIn[t]

Weigh ==
    /\ pc = "weigh" /\ i <= Len(holders)
    /\ LET w == holders[i].twab * MultBps(holders[i])
       IN /\ weight' = Append(weight, w)
          /\ W' = W + w
    /\ i' = i + 1
    /\ UNCHANGED <<inVars, pc, amounts, allocVars, treeVars, proofVars>>

(* Mutant: to the nearest unit. *)
ShareRounded(t, w) == (base(t) * w + W \div 2) \div W

Share(t, w) == (base(t) * w) \div W

Divide ==
    /\ pc = "divide" /\ i <= Len(holders)
    /\ amounts' = Append(amounts, [t \in Tokens |-> Share(t, weight[i])])
    /\ i' = i + 1
    /\ UNCHANGED <<inVars, pc, weight, W, allocVars, treeVars, proofVars>>

isEmpty(row) == \A t \in Tokens : row[t] = 0

(* Who gets nothing of any token is left out, last of all. *)
Omit ==
    /\ pc = "omit" /\ i <= Len(holders)
    /\ IF isEmpty(amounts[i])
       THEN UNCHANGED <<claims, totals>>
       ELSE /\ claims' = Append(claims, i)
            /\ totals' = [t \in Tokens |-> totals[t] + amounts[i][t]]
    /\ i' = i + 1
    /\ UNCHANGED <<inVars, pc, rowVars, carryOut, treeVars, proofVars>>

(* One loop of Allocate is over, and the next one starts. *)
NextLoop ==
    /\ i > Len(holders)
    /\ \/ pc = "weigh" /\ pc' = "divide"
       \/ pc = "divide" /\ pc' = "omit"
    /\ i' = 1
    /\ UNCHANGED <<inVars, rowVars, allocVars, treeVars, proofVars>>

(* What is left is the Carry; with no claim there is no Root. *)
Settle ==
    /\ pc = "omit" /\ i > Len(holders)
    /\ carryOut' = [t \in Tokens |-> base(t) - totals[t]]
    /\ pc' = IF claims = <<>> THEN "done" ELSE "leaves"
    /\ UNCHANGED <<inVars, i, rowVars, claims, totals, treeVars, proofVars>>

-----------------------------------------------------------------------------
(* merkle.New.                                                               *)

Size == Len(claims)

Claim(c) == [account |-> holders[claims[c]].account, amounts |-> amounts[claims[c]]]
Leaf(c)  == LeafHash(Claim(c))

(* The place of the c-th claim's leaf among the sorted ones, from 0; stable. *)
Place(c) ==
    Cardinality({d \in 1..Size : Less(Leaf(d), Leaf(c)) \/ (Leaf(d) = Leaf(c) /\ d < c)})

(* Leaves fill the tail back to front. *)
Leaves ==
    /\ pc = "leaves"
    /\ leafAt' = [c \in 1..Size |-> 2 * Size - 2 - Place(c)]
    /\ nodes' = [k \in (Size - 1)..(2 * Size - 2) |-> Leaf(CHOOSE c \in 1..Size : leafAt'[c] = k)]
    /\ i' = Size - 2
    /\ pc' = "hash"
    /\ UNCHANGED <<inVars, rowVars, allocVars, proofVars>>

(* Mutant: the pair as it comes. *)
HashUnsorted(a, b) == Keccak(a, b)

(* hashPair: in ascending order. *)
HashPair(a, b) == IF Less(b, a) THEN Keccak(b, a) ELSE Keccak(a, b)

Hash ==
    /\ pc = "hash" /\ i >= 0
    /\ nodes' = [k \in i..(2 * Size - 2) |->
                    IF k = i THEN HashPair(nodes[2 * i + 1], nodes[2 * i + 2]) ELSE nodes[k]]
    /\ i' = i - 1
    /\ UNCHANGED <<inVars, pc, rowVars, allocVars, leafAt, proofVars>>

Root == nodes[0]

-----------------------------------------------------------------------------
(* Proof and Verify.                                                         *)

(* A claimant asks for a proof of one claim, and it is shown with some claim. *)
Ask(c, d) ==
    /\ pc = "hash" /\ i < 0
    /\ asked' = c /\ shown' = d
    /\ i' = leafAt[c]
    /\ pc' = "proof"
    /\ UNCHANGED <<inVars, rowVars, allocVars, treeVars, proof, computed>>

siblingIndex(at) == IF at % 2 = 0 THEN at - 1 ELSE at + 1

Proof ==
    /\ pc = "proof" /\ i > 0
    /\ proof' = Append(proof, nodes[siblingIndex(i)])
    /\ i' = (i - 1) \div 2
    /\ UNCHANGED <<inVars, pc, rowVars, allocVars, treeVars, asked, shown, computed>>

Show ==
    /\ pc = "proof" /\ i = 0
    /\ computed' = Leaf(shown)
    /\ i' = 1
    /\ pc' = "verify"
    /\ UNCHANGED <<inVars, rowVars, allocVars, treeVars, asked, shown, proof>>

Verify ==
    /\ pc = "verify" /\ i <= Len(proof)
    /\ computed' = HashPair(computed, proof[i])
    /\ i' = i + 1
    /\ UNCHANGED <<inVars, pc, rowVars, allocVars, treeVars, asked, shown, proof>>

Verified ==
    /\ pc = "verify" /\ i > Len(proof)
    /\ pc' = "done"
    /\ UNCHANGED <<inVars, i, rowVars, allocVars, treeVars, proofVars>>

(* Nothing is left to do. *)
Done == pc = "done" /\ UNCHANGED vars

-----------------------------------------------------------------------------
Init ==
    /\ funded \in Fundings /\ carryIn \in Fundings /\ holders \in Holdings
    /\ pc = "weigh" /\ i = 1
    /\ weight = <<>> /\ W = 0 /\ amounts = <<>>
    /\ claims = <<>>
    /\ totals = [t \in Tokens |-> 0] /\ carryOut = [t \in Tokens |-> 0]
    /\ nodes = <<>> /\ leafAt = <<>>
    /\ asked = 0 /\ shown = 0 /\ proof = <<>> /\ computed = <<>>

Next ==
    \/ Weigh \/ Divide \/ Omit \/ NextLoop \/ Settle
    \/ Leaves \/ Hash
    \/ \E c, d \in 1..Size : Ask(c, d)
    \/ Proof \/ Show \/ Verify \/ Verified
    \/ Done

Spec == Init /\ [][Next]_vars

-----------------------------------------------------------------------------
Settled == pc \in {"leaves", "hash", "proof", "verify", "done"}

(* The shapes of the variables: nothing ever becomes negative, and every leaf has a *)
(* node of its own in the tail of the tree.                                         *)
TypeOK ==
    /\ funded \in [Tokens -> Nat] /\ carryIn \in [Tokens -> Nat] /\ holders \in Seq(Holder)
    /\ pc \in {"weigh", "divide", "omit", "leaves", "hash", "proof", "verify", "done"}
    /\ i \in Int
    /\ weight \in Seq(Nat) /\ W \in Nat /\ amounts \in Seq([Tokens -> Nat])
    /\ claims \in Seq(Rows)
    /\ totals \in [Tokens -> Nat] /\ carryOut \in [Tokens -> Nat]
    /\ leafAt # <<>> =>
          /\ leafAt \in [1..Size -> (Size - 1)..(2 * Size - 2)]
          /\ \A c, d \in 1..Size : leafAt[c] = leafAt[d] => c = d
    /\ asked \in 0..Size /\ shown \in 0..Size

(* What the claims add up to, token by token. *)
Paid(t) ==
    LET paid[c \in 0..Size] == IF c = 0 THEN 0 ELSE paid[c - 1] + amounts[claims[c]][t]
    IN  paid[Size]

(* No unit is lost or made up: what the claims in the tree add up to and what is *)
(* carried on are what came in, also when Holders were left out; and of no token *)
(* is a whole unit per Holder left undivided, unless there are no Holders.       *)
Conserves ==
    Settled => \A t \in Tokens :
        /\ totals[t] + carryOut[t] = funded[t] + carryIn[t]
        /\ totals[t] = Paid(t)
        /\ IF holders = <<>> THEN totals[t] = 0 ELSE carryOut[t] < Len(holders)

(* Who holds no less, and has not sent for no less long, is never given less: over *)
(* both thresholds, whatever was floored and whoever was left out; only the dev    *)
(* wallet's streak earns nothing.                                                  *)
HoldingPays ==
    Settled => \A g, h \in Rows :
        LET a == holders[g]
            b == holders[h]
        IN (/\ a.twab >= b.twab /\ a.account # DevWallet
            /\ b.firstBuyAt >= a.firstBuyAt \/ b.lastSellAt >= a.firstBuyAt
            /\ b.firstBuyAt >= a.lastSellAt \/ b.lastSellAt >= a.lastSellAt)
           => \A t \in Tokens : amounts[g][t] >= amounts[h][t]

(* The proof of a claim leads from its leaf to the Root, at every place in trees of *)
(* every size, and it does so for no other claim of the tree.                       *)
ProofsVerify ==
    (pc = "done" /\ claims # <<>>) => (computed = Root <=> asked = shown)
=============================================================================
