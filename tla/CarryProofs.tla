---------------------------- MODULE CarryProofs ----------------------------
(***************************************************************************)
(* Proofs about Carry, for every number of Epochs, logs and Voids, every   *)
(* population, funding and dust, and every width of the search's pages.    *)
(*                                                                         *)
(* The book the contract keeps is in order (BookInv); over such a book the *)
(* search and the Walk end with what the chain left the target; so what a  *)
(* run reports is so (Sound).                                              *)
(***************************************************************************)
EXTENDS Carry, SequenceTheorems, WellFoundedInduction, TLAPS

-----------------------------------------------------------------------------
(* Runs of a loop: sets of indices grow by one. *)

(* Induction up to N, over the set of the numbers that have the property. *)
LEMMA Upwards ==
  ASSUME NEW N \in Nat, NEW P, 0 \in P, \A k \in 1..N : k - 1 \in P => k \in P
  PROVE  \A k \in 0..N : k \in P
<1>. DEFINE T == {k \in 0..N : k \notin P}
<1>. SUFFICES ASSUME T # {} PROVE FALSE
  OBVIOUS
<1>1. T \subseteq Nat
  OBVIOUS
<1>2. PICK k \in T : \A y \in T : ~(<<y, k>> \in OpToRel(<, Nat))
  BY <1>1, NatLessThanWellFounded, WFMin
<1>3. \A y \in T : ~(y < k)
  BY <1>1, <1>2, Zenon DEF OpToRel
<1>4. k \in 0..N /\ k \notin P
  BY <1>2
<1>5. k \in 1..N /\ k - 1 \in 0..N /\ k - 1 < k
  BY <1>4
<1>6. k - 1 \in P
  BY <1>3, <1>5
<1>. QED  BY <1>4, <1>5, <1>6

(* f is a run of a loop of N turns: turn k makes G[k][s] of the state s. *)
Runs(f, N, S, s0, G) ==
    f \in [0..N -> S] /\ f[0] = s0 /\ \A k \in 1..N : f[k] = G[k][f[k - 1]]

(* A loop of N turns, each a function of the state before it, has a run. *)
LEMMA LoopRuns ==
  ASSUME NEW N \in Nat, NEW S, NEW s0 \in S, NEW G, \A k \in 1..N : \A s \in S : G[k][s] \in S
  PROVE  \E f : Runs(f, N, S, s0, G)
<1>. DEFINE P == {n \in 0..N : \E f : Runs(f, n, S, s0, G)}
<1>1. 0 \in P
  <2>1. Runs([i \in 0..0 |-> s0], 0, S, s0, G)
    BY DEF Runs
  <2>2. 0 \in 0..N
    OBVIOUS
  <2>. QED  BY <2>1, <2>2
<1>2. ASSUME NEW n \in 1..N, n - 1 \in P PROVE n \in P
  <2>1. PICK g : Runs(g, n - 1, S, s0, G)
    BY <1>2
  <2>. DEFINE h == [i \in 0..n |-> IF i = n THEN G[n][g[n - 1]] ELSE g[i]]
  <2>2. n - 1 \in 0..(n - 1) /\ n \in 0..n /\ n # 0 /\ n \in Nat
    OBVIOUS
  <2>3. \A i \in 0..(n - 1) : g[i] \in S
    BY <2>1 DEF Runs
  <2>4. h \in [0..n -> S]
    <3>1. G[n][g[n - 1]] \in S
      BY <2>2, <2>3
    <3>2. \A i \in 0..n : i # n => i \in 0..(n - 1)
      OBVIOUS
    <3>. QED  BY <2>3, <3>1, <3>2
  <2>5. h[0] = s0
    BY <2>1, <2>2 DEF Runs
  <2>6. \A k \in 1..n : h[k] = G[k][h[k - 1]]
    <3>1. \A k \in 1..n : k \in 0..n /\ k - 1 \in 0..n /\ k - 1 # n /\ (k # n => k \in 1..(n - 1))
      OBVIOUS
    <3>2. \A k \in 1..n : h[k - 1] = g[k - 1] /\ (k # n => h[k] = g[k])
      BY <3>1
    <3>3. h[n] = G[n][g[n - 1]]
      BY <2>2
    <3>. HIDE DEF h
    <3>. QED  BY <2>1, <3>1, <3>2, <3>3 DEF Runs
  <2>7. Runs(h, n, S, s0, G)
    BY <2>4, <2>5, <2>6 DEF Runs
  <2>. QED  BY <2>7
<1>3. N \in 0..N
  OBVIOUS
<1>4. N \in P
  <2>. HIDE DEF P
  <2>. QED  BY <1>1, <1>2, <1>3, Upwards
<1>5. \E f : Runs(f, N, S, s0, G)
  BY <1>4
<1>. QED  BY <1>5

-----------------------------------------------------------------------------
(* Sums. *)

(* g is the running sum of f from there on. *)
Adds(g, f, from, to) ==
    /\ g \in [0..to -> Int]
    /\ \A n \in 0..to : g[n] = IF n < from THEN 0 ELSE g[n - 1] + f[n]

(* The running sum exists, and Total reads it. *)
LEMMA TotalRuns ==
  ASSUME NEW from \in Nat \ {0}, NEW to \in Nat, NEW f, \A n \in from..to : f[n] \in Int
  PROVE  \E g : Adds(g, f, from, to) /\ Total(f, from, to) = g[to]
<1>. DEFINE G == [k \in 1..to |-> [s \in Int |-> IF k < from THEN 0 ELSE s + f[k]]]
            Sums(g) == g = [n \in 0..to |-> IF n < from THEN 0 ELSE g[n - 1] + f[n]]
            sum == CHOOSE g : Sums(g)
<1>1. \A k \in 1..to : \A s \in Int : G[k][s] = (IF k < from THEN 0 ELSE s + f[k]) /\ G[k][s] \in Int
  OBVIOUS
<1>2. PICK g : Runs(g, to, Int, 0, G)
  <2>. HIDE DEF G
  <2>. QED  BY <1>1, LoopRuns, 0 \in Int
<1>3. \A n \in 0..to : g[n] = IF n < from THEN 0 ELSE g[n - 1] + f[n]
  <2>. TAKE n \in 0..to
  <2>1. CASE n = 0
    BY <1>2, <2>1 DEF Runs
  <2>2. CASE n # 0
    <3>1. n \in 1..to /\ n - 1 \in 0..to /\ g[n - 1] \in Int
      BY <1>2, <2>2 DEF Runs
    <3>. HIDE DEF G
    <3>. QED  BY <1>1, <1>2, <3>1 DEF Runs
  <2>. QED  BY <2>1, <2>2
<1>4. Sums(g)
  <2>1. g = [n \in 0..to |-> g[n]]
    BY <1>2 DEF Runs
  <2>. QED  BY <1>3, <2>1
<1>5. Sums(sum)
  BY <1>4
<1>6. Total(f, from, to) = sum[to]
  BY DEF Total
<1>7. \A n \in 0..to : sum[n] = IF n < from THEN 0 ELSE sum[n - 1] + f[n]
  BY <1>5
<1>8. DOMAIN sum = 0..to /\ sum = [n \in 0..to |-> sum[n]]
  BY <1>5
<1>. HIDE DEF sum, Sums, G
<1>9. \A n \in 0..to : sum[n] \in Int
  <2>. DEFINE P == {n \in 0..to : sum[n] \in Int}
  <2>1. 0 \in P
    BY <1>7
  <2>2. ASSUME NEW n \in 1..to, n - 1 \in P PROVE n \in P
    BY <1>7, <2>2
  <2>3. \A n \in 0..to : n \in P
    <3>. HIDE DEF P
    <3>. QED  BY <2>1, <2>2, Upwards
  <2>. QED  BY <2>3
<1>10. sum \in [0..to -> Int]
  BY <1>8, <1>9
<1>. QED  BY <1>6, <1>7, <1>10 DEF Adds

(* There is one running sum. *)
LEMMA SumsAgree ==
  ASSUME NEW from \in Nat \ {0}, NEW to \in Nat, NEW f, NEW a, NEW b, Adds(a, f, from, to), Adds(b, f, from, to)
  PROVE  a[to] = b[to]
<1>. DEFINE P == {n \in 0..to : a[n] = b[n]}
<1>1. 0 \in P
  BY DEF Adds
<1>2. ASSUME NEW n \in 1..to, n - 1 \in P PROVE n \in P
  <2>1. n \in 0..to /\ n \in Int
    OBVIOUS
  <2>. QED  BY <1>2, <2>1 DEF Adds
<1>3. \A n \in 0..to : n \in P
  <2>. HIDE DEF P
  <2>. QED  BY <1>1, <1>2, Upwards
<1>. QED  BY <1>3

(* A total is an integer, of nothing is zero, and grows by its last member. *)
LEMMA TotalSteps ==
  ASSUME NEW from \in Nat \ {0}, NEW to \in Nat, NEW f, \A n \in from..to : f[n] \in Int
  PROVE  /\ Total(f, from, to) \in Int
         /\ to < from => Total(f, from, to) = 0
         /\ to >= from => Total(f, from, to) = Total(f, from, to - 1) + f[to]
<1>1. PICK g : Adds(g, f, from, to) /\ Total(f, from, to) = g[to]
  BY TotalRuns
<1>2. g[to] \in Int /\ (to < from => g[to] = 0)
  BY <1>1 DEF Adds
<1>3. ASSUME to >= from PROVE Total(f, from, to) = Total(f, from, to - 1) + f[to]
  <2>1. to - 1 \in Nat /\ \A n \in from..(to - 1) : f[n] \in Int
    BY <1>3
  <2>2. PICK h : Adds(h, f, from, to - 1) /\ Total(f, from, to - 1) = h[to - 1]
    BY <2>1, TotalRuns
  <2>. DEFINE part == [n \in 0..(to - 1) |-> g[n]]
  <2>3. Adds(part, f, from, to - 1) /\ part[to - 1] = g[to - 1]
    BY <1>1, <2>1 DEF Adds
  <2>. HIDE DEF part
  <2>4. part[to - 1] = h[to - 1]
    BY <2>1, <2>2, <2>3, SumsAgree
  <2>5. g[to] = g[to - 1] + f[to]
    BY <1>1, <1>3 DEF Adds
  <2>. QED  BY <1>1, <1>3, <2>2, <2>3, <2>4, <2>5
<1>. QED  BY <1>1, <1>2, <1>3

(* A total depends on the members it adds up. *)
LEMMA TotalSame ==
  ASSUME NEW from \in Nat \ {0}, NEW to \in Nat, NEW f, NEW h, \A n \in from..to : f[n] \in Int /\ f[n] = h[n]
  PROVE  Total(f, from, to) = Total(h, from, to)
<1>1. PICK a : Adds(a, f, from, to) /\ Total(f, from, to) = a[to]
  BY TotalRuns
<1>2. PICK b : Adds(b, h, from, to) /\ Total(h, from, to) = b[to]
  <2>1. \A n \in from..to : h[n] \in Int
    OBVIOUS
  <2>. QED  BY <2>1, TotalRuns
<1>3. Adds(b, f, from, to)
  BY <1>2 DEF Adds
<1>. QED  BY <1>1, <1>2, <1>3, SumsAgree

-----------------------------------------------------------------------------
(* The inductive invariant of the book, and what is owed. *)

(* Index i is the last log of Epoch e. *)
IsLast(i, e) == i \in LogsOf(e) /\ \A j \in LogsOf(e) : j <= i

(* What the stream holds. *)
LogRecords == [kind : {"epoch", "draw"}, id : Nat, root : Int, totals : Int, carryIn : Int,
               block : Nat, fair : BOOLEAN]

(* The shapes of the contract's variables. *)
BookType ==
    /\ eligible \in [Epochs -> BOOLEAN] /\ skipped \in [Epochs -> BOOLEAN]
    /\ now \in 1..(MaxEpoch + 1) /\ mark \in 0..MaxEpoch /\ height \in Nat
    /\ endBlock \in [Epochs -> Nat] /\ funded \in [Epochs -> Nat] /\ rootOf \in [Epochs -> Int]
    /\ voidable \in BOOLEAN /\ logs \in Seq(LogRecords) /\ Len(logs) <= MaxLogs

(* The stream is in block order, and the Epochs' Roots in it in the order of the Epochs: *)
(* only the one just past the mark, voided, may be posted again.                          *)
StreamInv ==
    /\ \A i \in DOMAIN logs : logs[i].block <= height
    /\ \A i, j \in DOMAIN logs : i < j => logs[i].block < logs[j].block
    /\ \A i \in DOMAIN logs : IsEpochRoot(i) =>
          /\ logs[i].id \in Epochs /\ logs[i].id < now /\ endBlock[logs[i].id] < logs[i].block
          /\ logs[i].id <= mark + 1 /\ (voidable => logs[i].id <= mark)
    /\ \A i, j \in DOMAIN logs : (i < j /\ IsEpochRoot(i) /\ IsEpochRoot(j)) => logs[i].id <= logs[j].id

(* Time and the mark. *)
MarkInv ==
    /\ mark < now /\ (voidable => mark \in Standing)
    /\ \A e \in Epochs : e < now => endBlock[e] <= height
    /\ \A e \in Epochs : skipped[e] => e <= mark

(* What a well-meaning poster would have put in e's Root. *)
Right(e, log) ==
    /\ log.carryIn = Owed(e)
    /\ log.root = RootOver(e, funded[e] + Owed(e)) /\ log.totals = Allocated(e, funded[e] + Owed(e))

(* A Root that stands is at or below the mark, was not passed over, is the one of its  *)
(* Epoch's last log, and is as right now as it was when it was posted.                  *)
StandsWell(e) ==
    /\ e <= mark /\ ~skipped[e]
    /\ \E i \in DOMAIN logs :
          /\ IsLast(i, e) /\ logs[i].root = rootOf[e]
          /\ logs[i].totals <= funded[e] + logs[i].carryIn
          /\ logs[i].fair <=> Right(e, logs[i])

StandingInv == \A e \in Standing : StandsWell(e)

(* The inductive invariant of the contract. *)
BookInv == BookType /\ StreamInv /\ MarkInv /\ StandingInv

(* Max is the member that bounds the others. *)
LEMMA MaxIs ==
  ASSUME NEW S, S \subseteq Int, NEW x \in S, \A y \in S : y <= x
  PROVE  Max(S) = x
<1>1. \A y \in S : x >= y
  OBVIOUS
<1>2. Max(S) \in S /\ \A y \in S : Max(S) >= y
  BY <1>1 DEF Max
<1>3. Max(S) \in Int /\ x \in Int /\ Max(S) >= x /\ Max(S) <= x
  BY <1>2
<1>. QED  BY <1>3

(* Some numbers up to N have a greatest one among them. *)
LEMMA GreatestExists ==
  ASSUME NEW N \in Nat, NEW S, S \subseteq 0..N, S # {}
  PROVE  \E x \in S : \A y \in S : y <= x
<1>. DEFINE P == {k \in 0..N : \A T \in SUBSET (0..k) : T # {} => \E x \in T : \A y \in T : y <= x}
<1>1. 0 \in P
  <2>1. \A T \in SUBSET (0..0) : T # {} => 0 \in T /\ \A y \in T : y <= 0
    <3>. TAKE T \in SUBSET (0..0)
    <3>1. \A y \in T : y = 0
      OBVIOUS
    <3>2. 0 <= 0
      OBVIOUS
    <3>3. T # {} => 0 \in T
      BY <3>1, Zenon
    <3>4. \A y \in T : y <= 0
      BY <3>1, <3>2, Zenon
    <3>. QED  BY <3>3, <3>4
  <2>. QED  BY <2>1
<1>2. ASSUME NEW k \in 1..N, k - 1 \in P PROVE k \in P
  <2>. SUFFICES ASSUME NEW T \in SUBSET (0..k), T # {} PROVE \E x \in T : \A y \in T : y <= x
    OBVIOUS
  <2>1. CASE k \in T
    BY <2>1
  <2>2. CASE k \notin T
    <3>1. T \in SUBSET (0..(k - 1))
      BY <2>2
    <3>. QED  BY <1>2, <3>1
  <2>. QED  BY <2>1, <2>2
<1>3. N \in P
  <2>1. N \in 0..N
    OBVIOUS
  <2>. HIDE DEF P
  <2>. QED  BY <1>1, <1>2, <2>1, Upwards
<1>. QED  BY <1>3

(* The logs, by their index. *)
LEMMA LogFields ==
  ASSUME BookType
  PROVE  /\ Len(logs) \in Nat /\ DOMAIN logs = 1..Len(logs)
         /\ \A i \in DOMAIN logs :
              /\ logs[i] \in LogRecords /\ logs[i].id \in Nat /\ logs[i].root \in Int
              /\ logs[i].totals \in Int /\ logs[i].carryIn \in Int /\ logs[i].block \in Nat
              /\ logs[i].fair \in BOOLEAN
<1>1. logs \in Seq(LogRecords)
  BY DEF BookType
<1>2. Len(logs) \in Nat /\ DOMAIN logs = 1..Len(logs) /\ \A i \in DOMAIN logs : logs[i] \in LogRecords
  BY <1>1, LenProperties, ElementOfSeq
<1>3. \A r \in LogRecords :
        /\ r.id \in Nat /\ r.root \in Int /\ r.totals \in Int /\ r.carryIn \in Int /\ r.block \in Nat
        /\ r.fair \in BOOLEAN
  BY DEF LogRecords
<1>. QED  BY <1>2, <1>3

(* An Epoch with a log has a last one, and LogOf reads it. *)
LEMMA LastOf ==
  ASSUME BookType, NEW e, NEW i, IsLast(i, e)
  PROVE  i \in DOMAIN logs /\ Max(LogsOf(e)) = i /\ LogOf(e) = logs[i]
<1>1. LogsOf(e) \subseteq Int /\ i \in LogsOf(e) /\ \A y \in LogsOf(e) : y <= i
  BY LogFields DEF LogsOf, IsLast
<1>2. Max(LogsOf(e)) = i
  BY <1>1, MaxIs
<1>. QED  BY <1>1, <1>2 DEF LogOf, LogsOf

(* Without a standing Root before it, an Epoch is owed all funding before it. *)
LEMMA OwedFirst ==
  ASSUME BookType, NEW e \in Epochs, \A p \in Standing : ~(p < e)
  PROVE  Owed(e) = Total(funded, 1, e - 1)
<1>1. {p \in Standing : p < e} = {}
  OBVIOUS
<1>. QED  BY <1>1 DEF Owed

(* Otherwise it is owed what the last one leaves, and the funding since. *)
LEMMA OwedFrom ==
  ASSUME BookType, NEW e \in Epochs, NEW p \in Standing, p < e,
         \A q \in Standing : q < e => q <= p, NEW i, IsLast(i, p)
  PROVE  Owed(e) = (funded[p] + logs[i].carryIn) - Allocated(p, funded[p] + logs[i].carryIn)
                      + Total(funded, p + 1, e - 1)
<1>. DEFINE before == {q \in Standing : q < e}
<1>1. p \in before /\ before # {} /\ before \subseteq Int /\ \A q \in before : q <= p
  BY DEF Standing, Epochs
<1>2. Max(before) = p
  BY <1>1, MaxIs
<1>3. Left(p) = (funded[p] + logs[i].carryIn) - Allocated(p, funded[p] + logs[i].carryIn)
  BY LastOf DEF Left
<1>. QED  BY <1>1, <1>2, <1>3 DEF Owed

(* The last standing Root below e, if there is one. *)
LEMMA LastStanding ==
  ASSUME BookType, NEW e \in Int, NEW q \in Standing, q < e
  PROVE  \E p \in Standing : p < e /\ \A r \in Standing : r < e => r <= p
<1>. DEFINE before == {r \in Standing : r < e}
<1>1. before \subseteq 0..MaxEpoch /\ before # {} /\ MaxEpoch \in Nat
  BY DistributorAssumption DEF Standing, Epochs
<1>2. PICK p \in before : \A y \in before : y <= p
  BY <1>1, GreatestExists
<1>. QED  BY <1>2

(* What is allocated is an integer. *)
LEMMA AllocatedType ==
  ASSUME BookType, NEW e \in Epochs, NEW base \in Int
  PROVE  Allocated(e, base) \in Int /\ RootOver(e, base) \in Int
<1>1. base % Dust \in Int
  BY DistributorAssumption
<1>2. Allocated(e, base) \in Int
  BY <1>1 DEF Allocated
<1>. QED  BY <1>2 DEF RootOver, NoRoot

(* Funding adds up to an integer. *)
LEMMA FundedType ==
  ASSUME BookType
  PROVE  /\ MaxEpoch \in Nat /\ Epochs \subseteq Nat /\ \A e \in Epochs : e >= 1 /\ e <= MaxEpoch /\ funded[e] \in Nat
         /\ \A from \in Nat \ {0}, to \in 0..MaxEpoch : Total(funded, from, to) \in Int
<1>1. MaxEpoch \in Nat /\ Epochs \subseteq Nat /\ \A e \in Epochs : e >= 1 /\ e <= MaxEpoch /\ funded[e] \in Nat
  BY DistributorAssumption DEF BookType, Epochs
<1>2. ASSUME NEW from \in Nat \ {0}, NEW to \in 0..MaxEpoch PROVE Total(funded, from, to) \in Int
  <2>1. \A n \in from..to : n \in Epochs /\ funded[n] \in Int
    BY <1>1 DEF Epochs, BookType
  <2>2. to \in Nat
    BY <1>1
  <2>. QED  BY <2>1, <2>2, TotalSteps
<1>. QED  BY <1>1, <1>2

(* What is owed is an integer. *)
LEMMA OwedType ==
  ASSUME BookType, StandingInv, NEW e \in Epochs
  PROVE  Owed(e) \in Int
<1>1. e \in Nat /\ e >= 1 /\ e - 1 \in 0..MaxEpoch
  BY FundedType DEF Epochs
<1>2. CASE \A p \in Standing : ~(p < e)
  <2>1. Total(funded, 1, e - 1) \in Int
    BY <1>1, FundedType
  <2>. QED  BY <1>2, <2>1, OwedFirst
<1>3. CASE \E p \in Standing : p < e
  <2>1. PICK p \in Standing : p < e /\ \A r \in Standing : r < e => r <= p
    BY <1>1, <1>3, LastStanding
  <2>2. PICK i \in DOMAIN logs : IsLast(i, p)
    BY DEF StandingInv, StandsWell
  <2>3. p \in Epochs /\ p + 1 \in Nat \ {0} /\ logs[i].carryIn \in Int /\ funded[p] \in Int
    BY LogFields, FundedType DEF Standing, Epochs
  <2>4. Total(funded, p + 1, e - 1) \in Int
    BY <1>1, <2>3, FundedType
  <2>5. Allocated(p, funded[p] + logs[i].carryIn) \in Int
    BY <2>3, AllocatedType
  <2>6. Owed(e) = (funded[p] + logs[i].carryIn) - Allocated(p, funded[p] + logs[i].carryIn)
                      + Total(funded, p + 1, e - 1)
    BY <2>1, <2>2, OwedFrom
  <2>. QED  BY <2>3, <2>4, <2>5, <2>6
<1>. QED  BY <1>2, <1>3

-----------------------------------------------------------------------------
(* What a step that adds to the stream keeps. *)

(* What is owed to an Epoch depends on the book and the logs before it. *)
LEMMA OwedStays ==
  ASSUME BookType, BookType', NEW e \in Epochs, eligible' = eligible,
         \A p \in Epochs : p < e => funded'[p] = funded[p] /\ rootOf'[p] = rootOf[p],
         \A p \in Standing : p < e => LogOf(p)' = LogOf(p)
  PROVE  Owed(e)' = Owed(e)
<1>. DEFINE before == {p \in Standing : p < e}
            after  == {p \in Standing' : p < e}
<1>1. after = before /\ before \subseteq Epochs
  BY DEF Standing
<1>2. \A from \in Nat \ {0} : Total(funded', from, e - 1) = Total(funded, from, e - 1)
  <2>. TAKE from \in Nat \ {0}
  <2>1. e - 1 \in Nat /\ \A n \in from..(e - 1) : n \in Epochs /\ n < e
    BY FundedType DEF Epochs
  <2>2. \A n \in from..(e - 1) : funded[n] \in Int /\ funded[n] = funded'[n]
    BY <2>1, FundedType
  <2>. QED  BY <2>1, <2>2, TotalSame
<1>3. CASE before = {}
  <2>1. Owed(e) = Total(funded, 1, e - 1)
    BY <1>3 DEF Owed
  <2>2. Owed(e)' = Total(funded', 1, e - 1)
    BY <1>1, <1>3 DEF Owed
  <2>. QED  BY <1>2, <2>1, <2>2
<1>4. CASE before # {}
  <2>1. PICK p \in Standing : p < e /\ \A r \in Standing : r < e => r <= p
    BY <1>4, LastStanding, FundedType
  <2>2. p \in before /\ before \subseteq Int /\ \A y \in before : y <= p
    BY <2>1, FundedType DEF Standing
  <2>3. Max(before) = p
    BY <2>2, MaxIs
  <2>4. p \in Epochs /\ p + 1 \in Nat \ {0}
    BY FundedType DEF Standing
  <2>5. Left(p)' = Left(p)
    BY <2>1, <2>4 DEF Left, Allocated
  <2>6. Owed(e) = Left(p) + Total(funded, p + 1, e - 1)
    BY <1>4, <2>3 DEF Owed
  <2>7. Owed(e)' = Left(p)' + Total(funded', p + 1, e - 1)
    <3>1. {q \in Standing' : q < e} # {} /\ Max({q \in Standing' : q < e}) = p
      BY <1>1, <1>4, <2>3
    <3>. HIDE DEF before, after
    <3>. QED  BY <3>1 DEF Owed, Left, LogOf, LogsOf, Allocated
  <2>. QED  BY <1>2, <2>4, <2>5, <2>6, <2>7
<1>. QED  BY <1>3, <1>4

(* A log more. *)
LEMMA LogAppended ==
  ASSUME BookType, NEW r \in LogRecords, logs' = Append(logs, r)
  PROVE  /\ logs' \in Seq(LogRecords) /\ Len(logs') = Len(logs) + 1 /\ Len(logs) \in Nat
         /\ DOMAIN logs = 1..Len(logs) /\ DOMAIN logs' = 1..(Len(logs) + 1)
         /\ \A i \in DOMAIN logs : i \in DOMAIN logs' /\ logs'[i] = logs[i]
         /\ logs'[Len(logs) + 1] = r
         /\ \A i \in DOMAIN logs' : i \in DOMAIN logs \/ i = Len(logs) + 1
<1>1. logs \in Seq(LogRecords) /\ Len(logs) \in Nat /\ DOMAIN logs = 1..Len(logs)
  BY LogFields DEF BookType
<1>2. /\ logs' \in Seq(LogRecords) /\ Len(logs') = Len(logs) + 1
      /\ \A i \in 1..Len(logs) : logs'[i] = logs[i]
      /\ logs'[Len(logs) + 1] = r
  BY <1>1, AppendProperties
<1>3. DOMAIN logs' = 1..(Len(logs) + 1)
  BY <1>2, LenProperties
<1>. QED  BY <1>1, <1>2, <1>3

(* It is not a log of another Epoch, and it is the last of its own. *)
LEMMA LogsAppended ==
  ASSUME BookType, NEW r \in LogRecords, logs' = Append(logs, r)
  PROVE  /\ \A p : (r.kind # "epoch" \/ r.id # p) => LogsOf(p)' = LogsOf(p)
         /\ r.kind = "epoch" => LogsOf(r.id)' = LogsOf(r.id) \cup {Len(logs) + 1}
<1>. USE LogAppended
<1>1. ASSUME NEW p, r.kind # "epoch" \/ r.id # p PROVE LogsOf(p)' = LogsOf(p)
  <2>1. ASSUME NEW i \in LogsOf(p) PROVE i \in LogsOf(p)'
    BY <2>1 DEF LogsOf
  <2>2. ASSUME NEW i \in LogsOf(p)' PROVE i \in LogsOf(p)
    BY <1>1, <2>2 DEF LogsOf
  <2>. QED  BY <2>1, <2>2
<1>2. ASSUME r.kind = "epoch" PROVE LogsOf(r.id)' = LogsOf(r.id) \cup {Len(logs) + 1}
  <2>1. ASSUME NEW i \in LogsOf(r.id) \cup {Len(logs) + 1} PROVE i \in LogsOf(r.id)'
    <3>1. Len(logs) + 1 \in DOMAIN logs'
      OBVIOUS
    <3>. QED  BY <1>2, <2>1, <3>1 DEF LogsOf
  <2>2. ASSUME NEW i \in LogsOf(r.id)' PROVE i \in LogsOf(r.id) \cup {Len(logs) + 1}
    BY <1>2, <2>2 DEF LogsOf
  <2>. QED  BY <2>1, <2>2
<1>. QED  BY <1>1, <1>2

(* What is owed and what is rightly allocated stays when the Epoch's past does. *)
LEMMA StandsWellStays ==
  ASSUME BookType, NEW e \in Epochs, StandsWell(e),
         eligible' = eligible, rootOf'[e] = rootOf[e], funded'[e] = funded[e], Owed(e)' = Owed(e),
         LogsOf(e)' = LogsOf(e), \A i \in DOMAIN logs : i \in DOMAIN logs' /\ logs'[i] = logs[i],
         e <= mark', ~skipped'[e]
  PROVE  StandsWell(e)'
<1>1. PICK i \in DOMAIN logs : /\ IsLast(i, e) /\ logs[i].root = rootOf[e]
                               /\ logs[i].totals <= funded[e] + logs[i].carryIn
                               /\ logs[i].fair <=> Right(e, logs[i])
  BY DEF StandsWell
<1>2. IsLast(i, e)' /\ i \in DOMAIN logs' /\ logs'[i] = logs[i]
  BY <1>1 DEF IsLast
<1>3. Right(e, logs[i])' <=> Right(e, logs[i])
  <2>1. \A b : Allocated(e, b)' = Allocated(e, b) /\ RootOver(e, b)' = RootOver(e, b)
    BY DEF Allocated, RootOver
  <2>2. logs'[i] = logs[i]
    BY <1>2
  <2>. QED  BY <2>1, <2>2 DEF Right
<1>. QED  BY <1>1, <1>2, <1>3 DEF StandsWell

-----------------------------------------------------------------------------
(* The book: funding, time and Voids. *)

(* At deploy. *)
LEMMA BookInit == InitContract => BookInv
<1>. SUFFICES ASSUME InitContract PROVE BookInv
  OBVIOUS
<1>1. BookType
  <2>1. logs \in Seq(LogRecords) /\ Len(logs) = 0
    BY EmptySeq DEF InitContract
  <2>2. eligible \in [Epochs -> BOOLEAN] /\ MaxLogs \in Nat /\ MaxEpoch \in Nat
    BY DistributorAssumption DEF InitContract, Epochs
  <2>3. 1 \in 1..(MaxEpoch + 1) /\ 0 \in 0..MaxEpoch
    BY <2>2
  <2>4. endBlock \in [Epochs -> Nat] /\ funded \in [Epochs -> Nat] /\ rootOf \in [Epochs -> Int]
    BY DEF InitContract, NoRoot
  <2>5. skipped \in [Epochs -> BOOLEAN] /\ voidable \in BOOLEAN /\ height \in Nat
    BY DEF InitContract
  <2>. QED  BY <2>1, <2>2, <2>3, <2>4, <2>5 DEF InitContract, BookType
<1>2. DOMAIN logs = {}
  BY EmptySeq DEF InitContract
<1>3. StreamInv
  BY <1>2 DEF StreamInv
<1>4. MarkInv
  BY DEF MarkInv, InitContract, Epochs
<1>5. StandingInv
  BY DEF InitContract, StandingInv, Standing
<1>. QED  BY <1>1, <1>3, <1>4, <1>5 DEF BookInv

(* When the logs and the Roots stay, so does what stands. *)
LEMMA StandingStays ==
  ASSUME BookInv, BookType', UNCHANGED <<eligible, logs, rootOf, skipped, mark>>,
         \A p \in Epochs : p <= mark => funded'[p] = funded[p]
  PROVE  StandingInv'
<1>1. Standing' = Standing /\ \A p : LogsOf(p)' = LogsOf(p) /\ LogOf(p)' = LogOf(p)
  BY DEF Standing, LogsOf, LogOf
<1>. SUFFICES ASSUME NEW e \in Standing PROVE StandsWell(e)'
  BY <1>1 DEF StandingInv
<1>2. e \in Epochs /\ StandsWell(e) /\ e <= mark /\ ~skipped[e] /\ BookType
  BY DEF BookInv, StandingInv, StandsWell, Standing
<1>3. Owed(e)' = Owed(e)
  <2>1. \A p \in Epochs : p < e => p <= mark
    BY <1>2, FundedType DEF BookType
  <2>2. \A p \in Epochs : p < e => funded'[p] = funded[p] /\ rootOf'[p] = rootOf[p]
    BY <2>1
  <2>. QED  BY <1>1, <1>2, <2>2, OwedStays
<1>. QED  BY <1>1, <1>2, <1>3, StandsWellStays

(* Time passes. *)
LEMMA BookTick == BookInv /\ Tick => BookInv'
<1>. SUFFICES ASSUME BookInv, Tick PROVE BookInv'
  OBVIOUS
<1>. USE DEF Tick
<1>1. BookType /\ StreamInv /\ MarkInv
  BY DEF BookInv
<1>2. now \in Epochs /\ now + 1 \in 1..(MaxEpoch + 1) /\ height + 1 \in Nat
  BY <1>1, DistributorAssumption DEF BookType, Epochs
<1>3. BookType'
  BY <1>1, <1>2 DEF BookType
<1>4. \A e \in Epochs : endBlock'[e] = IF e = now THEN height ELSE endBlock[e]
  BY <1>1 DEF BookType
<1>5. StreamInv'
  <2>1. \A i \in DOMAIN logs : IsEpochRoot(i)' = IsEpochRoot(i)
    BY DEF IsEpochRoot
  <2>2. \A i \in DOMAIN logs : logs[i].block \in Nat /\ logs[i].id \in Nat
    BY <1>1, LogFields
  <2>3. now \in Int /\ height \in Int
    BY <1>1, <1>2 DEF BookType, Epochs
  <2>. QED  BY <1>1, <1>4, <2>1, <2>2, <2>3 DEF StreamInv
<1>6. MarkInv'
  <2>1. \A e \in Epochs : e < now + 1 => e = now \/ e < now
    BY <1>2 DEF Epochs
  <2>2. \A e \in Epochs : endBlock[e] \in Nat
    BY <1>1 DEF BookType
  <2>3. Standing' = Standing
    BY DEF Standing
  <2>. QED  BY <1>1, <1>2, <1>4, <2>1, <2>2, <2>3 DEF MarkInv, BookType, Epochs
<1>7. StandingInv'
  BY <1>3, StandingStays
<1>. QED  BY <1>3, <1>5, <1>6, <1>7 DEF BookInv

(* Epoch e is funded. *)
LEMMA BookFund ==
  ASSUME BookInv, NEW e \in Epochs, NEW amount \in Funding, Fund(e, amount)
  PROVE  BookInv'
<1>. USE DEF Fund
<1>1. BookType /\ StreamInv /\ MarkInv
  BY DEF BookInv
<1>2. amount \in Nat
  BY DistributorAssumption
<1>3. BookType'
  BY <1>1, <1>2 DEF BookType
<1>4. StreamInv' /\ MarkInv'
  BY <1>1 DEF StreamInv, MarkInv, IsEpochRoot, Standing
<1>5. StandingInv'
  <2>1. \A p \in Epochs : p <= mark => funded'[p] = funded[p]
    BY <1>1, FundedType DEF BookType
  <2>. QED  BY <1>3, <2>1, StandingStays
<1>. QED  BY <1>3, <1>4, <1>5 DEF BookInv

(* The latest Root is voided. *)
LEMMA BookVoid == BookInv /\ Void => BookInv'
<1>. SUFFICES ASSUME BookInv, Void PROVE BookInv'
  OBVIOUS
<1>. USE DEF Void
<1>1. BookType /\ StreamInv /\ MarkInv /\ StandingInv
  BY DEF BookInv
<1>2. mark \in Epochs /\ mark - 1 \in 0..MaxEpoch /\ height + 1 \in Nat
  BY <1>1, DistributorAssumption DEF BookType, MarkInv, Epochs, Standing
<1>3. BookType'
  <2>1. rootOf' \in [Epochs -> Int]
    BY <1>1, <1>2 DEF BookType, NoRoot
  <2>. QED  BY <1>1, <1>2, <2>1 DEF BookType
<1>4. StreamInv'
  <2>1. \A i \in DOMAIN logs : IsEpochRoot(i)' = IsEpochRoot(i)
    BY DEF IsEpochRoot
  <2>2. \A i \in DOMAIN logs : logs[i].block \in Nat /\ logs[i].id \in Nat
    BY <1>1, LogFields
  <2>3. mark \in Int /\ height \in Int
    BY <1>1, <1>2 DEF BookType, Epochs
  <2>. QED  BY <1>1, <2>1, <2>2, <2>3 DEF StreamInv
<1>5. \A e \in Epochs : e # mark => rootOf'[e] = rootOf[e]
  BY <1>1 DEF BookType
<1>6. rootOf'[mark] = NoRoot
  BY <1>1, <1>2 DEF BookType
<1>8. \A p : LogsOf(p)' = LogsOf(p) /\ LogOf(p)' = LogOf(p)
  BY DEF LogsOf, LogOf
<1>9. ASSUME NEW e \in Standing' PROVE StandsWell(e)'
  <2>1. e \in Epochs /\ e # mark /\ e \in Standing
    BY <1>5, <1>6 DEF Standing
  <2>2. StandsWell(e) /\ e <= mark /\ ~skipped[e]
    BY <1>1, <2>1 DEF StandingInv, StandsWell
  <2>3. e \in Int /\ mark \in Int /\ e <= mark' /\ e < mark
    BY <1>2, <2>1, <2>2 DEF Epochs
  <2>4. \A p \in Epochs : p < e => funded'[p] = funded[p] /\ rootOf'[p] = rootOf[p]
    <3>1. \A p \in Epochs : p < e => p # mark
      BY <2>3, <1>2 DEF Epochs
    <3>. QED  BY <1>5, <3>1
  <2>5. Owed(e)' = Owed(e)
    BY <1>1, <1>3, <1>8, <2>1, <2>4, OwedStays
  <2>. QED  BY <1>1, <1>5, <1>8, <2>1, <2>2, <2>3, <2>5, StandsWellStays
<1>10. MarkInv'
  <2>1. ~skipped[mark]
    BY <1>1 DEF MarkInv, StandingInv, StandsWell
  <2>2. \A e \in Epochs : (e <= mark /\ e # mark) => e <= mark - 1
    BY <1>2 DEF Epochs
  <2>3. mark - 1 < now
    BY <1>1, <1>2 DEF MarkInv, BookType, Epochs
  <2>4. \A e \in Epochs : endBlock[e] \in Nat /\ height \in Nat
    BY <1>1 DEF BookType
  <2>. QED  BY <1>1, <2>1, <2>2, <2>3, <2>4 DEF MarkInv
<1>. QED  BY <1>3, <1>4, <1>9, <1>10 DEF BookInv, StandingInv

-----------------------------------------------------------------------------
(* The book: a Root is posted. *)

(* The logs of the Epochs with a Root do not move. *)
LEMMA LogOfStays ==
  ASSUME BookInv, BookType', NEW p \in Standing, LogsOf(p)' = LogsOf(p),
         \A i \in DOMAIN logs : i \in DOMAIN logs' /\ logs'[i] = logs[i]
  PROVE  LogOf(p)' = LogOf(p)
<1>1. PICK i \in DOMAIN logs : IsLast(i, p)
  BY DEF BookInv, StandingInv, StandsWell
<1>2. Max(LogsOf(p)) = i /\ LogOf(p) = logs[i]
  BY <1>1, LastOf DEF BookInv
<1>3. LogOf(p)' = logs'[Max(LogsOf(p)')]
  BY DEF LogOf, LogsOf
<1>. QED  BY <1>1, <1>2, <1>3

(* The stream's order, with a log more at the next block. *)
LEMMA StreamAppended ==
  ASSUME BookInv, NEW r \in LogRecords, logs' = Append(logs, r), r.block = height + 1, height' = height + 1,
         UNCHANGED <<now, endBlock>>, mark' \in Int, mark' >= mark, voidable' => mark' > mark \/ voidable,
         r.kind = "epoch" => /\ r.id \in Epochs /\ r.id < now /\ r.id = mark' /\ mark < mark'
  PROVE  StreamInv'
<1>1. BookType /\ StreamInv /\ MarkInv
  BY DEF BookInv
<1>2. /\ height \in Nat /\ mark \in Int /\ now \in Int /\ \A e \in Epochs : e \in Nat /\ endBlock[e] \in Nat
      /\ \A i \in DOMAIN logs : logs[i].block \in Nat /\ logs[i].id \in Nat
  <2>1. /\ height \in Nat /\ mark \in Int /\ now \in Int /\ \A e \in Epochs : endBlock[e] \in Nat
    BY <1>1, DistributorAssumption DEF BookType
  <2>. QED  BY <1>1, <2>1, LogFields, FundedType
<1>. DEFINE n == Len(logs) + 1
<1>3. /\ n \in Int /\ \A i \in DOMAIN logs : i \in Int /\ i < n /\ i \in DOMAIN logs' /\ logs'[i] = logs[i]
      /\ \A i \in DOMAIN logs' : i \in DOMAIN logs \/ i = n
      /\ logs'[n] = r
  BY <1>1, LogAppended
<1>. HIDE DEF n
<1>4. \A i \in DOMAIN logs' : IsEpochRoot(i)' <=> (logs'[i].kind = "epoch")
  BY DEF IsEpochRoot
<1>5. \A i \in DOMAIN logs : /\ logs[i].block <= height
                             /\ \A j \in DOMAIN logs : i < j => logs[i].block < logs[j].block
  BY <1>1 DEF StreamInv
<1>6. \A i \in DOMAIN logs : logs[i].kind = "epoch" =>
          /\ logs[i].id \in Epochs /\ logs[i].id < now /\ endBlock[logs[i].id] < logs[i].block
          /\ logs[i].id <= mark + 1 /\ (voidable => logs[i].id <= mark)
          /\ \A j \in DOMAIN logs : (i < j /\ logs[j].kind = "epoch") => logs[i].id <= logs[j].id
  BY <1>1 DEF StreamInv, IsEpochRoot
<1>7. \A i \in DOMAIN logs' : logs'[i].block <= height'
  BY <1>2, <1>3, <1>5
<1>8. \A i, j \in DOMAIN logs' : i < j => logs'[i].block < logs'[j].block
  <2>. SUFFICES ASSUME NEW i \in DOMAIN logs', NEW j \in DOMAIN logs', i < j
                PROVE  logs'[i].block < logs'[j].block
    OBVIOUS
  <2>1. i \in DOMAIN logs
    BY <1>3
  <2>2. logs[i].block < height + 1
    BY <1>2, <1>5, <2>1
  <2>. QED  BY <1>3, <1>5, <2>1, <2>2
<1>9. ASSUME NEW i \in DOMAIN logs', logs'[i].kind = "epoch"
      PROVE  /\ logs'[i].id \in Epochs /\ logs'[i].id < now /\ endBlock[logs'[i].id] < logs'[i].block
             /\ logs'[i].id <= mark' + 1 /\ (voidable' => logs'[i].id <= mark')
  <2>1. CASE i \in DOMAIN logs
    <3>1. logs'[i] = logs[i] /\ logs[i].id \in Nat
      BY <1>2, <1>3, <2>1
    <3>2. /\ logs[i].id \in Epochs /\ logs[i].id < now /\ endBlock[logs[i].id] < logs[i].block
          /\ logs[i].id <= mark + 1 /\ (voidable => logs[i].id <= mark)
      BY <1>6, <1>9, <2>1, <3>1
    <3>. QED  BY <1>2, <3>1, <3>2
  <2>2. CASE i = n
    <3>1. r.kind = "epoch" /\ logs'[i] = r
      BY <1>3, <1>9, <2>2
    <3>2. endBlock[r.id] <= height
      BY <1>1, <3>1 DEF MarkInv
    <3>3. endBlock[r.id] < height + 1
      BY <1>2, <3>1, <3>2
    <3>. QED  BY <3>1, <3>3
  <2>. QED  BY <1>3, <2>1, <2>2
<1>10. ASSUME NEW i \in DOMAIN logs', NEW j \in DOMAIN logs', i < j,
              logs'[i].kind = "epoch", logs'[j].kind = "epoch"
       PROVE  logs'[i].id <= logs'[j].id
  <2>1. i \in DOMAIN logs /\ logs'[i] = logs[i]
    BY <1>3, <1>10
  <2>2. CASE j \in DOMAIN logs
    BY <1>3, <1>6, <1>10, <2>1, <2>2
  <2>3. CASE j = n
    <3>1. logs[i].id <= mark + 1 /\ r.id = mark' /\ mark < mark' /\ logs[i].id \in Nat
      BY <1>2, <1>3, <1>6, <1>10, <2>1, <2>3
    <3>. QED  BY <1>2, <1>3, <2>1, <2>3, <3>1
  <2>. QED  BY <1>3, <2>2, <2>3
<1>11. StreamInv' <=>
    /\ \A i \in DOMAIN logs' : logs'[i].block <= height'
    /\ \A i, j \in DOMAIN logs' : i < j => logs'[i].block < logs'[j].block
    /\ \A i \in DOMAIN logs' : logs'[i].kind = "epoch" =>
          /\ logs'[i].id \in Epochs /\ logs'[i].id < now /\ endBlock[logs'[i].id] < logs'[i].block
          /\ logs'[i].id <= mark' + 1 /\ (voidable' => logs'[i].id <= mark')
    /\ \A i, j \in DOMAIN logs' : (i < j /\ logs'[i].kind = "epoch" /\ logs'[j].kind = "epoch")
                                    => logs'[i].id <= logs'[j].id
  BY DEF StreamInv, IsEpochRoot
<1>. QED  BY <1>7, <1>8, <1>9, <1>10, <1>11

(* A Root is posted. *)
LEMMA BookPost ==
  ASSUME BookInv, NEW e \in Epochs, NEW root \in Int, NEW totals \in Int, NEW carryIn \in Int,
         Post(e, root, totals, carryIn)
  PROVE  BookInv'
<1>1. BookType /\ StreamInv /\ MarkInv /\ StandingInv
  BY DEF BookInv
<1>. DEFINE fair == LET base == funded[e] + Owed(e)
                    IN carryIn = Owed(e) /\ root = RootOver(e, base) /\ totals = Allocated(e, base)
<1>2. PICK r : r = [kind |-> "epoch", id |-> e, root |-> root, totals |-> totals, carryIn |-> carryIn,
                    block |-> height + 1, fair |-> fair]
  OBVIOUS
<1>3. /\ mark < e /\ e < now /\ Len(logs) < MaxLogs /\ root # NoRoot /\ totals <= funded[e] + carryIn
      /\ logs' = Append(logs, r) /\ rootOf' = [rootOf EXCEPT ![e] = root]
      /\ skipped' = [i \in Epochs |-> skipped[i] \/ (mark < i /\ i < e /\ funded[i] > 0)]
      /\ mark' = e /\ voidable' = TRUE /\ height' = height + 1
      /\ UNCHANGED <<eligible, now, endBlock, funded, voids>>
  BY <1>2 DEF Post
<1>4. /\ r.kind = "epoch" /\ r.id = e /\ r.root = root /\ r.totals = totals /\ r.carryIn = carryIn
      /\ r.block = height + 1 /\ r.fair = fair
  BY <1>2
<1>5. e \in Nat /\ e \in 0..MaxEpoch /\ mark \in Int /\ height + 1 \in Nat /\ now \in Int /\ MaxLogs \in Nat
  BY <1>1, DistributorAssumption DEF BookType, Epochs
<1>6. fair \in BOOLEAN
  OBVIOUS
<1>. HIDE DEF fair
<1>7. r \in LogRecords
  BY <1>2, <1>5, <1>6 DEF LogRecords
<1>8. BookType'
  <2>1. logs' \in Seq(LogRecords) /\ Len(logs') <= MaxLogs
    BY <1>1, <1>3, <1>5, <1>7, LogAppended
  <2>2. rootOf' \in [Epochs -> Int] /\ skipped' \in [Epochs -> BOOLEAN]
    BY <1>1, <1>3 DEF BookType
  <2>3. /\ eligible' \in [Epochs -> BOOLEAN] /\ now' \in 1..(MaxEpoch + 1) /\ endBlock' \in [Epochs -> Nat]
        /\ funded' \in [Epochs -> Nat]
    BY <1>1, <1>3 DEF BookType
  <2>. QED  BY <1>3, <1>5, <2>1, <2>2, <2>3 DEF BookType
<1>9. StreamInv'
  BY <1>3, <1>4, <1>5, <1>7, StreamAppended
<1>10. \A p \in Epochs : rootOf'[p] = IF p = e THEN root ELSE rootOf[p]
  BY <1>1, <1>3 DEF BookType
<1>11. \A p \in Epochs : skipped'[p] <=> (skipped[p] \/ (mark < p /\ p < e /\ funded[p] > 0))
  BY <1>3, Zenon
<1>12. MarkInv'
  <2>1. e \in Standing'
    BY <1>3, <1>10 DEF Standing
  <2>2. \A p \in Epochs : skipped'[p] => p <= e
    <3>1. \A p \in Epochs : p \in Int /\ (skipped[p] => p <= mark)
      BY <1>1, FundedType DEF MarkInv
    <3>2. \A p \in Epochs : (p <= mark => p <= e) /\ (p < e => p <= e)
      BY <1>3, <1>5, <3>1
    <3>. QED  BY <1>11, <3>1, <3>2
  <2>3. \A p \in Epochs : p < now => endBlock[p] <= height + 1
    <3>1. \A p \in Epochs : endBlock[p] \in Nat /\ height \in Nat
      BY <1>1 DEF BookType
    <3>. QED  BY <1>1, <3>1 DEF MarkInv
  <2>. QED  BY <1>3, <2>1, <2>2, <2>3 DEF MarkInv
<1>13. \A i \in DOMAIN logs : i \in DOMAIN logs' /\ logs'[i] = logs[i]
  BY <1>1, <1>3, <1>7, LogAppended
<1>14. \A p \in Standing : p <= mark /\ p # e /\ p \in Epochs /\ ~skipped[p] /\ StandsWell(p)
  <2>1. \A p \in Standing : StandsWell(p) /\ p \in Epochs
    BY <1>1 DEF StandingInv, Standing
  <2>2. \A p \in Standing : p <= mark /\ ~skipped[p]
    BY <2>1 DEF StandsWell
  <2>3. \A p \in Epochs : p <= mark => p # e
    BY <1>3, <1>5 DEF Epochs
  <2>. QED  BY <2>1, <2>2, <2>3
<1>15. \A p : p # e => LogsOf(p)' = LogsOf(p)
  BY <1>1, <1>3, <1>4, <1>7, LogsAppended
<1>16. \A p \in Standing : LogOf(p)' = LogOf(p)
  BY <1>8, <1>13, <1>14, <1>15, LogOfStays
<1>17. \A q \in Epochs : q <= e => Owed(q)' = Owed(q)
  <2>. SUFFICES ASSUME NEW q \in Epochs, q <= e PROVE Owed(q)' = Owed(q)
    OBVIOUS
  <2>1. \A p \in Epochs : p < q => p # e
    BY <1>5, FundedType, <1>1
  <2>2. \A p \in Epochs : p < q => funded'[p] = funded[p] /\ rootOf'[p] = rootOf[p]
    BY <1>3, <1>10, <2>1
  <2>. QED  BY <1>1, <1>3, <1>8, <1>16, <2>2, OwedStays
<1>18. StandsWell(e)'
  <2>. DEFINE n == Len(logs) + 1
  <2>1. n \in DOMAIN logs' /\ logs'[n] = r /\ LogsOf(e)' = LogsOf(e) \cup {n} /\ \A i \in LogsOf(e) : i <= n
    BY <1>1, <1>3, <1>4, <1>7, LogAppended, LogsAppended DEF LogsOf
  <2>2. n \in Int
    BY <1>1, LogFields
  <2>3. PICK k : k = n
    OBVIOUS
  <2>. HIDE DEF n
  <2>4. IsLast(k, e)'
    <3>1. k <= k
      BY <2>2, <2>3
    <3>. QED  BY <2>1, <2>3, <3>1 DEF IsLast
  <2>5. fair <=> Right(e, r)'
    <3>1. Owed(e)' = Owed(e)
      BY <1>5, <1>17
    <3>2. \A b : Allocated(e, b)' = Allocated(e, b) /\ RootOver(e, b)' = RootOver(e, b)
      BY <1>3 DEF Allocated, RootOver
    <3>. QED  BY <1>3, <1>4, <3>1, <3>2 DEF Right, fair
  <2>6. ~skipped'[e]
    <3>1. ~skipped[e]
      BY <1>1, <1>3, <1>5 DEF MarkInv
    <3>2. ~(e < e)
      BY <1>5
    <3>. QED  BY <1>11, <3>1, <3>2
  <2>7. logs'[k] = r /\ k \in DOMAIN logs' /\ rootOf'[e] = root /\ e <= mark'
    BY <1>3, <1>5, <1>10, <2>1, <2>3
  <2>8. r.totals <= funded'[e] + r.carryIn
    BY <1>3, <1>4
  <2>9. Right(e, logs[k])' <=> Right(e, r)'
    BY <2>7 DEF Right
  <2>. QED  BY <1>4, <2>4, <2>5, <2>6, <2>7, <2>8, <2>9 DEF StandsWell
<1>19. ASSUME NEW p \in Standing' PROVE StandsWell(p)'
  <2>1. CASE p = e
    BY <1>18, <2>1
  <2>2. CASE p # e
    <3>1. p \in Epochs /\ p \in Standing
      BY <1>10, <2>2 DEF Standing
    <3>2. /\ StandsWell(p) /\ p <= mark /\ ~skipped[p] /\ p \in Int /\ p <= e
          /\ LogsOf(p)' = LogsOf(p) /\ rootOf'[p] = rootOf[p]
      BY <1>1, <1>3, <1>5, <1>10, <1>14, <1>15, <2>2, <3>1, FundedType
    <3>3. ~skipped'[p] /\ p <= mark'
      <4>1. ~(mark < p) /\ p <= mark'
        BY <1>3, <1>5, <3>2
      <4>. QED  BY <1>11, <3>1, <3>2, <4>1
    <3>4. Owed(p)' = Owed(p)
      BY <1>17, <3>1, <3>2
    <3>. QED  BY <1>1, <1>3, <1>13, <3>1, <3>2, <3>3, <3>4, StandsWellStays
  <2>. QED  BY <2>1, <2>2
<1>. QED  BY <1>8, <1>9, <1>12, <1>19 DEF BookInv, StandingInv

-----------------------------------------------------------------------------
(* The book: every step. *)

(* A Draw's Root is posted. *)
LEMMA BookDraw ==
  ASSUME BookInv, NEW id \in Draws, PostDraw(id)
  PROVE  BookInv'
<1>1. BookType /\ StreamInv /\ MarkInv /\ StandingInv
  BY DEF BookInv
<1>2. PICK r : r = [kind |-> "draw", id |-> id, root |-> -2, totals |-> 0,
                    carryIn |-> 0, block |-> height + 1, fair |-> FALSE]
  OBVIOUS
<1>3. /\ Len(logs) < MaxLogs /\ logs' = Append(logs, r) /\ height' = height + 1
      /\ UNCHANGED <<eligible, now, endBlock, funded, rootOf, skipped, mark, voidable, voids>>
  BY <1>2 DEF PostDraw
<1>4. r.kind = "draw" /\ r.block = height + 1
  BY <1>2
<1>5. mark \in Int /\ height \in Nat /\ height + 1 \in Nat /\ MaxLogs \in Nat /\ id \in Nat
  BY <1>1, DistributorAssumption DEF BookType
<1>6. r \in LogRecords
  BY <1>2, <1>5 DEF LogRecords
<1>7. BookType'
  <2>1. logs' \in Seq(LogRecords) /\ Len(logs') <= MaxLogs
    BY <1>1, <1>3, <1>5, <1>6, LogAppended
  <2>. QED  BY <1>1, <1>3, <1>5, <2>1 DEF BookType
<1>8. StreamInv'
  BY <1>3, <1>4, <1>5, <1>6, StreamAppended
<1>9. MarkInv'
  <2>1. \A p \in Epochs : endBlock[p] \in Nat
    BY <1>1 DEF BookType
  <2>2. \A p \in Epochs : endBlock[p] <= height => endBlock[p] <= height + 1
    BY <1>5, <2>1
  <2>3. Standing' = Standing
    BY <1>3 DEF Standing
  <2>. QED  BY <1>1, <1>3, <2>2, <2>3 DEF MarkInv
<1>10. /\ \A i \in DOMAIN logs : i \in DOMAIN logs' /\ logs'[i] = logs[i]
       /\ \A p : LogsOf(p)' = LogsOf(p)
  BY <1>1, <1>3, <1>4, <1>6, LogAppended, LogsAppended
<1>11. ASSUME NEW p \in Standing' PROVE StandsWell(p)'
  <2>1. p \in Epochs /\ p \in Standing
    BY <1>3, <1>11 DEF Standing
  <2>2. StandsWell(p) /\ p <= mark /\ ~skipped[p]
    BY <1>1, <2>1 DEF StandingInv, StandsWell
  <2>3. \A q \in Standing : LogOf(q)' = LogOf(q)
    BY <1>7, <1>10, LogOfStays
  <2>4. Owed(p)' = Owed(p)
    BY <1>1, <1>3, <1>7, <2>1, <2>3, OwedStays
  <2>. QED  BY <1>1, <1>3, <1>10, <2>1, <2>2, <2>4, StandsWellStays
<1>. QED  BY <1>7, <1>8, <1>9, <1>11 DEF BookInv, StandingInv

(* Nothing happens. *)
LEMMA BookStays == BookInv /\ UNCHANGED contract => BookInv'
<1>. SUFFICES ASSUME BookInv, UNCHANGED contract PROVE BookInv'
  OBVIOUS
<1>. USE DEF contract
<1>1. BookType /\ StreamInv /\ MarkInv
  BY DEF BookInv
<1>2. BookType'
  BY <1>1 DEF BookType
<1>3. StreamInv' /\ MarkInv'
  BY <1>1 DEF StreamInv, MarkInv, IsEpochRoot, Standing
<1>4. StandingInv'
  BY <1>2, StandingStays
<1>. QED  BY <1>2, <1>3, <1>4 DEF BookInv

(* Whatever the chain does. *)
LEMMA BookMove == BookInv /\ Move => BookInv'
<1>. SUFFICES ASSUME BookInv, Move PROVE BookInv'
  OBVIOUS
<1>1. ASSUME NEW e \in Epochs, Posts(e) PROVE BookInv'
  <2>1. BookType /\ StandingInv
    BY DEF BookInv
  <2>2. Owed(e) \in Int /\ funded[e] \in Int
    BY <2>1, OwedType, FundedType
  <2>3. PICK carryIn \in {Owed(e), Owed(e) + 1} :
          LET base == funded[e] + carryIn
          IN \/ Post(e, RootOver(e, base), Allocated(e, base), carryIn)
             \/ carryIn = Owed(e) /\ Post(e, -1, Allocated(e, base), carryIn)
             \/ carryIn = Owed(e) /\ Post(e, RootOver(e, base), Allocated(e, base) - 1, carryIn)
    BY <1>1 DEF Posts
  <2>4. carryIn \in Int /\ funded[e] + carryIn \in Int
    BY <2>2, <2>3
  <2>5. RootOver(e, funded[e] + carryIn) \in Int /\ Allocated(e, funded[e] + carryIn) \in Int
    BY <2>1, <2>4, AllocatedType
  <2>6. PICK root \in Int, totals \in Int : Post(e, root, totals, carryIn)
    BY <2>3, <2>5
  <2>. QED  BY <2>4, <2>6, BookPost
<1>. QED  BY <1>1, BookTick, BookVoid, BookFund, BookDraw DEF Move

(* The reports leave the contract alone. *)
LEMMA BookNext == BookInv /\ [Next]_vars => BookInv'
<1>1. ASSUME BookInv, Next PROVE UNCHANGED contract \/ Move
  BY <1>1 DEF Next, Run, RunLatest, Reporting, vars
<1>2. UNCHANGED vars => UNCHANGED contract
  BY DEF vars
<1>. QED  BY <1>1, <1>2, BookStays, BookMove

-----------------------------------------------------------------------------
(* A page of the search. *)

(* What is chosen by a loop's equation, turn by turn, has the type of its states. *)
LEMMA LoopTyped ==
  ASSUME NEW N \in Nat, NEW S, NEW f, f = [k \in 0..N |-> f[k]], f[0] \in S,
         \A k \in 1..N : f[k - 1] \in S => f[k] \in S
  PROVE  f \in [0..N -> S]
<1>. DEFINE P == {k \in 0..N : f[k] \in S}
<1>1. 0 \in P
  OBVIOUS
<1>2. ASSUME NEW k \in 1..N, k - 1 \in P PROVE k \in P
  BY <1>2
<1>3. \A k \in 0..N : k \in P
  <2>. HIDE DEF P
  <2>. QED  BY <1>1, <1>2, Upwards
<1>. QED  BY <1>3

PageStates   == [log : Int, bound : Int]
SearchStates == [hi : Int, span : Nat \ {0}, bound : Int, log : Int]

(* One log of a page. *)
Turn(hi, lo, sinks, i, s) ==
    IF s.log # NotFound \/ logs[i].block \notin lo..hi THEN s ELSE Look(i, s, sinks)

(* A look at one log makes a state of a state. *)
LEMMA TurnType ==
  ASSUME BookType, NEW hi, NEW lo, NEW sinks, NEW i \in DOMAIN logs, NEW s \in PageStates
  PROVE  Turn(hi, lo, sinks, i, s) \in PageStates
<1>1. i \in Int /\ logs[i].id \in Int /\ s.bound \in Int /\ NotFound \in Int
  BY LogFields DEF PageStates, NotFound
<1>. QED  BY <1>1 DEF Turn, Look, PageStates

(* A page is a loop over the logs, from the newest. *)
PageRun(f, hi, lo, bound, sinks) ==
    /\ f \in [0..Len(logs) -> PageStates]
    /\ f[0] = [log |-> NotFound, bound |-> bound]
    /\ \A k \in 1..Len(logs) : f[k] = Turn(hi, lo, sinks, Len(logs) + 1 - k, f[k - 1])
    /\ Page(hi, lo, bound, sinks) = f[Len(logs)]

(* The loop of a page has a run. *)
LEMMA PageRuns ==
  ASSUME BookType, NEW hi, NEW lo, NEW bound \in Int, NEW sinks
  PROVE  \E f : PageRun(f, hi, lo, bound, sinks)
<1>. DEFINE N == Len(logs)
            s0 == [log |-> NotFound, bound |-> bound]
            G == [k \in 1..N |-> [s \in PageStates |-> Turn(hi, lo, sinks, N + 1 - k, s)]]
            Loops(f) == f = [k \in 0..N |-> IF k = 0 THEN s0 ELSE Turn(hi, lo, sinks, N + 1 - k, f[k - 1])]
            loop == CHOOSE f : Loops(f)
<1>1. N \in Nat /\ DOMAIN logs = 1..N
  BY LogFields
<1>2. s0 \in PageStates
  BY DEF PageStates, NotFound
<1>3. \A k \in 1..N : N + 1 - k \in DOMAIN logs
  BY <1>1
<1>4. \A k \in 1..N : \A s \in PageStates : Turn(hi, lo, sinks, N + 1 - k, s) \in PageStates
  BY <1>3, TurnType
<1>5. \A k \in 1..N : \A s \in PageStates : G[k][s] = Turn(hi, lo, sinks, N + 1 - k, s)
  OBVIOUS
<1>6. PICK g : Runs(g, N, PageStates, s0, G)
  <2>. HIDE DEF N, s0, G
  <2>. QED  BY <1>1, <1>2, <1>4, <1>5, LoopRuns
<1>7. Loops(g)
  <2>. HIDE DEF N, s0, G
  <2>1. g = [k \in 0..N |-> g[k]] /\ g[0] = s0
    BY <1>6 DEF Runs
  <2>2. \A k \in 0..N : k # 0 => k \in 1..N /\ k - 1 \in 0..N
    BY <1>1
  <2>3. \A k \in 0..N : k # 0 => g[k] = Turn(hi, lo, sinks, N + 1 - k, g[k - 1])
    BY <1>5, <1>6, <2>2 DEF Runs
  <2>. QED  BY <2>1, <2>3
<1>8. Loops(loop)
  <2>. HIDE DEF Loops
  <2>. QED  BY <1>7
<1>9. Page(hi, lo, bound, sinks) = loop[N]
  BY DEF Page, Turn
<1>. HIDE DEF loop, G, s0, N
<1>10. /\ loop = [k \in 0..N |-> loop[k]] /\ loop[0] = s0
       /\ \A k \in 1..N : loop[k] = Turn(hi, lo, sinks, N + 1 - k, loop[k - 1])
  BY <1>1, <1>8
<1>11. loop \in [0..N -> PageStates]
  <2>1. \A k \in 1..N : loop[k - 1] \in PageStates => loop[k] \in PageStates
    BY <1>4, <1>10
  <2>. QED  BY <1>1, <1>2, <1>10, <2>1, LoopTyped
<1>. QED  BY <1>9, <1>10, <1>11 DEF PageRun, N, s0

-----------------------------------------------------------------------------
(* What a page clears. *)

(* The log a search below the bound has to find. *)
First(k, bound) ==
    /\ k \in DOMAIN logs /\ Wanted(k, bound)
    /\ \A j \in DOMAIN logs : j > k => ~Wanted(j, bound)

(* Nothing wanted is left above block hi, and below it the bound may stand for the first one. *)
Clear(hi, first, bound) ==
    \A j \in DOMAIN logs : IF logs[j].block > hi THEN ~Wanted(j, first)
                           ELSE Wanted(j, first) <=> Wanted(j, bound)

(* Within a page, after the logs above index i were looked at. *)
Seen(i, hi, lo, j) == logs[j].block > hi \/ (j > i /\ logs[j].block >= lo)
Judging(s, i, hi, lo, first) ==
    IF s.log # NotFound THEN First(s.log, first)
    ELSE \A j \in DOMAIN logs : IF Seen(i, hi, lo, j) THEN ~Wanted(j, first)
                                ELSE Wanted(j, first) <=> Wanted(j, s.bound)

(* Where a Root that does not stand is the newest left of its Epoch, none of the Epoch's does. *)
LEMMA Sinking ==
  ASSUME BookInv, NEW i \in DOMAIN logs, NEW j \in DOMAIN logs, j < i, NEW first \in Int,
         IsEpochRoot(i), ~Wanted(i, first), Wanted(j, first),
         \A k \in DOMAIN logs : k > i => ~Wanted(k, first)
  PROVE  logs[j].id < logs[i].id
<1>1. BookType /\ StreamInv /\ StandingInv
  BY DEF BookInv
<1>2. logs[j].id \in Nat /\ logs[i].id \in Nat /\ logs[j].id <= logs[i].id /\ logs[j].id \in Epochs
  BY <1>1, LogFields DEF StreamInv, Wanted
<1>3. ASSUME logs[j].id = logs[i].id PROVE FALSE
  <2>. DEFINE e == logs[j].id
  <2>1. e \in Standing /\ e < first
    BY <1>2 DEF Wanted, Stands, Standing
  <2>2. PICK l \in DOMAIN logs : IsLast(l, e) /\ logs[l].root = rootOf[e]
    BY <1>1, <2>1 DEF StandingInv, StandsWell
  <2>3. l \in LogsOf(e) /\ i \in LogsOf(e)
    BY <1>3, <2>2 DEF IsLast, LogsOf, IsEpochRoot
  <2>4. i <= l /\ logs[l].kind = "epoch" /\ logs[l].id = e /\ l \in Int /\ i \in Int
    BY <1>1, <2>2, <2>3, LogFields DEF IsLast, LogsOf
  <2>5. Wanted(l, first)
    BY <2>1, <2>2, <2>4 DEF Wanted, IsEpochRoot, Stands, Standing
  <2>6. l = i \/ l > i
    BY <2>4
  <2>. QED  BY <2>5, <2>6
<1>. QED  BY <1>2, <1>3

(* Looking at one log more. *)
LEMMA TurnJudges ==
  ASSUME BookInv, NEW hi \in Int, NEW lo \in Int, NEW sinks \in BOOLEAN, NEW first \in Int,
         NEW i \in DOMAIN logs, NEW s \in PageStates, Judging(s, i, hi, lo, first)
  PROVE  Judging(Turn(hi, lo, sinks, i, s), i - 1, hi, lo, first)
<1>1. BookType /\ StreamInv
  BY DEF BookInv
<1>2. \A j \in DOMAIN logs : j \in Int /\ logs[j].block \in Int /\ logs[j].id \in Int
  BY <1>1, LogFields
<1>3. \A j, k \in DOMAIN logs : j < k => logs[j].block < logs[k].block
  BY <1>1 DEF StreamInv
<1>4. s.bound \in Int /\ s.log \in Int
  BY DEF PageStates
<1>5. CASE s.log # NotFound
  <2>1. Turn(hi, lo, sinks, i, s) = s
    BY <1>5 DEF Turn
  <2>. QED  BY <1>5, <2>1 DEF Judging
<1>6. CASE s.log = NotFound /\ logs[i].block \notin lo..hi
  <2>1. Turn(hi, lo, sinks, i, s) = s
    BY <1>6 DEF Turn
  <2>2. \A j \in DOMAIN logs : Seen(i - 1, hi, lo, j) <=> Seen(i, hi, lo, j)
    <3>1. \A j \in DOMAIN logs : j > i - 1 <=> (j > i \/ j = i)
      BY <1>2
    <3>2. logs[i].block > hi \/ ~(logs[i].block >= lo)
      BY <1>2, <1>6
    <3>. QED  BY <3>1, <3>2 DEF Seen
  <2>. QED  BY <1>6, <2>1, <2>2 DEF Judging
<1>7. CASE s.log = NotFound /\ logs[i].block \in lo..hi
  <2>1. Turn(hi, lo, sinks, i, s) = Look(i, s, sinks)
    BY <1>7 DEF Turn
  <2>2. \A j \in DOMAIN logs : IF Seen(i, hi, lo, j) THEN ~Wanted(j, first)
                                ELSE Wanted(j, first) <=> Wanted(j, s.bound)
    BY <1>7 DEF Judging
  <2>3. ~Seen(i, hi, lo, i)
    BY <1>2, <1>7 DEF Seen
  <2>4. \A j \in DOMAIN logs : j > i => ~Wanted(j, first)
    <3>1. \A j \in DOMAIN logs : j > i => Seen(i, hi, lo, j)
      <4>. SUFFICES ASSUME NEW j \in DOMAIN logs, j > i PROVE logs[j].block >= lo
        BY DEF Seen
      <4>1. logs[i].block < logs[j].block /\ lo <= logs[i].block
        BY <1>2, <1>3, <1>7
      <4>. QED  BY <1>2, <4>1
    <3>. QED  BY <2>2, <3>1
  <2>5. \A j \in DOMAIN logs : /\ Seen(i - 1, hi, lo, j) <=> (Seen(i, hi, lo, j) \/ j = i)
                               /\ ~Seen(i - 1, hi, lo, j) => j < i
    <3>1. \A j \in DOMAIN logs : (j > i - 1 <=> (j > i \/ j = i)) /\ (j < i \/ j = i \/ j > i)
      BY <1>2
    <3>2. logs[i].block >= lo
      BY <1>2, <1>7
    <3>3. \A j \in DOMAIN logs : j > i => logs[j].block >= lo
      <4>. SUFFICES ASSUME NEW j \in DOMAIN logs, j > i PROVE logs[j].block >= lo
        OBVIOUS
      <4>1. logs[i].block < logs[j].block
        BY <1>2, <1>3
      <4>. QED  BY <1>2, <3>2, <4>1
    <3>. QED  BY <3>1, <3>2, <3>3 DEF Seen
  <2>6. CASE Wanted(i, s.bound)
    <3>1. Look(i, s, sinks).log = i /\ i # NotFound
      BY <1>1, <2>6, LogFields DEF Look, NotFound
    <3>2. First(i, first)
      BY <2>2, <2>3, <2>4, <2>6 DEF First
    <3>. QED  BY <2>1, <3>1, <3>2 DEF Judging
  <2>7. CASE ~Wanted(i, s.bound)
    <3>1. ~Wanted(i, first)
      BY <2>2, <2>3, <2>7
    <3>2. \A j \in DOMAIN logs : Seen(i - 1, hi, lo, j) => ~Wanted(j, first)
      BY <2>2, <2>5, <3>1
    <3>3. CASE sinks /\ IsEpochRoot(i) /\ logs[i].id < s.bound
      <4>1. Look(i, s, sinks) = [log |-> NotFound, bound |-> logs[i].id]
        BY <2>7, <3>3 DEF Look
      <4>2. ASSUME NEW j \in DOMAIN logs, ~Seen(i - 1, hi, lo, j) PROVE Wanted(j, first) <=> Wanted(j, logs[i].id)
        <5>1. j < i /\ (Wanted(j, first) <=> Wanted(j, s.bound))
          BY <2>2, <2>5, <4>2
        <5>2. Wanted(j, first) => logs[j].id < logs[i].id
          BY <2>4, <3>1, <3>3, <5>1, Sinking
        <5>3. logs[j].id < logs[i].id => logs[j].id < s.bound
          BY <1>2, <1>4, <3>3
        <5>. QED  BY <5>1, <5>2, <5>3 DEF Wanted
      <4>. QED  BY <2>1, <3>2, <4>1, <4>2 DEF Judging
    <3>4. CASE ~(sinks /\ IsEpochRoot(i) /\ logs[i].id < s.bound)
      <4>1. Look(i, s, sinks) = s
        BY <2>7, <3>4 DEF Look
      <4>2. \A j \in DOMAIN logs : ~Seen(i - 1, hi, lo, j) => (Wanted(j, first) <=> Wanted(j, s.bound))
        BY <2>2, <2>5
      <4>. QED  BY <1>7, <2>1, <3>2, <4>1, <4>2 DEF Judging
    <3>. QED  BY <3>3, <3>4
  <2>. QED  BY <2>6, <2>7
<1>. QED  BY <1>5, <1>6, <1>7

(* A page finds the first log that is wanted, or leaves none above the block it begins at. *)
LEMMA PageClears ==
  ASSUME BookInv, NEW hi \in Int, NEW lo \in Int, lo <= hi, NEW sinks \in BOOLEAN,
         NEW first \in Int, NEW bound \in Int, Clear(hi, first, bound)
  PROVE  /\ Page(hi, lo, bound, sinks) \in PageStates
         /\ IF Page(hi, lo, bound, sinks).log # NotFound THEN First(Page(hi, lo, bound, sinks).log, first)
            ELSE Clear(lo - 1, first, Page(hi, lo, bound, sinks).bound)
<1>1. BookType
  BY DEF BookInv
<1>2. PICK f : PageRun(f, hi, lo, bound, sinks)
  BY <1>1, PageRuns
<1>. DEFINE N == Len(logs)
            P == {k \in 0..N : Judging(f[k], N - k, hi, lo, first)}
<1>3. N \in Nat /\ DOMAIN logs = 1..N
  BY <1>1, LogFields
<1>4. \A j \in DOMAIN logs : j \in Int /\ logs[j].block \in Int
  BY <1>1, LogFields
<1>5. 0 \in P
  <2>1. f[0].log = NotFound /\ f[0].bound = bound
    BY <1>2 DEF PageRun
  <2>2. \A j \in DOMAIN logs : Seen(N - 0, hi, lo, j) <=> logs[j].block > hi
    BY <1>3, <1>4 DEF Seen
  <2>3. Judging(f[0], N - 0, hi, lo, first)
    BY <2>1, <2>2 DEF Judging, Clear
  <2>. QED  BY <1>3, <2>3
<1>6. ASSUME NEW k \in 1..N, k - 1 \in P PROVE k \in P
  <2>1. /\ f[k - 1] \in PageStates /\ N + 1 - k \in DOMAIN logs /\ f[k] = Turn(hi, lo, sinks, N + 1 - k, f[k - 1])
        /\ N - (k - 1) = N + 1 - k /\ N - k = (N + 1 - k) - 1 /\ k \in 0..N
    BY <1>2, <1>3 DEF PageRun
  <2>2. Judging(f[k - 1], N + 1 - k, hi, lo, first)
    BY <1>6, <2>1
  <2>. HIDE DEF N
  <2>3. Judging(f[k], (N + 1 - k) - 1, hi, lo, first)
    BY <2>1, <2>2, TurnJudges
  <2>. QED  BY <2>1, <2>3
<1>7. N \in P
  <2>1. N \in 0..N
    BY <1>3
  <2>. HIDE DEF P, N
  <2>. QED  BY <1>3, <1>5, <1>6, <2>1, Upwards
<1>8. Page(hi, lo, bound, sinks) = f[N] /\ f[N] \in PageStates
  BY <1>2, <1>3 DEF PageRun
<1>9. \A j \in DOMAIN logs : Seen(N - N, hi, lo, j) <=> logs[j].block > lo - 1
  BY <1>3, <1>4 DEF Seen
<1>10. Judging(f[N], N - N, hi, lo, first)
  BY <1>7
<1>11. f[N].log = NotFound => Clear(lo - 1, first, f[N].bound)
  <2>. HIDE DEF N
  <2>. QED  BY <1>9, <1>10 DEF Judging, Clear
<1>. QED  BY <1>8, <1>10, <1>11 DEF Judging

-----------------------------------------------------------------------------
(* The search. *)

(* A page begins at or below the block it ends at, and not below the deploy block. *)
LEMMA Floors ==
  ASSUME NEW hi \in Int, hi >= 0, NEW span \in Nat \ {0}
  PROVE  /\ PageFloor(hi, span) \in Int /\ 0 <= PageFloor(hi, span) /\ PageFloor(hi, span) <= hi
         /\ NextPage(PageFloor(hi, span)) = PageFloor(hi, span) - 1
         /\ NextPage(PageFloor(hi, span)) <= hi - 1
  BY DEF PageFloor, NextPage

(* The search, page by page: after n of them it has found its log, or come down n blocks. *)
SearchOK(s, n, first) ==
    IF s.log # NotFound THEN First(s.log, first)
    ELSE Clear(s.hi, first, s.bound) /\ (s.hi <= height - n \/ s.hi < 0)

(* A page of the search makes a state of a state. *)
LEMMA SearchedType ==
  ASSUME BookType, NEW sinks, NEW s \in SearchStates
  PROVE  Searched(s, sinks) \in SearchStates
<1>1. s.hi \in Int /\ s.span \in Nat \ {0} /\ s.bound \in Int /\ s.log \in Int
  BY DEF SearchStates
<1>. DEFINE lo   == PageFloor(s.hi, s.span)
            page == Page(s.hi, lo, s.bound, sinks)
<1>2. lo \in Int /\ NextPage(lo) \in Int /\ 2 * s.span \in Nat \ {0}
  BY <1>1 DEF PageFloor, NextPage
<1>. HIDE DEF lo
<1>3. PICK f : PageRun(f, s.hi, lo, s.bound, sinks)
  BY <1>1, PageRuns
<1>4. page \in PageStates
  BY <1>3, LogFields DEF PageRun
<1>. HIDE DEF page
<1>5. page.bound \in Int /\ page.log \in Int
  BY <1>4 DEF PageStates
<1>6. [hi |-> NextPage(lo), span |-> 2 * s.span, bound |-> page.bound, log |-> page.log] \in SearchStates
  BY <1>2, <1>5 DEF SearchStates
<1>. QED  BY <1>6 DEF Searched, lo, page

(* One page more finds the log, or comes down past its own blocks. *)
LEMMA SearchedOK ==
  ASSUME BookInv, NEW sinks \in BOOLEAN, NEW first \in Int, NEW n \in Nat \ {0},
         NEW s \in SearchStates, SearchOK(s, n - 1, first)
  PROVE  SearchOK(Searched(s, sinks), n, first)
<1>1. BookType /\ height \in Int
  BY DEF BookInv, BookType
<1>2. s.hi \in Int /\ s.span \in Nat \ {0} /\ s.bound \in Int /\ s.log \in Int
  BY DEF SearchStates
<1>3. CASE s.log # NotFound \/ s.hi < 0
  <2>1. Searched(s, sinks) = s
    BY <1>3 DEF Searched
  <2>. QED  BY <1>2, <1>3, <2>1 DEF SearchOK
<1>4. CASE s.log = NotFound /\ ~(s.hi < 0)
  <2>. DEFINE lo   == PageFloor(s.hi, s.span)
              page == Page(s.hi, lo, s.bound, sinks)
              next == [hi |-> NextPage(lo), span |-> 2 * s.span, bound |-> page.bound, log |-> page.log]
  <2>1. Searched(s, sinks) = next
    BY <1>4 DEF Searched
  <2>2. s.hi >= 0
    BY <1>2, <1>4
  <2>3. lo \in Int /\ lo <= s.hi /\ NextPage(lo) = lo - 1 /\ NextPage(lo) <= s.hi - 1
    BY <1>2, <2>2, Floors
  <2>4. Clear(s.hi, first, s.bound) /\ s.hi <= height - (n - 1)
    BY <1>4 DEF SearchOK
  <2>. HIDE DEF lo
  <2>5. /\ page \in PageStates
        /\ IF page.log # NotFound THEN First(page.log, first) ELSE Clear(lo - 1, first, page.bound)
    BY <1>2, <2>3, <2>4, PageClears
  <2>. HIDE DEF page
  <2>6. page.bound \in Int /\ page.log \in Int /\ 2 * s.span \in Nat \ {0} /\ lo - 1 \in Int
    BY <1>2, <2>3, <2>5 DEF PageStates
  <2>7. next.hi = lo - 1 /\ next.bound = page.bound /\ next.log = page.log
    BY <2>3
  <2>8. lo - 1 <= height - n
    BY <1>1, <1>2, <2>3, <2>4
  <2>. HIDE DEF next
  <2>9. SearchOK(next, n, first)
    BY <2>5, <2>7, <2>8 DEF SearchOK
  <2>. QED  BY <2>1, <2>9
<1>. QED  BY <1>3, <1>4

(* searchBack returns the first log that is wanted, from the tip, if there is one. *)
LEMMA SearchFinds ==
  ASSUME BookInv, NEW sinks \in BOOLEAN, NEW bound \in Int
  PROVE  IF SearchBack(bound, sinks) # NotFound THEN First(SearchBack(bound, sinks), bound)
         ELSE \A j \in DOMAIN logs : ~Wanted(j, bound)
<1>. DEFINE N == height + 1
            s0 == [hi |-> height, span |-> SearchSpan, bound |-> bound, log |-> NotFound]
            G == [k \in 1..N |-> [s \in SearchStates |-> Searched(s, sinks)]]
            Loops(f) == f = [k \in 0..N |-> IF k = 0 THEN s0 ELSE Searched(f[k - 1], sinks)]
            loop == CHOOSE f : Loops(f)
            P == {k \in 0..N : SearchOK(loop[k], k, bound)}
<1>1. BookType /\ StreamInv /\ N \in Nat /\ height \in Nat
  BY DEF BookInv, BookType
<1>2. s0 \in SearchStates
  BY <1>1, SearchAssumption DEF SearchStates, NotFound
<1>3. \A s \in SearchStates : Searched(s, sinks) \in SearchStates
  BY <1>1, SearchedType
<1>4. \A k \in 1..N : \A s \in SearchStates : G[k][s] = Searched(s, sinks)
  OBVIOUS
<1>5. PICK g : Runs(g, N, SearchStates, s0, G)
  <2>. HIDE DEF N, s0, G
  <2>. QED  BY <1>1, <1>2, <1>3, <1>4, LoopRuns
<1>6. Loops(g)
  <2>. HIDE DEF N, s0, G
  <2>1. g = [k \in 0..N |-> g[k]] /\ g[0] = s0
    BY <1>5 DEF Runs
  <2>2. \A k \in 0..N : k # 0 => k \in 1..N /\ k - 1 \in 0..N
    BY <1>1
  <2>3. \A k \in 0..N : k # 0 => g[k] = Searched(g[k - 1], sinks)
    BY <1>4, <1>5, <2>2 DEF Runs
  <2>. QED  BY <2>1, <2>3
<1>7. Loops(loop)
  <2>. HIDE DEF Loops
  <2>. QED  BY <1>6
<1>8. SearchBack(bound, sinks) = loop[N].log
  BY DEF SearchBack
<1>9. s0.log = NotFound /\ s0.hi = height /\ s0.bound = bound
  OBVIOUS
<1>10. N = height + 1
  OBVIOUS
<1>. HIDE DEF loop, G, s0, N
<1>11. /\ loop = [k \in 0..N |-> loop[k]] /\ loop[0] = s0
       /\ \A k \in 1..N : loop[k] = Searched(loop[k - 1], sinks)
  BY <1>1, <1>7
<1>12. loop \in [0..N -> SearchStates]
  <2>1. \A k \in 1..N : loop[k - 1] \in SearchStates => loop[k] \in SearchStates
    BY <1>3, <1>11
  <2>. QED  BY <1>1, <1>2, <1>11, <2>1, LoopTyped
<1>. HIDE DEF Loops
<1>13. 0 \in P
  <2>1. \A j \in DOMAIN logs : ~(logs[j].block > height)
    BY <1>1, LogFields DEF StreamInv
  <2>2. Clear(height, bound, bound) /\ height <= height - 0
    BY <1>1, <2>1 DEF Clear
  <2>3. SearchOK(loop[0], 0, bound)
    BY <1>9, <1>11, <2>2 DEF SearchOK
  <2>. QED  BY <1>1, <2>3
<1>14. ASSUME NEW k \in 1..N, k - 1 \in P PROVE k \in P
  <2>1. k \in Nat \ {0} /\ k \in 0..N /\ k - 1 \in 0..N
    BY <1>1
  <2>2. loop[k - 1] \in SearchStates /\ SearchOK(loop[k - 1], k - 1, bound) /\ loop[k] = Searched(loop[k - 1], sinks)
    BY <1>11, <1>12, <1>14, <2>1
  <2>3. SearchOK(loop[k], k, bound)
    BY <2>1, <2>2, SearchedOK
  <2>. QED  BY <2>1, <2>3
<1>15. SearchOK(loop[N], N, bound) /\ loop[N] \in SearchStates
  <2>1. N \in 0..N
    BY <1>1
  <2>2. N \in P
    <3>. HIDE DEF P
    <3>. QED  BY <1>1, <1>13, <1>14, <2>1, Upwards
  <2>. QED  BY <1>12, <2>1, <2>2
<1>16. ASSUME loop[N].log = NotFound PROVE \A j \in DOMAIN logs : ~Wanted(j, bound)
  <2>1. loop[N].hi \in Int /\ loop[N].hi < 0
    BY <1>1, <1>10, <1>15, <1>16 DEF SearchOK, SearchStates
  <2>2. \A j \in DOMAIN logs : logs[j].block > loop[N].hi
    BY <1>1, <2>1, LogFields
  <2>. QED  BY <1>15, <1>16, <2>2 DEF SearchOK, Clear
<1>. QED  BY <1>8, <1>15, <1>16 DEF SearchOK

-----------------------------------------------------------------------------
(* Latest, and the carry of one link. *)

(* The last log of a standing Epoch below the bound is wanted. *)
LEMMA LastIsWanted ==
  ASSUME BookInv, NEW first \in Int, NEW q \in Standing, q < first
  PROVE  \E l \in DOMAIN logs : IsLast(l, q) /\ Wanted(l, first) /\ logs[l].id = q
<1>1. PICK l \in DOMAIN logs : IsLast(l, q) /\ logs[l].root = rootOf[q]
  BY DEF BookInv, StandingInv, StandsWell
<1>2. logs[l].id = q /\ logs[l].kind = "epoch" /\ rootOf[q] # NoRoot
  BY <1>1 DEF IsLast, LogsOf, Standing
<1>. QED  BY <1>1, <1>2 DEF Wanted, IsEpochRoot, Stands

(* The first log that is wanted is the last log of the last standing Root below the bound. *)
LEMMA FirstIsLast ==
  ASSUME BookInv, NEW first \in Int, NEW k, First(k, first)
  PROVE  /\ logs[k].id \in Standing /\ logs[k].id < first /\ IsLast(k, logs[k].id)
         /\ \A q \in Standing : q < first => q <= logs[k].id
<1>. DEFINE e == logs[k].id
<1>1. BookType /\ StreamInv /\ k \in DOMAIN logs /\ Wanted(k, first)
  BY DEF BookInv, First
<1>2. \A j \in DOMAIN logs : j \in Int /\ logs[j].id \in Int
  BY <1>1, LogFields
<1>3. e \in Standing /\ e < first /\ IsEpochRoot(k)
  BY <1>1 DEF Wanted, Stands, Standing, StreamInv
<1>4. ASSUME NEW l \in DOMAIN logs, Wanted(l, first) PROVE l <= k /\ logs[l].id <= e
  <2>1. l = k \/ l < k
    BY <1>1, <1>2, <1>4 DEF First
  <2>2. IsEpochRoot(l)
    BY <1>4 DEF Wanted
  <2>3. l < k => logs[l].id <= e
    BY <1>1, <1>3, <1>4, <2>2 DEF StreamInv
  <2>. QED  BY <1>1, <1>2, <2>1, <2>3
<1>. HIDE DEF e
<1>5. \A q \in Standing : q < first => q <= e
  BY <1>4, LastIsWanted
<1>6. IsLast(k, e)
  <2>1. PICK l \in DOMAIN logs : IsLast(l, e) /\ Wanted(l, first)
    BY <1>3, LastIsWanted
  <2>2. k \in LogsOf(e)
    BY <1>1, <1>3 DEF LogsOf, IsEpochRoot, e
  <2>3. k <= l /\ l <= k
    BY <1>4, <2>1, <2>2 DEF IsLast
  <2>4. k = l
    BY <1>1, <1>2, <2>3
  <2>. QED  BY <2>1, <2>4
<1>. QED  BY <1>3, <1>5, <1>6 DEF e

(* Latest is the last log of the last Epoch that has a Root, whatever was voided, re-posted *)
(* or logged after it.                                                                      *)
LEMMA LatestFound == BookInv => LatestIsLatest
<1>. SUFFICES ASSUME BookInv PROVE LatestIsLatest
  OBVIOUS
<1>1. BookType /\ MaxEpoch \in Nat /\ MaxEpoch + 1 \in Int
  BY DistributorAssumption DEF BookInv
<1>2. \A q \in Standing : q \in Int /\ q < MaxEpoch + 1
  BY <1>1 DEF Standing, Epochs
<1>3. IF Latest # NotFound THEN First(Latest, MaxEpoch + 1) ELSE \A j \in DOMAIN logs : ~Wanted(j, MaxEpoch + 1)
  BY <1>1, SearchFinds DEF Latest
<1>4. CASE Latest = NotFound
  <2>1. Standing = {}
    BY <1>1, <1>2, <1>3, <1>4, LastIsWanted
  <2>. QED  BY <1>4, <2>1 DEF LatestIsLatest
<1>5. CASE Latest # NotFound
  <2>. DEFINE e == logs[Latest].id
  <2>1. e \in Standing /\ IsLast(Latest, e) /\ \A q \in Standing : q <= e
    BY <1>1, <1>2, <1>3, <1>5, FirstIsLast
  <2>. HIDE DEF e
  <2>2. Standing # {} /\ Standing \subseteq Int
    BY <1>2, <2>1
  <2>3. Max(Standing) = e
    BY <2>1, <2>2, MaxIs
  <2>4. LogOf(e) = logs[Latest]
    BY <1>1, <2>1, LastOf
  <2>. QED  BY <1>5, <2>2, <2>3, <2>4 DEF LatestIsLatest
<1>. QED  BY <1>4, <1>5

(* One link from the previous Root is what the chain leaves the target. *)
LEMMA ExpectedIsOwed ==
  ASSUME BookInv, NEW t \in Epochs
  PROVE  ExpectedCarry(t) = Owed(t)
<1>1. BookType /\ t \in Int /\ t - 1 \in 0..MaxEpoch /\ 1 \in Nat \ {0}
  BY FundedType, DistributorAssumption DEF BookInv, Epochs
<1>. DEFINE p == PreviousRoot(t)
<1>2. IF p # NotFound THEN First(p, t) ELSE \A j \in DOMAIN logs : ~Wanted(j, t)
  BY <1>1, SearchFinds DEF PreviousRoot
<1>. HIDE DEF p
<1>3. CASE p = NotFound
  <2>1. \A q \in Standing : ~(q < t)
    BY <1>1, <1>2, <1>3, LastIsWanted
  <2>2. Owed(t) = Total(funded, 1, t - 1) /\ Total(funded, 1, t - 1) \in Int
    BY <1>1, <2>1, OwedFirst, FundedType
  <2>3. ExpectedCarry(t) = 0 + Total(funded, 1, t - 1)
    BY <1>3 DEF ExpectedCarry, CarryOver, p
  <2>. QED  BY <2>2, <2>3
<1>4. CASE p # NotFound
  <2>. DEFINE e == logs[p].id
              base == funded[e] + logs[p].carryIn
  <2>1. e \in Standing /\ e < t /\ IsLast(p, e) /\ \A q \in Standing : q < t => q <= e
    BY <1>1, <1>2, <1>4, FirstIsLast
  <2>2. Owed(t) = (base - Allocated(e, base)) + Total(funded, e + 1, t - 1)
    <3>. HIDE DEF e
    <3>. QED  BY <1>1, <2>1, OwedFrom
  <2>3. Recompute(e, p, logs[p].carryIn).carryOut = base - Allocated(e, base)
    BY <1>4 DEF Recompute
  <2>4. ExpectedCarry(t) = CarryOver(Recompute(e, p, logs[p].carryIn).carryOut, e + 1, t)
    BY <1>4 DEF ExpectedCarry, p
  <2>. QED  BY <2>2, <2>3, <2>4 DEF CarryOver
<1>. QED  BY <1>3, <1>4

-----------------------------------------------------------------------------
(* The table of standing Roots. *)

(* standingRoots' loop body. *)
Noted(i, last, table) ==
    IF ~IsEpochRoot(i) \/ logs[i].id >= last THEN table
    ELSE [table EXCEPT ![logs[i].id] = IF Stands(i) THEN i ELSE NotFound]

(* The table after i logs: no Epoch without a Root or past the end is in it, and an Epoch whose *)
(* last log was read is there with it.                                                          *)
TableOK(table, i, last) ==
    \A e \in Epochs :
        /\ (e \notin Standing \/ e >= last) => table[e] = NotFound
        /\ \A l \in DOMAIN logs : (IsLast(l, e) /\ e \in Standing /\ e < last /\ l <= i) => table[e] = l

Tables == [Epochs -> Int]

(* One log more keeps the table right: only an Epoch's last log can be the one that stands. *)
LEMMA NotedOK ==
  ASSUME BookInv, NEW last \in Int, NEW i \in DOMAIN logs, NEW table \in Tables, TableOK(table, i - 1, last)
  PROVE  TableOK(Noted(i, last, table), i, last)
<1>1. BookType /\ StreamInv /\ StandingInv
  BY DEF BookInv
<1>2. \A j \in DOMAIN logs : j \in Int /\ logs[j].id \in Int
  BY <1>1, LogFields
<1>3. IsEpochRoot(i) => logs[i].id \in Epochs
  BY <1>1 DEF StreamInv
<1>4. \A e \in Epochs : Noted(i, last, table)[e]
                          = IF ~IsEpochRoot(i) \/ logs[i].id >= last \/ e # logs[i].id THEN table[e]
                            ELSE IF Stands(i) THEN i ELSE NotFound
  BY <1>3 DEF Noted, Tables
<1>. SUFFICES ASSUME NEW e \in Epochs
              PROVE  /\ (e \notin Standing \/ e >= last) => Noted(i, last, table)[e] = NotFound
                     /\ \A l \in DOMAIN logs : (IsLast(l, e) /\ e \in Standing /\ e < last /\ l <= i)
                                                  => Noted(i, last, table)[e] = l
  BY DEF TableOK
<1>5. ASSUME e \notin Standing \/ e >= last PROVE Noted(i, last, table)[e] = NotFound
  <2>1. table[e] = NotFound
    BY <1>5 DEF TableOK
  <2>2. (e = logs[i].id /\ e \notin Standing) => ~Stands(i)
    BY DEF Stands, Standing
  <2>. QED  BY <1>4, <1>5, <2>1, <2>2
<1>6. ASSUME NEW l \in DOMAIN logs, IsLast(l, e), e \in Standing, e < last, l <= i
      PROVE  Noted(i, last, table)[e] = l
  <2>1. logs[l].kind = "epoch" /\ logs[l].id = e /\ logs[l].root = rootOf[e] /\ rootOf[e] # NoRoot
    <3>1. PICK k \in DOMAIN logs : IsLast(k, e) /\ logs[k].root = rootOf[e]
      BY <1>1, <1>6 DEF StandingInv, StandsWell
    <3>2. k <= l /\ l <= k
      BY <1>6, <3>1 DEF IsLast
    <3>3. k = l
      BY <1>2, <3>2
    <3>. QED  BY <1>6, <3>1, <3>3 DEF IsLast, LogsOf, Standing
  <2>2. CASE l = i
    <3>1. IsEpochRoot(i) /\ Stands(i) /\ ~(logs[i].id >= last) /\ e = logs[i].id
      BY <1>2, <1>6, <2>1, <2>2 DEF IsEpochRoot, Stands
    <3>. QED  BY <1>4, <2>2, <3>1
  <2>3. CASE l < i
    <3>1. ~(i <= l) /\ l <= i - 1
      BY <1>2, <2>3
    <3>2. ~IsEpochRoot(i) \/ e # logs[i].id
      BY <1>6, <3>1 DEF IsLast, LogsOf, IsEpochRoot
    <3>3. table[e] = l
      BY <1>6, <3>1 DEF TableOK
    <3>. QED  BY <1>4, <3>2, <3>3
  <2>. QED  BY <1>2, <1>6, <2>2, <2>3
<1>. QED  BY <1>5, <1>6

(* The table stays a table. *)
LEMMA NotedType ==
  ASSUME BookInv, NEW last, NEW i \in DOMAIN logs, NEW table \in Tables
  PROVE  Noted(i, last, table) \in Tables
<1>1. i \in Int /\ NotFound \in Int
  BY LogFields DEF BookInv, NotFound
<1>. QED  BY <1>1 DEF Noted, Tables

(* standingRoots is the last log of every Epoch below the end that has a Root. *)
LEMMA StandingRootsAre ==
  ASSUME BookInv, NEW last \in Int, NEW e \in Epochs
  PROVE  /\ (e \notin Standing \/ e >= last) => StandingRoots(last)[e] = NotFound
         /\ (e \in Standing /\ e < last) => IsLast(StandingRoots(last)[e], e)
<1>. DEFINE N == Len(logs)
            s0 == [x \in Epochs |-> NotFound]
            G == [k \in 1..N |-> [s \in Tables |-> Noted(k, last, s)]]
            Loops(f) == f = [k \in 0..N |-> IF k = 0 THEN s0 ELSE Noted(k, last, f[k - 1])]
            loop == CHOOSE f : Loops(f)
            P == {k \in 0..N : TableOK(loop[k], k, last)}
<1>1. BookType /\ N \in Nat /\ DOMAIN logs = 1..N
  BY LogFields DEF BookInv
<1>2. s0 \in Tables
  BY DEF Tables, NotFound
<1>3. \A k \in 1..N : \A s \in Tables : Noted(k, last, s) \in Tables
  BY <1>1, NotedType
<1>4. \A k \in 1..N : \A s \in Tables : G[k][s] = Noted(k, last, s)
  OBVIOUS
<1>5. PICK g : Runs(g, N, Tables, s0, G)
  <2>. HIDE DEF N, s0, G
  <2>. QED  BY <1>1, <1>2, <1>3, <1>4, LoopRuns
<1>6. Loops(g)
  <2>. HIDE DEF N, s0, G
  <2>1. g = [k \in 0..N |-> g[k]] /\ g[0] = s0
    BY <1>5 DEF Runs
  <2>2. \A k \in 0..N : k # 0 => k \in 1..N /\ k - 1 \in 0..N
    BY <1>1
  <2>3. \A k \in 0..N : k # 0 => g[k] = Noted(k, last, g[k - 1])
    BY <1>4, <1>5, <2>2 DEF Runs
  <2>. QED  BY <2>1, <2>3
<1>7. Loops(loop)
  <2>. HIDE DEF Loops
  <2>. QED  BY <1>6
<1>8. StandingRoots(last) = loop[N]
  BY DEF StandingRoots, Noted
<1>9. \A x \in Epochs : s0[x] = NotFound
  OBVIOUS
<1>. HIDE DEF loop, G, s0, N
<1>10. /\ loop = [k \in 0..N |-> loop[k]] /\ loop[0] = s0
       /\ \A k \in 1..N : loop[k] = Noted(k, last, loop[k - 1])
  BY <1>1, <1>7
<1>11. loop \in [0..N -> Tables]
  <2>1. \A k \in 1..N : loop[k - 1] \in Tables => loop[k] \in Tables
    BY <1>3, <1>10
  <2>. QED  BY <1>1, <1>2, <1>10, <2>1, LoopTyped
<1>. HIDE DEF Loops
<1>12. 0 \in P
  <2>1. \A l \in DOMAIN logs : ~(l <= 0)
    BY <1>1
  <2>2. TableOK(loop[0], 0, last)
    BY <1>9, <1>10, <2>1 DEF TableOK
  <2>. QED  BY <1>1, <2>2
<1>13. ASSUME NEW k \in 1..N, k - 1 \in P PROVE k \in P
  <2>1. k \in DOMAIN logs /\ k \in 0..N /\ k - 1 \in 0..N
    BY <1>1
  <2>2. loop[k - 1] \in Tables /\ TableOK(loop[k - 1], k - 1, last) /\ loop[k] = Noted(k, last, loop[k - 1])
    BY <1>10, <1>11, <1>13, <2>1
  <2>3. TableOK(loop[k], k, last)
    BY <2>1, <2>2, NotedOK
  <2>. QED  BY <2>1, <2>3
<1>14. TableOK(loop[N], N, last)
  <2>1. N \in 0..N
    BY <1>1
  <2>2. N \in P
    <3>. HIDE DEF P
    <3>. QED  BY <1>1, <1>12, <1>13, <2>1, Upwards
  <2>. QED  BY <2>2
<1>15. ASSUME e \in Standing, e < last PROVE IsLast(loop[N][e], e)
  <2>1. PICK l \in DOMAIN logs : IsLast(l, e)
    BY <1>15 DEF BookInv, StandingInv, StandsWell
  <2>2. l <= N
    BY <1>1, <2>1
  <2>. QED  BY <1>14, <1>15, <2>1, <2>2 DEF TableOK
<1>. QED  BY <1>8, <1>14, <1>15 DEF TableOK

-----------------------------------------------------------------------------
(* Links. *)

(* What a run makes of an Epoch. *)
Links      == {Recompute(e, log, x) : e \in Epochs, log \in DOMAIN logs \cup {NotFound}, x \in Int}
WalkStates == [carry : Int, links : Seq(Links)]

(* What the Roots of some links commit to. *)
Committed(links) == Total([i \in DOMAIN links |-> links[i].totals], 1, Len(links))

(* A link is over the carryIn that was posted, or over the expected one, and leaves the rest. *)
LEMMA LinkFields ==
  ASSUME BookType, NEW e \in Epochs, NEW log \in DOMAIN logs \cup {NotFound}, NEW x \in Int,
         NEW r, r = Recompute(e, log, x)
  PROVE  /\ r \in Links
         /\ r.id = e /\ r.log = log /\ r.expected = x
         /\ r.carryIn = (IF log = NotFound THEN x ELSE logs[log].carryIn) /\ r.carryIn \in Int
         /\ r.root = RootOver(e, funded[e] + r.carryIn)
         /\ r.totals = Allocated(e, funded[e] + r.carryIn) /\ r.totals \in Int
         /\ r.carryOut = (funded[e] + r.carryIn) - r.totals /\ r.carryOut \in Int
<1>1. r \in Links
  BY DEF Links
<1>2. /\ r.id = e /\ r.log = log /\ r.expected = x
      /\ r.carryIn = IF log = NotFound THEN x ELSE logs[log].carryIn
      /\ r.root = RootOver(e, funded[e] + r.carryIn)
      /\ r.totals = Allocated(e, funded[e] + r.carryIn)
      /\ r.carryOut = (funded[e] + r.carryIn) - r.totals
  BY DEF Recompute
<1>3. r.carryIn \in Int
  BY <1>2, LogFields
<1>4. funded[e] \in Int /\ funded[e] + r.carryIn \in Int
  BY <1>3, FundedType
<1>5. r.totals \in Int
  BY <1>2, <1>4, AllocatedType
<1>6. r.carryOut \in Int
  BY <1>2, <1>4, <1>5
<1>. QED  BY <1>1, <1>2, <1>3, <1>5, <1>6

(* The same, of a link whose Epoch is not named. *)
LEMMA LinkIs ==
  ASSUME BookType, NEW r \in Links
  PROVE  /\ r.totals \in Int /\ r.log \in DOMAIN logs \cup {NotFound} /\ r.id \in Epochs
         /\ r.carryIn = IF r.log = NotFound THEN r.expected ELSE logs[r.log].carryIn
<1>1. PICK e \in Epochs, log \in DOMAIN logs \cup {NotFound}, x \in Int : r = Recompute(e, log, x)
  BY DEF Links
<1>2. /\ r.totals \in Int /\ r.id = e /\ r.log = log /\ r.expected = x
      /\ r.carryIn = IF log = NotFound THEN x ELSE logs[log].carryIn
  BY <1>1, LinkFields
<1>. QED  BY <1>2

(* No links commit to nothing, and one more to its totals more. *)
LEMMA CommittedSteps ==
  ASSUME BookType, NEW links \in Seq(Links), NEW r \in Links
  PROVE  /\ Committed(links) \in Int /\ (links = <<>> => Committed(links) = 0)
         /\ Committed(Append(links, r)) = Committed(links) + r.totals
<1>. DEFINE n == Len(links)
            more == Append(links, r)
            f == [i \in DOMAIN links |-> links[i].totals]
            g == [i \in DOMAIN more |-> more[i].totals]
<1>1. n \in Nat /\ DOMAIN links = 1..n /\ \A i \in 1..n : links[i] \in Links
  BY LenProperties, ElementOfSeq
<1>2. /\ more \in Seq(Links) /\ Len(more) = n + 1 /\ more[n + 1] = r /\ \A i \in 1..n : more[i] = links[i]
  BY AppendProperties
<1>3. DOMAIN more = 1..(n + 1)
  BY <1>2, LenProperties
<1>4. \A i \in 1..n : links[i].totals \in Int
  BY <1>1, LinkIs
<1>5. r.totals \in Int
  BY LinkIs
<1>6. Committed(links) = Total(f, 1, n) /\ Committed(more) = Total(g, 1, n + 1)
  BY <1>2 DEF Committed
<1>. HIDE DEF n, more
<1>7. \A i \in 1..n : f[i] \in Int /\ f[i] = g[i]
  BY <1>1, <1>2, <1>3, <1>4
<1>8. g[n + 1] = r.totals
  BY <1>1, <1>2, <1>3
<1>9. (links = <<>>) => n = 0
  BY EmptySeq DEF n
<1>. HIDE DEF f, g
<1>10. 1 \in Nat \ {0} /\ n + 1 \in Nat /\ (n + 1) - 1 = n /\ n + 1 >= 1
  BY <1>1
<1>11. \A i \in 1..(n + 1) : g[i] \in Int
  <2>1. \A i \in 1..(n + 1) : i \in 1..n \/ i = n + 1
    BY <1>1
  <2>. QED  BY <1>5, <1>7, <1>8, <2>1
<1>12. Total(f, 1, n) \in Int /\ (n < 1 => Total(f, 1, n) = 0)
  BY <1>1, <1>7, <1>10, TotalSteps
<1>13. Total(f, 1, n) = Total(g, 1, n)
  <2>1. PICK one : one = 1
    OBVIOUS
  <2>2. one \in Nat \ {0} /\ \A i \in one..n : f[i] \in Int /\ f[i] = g[i]
    BY <1>7, <2>1
  <2>3. Total(f, one, n) = Total(g, one, n)
    BY <1>1, <2>2, TotalSame
  <2>. QED  BY <2>1, <2>3
<1>14. Total(g, 1, n + 1) = Total(g, 1, n) + g[n + 1]
  <2>1. Total(g, 1, n + 1) = Total(g, 1, (n + 1) - 1) + g[n + 1]
    BY <1>10, <1>11, TotalSteps
  <2>. QED  BY <1>10, <2>1
<1>15. n = 0 => n < 1
  OBVIOUS
<1>. QED  BY <1>6, <1>8, <1>9, <1>12, <1>13, <1>14, <1>15 DEF more

(* An Epoch more is owed what the one before it leaves. *)
LEMMA OwedNext ==
  ASSUME BookInv, NEW e \in Epochs, e + 1 \in Epochs
  PROVE  /\ e \notin Standing => Owed(e + 1) = Owed(e) + funded[e]
         /\ \A l : (e \in Standing /\ IsLast(l, e)) =>
               Owed(e + 1) = (funded[e] + logs[l].carryIn) - Allocated(e, funded[e] + logs[l].carryIn)
<1>1. BookType /\ StandingInv
  BY DEF BookInv
<1>2. e \in Nat /\ e >= 1 /\ e - 1 \in Nat /\ \A q \in Standing : q \in Nat /\ q \in Epochs
  BY <1>1, FundedType DEF Standing, Epochs
<1>3. ASSUME NEW from \in Nat \ {0}, from <= e PROVE Total(funded, from, (e + 1) - 1) = Total(funded, from, e - 1) + funded[e]
  <2>1. \A n \in from..e : funded[n] \in Int
    BY <1>1, <1>2, FundedType DEF Epochs
  <2>2. Total(funded, from, e) = Total(funded, from, e - 1) + funded[e]
    BY <1>2, <1>3, <2>1, TotalSteps
  <2>. QED  BY <1>2, <2>2
<1>4. ASSUME e \notin Standing PROVE Owed(e + 1) = Owed(e) + funded[e]
  <2>1. \A q \in Standing : q < e + 1 <=> q < e
    BY <1>2, <1>4
  <2>2. CASE \A q \in Standing : ~(q < e)
    <3>1. Owed(e) = Total(funded, 1, e - 1)
      BY <1>1, <2>2, OwedFirst
    <3>2. Owed(e + 1) = Total(funded, 1, (e + 1) - 1)
      BY <1>1, <2>1, <2>2, OwedFirst
    <3>. QED  BY <1>2, <1>3, <3>1, <3>2
  <2>3. CASE \E q \in Standing : q < e
    <3>1. PICK p \in Standing : p < e /\ \A q \in Standing : q < e => q <= p
      BY <1>1, <1>2, <2>3, LastStanding
    <3>2. PICK i \in DOMAIN logs : IsLast(i, p)
      BY <1>1 DEF StandingInv, StandsWell
    <3>. DEFINE left == (funded[p] + logs[i].carryIn) - Allocated(p, funded[p] + logs[i].carryIn)
    <3>3. Owed(e) = left + Total(funded, p + 1, e - 1)
      BY <1>1, <3>1, <3>2, OwedFrom
    <3>4. Owed(e + 1) = left + Total(funded, p + 1, (e + 1) - 1)
      BY <1>1, <2>1, <3>1, <3>2, OwedFrom
    <3>5. left \in Int
      <4>1. funded[p] \in Int /\ logs[i].carryIn \in Int /\ p \in Epochs
        <5>1. p \in Epochs /\ logs[i].carryIn \in Int
          BY <1>1, <1>2, LogFields
        <5>. QED  BY <1>1, <5>1, FundedType
      <4>2. Allocated(p, funded[p] + logs[i].carryIn) \in Int
        BY <1>1, <4>1, AllocatedType
      <4>. QED  BY <4>1, <4>2
    <3>. HIDE DEF left
    <3>6. p + 1 \in Nat \ {0} /\ p + 1 <= e
      BY <1>2, <3>1
    <3>7. e - 1 \in 0..MaxEpoch
      BY <1>1, <1>2, FundedType
    <3>8. Total(funded, p + 1, e - 1) \in Int /\ funded[e] \in Int
      BY <1>1, <3>6, <3>7, FundedType
    <3>. QED  BY <1>3, <3>3, <3>4, <3>5, <3>6, <3>8
  <2>. QED  BY <2>2, <2>3
<1>5. ASSUME NEW l, e \in Standing, IsLast(l, e)
      PROVE  Owed(e + 1) = (funded[e] + logs[l].carryIn) - Allocated(e, funded[e] + logs[l].carryIn)
  <2>1. e < e + 1 /\ \A q \in Standing : q < e + 1 => q <= e
    BY <1>2
  <2>. DEFINE left == (funded[e] + logs[l].carryIn) - Allocated(e, funded[e] + logs[l].carryIn)
  <2>2. Owed(e + 1) = left + Total(funded, e + 1, (e + 1) - 1)
    BY <1>1, <1>5, <2>1, OwedFrom
  <2>3. left \in Int
    <3>1. funded[e] \in Int /\ logs[l].carryIn \in Int
      <4>1. l \in DOMAIN logs
        BY <1>1, <1>5, LastOf
      <4>2. logs[l].carryIn \in Int
        BY <1>1, <4>1, LogFields
      <4>3. funded[e] \in Int
        BY <1>1, FundedType
      <4>. QED  BY <4>2, <4>3
    <3>2. Allocated(e, funded[e] + logs[l].carryIn) \in Int
      BY <1>1, <3>1, AllocatedType
    <3>. QED  BY <3>1, <3>2
  <2>. HIDE DEF left
  <2>4. Total(funded, e + 1, e) = 0
    <3>1. \A n \in (e + 1)..e : funded[n] \in Int
      BY <1>2
    <3>. QED  BY <1>2, <3>1, TotalSteps
  <2>5. (e + 1) - 1 = e
    BY <1>2
  <2>. QED  BY <2>2, <2>3, <2>4, <2>5 DEF left
<1>. QED  BY <1>4, <1>5

-----------------------------------------------------------------------------
(* The Walk. *)

(* The Walk's loop makes a state of a state. *)
LEMMA WalkedType ==
  ASSUME BookType, NEW e \in Epochs, NEW log \in DOMAIN logs \cup {NotFound}, NEW s \in WalkStates
  PROVE  Walked(e, log, s) \in WalkStates
<1>1. s.carry \in Int /\ s.links \in Seq(Links) /\ funded[e] \in Int
  BY FundedType DEF WalkStates
<1>2. CASE log = NotFound
  <2>1. s.carry + funded[e] \in Int
    BY <1>1
  <2>2. Walked(e, log, s) = [s EXCEPT !.carry = @ + funded[e]]
    BY <1>2 DEF Walked
  <2>. QED  BY <2>1, <2>2 DEF WalkStates
<1>3. CASE log # NotFound
  <2>1. PICK r : r = Recompute(e, log, s.carry)
    OBVIOUS
  <2>2. r \in Links /\ r.carryOut \in Int
    BY <1>1, <2>1, LinkFields
  <2>3. Append(s.links, r) \in Seq(Links)
    BY <1>1, <2>2, AppendProperties
  <2>4. Walked(e, log, s) = [carry |-> r.carryOut, links |-> Append(s.links, r)]
    BY <1>3, <2>1 DEF Walked
  <2>. QED  BY <2>2, <2>3, <2>4 DEF WalkStates
<1>. QED  BY <1>2, <1>3

(* Walk is a loop over the Epochs. *)
WalkRun(g, t) ==
    /\ g \in [0..MaxEpoch -> WalkStates]
    /\ g[0] = [carry |-> 0, links |-> <<>>]
    /\ \A e \in Epochs : g[e] = Walked(e, StandingRoots(t)[e], g[e - 1])
    /\ Walk(t) = Append(g[t - 1].links, Recompute(t, StandingRoot(t).log, g[t - 1].carry))

(* The Walk's loop has a run. *)
LEMMA WalkRuns ==
  ASSUME BookInv, NEW t \in Epochs
  PROVE  \E g : WalkRun(g, t)
<1>1. BookType /\ MaxEpoch \in Nat /\ t \in Int /\ Epochs = 1..MaxEpoch
  BY DistributorAssumption DEF BookInv, Epochs
<1>. DEFINE standing == StandingRoots(t)
            s0 == [carry |-> 0, links |-> <<>>]
            G == [e \in 1..MaxEpoch |-> [s \in WalkStates |-> Walked(e, standing[e], s)]]
            Loops(f) == f = [e \in 0..MaxEpoch |-> IF e = 0 THEN s0 ELSE Walked(e, standing[e], f[e - 1])]
            loop == CHOOSE f : Loops(f)
<1>2. \A e \in Epochs : standing[e] \in DOMAIN logs \cup {NotFound}
  <2>. TAKE e \in Epochs
  <2>1. CASE e \notin Standing \/ e >= t
    BY <1>1, <2>1, StandingRootsAre
  <2>2. CASE e \in Standing /\ e < t
    <3>1. IsLast(standing[e], e)
      BY <1>1, <2>2, StandingRootsAre
    <3>. QED  BY <1>1, <3>1, LastOf
  <2>3. e \in Int
    BY <1>1
  <2>. QED  BY <1>1, <2>1, <2>2, <2>3
<1>3. s0 \in WalkStates
  BY EmptySeq DEF WalkStates
<1>. HIDE DEF standing
<1>4. \A e \in 1..MaxEpoch : \A s \in WalkStates : Walked(e, standing[e], s) \in WalkStates
  BY <1>1, <1>2, WalkedType
<1>5. \A e \in 1..MaxEpoch : \A s \in WalkStates : G[e][s] = Walked(e, standing[e], s)
  OBVIOUS
<1>6. PICK g : Runs(g, MaxEpoch, WalkStates, s0, G)
  <2>. HIDE DEF s0, G
  <2>. QED  BY <1>1, <1>3, <1>4, <1>5, LoopRuns
<1>7. Loops(g)
  <2>. HIDE DEF s0, G
  <2>1. g = [k \in 0..MaxEpoch |-> g[k]] /\ g[0] = s0
    BY <1>6 DEF Runs
  <2>2. \A k \in 0..MaxEpoch : k # 0 => k \in 1..MaxEpoch /\ k - 1 \in 0..MaxEpoch
    BY <1>1
  <2>3. \A k \in 0..MaxEpoch : k # 0 => g[k] = Walked(k, standing[k], g[k - 1])
    BY <1>5, <1>6, <2>2 DEF Runs
  <2>. QED  BY <2>1, <2>3
<1>8. Loops(loop)
  <2>. HIDE DEF Loops
  <2>. QED  BY <1>7
<1>9. Walk(t) = Append(loop[t - 1].links, Recompute(t, StandingRoot(t).log, loop[t - 1].carry))
  BY DEF Walk, standing
<1>. HIDE DEF loop, G, s0
<1>10. /\ loop = [k \in 0..MaxEpoch |-> loop[k]] /\ loop[0] = s0
       /\ \A k \in 1..MaxEpoch : loop[k] = Walked(k, standing[k], loop[k - 1])
  BY <1>1, <1>8
<1>11. loop \in [0..MaxEpoch -> WalkStates]
  <2>1. \A k \in 1..MaxEpoch : loop[k - 1] \in WalkStates => loop[k] \in WalkStates
    BY <1>4, <1>10
  <2>. QED  BY <1>1, <1>3, <1>10, <2>1, LoopTyped
<1>. QED  BY <1>1, <1>9, <1>10, <1>11 DEF WalkRun, s0, standing

(* After Epoch e the carry is what e + 1 is owed, and if every link was posted with what it   *)
(* was owed, the funding so far is in the Roots and the carry.                                *)
AsOwed(links) == \A i \in DOMAIN links : links[i].carryIn = links[i].expected
WalkOK(s, e) ==
    /\ s.carry = Owed(e + 1)
    /\ AsOwed(s.links) => Total(funded, 1, e) = s.carry + Committed(s.links)

(* One Epoch more, passed over or rooted, keeps the carry what the next is owed. *)
LEMMA WalkedOK ==
  ASSUME BookInv, NEW t \in Epochs, NEW e \in Epochs, e < t, NEW s \in WalkStates, WalkOK(s, e - 1)
  PROVE  WalkOK(Walked(e, StandingRoots(t)[e], s), e)
<1>1. BookType /\ t \in Int /\ e \in Nat /\ e >= 1 /\ e + 1 \in Epochs /\ (e - 1) + 1 = e
  BY FundedType DEF BookInv, Epochs
<1>2. s.carry \in Int /\ s.links \in Seq(Links) /\ funded[e] \in Int
  BY <1>1, FundedType DEF WalkStates
<1>3. s.carry = Owed(e)
  BY <1>1 DEF WalkOK
<1>4. /\ Total(funded, 1, e) = Total(funded, 1, e - 1) + funded[e]
      /\ Total(funded, 1, e - 1) \in Int
  <2>1. 1 \in Nat \ {0} /\ \A n \in 1..e : n \in Epochs /\ funded[n] \in Int
    BY <1>1, FundedType DEF Epochs
  <2>2. Total(funded, 1, e) = Total(funded, 1, e - 1) + funded[e]
    BY <1>1, <2>1, TotalSteps
  <2>3. e - 1 \in 0..MaxEpoch
    BY <1>1, FundedType
  <2>. QED  BY <1>1, <2>1, <2>2, <2>3, FundedType
<1>5. CASE e \notin Standing
  <2>1. StandingRoots(t)[e] = NotFound
    BY <1>1, <1>5, StandingRootsAre
  <2>2. PICK n : n = Walked(e, StandingRoots(t)[e], s)
    OBVIOUS
  <2>3. n = [s EXCEPT !.carry = @ + funded[e]]
    BY <2>1, <2>2 DEF Walked
  <2>4. n.carry = s.carry + funded[e] /\ n.links = s.links
    BY <2>3 DEF WalkStates
  <2>5. Owed(e + 1) = Owed(e) + funded[e]
    BY <1>1, <1>5, OwedNext
  <2>6. Committed(s.links) \in Int
    <3>1. PICK r : r = Recompute(e, NotFound, 0)
      OBVIOUS
    <3>2. r \in Links
      BY <1>1, <3>1, LinkFields
    <3>. QED  BY <1>1, <1>2, <3>2, CommittedSteps
  <2>7. AsOwed(n.links) => Total(funded, 1, e) = n.carry + Committed(n.links)
    BY <1>2, <1>4, <2>4, <2>6 DEF WalkOK
  <2>. QED  BY <1>3, <2>2, <2>4, <2>5, <2>7 DEF WalkOK
<1>6. CASE e \in Standing
  <2>1. PICK l : l = StandingRoots(t)[e]
    OBVIOUS
  <2>2. IsLast(l, e) /\ l \in DOMAIN logs /\ l # NotFound
    <3>1. IsLast(l, e)
      BY <1>1, <1>6, <2>1, StandingRootsAre
    <3>. QED  BY <1>1, <3>1, LastOf, LogFields DEF NotFound
  <2>3. PICK r : r = Recompute(e, l, s.carry)
    OBVIOUS
  <2>4. /\ r \in Links /\ r.expected = s.carry /\ r.carryIn = logs[l].carryIn /\ r.carryIn \in Int
        /\ r.totals = Allocated(e, funded[e] + r.carryIn) /\ r.totals \in Int
        /\ r.carryOut = (funded[e] + r.carryIn) - r.totals
    BY <1>1, <1>2, <2>2, <2>3, LinkFields
  <2>5. PICK n : n = Walked(e, StandingRoots(t)[e], s)
    OBVIOUS
  <2>6. n.carry = r.carryOut /\ n.links = Append(s.links, r)
    BY <2>1, <2>2, <2>3, <2>5 DEF Walked
  <2>7. Owed(e + 1) = r.carryOut
    BY <1>1, <1>6, <2>2, <2>4, OwedNext
  <2>8. Committed(s.links) \in Int /\ Committed(n.links) = Committed(s.links) + r.totals
    BY <1>1, <1>2, <2>4, <2>6, CommittedSteps
  <2>9. ASSUME AsOwed(n.links) PROVE Total(funded, 1, e) = n.carry + Committed(n.links)
    <3>1. /\ Len(s.links) \in Nat /\ DOMAIN s.links = 1..Len(s.links)
          /\ DOMAIN n.links = 1..(Len(s.links) + 1) /\ n.links[Len(s.links) + 1] = r
          /\ \A i \in 1..Len(s.links) : n.links[i] = s.links[i]
      BY <1>2, <2>4, <2>6, AppendProperties, LenProperties
    <3>2. AsOwed(s.links) /\ r.carryIn = r.expected
      BY <2>9, <3>1 DEF AsOwed
    <3>3. Total(funded, 1, e - 1) = s.carry + Committed(s.links)
      BY <3>2 DEF WalkOK
    <3>. QED  BY <1>2, <1>4, <2>4, <2>6, <2>8, <3>2, <3>3
  <2>. QED  BY <2>5, <2>6, <2>7, <2>9 DEF WalkOK
<1>. QED  BY <1>5, <1>6

(* What a Walk ends with. *)
LEMMA WalkEnds ==
  ASSUME BookInv, NEW t \in Epochs, StandingRoot(t).log \in DOMAIN logs \cup {NotFound}
  PROVE  \E links \in Seq(Links) :
            /\ Walk(t) = Append(links, Recompute(t, StandingRoot(t).log, Owed(t)))
            /\ AsOwed(links) => Total(funded, 1, t - 1) = Owed(t) + Committed(links)
<1>1. BookType /\ MaxEpoch \in Nat /\ t \in Nat /\ t >= 1 /\ t - 1 \in Nat /\ t <= MaxEpoch /\ Epochs = 1..MaxEpoch
  BY FundedType DEF BookInv, Epochs
<1>2. PICK g : WalkRun(g, t)
  BY WalkRuns
<1>. DEFINE P == {e \in 0..(t - 1) : WalkOK(g[e], e)}
<1>3. 0 \in P
  <2>1. g[0].carry = 0 /\ g[0].links = <<>>
    BY <1>2 DEF WalkRun
  <2>2. 1 \in Epochs /\ \A q \in Standing : ~(q < 1)
    BY <1>1 DEF Standing
  <2>3. Owed(1) = Total(funded, 1, 1 - 1)
    BY <1>1, <2>2, OwedFirst
  <2>4. Total(funded, 1, 0) = 0
    <3>1. 1 \in Nat \ {0} /\ 0 \in Nat /\ 0 < 1 /\ \A n \in 1..0 : funded[n] \in Int
      OBVIOUS
    <3>. QED  BY <3>1, TotalSteps
  <2>5. Committed(<<>>) = 0
    <3>1. PICK r : r = Recompute(t, NotFound, 0)
      OBVIOUS
    <3>2. r \in Links
      BY <3>1 DEF Links
    <3>3. <<>> \in Seq(Links)
      BY EmptySeq
    <3>. QED  BY <1>1, <3>2, <3>3, CommittedSteps
  <2>6. WalkOK(g[0], 0)
    <3>1. Owed(0 + 1) = 0
      BY <2>3, <2>4
    <3>. QED  BY <2>1, <2>4, <2>5, <3>1 DEF WalkOK
  <2>. QED  BY <1>1, <2>6
<1>4. ASSUME NEW e \in 1..(t - 1), e - 1 \in P PROVE e \in P
  <2>1. e \in Epochs /\ e < t /\ e - 1 \in 0..MaxEpoch /\ e \in 0..(t - 1)
    BY <1>1
  <2>2. g[e - 1] \in WalkStates /\ WalkOK(g[e - 1], e - 1) /\ g[e] = Walked(e, StandingRoots(t)[e], g[e - 1])
    BY <1>2, <1>4, <2>1 DEF WalkRun
  <2>3. WalkOK(g[e], e)
    BY <2>1, <2>2, WalkedOK
  <2>. QED  BY <2>1, <2>3
<1>5. WalkOK(g[t - 1], t - 1)
  <2>1. t - 1 \in 0..(t - 1)
    BY <1>1
  <2>2. t - 1 \in P
    <3>. HIDE DEF P
    <3>. QED  BY <1>1, <1>3, <1>4, <2>1, Upwards
  <2>. QED  BY <2>2
<1>6. g[t - 1] \in WalkStates /\ (t - 1) + 1 = t
  BY <1>1, <1>2 DEF WalkRun
<1>7. g[t - 1].links \in Seq(Links) /\ g[t - 1].carry = Owed(t)
  BY <1>5, <1>6 DEF WalkStates, WalkOK
<1>8. Walk(t) = Append(g[t - 1].links, Recompute(t, StandingRoot(t).log, Owed(t)))
  BY <1>2, <1>7 DEF WalkRun
<1>. QED  BY <1>5, <1>7, <1>8 DEF WalkOK

-----------------------------------------------------------------------------
(* Verdicts. *)

(* standingRoot never fails on a ledger and a stream of one block, and is the Epoch's last log. *)
LEMMA StandingRootIs ==
  ASSUME BookInv, NEW t \in Epochs
  PROVE  /\ StandingRoot(t).ok = TRUE
         /\ StandingRoot(t).log \in DOMAIN logs \cup {NotFound}
         /\ rootOf[t] = NoRoot => StandingRoot(t).log = NotFound
         /\ rootOf[t] # NoRoot => StandingRoot(t).log # NotFound /\ IsLast(StandingRoot(t).log, t)
<1>1. BookType /\ StreamInv /\ StandingInv
  BY DEF BookInv
<1>. DEFINE found == {i \in DOMAIN logs : IsEpochRoot(i) /\ logs[i].id = t /\ logs[i].block > endBlock[t]}
<1>2. CASE rootOf[t] = NoRoot
  BY <1>2 DEF StandingRoot, NotFound
<1>3. CASE rootOf[t] # NoRoot
  <2>1. PICK l \in DOMAIN logs : IsLast(l, t) /\ logs[l].root = rootOf[t]
    BY <1>1, <1>3 DEF StandingInv, StandsWell, Standing
  <2>2. found = LogsOf(t)
    <3>1. endBlock[t] \in Int /\ \A i \in DOMAIN logs : logs[i].block \in Int
      BY <1>1, LogFields DEF BookType
    <3>2. \A i \in DOMAIN logs : (IsEpochRoot(i) /\ logs[i].id = t) => logs[i].block > endBlock[t]
      BY <1>1, <3>1 DEF StreamInv
    <3>. QED  BY <3>2 DEF LogsOf, IsEpochRoot
  <2>3. Max(LogsOf(t)) = l /\ l \in LogsOf(t) /\ l # NotFound
    BY <1>1, <2>1, LastOf, LogFields DEF IsLast, NotFound
  <2>4. Stands(l)
    BY <1>3, <2>1, <2>3 DEF Stands, LogsOf
  <2>5. found # {} /\ Max(found) = l
    BY <2>2, <2>3
  <2>6. StandingRoot(t) = [ok |-> TRUE, log |-> l]
    BY <1>3, <2>4, <2>5 DEF StandingRoot
  <2>. QED  BY <1>3, <2>1, <2>3, <2>6
<1>. QED  BY <1>2, <1>3

(* An assessment is one of three, and Worst is a match exactly if all of them are. *)
LEMMA AssessRange ==
  ASSUME NEW r, NEW x
  PROVE  Assess(r, x) \in {"MATCH", "MISMATCH", "INDETERMINATE"}
  BY DEF Assess, Judged

(* A run matches exactly if each of its links does, the target by the Expectation. *)
LEMMA ReportedIs ==
  ASSUME NEW links, NEW expect
  PROVE  /\ Reported(links, expect).links = links
         /\ Reported(links, expect).verdict \in {"MATCH", "MISMATCH", "INDETERMINATE"}
         /\ Reported(links, expect).verdict = "MATCH" <=>
              \A i \in DOMAIN links : Assess(links[i], IF i = Len(links) THEN expect ELSE NoRoot) = "MATCH"
<1>. DEFINE A(i) == Assess(links[i], IF i = Len(links) THEN expect ELSE NoRoot)
            all == {A(i) : i \in DOMAIN links}
<1>1. Reported(links, expect).links = links /\ Reported(links, expect).verdict = Worst(all)
  BY DEF Reported
<1>2. \A i \in DOMAIN links : A(i) \in {"MATCH", "MISMATCH", "INDETERMINATE"}
  BY AssessRange
<1>. HIDE DEF A
<1>3. Worst(all) \in {"MATCH", "MISMATCH", "INDETERMINATE"}
  BY DEF Worst
<1>4. Worst(all) = "MATCH" <=> ("INDETERMINATE" \notin all /\ "MISMATCH" \notin all)
  BY DEF Worst
<1>5. ("INDETERMINATE" \notin all /\ "MISMATCH" \notin all) <=> \A i \in DOMAIN links : A(i) = "MATCH"
  BY <1>2
<1>. QED  BY <1>1, <1>3, <1>4, <1>5 DEF A

(* When a posted Root matches. *)
LEMMA MatchPosted ==
  ASSUME NEW r, r.log # NotFound, NEW x
  PROVE  Assess(r, x) = "MATCH" <=>
            /\ r.root = logs[r.log].root /\ r.totals = logs[r.log].totals
            /\ ~(logs[r.log].totals > funded[r.id] + logs[r.log].carryIn)
            /\ r.expected = logs[r.log].carryIn
            /\ x = NoRoot \/ x = logs[r.log].root
<1>. DEFINE rest == IF x \in {NoRoot, logs[r.log].root} THEN {} ELSE {"expected"}
<1>1. Assess(r, x) = Judged(FailsPosted(r) \cup rest)
  BY DEF Assess
<1>2. Assess(r, x) = "MATCH" <=> (FailsPosted(r) = {} /\ rest = {})
  BY <1>1 DEF Judged
<1>3. rest = {} <=> (x = NoRoot \/ x = logs[r.log].root)
  OBVIOUS
<1>. HIDE DEF rest
<1>4. /\ "root" \in FailsPosted(r) <=> r.root # logs[r.log].root
      /\ "totals" \in FailsPosted(r) <=> r.totals # logs[r.log].totals
      /\ "cap" \in FailsPosted(r) <=> logs[r.log].totals > funded[r.id] + logs[r.log].carryIn
      /\ "carryIn" \in FailsPosted(r) <=> r.expected # logs[r.log].carryIn
      /\ FailsPosted(r) \subseteq {"root", "totals", "cap", "carryIn"}
  BY DEF FailsPosted
<1>5. FailsPosted(r) = {} <=>
         /\ "root" \notin FailsPosted(r) /\ "totals" \notin FailsPosted(r)
         /\ "cap" \notin FailsPosted(r) /\ "carryIn" \notin FailsPosted(r)
  BY <1>4
<1>. QED  BY <1>2, <1>3, <1>4, <1>5

(* When an Epoch without a Root does. *)
LEMMA MatchUnposted ==
  ASSUME NEW r, r.log = NotFound, NEW x, Assess(r, x) = "MATCH"
  PROVE  IF x = NoRoot THEN r.root = NoRoot ELSE r.root = x /\ ~skipped[r.id]
<1>1. CASE skipped[r.id]
  <2>1. /\ (IF r.root # NoRoot THEN {"root", "totals"} ELSE {}) \cup
           (IF x # NoRoot THEN {"expected"} ELSE {}) = {}
    BY <1>1 DEF Assess, Judged
  <2>. QED  BY <2>1
<1>2. CASE ~skipped[r.id] /\ x # NoRoot
  <2>1. (IF r.root # x THEN {"root"} ELSE {}) \cup
           (IF r.totals > funded[r.id] + r.expected THEN {"cap"} ELSE {}) = {}
    BY <1>2 DEF Assess, Judged
  <2>. QED  BY <1>2, <2>1
<1>3. CASE ~skipped[r.id] /\ x = NoRoot
  BY <1>3 DEF Assess
<1>. QED  BY <1>1, <1>2, <1>3

-----------------------------------------------------------------------------
(* A report is sound. *)

(* What a report says is so, in the state it is read in. *)
Sound(r) ==
    /\ r.target \in Epochs \cup {0} /\ r.verdict \in {"MATCH", "MISMATCH", "INDETERMINATE"}
    /\ r.links = <<>> => r.verdict = "INDETERMINATE"
    /\ r.links # <<>> =>
        LET last == r.links[Len(r.links)]
            t    == r.target
        IN /\ t \in Epochs /\ last.expected = Owed(t)
           /\ (~r.chain /\ last.log # NotFound /\ r.expect = NoRoot)
                => (r.verdict = "MATCH" <=> logs[last.log].fair)
           /\ (r.verdict = "MATCH" /\ r.chain) => Total(funded, 1, t) = last.carryOut + Committed(r.links)
           /\ (r.verdict = "MATCH" /\ r.expect # NoRoot)
                => r.expect = RootOver(t, funded[t] + Owed(t)) /\ ~skipped[t]
           /\ (r.verdict = "MATCH" /\ r.expect = NoRoot)
                => rootOf[t] # NoRoot \/ RootOver(t, funded[t] + Owed(t)) = NoRoot

(* The links of a run: those before the target, and the target over what it is owed. *)
LEMMA LinksAre ==
  ASSUME BookInv, NEW t \in Epochs, NEW chain \in BOOLEAN
  PROVE  \E links \in Seq(Links) :
            /\ (IF chain THEN Walk(t) ELSE Compute(t))
                  = Append(links, Recompute(t, StandingRoot(t).log, Owed(t)))
            /\ ~chain => links = <<>>
            /\ (chain /\ AsOwed(links)) => Total(funded, 1, t - 1) = Owed(t) + Committed(links)
<1>1. StandingRoot(t).log \in DOMAIN logs \cup {NotFound}
  BY StandingRootIs
<1>2. CASE chain
  BY <1>1, <1>2, WalkEnds
<1>3. CASE ~chain
  <2>1. PICK r : r = Recompute(t, StandingRoot(t).log, Owed(t))
    OBVIOUS
  <2>2. Compute(t) = <<r>>
    BY <2>1, ExpectedIsOwed DEF Compute
  <2>3. <<>> \in Seq(Links) /\ Append(<<>>, r) = <<r>>
    BY EmptySeq
  <2>. QED  BY <1>3, <2>1, <2>2, <2>3
<1>. QED  BY <1>2, <1>3

(* A posted Root over what its Epoch is owed matches exactly if it was fair. *)
LEMMA FairMatches ==
  ASSUME BookInv, NEW t \in Epochs, NEW l, IsLast(l, t), t \in Standing, l # NotFound,
         NEW r, r = Recompute(t, l, Owed(t))
  PROVE  Assess(r, NoRoot) = "MATCH" <=> logs[l].fair
<1>1. BookType /\ Owed(t) \in Int
  BY OwedType DEF BookInv
<1>2. PICK i \in DOMAIN logs : /\ IsLast(i, t) /\ logs[i].root = rootOf[t]
                               /\ logs[i].totals <= funded[t] + logs[i].carryIn
                               /\ logs[i].fair <=> Right(t, logs[i])
  BY DEF BookInv, StandingInv, StandsWell
<1>3. i = l
  BY <1>1, <1>2, LastOf
<1>4. l \in DOMAIN logs /\ funded[t] \in Int /\ logs[l].totals \in Int /\ logs[l].carryIn \in Int
  <2>1. l \in DOMAIN logs
    BY <1>3
  <2>2. logs[l].totals \in Int /\ logs[l].carryIn \in Int
    BY <1>1, <2>1, LogFields
  <2>3. funded[t] \in Int
    BY <1>1, FundedType
  <2>. QED  BY <2>1, <2>2, <2>3
<1>5. /\ r.id = t /\ r.log = l /\ r.expected = Owed(t)
      /\ r.root = RootOver(t, funded[t] + logs[l].carryIn)
      /\ r.totals = Allocated(t, funded[t] + logs[l].carryIn)
  BY <1>1, <1>4, LinkFields
<1>6. Assess(r, NoRoot) = "MATCH" <=>
            /\ r.root = logs[l].root /\ r.totals = logs[l].totals
            /\ ~(logs[l].totals > funded[t] + logs[l].carryIn)
            /\ r.expected = logs[l].carryIn
  BY <1>5, MatchPosted
<1>7. ~(logs[l].totals > funded[t] + logs[l].carryIn)
  BY <1>2, <1>3, <1>4
<1>. QED  BY <1>2, <1>3, <1>5, <1>6, <1>7 DEF Right

(* The fields of the target's link. *)
LEMMA TargetLink ==
  ASSUME BookType, NEW t, t \in Epochs, Owed(t) \in Int, NEW log, log \in DOMAIN logs \cup {NotFound},
         NEW r, r = Recompute(t, log, Owed(t))
  PROVE  /\ r \in Links /\ r.id = t /\ r.log = log /\ r.expected = Owed(t)
         /\ r.carryIn = (IF log = NotFound THEN Owed(t) ELSE logs[log].carryIn) /\ r.carryIn \in Int
         /\ r.root = RootOver(t, funded[t] + r.carryIn)
         /\ r.totals = Allocated(t, funded[t] + r.carryIn) /\ r.totals \in Int
         /\ r.carryOut = (funded[t] + r.carryIn) - r.totals /\ r.carryOut \in Int
  BY LinkFields

(* A report that is made is sound. *)
LEMMA OutcomeSound ==
  ASSUME BookInv, NEW t \in Epochs \cup {0}, NEW chain \in BOOLEAN, NEW expect
  PROVE  Sound(Report(t, chain, expect, Outcome(t, chain, expect)))
<1>. DEFINE out == Outcome(t, chain, expect)
<1>1. BookType /\ StandingInv
  BY DEF BookInv
<1>2. PICK rep : rep = Report(t, chain, expect, out)
  OBVIOUS
<1>3. /\ rep.target = t /\ rep.chain = chain /\ rep.expect = expect
      /\ rep.verdict = out.verdict /\ rep.links = out.links
  BY <1>2 DEF Report
<1>4. CASE out = Errors
  <2>1. rep.verdict = "INDETERMINATE" /\ rep.links = <<>>
    BY <1>3, <1>4 DEF Errors
  <2>2. Sound(rep)
    BY <1>3, <2>1 DEF Sound
  <2>. QED  BY <1>2, <2>2
<1>5. CASE out # Errors
  <2>. DEFINE all == IF chain THEN Walk(t) ELSE Compute(t)
  <2>1. t \in 1..(now - 1) /\ out = Reported(all, expect)
    BY <1>5 DEF Outcome
  <2>2. t \in Epochs
    BY <2>1, DistributorAssumption DEF Epochs
  <2>3. Owed(t) \in Int /\ t \in Nat /\ t >= 1 /\ t - 1 \in Nat /\ funded[t] \in Int
    BY <1>1, <2>2, OwedType, FundedType
  <2>4. PICK log : log = StandingRoot(t).log
    OBVIOUS
  <2>5. PICK r : r = Recompute(t, log, Owed(t))
    OBVIOUS
  <2>6. PICK links \in Seq(Links) :
            /\ all = Append(links, r) /\ (~chain => links = <<>>)
            /\ (chain /\ AsOwed(links)) => Total(funded, 1, t - 1) = Owed(t) + Committed(links)
    BY <2>2, <2>4, <2>5, LinksAre
  <2>7. /\ log \in DOMAIN logs \cup {NotFound}
        /\ (rootOf[t] = NoRoot => log = NotFound)
        /\ (rootOf[t] # NoRoot => log # NotFound /\ IsLast(log, t))
    BY <2>2, <2>4, StandingRootIs
  <2>8. /\ r \in Links /\ r.id = t /\ r.log = log /\ r.expected = Owed(t)
        /\ r.carryIn = (IF log = NotFound THEN Owed(t) ELSE logs[log].carryIn) /\ r.carryIn \in Int
        /\ r.root = RootOver(t, funded[t] + r.carryIn)
        /\ r.totals = Allocated(t, funded[t] + r.carryIn) /\ r.totals \in Int
        /\ r.carryOut = (funded[t] + r.carryIn) - r.totals /\ r.carryOut \in Int
    BY <1>1, <2>2, <2>3, <2>5, <2>7, TargetLink
  <2>. DEFINE n == Len(links) + 1
  <2>9. /\ Len(links) \in Nat /\ DOMAIN links = 1..Len(links) /\ \A i \in 1..Len(links) : links[i] \in Links
        /\ all \in Seq(Links) /\ Len(all) = n /\ all[n] = r
        /\ \A i \in 1..Len(links) : all[i] = links[i]
    BY <2>6, <2>8, AppendProperties, LenProperties, ElementOfSeq
  <2>10. DOMAIN all = 1..n /\ n \in Nat /\ n \in 1..n /\ all # <<>> /\ \A i \in 1..Len(links) : i \in 1..n /\ i # n
    <3>1. DOMAIN all = 1..n
      BY <2>9, LenProperties
    <3>2. n \in Nat /\ n \in 1..n /\ n # 0 /\ \A i \in 1..Len(links) : i \in 1..n /\ i # n
      BY <2>9
    <3>3. all # <<>>
      BY <2>9, <3>2, EmptySeq
    <3>. QED  BY <3>1, <3>2, <3>3
  <2>. HIDE DEF all, n, out
  <2>11. /\ rep.links = all /\ rep.verdict \in {"MATCH", "MISMATCH", "INDETERMINATE"}
         /\ rep.verdict = "MATCH" <=>
              \A i \in 1..n : Assess(all[i], IF i = n THEN expect ELSE NoRoot) = "MATCH"
    BY <1>3, <2>1, <2>9, <2>10, ReportedIs
  <2>12. rep.verdict = "MATCH" => Assess(r, expect) = "MATCH"
    BY <2>9, <2>10, <2>11
  <2>13. log # NotFound => t \in Standing /\ IsLast(log, t)
    BY <2>2, <2>7 DEF Standing
  <2>14. ASSUME ~chain, log # NotFound, expect = NoRoot PROVE rep.verdict = "MATCH" <=> logs[log].fair
    <3>1. n = 1
      BY <2>6, <2>14, EmptySeq DEF n
    <3>2. rep.verdict = "MATCH" <=> Assess(r, NoRoot) = "MATCH"
      BY <2>9, <2>11, <2>14, <3>1
    <3>. QED  BY <2>2, <2>5, <2>13, <2>14, <3>2, FairMatches
  <2>15. ASSUME rep.verdict = "MATCH", log # NotFound
         PROVE  r.carryIn = Owed(t) /\ r.root = logs[log].root /\ (expect = NoRoot \/ expect = logs[log].root)
    BY <2>8, <2>12, <2>15, MatchPosted
  <2>16. rep.verdict = "MATCH" => r.carryIn = Owed(t)
    BY <2>8, <2>15
  <2>17. ASSUME rep.verdict = "MATCH", chain PROVE Total(funded, 1, t) = r.carryOut + Committed(all)
    <3>1. ASSUME NEW i \in DOMAIN links PROVE links[i].carryIn = links[i].expected
      <4>1. links[i] \in Links /\ all[i] = links[i] /\ i \in 1..n /\ i # n
        BY <2>9, <2>10
      <4>2. Assess(links[i], NoRoot) = "MATCH"
        BY <2>11, <2>17, <4>1
      <4>3. links[i].carryIn = IF links[i].log = NotFound THEN links[i].expected ELSE logs[links[i].log].carryIn
        BY <1>1, <4>1, LinkIs
      <4>. QED  BY <4>2, <4>3, MatchPosted
    <3>2. Total(funded, 1, t - 1) = Owed(t) + Committed(links)
      BY <2>6, <2>17, <3>1 DEF AsOwed
    <3>3. Committed(links) \in Int /\ Committed(all) = Committed(links) + r.totals
      BY <1>1, <2>6, <2>8, CommittedSteps
    <3>4. Total(funded, 1, t) = Total(funded, 1, t - 1) + funded[t]
      <4>1. 1 \in Nat \ {0} /\ \A k \in 1..t : k \in Epochs /\ funded[k] \in Int
        BY <1>1, <2>2, <2>3, FundedType DEF Epochs
      <4>. QED  BY <2>3, <4>1, TotalSteps
    <3>. QED  BY <2>3, <2>8, <2>16, <2>17, <3>2, <3>3, <3>4
  <2>18. ASSUME rep.verdict = "MATCH", expect # NoRoot
         PROVE  expect = RootOver(t, funded[t] + Owed(t)) /\ ~skipped[t]
    <3>1. CASE log # NotFound
      <4>1. ~skipped[t]
        BY <1>1, <2>13, <3>1 DEF StandingInv, StandsWell
      <4>. QED  BY <2>8, <2>15, <2>18, <3>1, <4>1
    <3>2. CASE log = NotFound
      <4>1. expect = r.root /\ ~skipped[t]
        BY <2>8, <2>12, <2>18, <3>2, MatchUnposted
      <4>. QED  BY <2>8, <3>2, <4>1
    <3>. QED  BY <3>1, <3>2
  <2>19. ASSUME rep.verdict = "MATCH", expect = NoRoot
         PROVE  rootOf[t] # NoRoot \/ RootOver(t, funded[t] + Owed(t)) = NoRoot
    <3>1. ASSUME rootOf[t] = NoRoot PROVE RootOver(t, funded[t] + Owed(t)) = NoRoot
      <4>1. log = NotFound /\ r.root = NoRoot
        BY <2>7, <2>8, <2>12, <2>19, <3>1, MatchUnposted
      <4>. QED  BY <2>8, <4>1
    <3>. QED  BY <3>1
  <2>20. rep.links[Len(rep.links)] = r /\ rep.links # <<>>
    BY <2>9, <2>10, <2>11
  <2>21. Sound(rep)
    BY <1>3, <2>2, <2>8, <2>11, <2>14, <2>17, <2>18, <2>19, <2>20 DEF Sound
  <2>. QED  BY <1>2, <2>21 DEF out
<1>. QED  BY <1>4, <1>5

-----------------------------------------------------------------------------
(* Every report of every behaviour. *)

(* What is owed stays, while the contract does. *)
LEMMA StillOwed ==
  ASSUME BookInv, UNCHANGED contract, NEW t \in Epochs
  PROVE  Owed(t)' = Owed(t)
<1>. USE DEF contract
<1>1. BookType /\ BookType'
  BY BookStays DEF BookInv
<1>2. ASSUME NEW p \in Standing PROVE LogOf(p)' = LogOf(p)
  <2>1. LogsOf(p)' = LogsOf(p)
    BY DEF LogsOf
  <2>. QED  BY <1>1, <2>1, LogOfStays
<1>. QED  BY <1>1, <1>2, OwedStays

(* A report stays sound, as the contract stays what it was at the run's tip. *)
LEMMA SoundStays ==
  ASSUME BookInv, UNCHANGED contract, NEW r, Sound(r)
  PROVE  Sound(r)'
<1>1. CASE r.links = <<>>
  BY <1>1 DEF Sound
<1>2. CASE r.links # <<>>
  <2>. DEFINE t == r.target
  <2>1. t \in Epochs
    BY <1>2 DEF Sound
  <2>2. PICK x : x = Owed(t)
    OBVIOUS
  <2>3. Owed(t)' = x
    BY <2>1, <2>2, StillOwed
  <2>4. RootOver(t, funded[t] + x)' = RootOver(t, funded[t] + x)
    BY DEF RootOver, Allocated, contract
  <2>5. /\ logs' = logs /\ funded' = funded /\ rootOf' = rootOf /\ skipped' = skipped
    BY DEF contract
  <2>. QED  BY <1>2, <2>2, <2>3, <2>4, <2>5 DEF Sound
<1>. QED  BY <1>1, <1>2

(* What was reported, if anything, is sound. *)
ReportInv == report = <<>> \/ \E rep : report = <<rep>> /\ Sound(rep)

(* A run reports nothing that is not so. *)
LEMMA ReportNext == BookInv /\ ReportInv /\ [Next]_vars => ReportInv'
<1>. SUFFICES ASSUME BookInv, ReportInv, [Next]_vars PROVE ReportInv'
  OBVIOUS
<1>0. ASSUME NEW rep, Sound(rep), report' = <<rep>>, UNCHANGED contract PROVE ReportInv'
  <2>1. Sound(rep)'
    BY <1>0, SoundStays
  <2>. QED  BY <1>0, <2>1 DEF ReportInv
<1>1. CASE report = <<>> /\ Move /\ UNCHANGED report
  BY <1>1 DEF ReportInv
<1>2. ASSUME NEW chain \in BOOLEAN, RunLatest(chain) PROVE ReportInv'
  <2>1. CASE Latest = NotFound
    <3>1. PICK rep : rep = Report(0, chain, NoRoot, Errors)
      OBVIOUS
    <3>2. /\ rep.target = 0 /\ rep.chain = chain /\ rep.expect = NoRoot
          /\ rep.verdict = "INDETERMINATE" /\ rep.links = <<>>
      BY <3>1 DEF Report, Errors
    <3>3. Sound(rep)
      BY <3>2 DEF Sound
    <3>. QED  BY <1>0, <1>2, <2>1, <3>1, <3>3 DEF RunLatest
  <2>2. CASE Latest # NotFound
    <3>0. MaxEpoch + 1 \in Int
      BY DistributorAssumption
    <3>1. First(Latest, MaxEpoch + 1)
      BY <2>2, <3>0, SearchFinds DEF Latest
    <3>2. PICK t : t = logs[Latest].id
      OBVIOUS
    <3>3. t \in Epochs \cup {0}
      BY <3>0, <3>1, <3>2, FirstIsLast DEF Standing
    <3>4. PICK rep : rep = Report(t, chain, NoRoot, Outcome(t, chain, NoRoot))
      OBVIOUS
    <3>5. Sound(rep)
      BY <3>3, <3>4, OutcomeSound
    <3>6. report' = <<rep>> /\ UNCHANGED contract
      BY <1>2, <2>2, <3>2, <3>4 DEF RunLatest
    <3>. QED  BY <1>0, <3>5, <3>6
  <2>. QED  BY <2>1, <2>2
<1>3. ASSUME NEW t \in Epochs \cup {0}, NEW chain \in BOOLEAN, NEW expect, Run(t, chain, expect) PROVE ReportInv'
  <2>1. PICK rep : rep = Report(t, chain, expect, Outcome(t, chain, expect))
    OBVIOUS
  <2>2. Sound(rep)
    BY <2>1, OutcomeSound
  <2>3. report' = <<rep>> /\ UNCHANGED contract
    BY <1>3, <2>1 DEF Run
  <2>. QED  BY <1>0, <2>2, <2>3
<1>4. CASE UNCHANGED vars
  <2>1. report' = report /\ UNCHANGED contract
    BY <1>4 DEF vars
  <2>2. CASE report = <<>>
    BY <2>1, <2>2 DEF ReportInv
  <2>3. CASE report # <<>>
    <3>1. PICK rep : report = <<rep>> /\ Sound(rep)
      BY <2>3 DEF ReportInv
    <3>. QED  BY <1>0, <2>1, <3>1
  <2>. QED  BY <2>2, <2>3
<1>5. CASE Reporting
  BY <1>4, <1>5 DEF Reporting
<1>. QED  BY <1>1, <1>2, <1>3, <1>4, <1>5 DEF Next

(* The argument: the book stays in order whatever the chain does, and a run reports *)
(* only what is so.                                                                 *)
CarryInv == BookInv /\ ReportInv

(* Both hold in every state of every behaviour. *)
LEMMA CarryInvariance == Spec => []CarryInv
<1>1. Init => CarryInv
  BY BookInit DEF Init, CarryInv, ReportInv
<1>2. CarryInv /\ [Next]_vars => CarryInv'
  BY BookNext, ReportNext DEF CarryInv
<1>. QED  BY <1>1, <1>2, PTL DEF Spec

(* What a report says, field by field, where there is one. *)
LEMMA Reports ==
  ASSUME CarryInv, Done
  PROVE  Sound(R)
<1>1. PICK rep : report = <<rep>> /\ Sound(rep)
  BY DEF CarryInv, ReportInv, Done
<1>2. R = rep
  BY <1>1 DEF R
<1>. QED  BY <1>1, <1>2

(* A report with links, read by its last. *)
LEMMA LastReports ==
  ASSUME CarryInv, Done, R.links # <<>>
  PROVE  /\ R.target \in Epochs /\ Last.expected = Owed(R.target)
         /\ (~R.chain /\ Last.log # NotFound /\ R.expect = NoRoot)
                => (R.verdict = "MATCH" <=> logs[Last.log].fair)
         /\ (R.verdict = "MATCH" /\ R.chain)
                => Total(funded, 1, R.target) = Last.carryOut + Committed(R.links)
         /\ (R.verdict = "MATCH" /\ R.expect # NoRoot)
                => R.expect = RootOver(R.target, funded[R.target] + Owed(R.target)) /\ ~skipped[R.target]
         /\ (R.verdict = "MATCH" /\ R.expect = NoRoot)
                => rootOf[R.target] # NoRoot \/ RootOver(R.target, funded[R.target] + Owed(R.target)) = NoRoot
  BY Reports DEF Sound, Last

(* A match has links. *)
LEMMA MatchHasLinks ==
  ASSUME CarryInv, Done, R.verdict = "MATCH"
  PROVE  R.links # <<>>
  BY Reports DEF Sound

(* The contract's clock, mark and stream and the report keep their shape, and a report that *)
(* is not INDETERMINATE has something behind it.                                            *)
THEOREM CarryTypeCorrect == Spec => []TypeOK
<1>1. ASSUME CarryInv PROVE TypeOK
  <2>1. BookType /\ StreamInv
    BY <1>1 DEF CarryInv, BookInv
  <2>2. ASSUME Done PROVE /\ R.target \in 0..MaxEpoch
                          /\ R.verdict \in {"MATCH", "MISMATCH", "INDETERMINATE"}
                          /\ R.verdict # "INDETERMINATE" => R.links # <<>>
    <3>1. Sound(R)
      BY <1>1, <2>2, Reports
    <3>. QED  BY <3>1, DistributorAssumption DEF Sound, Epochs
  <2>. QED  BY <2>1, <2>2 DEF TypeOK, BookType, StreamInv
<1>. QED  BY <1>1, CarryInvariance, PTL

(* A Root passes exactly if it was right when it was posted, judged at any later tip. *)
THEOREM RootsAreJudgedAsPosted == Spec => []RootJudgedAsPosted
<1>1. ASSUME CarryInv PROVE RootJudgedAsPosted
  BY <1>1, LastReports DEF RootJudgedAsPosted
<1>. QED  BY <1>1, CarryInvariance, PTL

(* The search back from the tip and the Walk from deploy expect the same carryIn, and it *)
(* is what the chain left.                                                               *)
THEOREM SearchAndWalkAgree == Spec => []WalkAgreesWithCompute
<1>1. ASSUME CarryInv PROVE WalkAgreesWithCompute
  <2>1. SUFFICES ASSUME Done, R.links # <<>>
                 PROVE  Last.expected = ExpectedCarry(R.target) /\ Last.expected = Owed(R.target)
    BY DEF WalkAgreesWithCompute
  <2>2. R.target \in Epochs /\ Last.expected = Owed(R.target)
    BY <1>1, <2>1, LastReports
  <2>3. BookInv
    BY <1>1 DEF CarryInv
  <2>4. ExpectedCarry(R.target) = Owed(R.target)
    BY <2>2, <2>3, ExpectedIsOwed
  <2>. QED  BY <2>2, <2>4
<1>. QED  BY <1>1, CarryInvariance, PTL

(* A Walk that matches accounts for everything that was funded up to its target. *)
THEOREM MatchedWalksAccountForAll == Spec => []MatchedWalkConserves
<1>1. ASSUME CarryInv PROVE MatchedWalkConserves
  BY <1>1, LastReports, MatchHasLinks DEF MatchedWalkConserves, Committed
<1>. QED  BY <1>1, CarryInvariance, PTL

(* An expected Root is vouched for only if the rules give it over what the chain left, *)
(* and its Epoch was not passed over.                                                  *)
THEOREM VouchedForIsRight == Spec => []ExpectationVouchedFor
<1>1. ASSUME CarryInv PROVE ExpectationVouchedFor
  BY <1>1, LastReports, MatchHasLinks DEF ExpectationVouchedFor
<1>. QED  BY <1>1, CarryInvariance, PTL

(* Without an Expectation, a match means that a Root stands or that the rules give none. *)
THEOREM UnfinishedNeverMatches == Spec => []UnpostedIsNoMatch
<1>1. ASSUME CarryInv PROVE UnpostedIsNoMatch
  BY <1>1, LastReports, MatchHasLinks DEF UnpostedIsNoMatch
<1>. QED  BY <1>1, CarryInvariance, PTL

(* The default target is the last Epoch with a Root, by the Root's current log. *)
THEOREM LatestFindsTheLast == Spec => []LatestIsLatest
<1>1. CarryInv => LatestIsLatest
  BY LatestFound DEF CarryInv
<1>. QED  BY <1>1, CarryInvariance, PTL
=============================================================================
