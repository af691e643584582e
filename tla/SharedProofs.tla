---------------------------- MODULE SharedProofs ----------------------------
(***************************************************************************)
(* Processes that share a Cache file never mix their histories: the proof, *)
(* for any number of processes, every chain, chunk and checkpoint, and any *)
(* pattern of kills, failed reads and --fresh.                             *)
(***************************************************************************)
EXTENDS CacheShared, SequenceTheorems, FiniteSetTheorems, WellFoundedInduction, TLAPS

-----------------------------------------------------------------------------
(* The inductive invariant.                                                   *)

(* An empty file has no header yet. *)
FileInv == (header = "none" => file = <<>>) /\ NeverInterleaved

(* What p believes it holds is a history, and so long as nobody emptied the file *)
(* it is what the file and the buffer make up.                                   *)
WriterInv(p) ==
    pc[p] \in {"verify", "fetch"} =>
        /\ pass[p] = 1
        /\ \E n \in 0..MaxBlock : held[p] = Prefix(n)
        /\ header = "ours" => file \o buf[p] = held[p]

(* Sync has all that precedes its next chunk, and in the end all through its tip. *)
SyncInv(p) ==
    /\ pc[p] # "fetch" => buf[p] = <<>>
    /\ pc[p] = "fetch" => IF next[p] <= tip[p] THEN Len(held[p]) = Upto(next[p] - 1)
                                              ELSE Len(held[p]) >= Upto(tip[p])

(* What is read back is what was counted, or the file was emptied since. *)
ReaderInv(p) ==
    pc[p] = "each" =>
        /\ pass[p] = 2
        /\ \E n \in 0..MaxBlock : held[p] = Prefix(n)
        /\ file = <<>> \/ (header = "ours" /\ file = held[p])

(* Only a --fresh of another process takes the header away from a run, or the *)
(* records that it has synced.                                                *)
KeptInv(p) ==
    /\ pc[p] = "scan" => header # "other"
    /\ (pc[p] \in {"scan", "verify", "fetch"} /\ ~undone[p]) => header = "ours"
    /\ (pc[p] # "idle" /\ pass[p] = 2 /\ ~undone[p]) => header = "ours" /\ Len(file) >= Upto(tip[p])

ProcInv(p) == WriterInv(p) /\ SyncInv(p) /\ ReaderInv(p) /\ KeptInv(p)

SharedInv == TypeOK /\ FileInv /\ \A p \in Procs : ProcInv(p)

-----------------------------------------------------------------------------
(* The operators of the model.                                                *)

(* Upto splits the log at a block. *)
LEMMA UptoSplits ==
    ASSUME NEW n \in Nat
    PROVE  /\ Upto(n) \in 0..Len(Log)
           /\ \A i \in 1..Len(Log) : Log[i] <= n <=> i <= Upto(n)
<1>1. Len(Log) \in Nat /\ \A i \in 1..Len(Log) : Log[i] \in Int
  BY SharedAssumption
<1> DEFINE T == {k \in 0..Len(Log) : \A i \in 1..Len(Log) : i > k => Log[i] > n}
<1>2. T \subseteq Nat /\ Len(Log) \in T
  BY <1>1
<1>3. PICK k \in T : \A y \in T : ~(<<y, k>> \in OpToRel(<, Nat))
  BY <1>2, NatLessThanWellFounded, WFMin
<1>4. \A y \in T : ~(y < k)
  BY <1>2, <1>3, Zenon DEF OpToRel
<1>5. k \in 0..Len(Log) /\ \A i \in 1..Len(Log) : i > k => Log[i] > n
  OBVIOUS
<1>6. \A i \in 1..Len(Log) : i <= k => Log[i] <= n
  <2>1. CASE k = 0
    BY <2>1
  <2>2. CASE k # 0
    <3>1. k - 1 \in 0..Len(Log) /\ k \in 1..Len(Log) /\ k - 1 < k
      BY <1>1, <1>5, <2>2
    <3>a. k - 1 \notin T
      BY <1>4, <3>1, Zenon
    <3>2. Log[k] <= n
      BY <1>1, <1>5, <3>1, <3>a
    <3> QED
      BY <1>1, <3>1, <3>2, SharedAssumption
  <2> QED
    BY <2>1, <2>2
<1> HIDE DEF T
<1>7. {i \in 1..Len(Log) : Log[i] <= n} = 1..k
  BY <1>1, <1>5, <1>6
<1>8. Cardinality(1..k) = k
  BY <1>1, <1>5, FS_Interval
<1>9. Upto(n) = k
  BY <1>7, <1>8 DEF Upto
<1> QED
  BY <1>1, <1>5, <1>6, <1>9

(* More blocks, no fewer transfers; and none in block 0. *)
LEMMA UptoGrows ==
    /\ Upto(0) = 0
    /\ \A m, n \in Nat : m <= n => Upto(m) <= Upto(n)
<1>1. Len(Log) \in Nat /\ \A i \in 1..Len(Log) : Log[i] \in Int /\ Log[i] >= 1
  BY SharedAssumption
<1>2. Upto(0) = 0
  <2>1. Upto(0) \in 0..Len(Log) /\ \A i \in 1..Len(Log) : Log[i] <= 0 <=> i <= Upto(0)
    BY UptoSplits
  <2> QED
    BY <1>1, <2>1
<1>3. ASSUME NEW m \in Nat, NEW n \in Nat, m <= n
      PROVE  Upto(m) <= Upto(n)
  <2>1. Upto(m) \in 0..Len(Log) /\ \A i \in 1..Len(Log) : Log[i] <= m <=> i <= Upto(m)
    BY UptoSplits
  <2>2. Upto(n) \in 0..Len(Log) /\ \A i \in 1..Len(Log) : Log[i] <= n <=> i <= Upto(n)
    BY UptoSplits
  <2> QED
    BY <1>1, <1>3, <2>1, <2>2
<1> QED
  BY <1>2, <1>3

(* The first k transfers. *)
First(k) == [i \in 1..k |-> i]

(* The first n records are records. *)
LEMMA FirstType ==
    ASSUME NEW k \in 0..Len(Log)
    PROVE  /\ First(k) \in Seq(1..Len(Log)) /\ Len(First(k)) = k
           /\ \A i \in 1..k : First(k)[i] = i
<1>1. Len(Log) \in Nat
  BY SharedAssumption
<1> QED
  BY <1>1 DEF First

(* A history is the first so many transfers. *)
LEMMA PrefixIsFirst ==
    ASSUME NEW n \in Nat
    PROVE  /\ Prefix(n) = First(Upto(n))
           /\ Prefix(n) \in Seq(1..Len(Log)) /\ Len(Prefix(n)) = Upto(n)
<1>1. Upto(1 - 1) = 0 /\ Upto(n) \in 0..Len(Log) /\ Len(Log) \in Nat
  BY UptoGrows, UptoSplits, SharedAssumption
<1>2. Prefix(n) = First(Upto(n))
  BY <1>1 DEF Prefix, Reads, First
<1> QED
  BY <1>1, <1>2, FirstType

(* A chunk of transfers continues the history before it. *)
LEMMA ReadsJoin ==
    ASSUME NEW lo \in Nat \ {0}, NEW hi \in Nat, lo <= hi + 1
    PROVE  /\ Reads(lo, hi) \in Seq(1..Len(Log))
           /\ First(Upto(lo - 1)) \o Reads(lo, hi) = Prefix(hi)
<1> DEFINE a == Upto(lo - 1)
           b == Upto(hi)
           r == Reads(lo, hi)
<1>1. a \in 0..Len(Log) /\ b \in 0..Len(Log) /\ a <= b /\ Len(Log) \in Nat
  BY UptoSplits, UptoGrows, SharedAssumption
<1>2. r = [i \in 1..(b - a) |-> a + i]
  BY DEF Reads
<1> HIDE DEF a, b, r
<1>3. r \in Seq(1..Len(Log)) /\ Len(r) = b - a /\ \A i \in 1..(b - a) : r[i] = a + i
  BY <1>1, <1>2
<1> DEFINE fa == First(a)
           fb == First(b)
           c  == fa \o r
<1>4. /\ fa \in Seq(1..Len(Log)) /\ Len(fa) = a /\ \A i \in 1..a : fa[i] = i
      /\ fb \in Seq(1..Len(Log)) /\ Len(fb) = b /\ \A i \in 1..b : fb[i] = i
  BY <1>1, FirstType
<1> HIDE DEF fa, fb
<1>5. /\ c \in Seq(1..Len(Log)) /\ Len(c) = Len(fa) + Len(r)
      /\ \A i \in 1..(Len(fa) + Len(r)) : c[i] = IF i <= Len(fa) THEN fa[i] ELSE r[i - Len(fa)]
  BY <1>3, <1>4, ConcatProperties, Zenon
<1> HIDE DEF c
<1>6. Len(c) = b /\ \A i \in 1..b : c[i] = fb[i]
  <2>1. Len(c) = b
    BY <1>1, <1>3, <1>4, <1>5
  <2>2. ASSUME NEW i \in 1..b
        PROVE  c[i] = fb[i]
    <3>1. CASE i <= a
      BY <1>1, <1>3, <1>4, <1>5, <3>1
    <3>2. CASE ~(i <= a)
      <4>1. i - a \in 1..(b - a) /\ c[i] = r[i - a]
        BY <1>1, <1>3, <1>4, <1>5, <3>2
      <4> QED
        BY <1>1, <1>3, <1>4, <4>1
    <3> QED
      BY <3>1, <3>2
  <2> QED
    BY <2>1, <2>2
<1>7. c = fb
  BY <1>4, <1>5, <1>6, SeqEqual
<1>8. hi \in Nat
  OBVIOUS
<1> QED
  BY <1>3, <1>7, <1>8, PrefixIsFirst DEF a, b, r, c, fa, fb

(* Where Sync resumes, the history it holds is complete. *)
LEMMA ResumeIsComplete ==
    ASSUME TypeOK, NEW p \in Procs, NEW m \in 0..MaxBlock, held[p] = Prefix(m)
    PROVE  /\ ResumeAfter(p) \in 1..(MaxBlock + 1)
           /\ IF ResumeAfter(p) <= tip[p] THEN Len(held[p]) = Upto(ResumeAfter(p) - 1)
                                         ELSE Len(held[p]) >= Upto(tip[p])
<1>a. tip[p] \in 1..MaxBlock /\ MaxBlock \in Nat /\ m \in Nat /\ Len(Log) \in Nat
  BY SharedAssumption DEF TypeOK
<1>1. /\ tip[p] \in 1..MaxBlock /\ MaxBlock \in Nat /\ m \in Nat
      /\ Upto(m) \in 0..Len(Log) /\ Len(Log) \in Nat
      /\ \A i \in 1..Len(Log) : Log[i] <= m <=> i <= Upto(m)
  BY <1>a, UptoSplits
<1>2. held[p] = First(Upto(m)) /\ Len(held[p]) = Upto(m)
  BY <1>1, PrefixIsFirst
<1>3. CASE Upto(m) = 0
  <2>1. held[p] = <<>>
    BY <1>2, <1>3 DEF First
  <2> QED
    BY <1>1, <1>2, <1>3, <2>1, UptoGrows DEF ResumeAfter
<1>4. CASE Upto(m) # 0
  <2> DEFINE k == Upto(m)
             last == Log[k]
  <2>1. k \in 1..Len(Log) /\ last \in 1..MaxBlock /\ last <= m
    BY <1>1, <1>4, SharedAssumption
  <2>2. held[p] # <<>> /\ held[p][Len(held[p])] = k
    BY <1>1, <1>2, <1>4, <2>1, FirstType
  <2>3. Upto(last) = k
    <3>a. last \in Nat
      BY <1>1, <2>1
    <3> HIDE DEF last
    <3>1. Upto(last) \in 0..Len(Log) /\ \A i \in 1..Len(Log) : Log[i] <= last <=> i <= Upto(last)
      BY <3>a, UptoSplits
    <3>2. Upto(last) <= k
      BY <1>1, <2>1, UptoGrows
    <3>3. k <= Upto(last)
      BY <2>1, <3>1, <3>a DEF last
    <3> QED
      BY <1>1, <3>1, <3>2, <3>3
  <2>4. ResumeAfter(p) = IF last >= tip[p] THEN tip[p] + 1 ELSE last + 1
    BY <2>2 DEF ResumeAfter
  <2>5. last >= tip[p] => k >= Upto(tip[p])
    BY <1>1, <2>1, <2>3, UptoGrows
  <2> HIDE DEF k, last
  <2>6. CASE last >= tip[p]
    BY <1>1, <1>2, <2>1, <2>4, <2>5, <2>6 DEF k
  <2>7. CASE ~(last >= tip[p])
    BY <1>1, <1>2, <2>1, <2>3, <2>4, <2>7 DEF k
  <2> QED
    BY <2>6, <2>7
<1> QED
  BY <1>3, <1>4
-----------------------------------------------------------------------------
(* The steps.                                                                 *)

(* Nothing that q has of its own changes. *)
Same(q) ==
    /\ pc'[q] = pc[q] /\ pass'[q] = pass[q] /\ tip'[q] = tip[q]
    /\ held'[q] = held[q] /\ buf'[q] = buf[q] /\ next'[q] = next[q]

(* What another process does to the file: nothing, or it writes while q is outside *)
(* the lock, or it empties it.                                                     *)
Spares(q) ==
    \/ UNCHANGED fileVars /\ undone'[q] = undone[q]
    \/ /\ pc[q] \in {"idle", "open", "opened"}
       /\ header = "ours" => header' = "ours" /\ Len(file') >= Len(file)
       /\ undone'[q] = undone[q]
    \/ header' = "none" /\ file' = <<>> /\ undone'[q]

(* None of the three takes a process out of its invariant. *)
LEMMA OthersKeep ==
    ASSUME TypeOK, NEW q \in Procs, ProcInv(q), Same(q), Spares(q), file' \in Seq(1..Len(Log))
    PROVE  ProcInv(q)'
<1>1. /\ Upto(tip[q]) \in Int /\ Len(file) \in Int /\ Len(file') \in Int
  <2>1. tip[q] \in Nat
    BY SharedAssumption DEF TypeOK
  <2> QED
    BY <2>1, UptoSplits, SharedAssumption DEF TypeOK
<1>2. CASE UNCHANGED fileVars /\ undone'[q] = undone[q]
  BY <1>2 DEF ProcInv, Same, fileVars, WriterInv, SyncInv, ReaderInv, KeptInv
<1>3. CASE /\ pc[q] \in {"idle", "open", "opened"}
           /\ header = "ours" => header' = "ours" /\ Len(file') >= Len(file)
           /\ undone'[q] = undone[q]
  <2>1. pc'[q] \notin {"stat", "header", "scan", "verify", "fetch", "each"}
    BY <1>3 DEF Same
  <2>2. WriterInv(q)' /\ ReaderInv(q)' /\ SyncInv(q)'
    BY <2>1, <1>3 DEF ProcInv, Same, WriterInv, SyncInv, ReaderInv
  <2>3. KeptInv(q)'
    BY <1>1, <1>3, <2>1 DEF ProcInv, Same, KeptInv
  <2> QED
    BY <2>2, <2>3 DEF ProcInv
<1>4. CASE header' = "none" /\ file' = <<>> /\ undone'[q]
  BY <1>4 DEF ProcInv, Same, WriterInv, SyncInv, ReaderInv, KeptInv
<1> QED
  BY <1>2, <1>3, <1>4 DEF Spares

(* No file yet, and nobody runs. *)
LEMMA SharedInit == ASSUME Init PROVE SharedInv
<1>1. TypeOK
  BY SharedAssumption DEF Init, TypeOK
<1>2. FileInv
  BY DEF Init, FileInv, NeverInterleaved
<1>3. ASSUME NEW p \in Procs PROVE ProcInv(p)
  BY <1>3 DEF Init, ProcInv, WriterInv, SyncInv, ReaderInv, KeptInv
<1> QED
  BY <1>1, <1>2, <1>3 DEF SharedInv

(* Nothing happens. *)
LEMMA StutterStep == ASSUME SharedInv, UNCHANGED vars PROVE SharedInv'
<1> USE DEF vars, fileVars, runVars
<1>1. TypeOK'
  BY DEF SharedInv, TypeOK
<1>2. FileInv'
  BY DEF SharedInv, FileInv, NeverInterleaved
<1>3. ASSUME NEW p \in Procs PROVE ProcInv(p)'
  BY <1>3 DEF SharedInv, ProcInv, WriterInv, SyncInv, ReaderInv, KeptInv
<1> QED
  BY <1>1, <1>2, <1>3 DEF SharedInv

(* The chain gains a block. *)
LEMMA GrowStep == ASSUME SharedInv, Grow PROVE SharedInv'
<1> USE DEF Grow, fileVars, runVars
<1>1. TypeOK'
  BY SharedAssumption DEF SharedInv, TypeOK
<1>2. FileInv'
  BY DEF SharedInv, FileInv, NeverInterleaved
<1>3. ASSUME NEW p \in Procs PROVE ProcInv(p)'
  BY <1>3 DEF SharedInv, ProcInv, WriterInv, SyncInv, ReaderInv, KeptInv
<1> QED
  BY <1>1, <1>2, <1>3 DEF SharedInv

(* A run starts. *)
LEMMA BeginStep ==
    ASSUME SharedInv, NEW p \in Procs, NEW isFresh \in BOOLEAN, Begin(p, isFresh)
    PROVE  SharedInv'
<1>1. TypeOK'
  <2>1. PICK n \in 1..head : tip' = [tip EXCEPT ![p] = n]
    BY DEF Begin
  <2>2. n \in 1..MaxBlock
    BY SharedAssumption DEF SharedInv, TypeOK
  <2>3. tip' \in [Procs -> 1..MaxBlock] /\ next' \in [Procs -> 1..(MaxBlock + 1)]
    BY <2>1, <2>2, SharedAssumption DEF SharedInv, TypeOK, Begin
  <2>4. /\ fresh' \in [Procs -> BOOLEAN] /\ undone' \in [Procs -> BOOLEAN]
    BY DEF SharedInv, TypeOK, Begin
  <2> QED
    BY <2>3, <2>4 DEF SharedInv, TypeOK, Begin, fileVars
<1>2. FileInv'
  BY DEF SharedInv, FileInv, NeverInterleaved, Begin, fileVars
<1>3. ProcInv(p)'
  <2>1. pc'[p] = "open" /\ pass'[p] = 1 /\ buf'[p] = <<>>
    BY DEF SharedInv, TypeOK, ProcInv, SyncInv, Begin
  <2> QED
    BY <2>1 DEF ProcInv, WriterInv, SyncInv, ReaderInv, KeptInv
<1>4. ASSUME NEW q \in Procs, q # p PROVE ProcInv(q)'
  <2>1. Same(q) /\ Spares(q)
    BY <1>4 DEF SharedInv, TypeOK, Begin, Same, Spares
  <2> QED
    BY <1>1, <1>4, <2>1, OthersKeep DEF SharedInv, TypeOK
<1> QED
  BY <1>1, <1>2, <1>3, <1>4 DEF SharedInv

(* open, with --fresh truncating before any lock is asked for. *)
LEMMA OpenFileStep == ASSUME SharedInv, NEW p \in Procs, OpenFile(p) PROVE SharedInv'
<1> USE DEF OpenFile, Goto, fileVars, runVars
<1>1. TypeOK'
  <2>1. /\ header' \in {"none", "ours", "other"} /\ file' \in Seq(1..Len(Log))
    <3>1. CASE Truncates(p)
      BY <3>1
    <3>2. CASE ~Truncates(p)
      BY <3>2 DEF SharedInv, TypeOK
    <3> QED
      BY <3>1, <3>2
  <2>2. undone' \in [Procs -> BOOLEAN]
    <3>1. CASE Truncates(p)
      <4>1. undone' = [q \in Procs |-> q # p \/ undone[q]]
        BY <3>1
      <4> QED
        BY <4>1, Zenon
    <3>2. CASE ~Truncates(p)
      BY <3>2 DEF SharedInv, TypeOK
    <3> QED
      BY <3>1, <3>2
  <2> QED
    BY <2>1, <2>2 DEF SharedInv, TypeOK
<1>2. FileInv'
  BY DEF SharedInv, FileInv, NeverInterleaved
<1>3. ProcInv(p)'
  <2>1. pc'[p] = "opened" /\ pass'[p] = pass[p] /\ buf'[p] = <<>> /\ tip'[p] = tip[p]
    BY DEF SharedInv, TypeOK, ProcInv, SyncInv
  <2>2. CASE pass[p] = 2
    <3>1. undone'[p] = undone[p] /\ header' = header /\ file' = file
      BY <2>2 DEF Truncates
    <3> QED
      BY <2>1, <3>1 DEF SharedInv, ProcInv, WriterInv, SyncInv, ReaderInv, KeptInv
  <2>3. CASE pass[p] # 2
    BY <2>1, <2>3 DEF ProcInv, WriterInv, SyncInv, ReaderInv, KeptInv
  <2> QED
    BY <2>2, <2>3
<1>4. ASSUME NEW q \in Procs, q # p PROVE ProcInv(q)'
  <2>1. Same(q)
    BY <1>4 DEF SharedInv, TypeOK, Same
  <2>2. CASE Truncates(p)
    <3>1. undone' = [r \in Procs |-> r # p \/ undone[r]]
      BY <2>2
    <3>2. undone'[q]
      BY <1>4, <3>1, Zenon
    <3> QED
      BY <1>1, <1>4, <2>1, <2>2, <3>2, OthersKeep DEF SharedInv, TypeOK, Spares
  <2>3. CASE ~Truncates(p)
    BY <1>1, <1>4, <2>1, <2>3, OthersKeep DEF SharedInv, TypeOK, Spares
  <2> QED
    BY <2>2, <2>3
<1> QED
  BY <1>1, <1>2, <1>3, <1>4 DEF SharedInv

(* A run that ends without having written leaves the file to the others. *)
LEMMA EndStep ==
    ASSUME SharedInv, NEW p \in Procs,
           NEW outcome \in {"ok", "error", "killed"}, NEW records \in Seq(1..Len(Log)),
           End(p, outcome, records),
           UNCHANGED <<head, fileVars, runVars, held, next, undone>>
    PROVE  SharedInv'
<1> USE DEF End, CloseFile, fileVars, runVars
<1>1. TypeOK'
  <2>1. /\ history' \in [Procs -> Seq(1..Len(Log))] /\ buf' \in [Procs -> Seq(1..Len(Log))]
        /\ result' \in [Procs -> {"none", "ok", "error", "killed"}]
        /\ lock' \in Procs \cup {Nobody}
    BY DEF SharedInv, TypeOK
  <2>2. /\ pc' \in [Procs -> {"idle", "open", "opened", "stat", "header", "scan", "verify", "fetch", "each"}]
        /\ \A q \in Procs : pc'[q] \notin {"idle", "open", "opened"} => lock' = q
    BY SharedAssumption DEF SharedInv, TypeOK
  <2> QED
    BY <2>1, <2>2 DEF SharedInv, TypeOK
<1>2. FileInv'
  BY DEF SharedInv, FileInv, NeverInterleaved
<1>3. ProcInv(p)'
  <2>1. pc'[p] = "idle" /\ buf'[p] = <<>>
    BY DEF SharedInv, TypeOK
  <2> QED
    BY <2>1 DEF ProcInv, WriterInv, SyncInv, ReaderInv, KeptInv
<1>4. ASSUME NEW q \in Procs, q # p PROVE ProcInv(q)'
  <2>1. Same(q) /\ Spares(q)
    BY <1>4 DEF SharedInv, TypeOK, Same, Spares
  <2> QED
    BY <1>1, <1>4, <2>1, OthersKeep DEF SharedInv, TypeOK
<1> QED
  BY <1>1, <1>2, <1>3, <1>4 DEF SharedInv

(* A process is killed; its lock goes, its buffer is lost. *)
LEMMA KillStep == ASSUME SharedInv, NEW p \in Procs, Kill(p) PROVE SharedInv'
<1>1. <<>> \in Seq(1..Len(Log))
  OBVIOUS
<1> QED
  BY <1>1, EndStep DEF Kill

(* Each reads back what the second Open counted, if nobody emptied the file since. *)
LEMMA EachStep == ASSUME SharedInv, NEW p \in Procs, Each(p) PROVE SharedInv'
<1>1. <<>> \in Seq(1..Len(Log))
  OBVIOUS
<1>2. CASE CanRead(p)
  <2>1. buf[p] = <<>> /\ pc[p] = "each"
    BY DEF SharedInv, ProcInv, SyncInv, Each
  <2>2. Len(held[p]) \in Nat /\ Len(file) \in Nat /\ file \in Seq(1..Len(Log))
    BY DEF SharedInv, TypeOK
  <2>3. Len(held[p]) <= Len(file)
    BY <1>2, <2>1, <2>2 DEF CanRead
  <2>4. SubSeq(file, 1, Len(held[p])) \in Seq(1..Len(Log))
    <3>1. \A i \in 1..Len(held[p]) : file[i] \in 1..Len(Log)
      BY <2>2, <2>3
    <3> QED
      BY <2>2, <3>1, SubSeqProperties
  <2> QED
    BY <1>2, <2>4, EndStep DEF Each
<1>3. CASE ~CanRead(p)
  BY <1>1, <1>3, EndStep DEF Each
<1> QED
  BY <1>2, <1>3

(* A step of p that leaves the file alone leaves the others alone. *)
LEMMA QuietStep ==
    ASSUME SharedInv, TypeOK', NEW p \in Procs, UNCHANGED <<head, fileVars, runVars, undone>>,
           \A q \in Procs \ {p} : Same(q), ProcInv(p)'
    PROVE  SharedInv'
<1>1. FileInv'
  BY DEF SharedInv, FileInv, NeverInterleaved, fileVars
<1>2. ASSUME NEW q \in Procs, q # p PROVE ProcInv(q)'
  <2>1. Same(q) /\ Spares(q)
    BY <1>2 DEF Spares
  <2> QED
    BY <1>2, <2>1, OthersKeep DEF SharedInv, TypeOK
<1> QED
  BY <1>1, <1>2 DEF SharedInv

(* flock is granted, or refused and the run ends. *)
LEMMA LockStep == ASSUME SharedInv, NEW p \in Procs, Lock(p) PROVE SharedInv'
<1>1. CASE lock = Nobody
  <2> USE <1>1 DEF Lock, fileVars, runVars
  <2>1. TypeOK'
    BY SharedAssumption DEF SharedInv, TypeOK
  <2>2. ProcInv(p)'
    <3>1. pc[p] = "opened" /\ pc'[p] = "stat"
      BY DEF SharedInv, TypeOK
    <3> QED
      BY <3>1 DEF SharedInv, ProcInv, WriterInv, SyncInv, ReaderInv, KeptInv
  <2>3. \A q \in Procs \ {p} : Same(q)
    BY DEF SharedInv, TypeOK, Same
  <2> QED
    BY <2>1, <2>2, <2>3, QuietStep
<1>2. CASE lock # Nobody
  <2>1. <<>> \in Seq(1..Len(Log))
    OBVIOUS
  <2> QED
    BY <1>2, <2>1, EndStep DEF Lock
<1> QED
  BY <1>1, <1>2

(* The size of the file decides between a new header and the old one. *)
LEMMA StatStep == ASSUME SharedInv, NEW p \in Procs, Stat(p) PROVE SharedInv'
<1> USE DEF Stat, Goto, fileVars, runVars
<1>1. TypeOK'
  BY DEF SharedInv, TypeOK
<1>2. ProcInv(p)'
  <2>1. pc[p] = "stat" /\ pc'[p] = "header"
    BY DEF SharedInv, TypeOK
  <2> QED
    BY <2>1 DEF SharedInv, ProcInv, WriterInv, SyncInv, ReaderInv, KeptInv
<1>3. \A q \in Procs \ {p} : Same(q)
  BY DEF SharedInv, TypeOK, Same
<1> QED
  BY <1>1, <1>2, <1>3, QuietStep

(* The header is read and compared. *)
LEMMA CheckHeaderStep == ASSUME SharedInv, NEW p \in Procs, CheckHeader(p) PROVE SharedInv'
<1>1. CASE header = "ours"
  <2> USE <1>1 DEF CheckHeader, Goto, fileVars, runVars
  <2>1. TypeOK'
    BY DEF SharedInv, TypeOK
  <2>2. ProcInv(p)'
    <3>1. pc[p] = "header" /\ pc'[p] = "scan"
      BY DEF SharedInv, TypeOK
    <3> QED
      BY <3>1 DEF SharedInv, ProcInv, WriterInv, SyncInv, ReaderInv, KeptInv
  <2>3. \A q \in Procs \ {p} : Same(q)
    BY DEF SharedInv, TypeOK, Same
  <2> QED
    BY <2>1, <2>2, <2>3, QuietStep
<1>2. CASE header # "ours"
  <2>1. <<>> \in Seq(1..Len(Log))
    OBVIOUS
  <2> QED
    BY <1>2, <2>1, EndStep DEF CheckHeader
<1> QED
  BY <1>1, <1>2

(* No transfers are the history before the first block. *)
LEMMA PrefixOfNone == <<>> = Prefix(0) /\ 0 \in 0..MaxBlock
<1>1. Prefix(0) = First(0)
  BY PrefixIsFirst, UptoGrows
<1> QED
  BY <1>1, SharedAssumption DEF First

(* The records are scanned and counted. *)
LEMMA ScanStep == ASSUME SharedInv, NEW p \in Procs, Scan(p) PROVE SharedInv'
<1> USE DEF Scan, Goto, fileVars, runVars
<1>1. TypeOK'
  BY DEF SharedInv, TypeOK, Loaded
<1>2. ProcInv(p)'
  <2>1. pc[p] = "scan" /\ pc'[p] = Loaded(p) /\ held'[p] = file /\ buf'[p] = <<>> /\ pass'[p] = pass[p]
    BY DEF SharedInv, TypeOK, ProcInv, SyncInv
  <2>2. header # "other" /\ (~undone[p] => header = "ours")
    BY <2>1 DEF SharedInv, ProcInv, KeptInv
  <2>3. \E n \in 0..MaxBlock : held'[p] = Prefix(n)
    BY <2>1, <2>2, PrefixOfNone DEF SharedInv, TypeOK, FileInv, NeverInterleaved
  <2>4. file = <<>> \/ header = "ours"
    BY <2>2 DEF SharedInv, TypeOK, FileInv
  <2>5. file \o <<>> = file
    BY ConcatEmptySeq DEF SharedInv, TypeOK
  <2>6. WriterInv(p)'
    BY <2>1, <2>3, <2>5 DEF WriterInv, Loaded
  <2>7. SyncInv(p)' /\ ReaderInv(p)'
    BY <2>1, <2>3, <2>4 DEF SyncInv, ReaderInv, Loaded, SharedInv, TypeOK
  <2>8. KeptInv(p)'
    BY <2>1, <2>2 DEF KeptInv, Loaded, SharedInv, ProcInv
  <2> QED
    BY <2>6, <2>7, <2>8 DEF ProcInv
<1>3. \A q \in Procs \ {p} : Same(q)
  BY DEF SharedInv, TypeOK, Same
<1> QED
  BY <1>1, <1>2, <1>3, QuietStep

(* The last record is compared with the chain, and the chunk loop set up. *)
LEMMA VerifyStep == ASSUME SharedInv, NEW p \in Procs, Verify(p) PROVE SharedInv'
<1>1. CASE CanRead(p)
  <2> USE <1>1 DEF Verify, Goto, fileVars, runVars
  <2>1. PICK m \in 0..MaxBlock : held[p] = Prefix(m)
    BY DEF SharedInv, ProcInv, WriterInv
  <2>2. /\ ResumeAfter(p) \in 1..(MaxBlock + 1)
        /\ IF ResumeAfter(p) <= tip[p] THEN Len(held[p]) = Upto(ResumeAfter(p) - 1)
                                      ELSE Len(held[p]) >= Upto(tip[p])
    BY <2>1, ResumeIsComplete DEF SharedInv
  <2>3. TypeOK'
    <3>1. next' = [next EXCEPT ![p] = ResumeAfter(p)] /\ pc' = [pc EXCEPT ![p] = "fetch"] /\ pc[p] = "verify"
      OBVIOUS
    <3>2. next' \in [Procs -> 1..(MaxBlock + 1)]
      BY <2>2, <3>1 DEF SharedInv, TypeOK
    <3> QED
      BY <3>1, <3>2 DEF SharedInv, TypeOK
  <2>4. ProcInv(p)'
    <3>1. /\ pc[p] = "verify" /\ pc'[p] = "fetch" /\ next'[p] = ResumeAfter(p)
      BY DEF SharedInv, TypeOK
    <3>2. SyncInv(p)'
      BY <2>2, <3>1 DEF SyncInv
    <3>3. WriterInv(p)' /\ ReaderInv(p)' /\ KeptInv(p)'
      BY <3>1 DEF SharedInv, ProcInv, WriterInv, ReaderInv, KeptInv
    <3> QED
      BY <3>2, <3>3 DEF ProcInv
  <2>5. \A q \in Procs \ {p} : Same(q)
    BY DEF SharedInv, TypeOK, Same
  <2> QED
    BY <2>3, <2>4, <2>5, QuietStep
<1>2. CASE ~CanRead(p)
  <2>1. <<>> \in Seq(1..Len(Log))
    OBVIOUS
  <2> QED
    BY <1>2, <2>1, EndStep DEF Verify
<1> QED
  BY <1>1, <1>2

(* What the holder of the lock writes finds the others outside it. *)
LEMMA HolderStep ==
    ASSUME SharedInv, TypeOK', FileInv', NEW p \in Procs, lock = p, undone' = undone,
           header = "ours" => header' = "ours" /\ Len(file') >= Len(file),
           \A q \in Procs \ {p} : Same(q), ProcInv(p)'
    PROVE  SharedInv'
<1>1. ASSUME NEW q \in Procs, q # p PROVE ProcInv(q)'
  <2>1. pc[q] \in {"idle", "open", "opened"}
    BY <1>1 DEF SharedInv, TypeOK
  <2>2. Same(q) /\ Spares(q)
    BY <1>1, <2>1 DEF Spares
  <2> QED
    BY <1>1, <2>2, OthersKeep DEF SharedInv, TypeOK
<1> QED
  BY <1>1 DEF SharedInv

(* A new file gets its header. *)
LEMMA WriteHeaderStep == ASSUME SharedInv, NEW p \in Procs, WriteHeader(p) PROVE SharedInv'
<1> USE DEF WriteHeader, Goto, runVars
<1>1. TypeOK'
  BY DEF SharedInv, TypeOK, Loaded
<1>2. file' = <<>> /\ header' = "ours" /\ lock = p
  BY DEF SharedInv, TypeOK, FileInv
<1>3. FileInv'
  BY <1>2, PrefixOfNone DEF FileInv, NeverInterleaved
<1>4. ProcInv(p)'
  <2>1. /\ pc[p] = "stat" /\ pc'[p] = Loaded(p) /\ held'[p] = <<>> /\ buf'[p] = <<>>
        /\ pass'[p] = pass[p] /\ undone'[p] = undone[p]
    BY DEF SharedInv, TypeOK, ProcInv, SyncInv
  <2>2. \E n \in 0..MaxBlock : held'[p] = Prefix(n)
    BY <2>1, PrefixOfNone
  <2>3. WriterInv(p)'
    BY <1>2, <2>1, <2>2 DEF WriterInv, Loaded
  <2>4. SyncInv(p)' /\ ReaderInv(p)'
    BY <1>2, <2>1, <2>2 DEF SyncInv, ReaderInv, Loaded, SharedInv, TypeOK
  <2>5. pass[p] = 2 => undone[p]
    BY <2>1 DEF SharedInv, ProcInv, KeptInv
  <2>6. KeptInv(p)'
    BY <1>2, <2>1, <2>5 DEF KeptInv, Loaded
  <2> QED
    BY <2>3, <2>4, <2>6 DEF ProcInv
<1>5. \A q \in Procs \ {p} : Same(q)
  BY DEF SharedInv, TypeOK, Same
<1> QED
  BY <1>1, <1>2, <1>3, <1>4, <1>5, HolderStep

(* A write continues a history that is whole, and spoils no other file. *)
LEMMA WriteIsSound ==
    ASSUME FileInv, NEW m \in 0..MaxBlock,
           file \in Seq(1..Len(Log)), NEW records \in Seq(1..Len(Log)), Write(records),
           header = "ours" => file \o records = Prefix(m)
    PROVE  /\ FileInv'
           /\ file' \in Seq(1..Len(Log)) /\ Len(file') >= Len(file)
           /\ header' = "ours" <=> header = "ours"
           /\ header \in {"none", "ours", "other"} => header' \in {"none", "ours", "other"}
<1>1. /\ file \o records \in Seq(1..Len(Log))
      /\ Len(file \o records) = Len(file) + Len(records)
  BY ConcatProperties, Zenon
<1>2. file' = file \o records
  BY DEF Write
<1>3. Len(file') >= Len(file)
  BY <1>1, <1>2
<1>4. header' = "ours" <=> header = "ours"
  BY DEF Write
<1>5. header' = "ours" => file' = Prefix(m)
  BY <1>2, <1>4
<1>6. header' = "none" => file' = <<>>
  <2>1. SUFFICES ASSUME header' = "none" PROVE file' = <<>>
    OBVIOUS
  <2>2. header = "none" /\ records = <<>>
    BY <2>1 DEF Write
  <2>3. file = <<>>
    BY <2>2 DEF FileInv
  <2> QED
    BY <1>2, <2>2, <2>3
<1> QED
  BY <1>1, <1>2, <1>3, <1>4, <1>5, <1>6 DEF FileInv, NeverInterleaved, Write

(* Close flushes and gives the lock up. *)
LEMMA CloseStep == ASSUME SharedInv, NEW p \in Procs, Close(p) PROVE SharedInv'
<1>0. next[p] \in 1..(MaxBlock + 1) /\ tip[p] \in 1..MaxBlock
  BY DEF SharedInv, TypeOK
<1>1. /\ pc[p] = "fetch" /\ lock = p /\ file \in Seq(1..Len(Log)) /\ buf[p] \in Seq(1..Len(Log))
      /\ next[p] \in Nat /\ tip[p] \in Nat /\ next[p] > tip[p]
  <2>1. pc[p] = "fetch" /\ lock = p /\ file \in Seq(1..Len(Log)) /\ buf[p] \in Seq(1..Len(Log))
    BY DEF SharedInv, TypeOK, Close
  <2> QED
    BY <1>0, <2>1, SharedAssumption DEF Close
<1>2. PICK m \in 0..MaxBlock : held[p] = Prefix(m)
  BY <1>1 DEF SharedInv, ProcInv, WriterInv
<1>3. header = "ours" => file \o buf[p] = held[p]
  BY <1>1 DEF SharedInv, ProcInv, WriterInv
<1>4. /\ FileInv' /\ (header' = "ours" <=> header = "ours")
      /\ file' \in Seq(1..Len(Log)) /\ Len(file') >= Len(file) /\ header' \in {"none", "ours", "other"}
  BY <1>1, <1>2, <1>3, WriteIsSound DEF SharedInv, Close, TypeOK
<1>5. TypeOK'
  <2>1. lock' = Nobody
    BY <1>1 DEF Close, CloseFile
  <2>2. /\ buf' \in [Procs -> Seq(1..Len(Log))] /\ pass' \in [Procs -> {1, 2}]
        /\ pc' \in [Procs -> {"idle", "open", "opened", "stat", "header", "scan", "verify", "fetch", "each"}]
    BY DEF SharedInv, TypeOK, Close
  <2>3. \A q \in Procs : pc'[q] \in {"idle", "open", "opened"}
    BY <1>1 DEF SharedInv, TypeOK, Close
  <2> QED
    BY <1>4, <2>1, <2>2, <2>3 DEF SharedInv, TypeOK, Close
<1>6. ProcInv(p)'
  <2>1. pc'[p] = "open" /\ pass'[p] = 2 /\ buf'[p] = <<>> /\ tip'[p] = tip[p] /\ undone'[p] = undone[p]
    BY DEF SharedInv, TypeOK, Close
  <2>2. ~undone[p] => header' = "ours" /\ file' = held[p]
    BY <1>1, <1>3, <1>4 DEF SharedInv, ProcInv, KeptInv, Close, Write
  <2>3. Len(held[p]) >= Upto(tip[p])
    BY <1>1 DEF SharedInv, ProcInv, SyncInv
  <2> QED
    BY <2>1, <2>2, <2>3 DEF ProcInv, WriterInv, SyncInv, ReaderInv, KeptInv
<1>7. \A q \in Procs \ {p} : Same(q)
  BY DEF SharedInv, TypeOK, Same, Close
<1>8. undone' = undone /\ (header = "ours" => header' = "ours" /\ Len(file') >= Len(file))
  BY <1>4 DEF Close
<1> QED
  BY <1>1, <1>4, <1>5, <1>6, <1>7, <1>8, HolderStep

(* A read of the chain fails, and the deferred Close flushes what was appended. *)
LEMMA ReadFailsStep == ASSUME SharedInv, NEW p \in Procs, ReadFails(p) PROVE SharedInv'
<1>1. /\ pc[p] \in {"verify", "fetch"} /\ lock = p
      /\ file \in Seq(1..Len(Log)) /\ buf[p] \in Seq(1..Len(Log))
  BY DEF SharedInv, TypeOK, ReadFails
<1>2. PICK m \in 0..MaxBlock : held[p] = Prefix(m)
  BY <1>1 DEF SharedInv, ProcInv, WriterInv
<1>3. header = "ours" => file \o buf[p] = held[p]
  BY <1>1 DEF SharedInv, ProcInv, WriterInv
<1>4. /\ FileInv' /\ (header' = "ours" <=> header = "ours")
      /\ file' \in Seq(1..Len(Log)) /\ Len(file') >= Len(file) /\ header' \in {"none", "ours", "other"}
  BY <1>1, <1>2, <1>3, WriteIsSound DEF SharedInv, ReadFails, TypeOK
<1> USE DEF ReadFails, End, CloseFile, runVars
<1>5. TypeOK'
  <2>1. lock' = Nobody
    BY <1>1
  <2>2. /\ buf' \in [Procs -> Seq(1..Len(Log))] /\ history' \in [Procs -> Seq(1..Len(Log))]
        /\ result' \in [Procs -> {"none", "ok", "error", "killed"}]
        /\ pc' \in [Procs -> {"idle", "open", "opened", "stat", "header", "scan", "verify", "fetch", "each"}]
    BY DEF SharedInv, TypeOK
  <2>3. \A q \in Procs : pc'[q] \in {"idle", "open", "opened"}
    BY <1>1 DEF SharedInv, TypeOK
  <2> QED
    BY <1>4, <2>1, <2>2, <2>3 DEF SharedInv, TypeOK
<1>6. ProcInv(p)'
  <2>1. pc'[p] = "idle" /\ buf'[p] = <<>>
    BY DEF SharedInv, TypeOK
  <2> QED
    BY <2>1 DEF ProcInv, WriterInv, SyncInv, ReaderInv, KeptInv
<1>7. \A q \in Procs \ {p} : Same(q)
  BY DEF SharedInv, TypeOK, Same
<1>8. undone' = undone /\ (header = "ours" => header' = "ours" /\ Len(file') >= Len(file))
  BY <1>4
<1> QED
  BY <1>1, <1>4, <1>5, <1>6, <1>7, <1>8, HolderStep

(* A chunk: what is held is the history through its end. *)
LEMMA FetchStep == ASSUME SharedInv, NEW p \in Procs, Fetch(p) PROVE SharedInv'
<1> DEFINE end   == IF tip[p] - next[p] >= Chunk THEN next[p] + Chunk - 1 ELSE tip[p]
           batch == Reads(next[p], end)
           due   == Len(buf[p] \o batch) >= Checkpoint
<1>1. /\ IF due THEN Write(buf[p] \o batch) ELSE UNCHANGED fileVars
      /\ buf' = [buf EXCEPT ![p] = IF due THEN <<>> ELSE @ \o batch]
      /\ held' = [held EXCEPT ![p] = @ \o batch]
      /\ next' = [next EXCEPT ![p] = end + 1]
      /\ pc[p] = "fetch" /\ next[p] <= tip[p]
      /\ UNCHANGED <<head, lock, pc, runVars, history, result, undone>>
  BY DEF Fetch
<1>2. /\ next[p] \in Nat \ {0} /\ tip[p] \in 1..MaxBlock /\ MaxBlock \in Nat /\ Chunk \in Nat \ {0}
      /\ file \in Seq(1..Len(Log)) /\ buf[p] \in Seq(1..Len(Log)) /\ held[p] \in Seq(1..Len(Log))
      /\ lock = p /\ Checkpoint \in Nat \ {0}
  <2>1. next[p] \in 1..(MaxBlock + 1) /\ tip[p] \in 1..MaxBlock
    BY DEF SharedInv, TypeOK
  <2>2. /\ file \in Seq(1..Len(Log)) /\ buf[p] \in Seq(1..Len(Log)) /\ held[p] \in Seq(1..Len(Log))
        /\ lock = p
    BY <1>1 DEF SharedInv, TypeOK
  <2> QED
    BY <2>1, <2>2, SharedAssumption
<1>3. end \in 1..MaxBlock /\ next[p] <= end /\ end <= tip[p] /\ (end + 1 > tip[p] => end = tip[p])
  <2>1. next[p] <= tip[p]
    BY <1>1
  <2>2. CASE tip[p] - next[p] >= Chunk
    <3>1. end = next[p] + Chunk - 1
      BY <2>2
    <3>2. \A n, t, c, m \in Nat : (n >= 1 /\ c >= 1 /\ t <= m /\ t - n >= c) =>
             /\ n + c - 1 \in 1..m /\ n <= n + c - 1 /\ n + c - 1 <= t
             /\ ~((n + c - 1) + 1 > t)
      OBVIOUS
    <3>3. /\ next[p] \in Nat /\ tip[p] \in Nat /\ Chunk \in Nat /\ MaxBlock \in Nat
          /\ next[p] >= 1 /\ Chunk >= 1 /\ tip[p] <= MaxBlock
      BY <1>2
    <3> HIDE DEF end
    <3> QED
      BY <2>2, <3>1, <3>2, <3>3
  <2>3. CASE ~(tip[p] - next[p] >= Chunk)
    <3>1. end = tip[p]
      BY <2>3
    <3> HIDE DEF end
    <3> QED
      BY <1>2, <2>1, <2>3, <3>1
  <2> QED
    BY <2>2, <2>3
<1> HIDE DEF end
<1>4. PICK m \in 0..MaxBlock : held[p] = Prefix(m)
  BY <1>1 DEF SharedInv, ProcInv, WriterInv
<1>5. held[p] = First(Upto(next[p] - 1))
  <2>1. m \in Nat
    BY <1>2
  <2>2. held[p] = First(Upto(m)) /\ Len(held[p]) = Upto(m)
    BY <1>4, <2>1, PrefixIsFirst
  <2>3. Len(held[p]) = Upto(next[p] - 1)
    BY <1>1 DEF SharedInv, ProcInv, SyncInv
  <2> QED
    BY <2>2, <2>3
<1>6. batch \in Seq(1..Len(Log)) /\ held[p] \o batch = Prefix(end)
  <2>1. end \in Nat /\ next[p] <= end + 1
    BY <1>2, <1>3
  <2> QED
    BY <1>2, <1>5, <2>1, ReadsJoin
<1> HIDE DEF batch
<1>7. end \in Nat /\ end \in 0..MaxBlock
  BY <1>2, <1>3
<1> DEFINE more == buf[p] \o batch
<1>8. more \in Seq(1..Len(Log)) /\ held[p] \o batch \in Seq(1..Len(Log))
  BY <1>2, <1>6, ConcatProperties, Zenon
<1>9. header = "ours" => file \o more = Prefix(end)
  <2>1. SUFFICES ASSUME header = "ours" PROVE file \o more = Prefix(end)
    OBVIOUS
  <2>2. file \o buf[p] = held[p]
    BY <1>1, <2>1 DEF SharedInv, ProcInv, WriterInv
  <2>3. (file \o buf[p]) \o batch = file \o more
    <3> DEFINE R == 1..Len(Log)
               b == buf[p]
    <3>1. file \in Seq(R) /\ b \in Seq(R) /\ batch \in Seq(R)
      BY <1>2, <1>6
    <3> HIDE DEF R, b
    <3>2. (file \o b) \o batch = file \o (b \o batch)
      BY <3>1, ConcatAssociative
    <3> QED
      BY <3>2 DEF b
  <2> QED
    BY <1>6, <2>2, <2>3
<1> HIDE DEF more
<1>10. /\ FileInv' /\ (header = "ours" => header' = "ours") /\ (header' = "ours" => header = "ours")
       /\ file' \in Seq(1..Len(Log)) /\ Len(file') >= Len(file) /\ header' \in {"none", "ours", "other"}
  <2>1. CASE due
    <3>1. Write(more)
      BY <1>1, <2>1 DEF more
    <3>2. FileInv /\ header \in {"none", "ours", "other"}
      BY DEF SharedInv, TypeOK
    <3> HIDE DEF due
    <3> QED
      BY <1>2, <1>7, <1>8, <1>9, <3>1, <3>2, WriteIsSound
  <2>2. CASE ~due
    BY <1>1, <2>2 DEF SharedInv, TypeOK, FileInv, NeverInterleaved, fileVars
  <2> QED
    BY <2>1, <2>2
<1>11. /\ buf'[p] \in Seq(1..Len(Log)) /\ held'[p] = Prefix(end) /\ next'[p] = end + 1
       /\ buf'[p] = IF due THEN <<>> ELSE more
       /\ held'[p] \in Seq(1..Len(Log))
  <2>1. /\ buf'[p] = IF due THEN <<>> ELSE more
        /\ held'[p] = held[p] \o batch /\ next'[p] = end + 1
    BY <1>1 DEF SharedInv, TypeOK, more
  <2> HIDE DEF due
  <2>2. held'[p] = Prefix(end) /\ held'[p] \in Seq(1..Len(Log))
    BY <1>6, <1>8, <2>1
  <2>3. buf'[p] \in Seq(1..Len(Log))
    <3>1. <<>> \in Seq(1..Len(Log))
      OBVIOUS
    <3> QED
      BY <1>8, <2>1, <3>1, Zenon
  <2> QED
    BY <2>1, <2>2, <2>3
<1>12. TypeOK'
  <2>1. /\ \A q \in Procs \ {p} : buf'[q] = buf[q] /\ held'[q] = held[q] /\ next'[q] = next[q]
        /\ buf' = [q \in Procs |-> buf'[q]] /\ held' = [q \in Procs |-> held'[q]]
        /\ next' = [q \in Procs |-> next'[q]]
    BY <1>1 DEF SharedInv, TypeOK
  <2>2. next'[p] \in 1..(MaxBlock + 1)
    BY <1>2, <1>3, <1>11
  <2>3. /\ buf' \in [Procs -> Seq(1..Len(Log))] /\ held' \in [Procs -> Seq(1..Len(Log))]
        /\ next' \in [Procs -> 1..(MaxBlock + 1)]
    BY <1>11, <2>1, <2>2 DEF SharedInv, TypeOK
  <2>4. UNCHANGED <<head, lock, pc, runVars, history, result, undone>>
    BY <1>1
  <2> QED
    BY <1>10, <2>3, <2>4 DEF SharedInv, TypeOK, runVars
<1>13. ProcInv(p)'
  <2>1. /\ pc'[p] = "fetch" /\ pass'[p] = pass[p] /\ pass[p] = 1 /\ tip'[p] = tip[p]
        /\ undone'[p] = undone[p]
    BY <1>1 DEF SharedInv, ProcInv, WriterInv, runVars
  <2>2. header' = "ours" => file' \o buf'[p] = held'[p]
    <3>1. SUFFICES ASSUME header' = "ours" PROVE file' \o buf'[p] = held'[p]
      OBVIOUS
    <3>2. CASE due
      <4>1. file' = file \o more /\ buf'[p] = <<>>
        BY <1>1, <1>11, <3>2 DEF Write, more
      <4>2. file' \o <<>> = file'
        BY <1>10, ConcatEmptySeq
      <4> QED
        BY <1>9, <1>10, <1>11, <3>1, <4>1, <4>2
    <3>3. CASE ~due
      <4>1. file' = file /\ buf'[p] = more
        BY <1>1, <1>11, <3>3 DEF fileVars
      <4> QED
        BY <1>9, <1>10, <1>11, <3>1, <4>1
    <3> QED
      BY <3>2, <3>3
  <2>3. WriterInv(p)'
    BY <1>7, <1>11, <2>1, <2>2 DEF WriterInv
  <2>4. SyncInv(p)'
    <3>1. Len(held'[p]) = Upto(end) /\ Upto(end) \in Int
      BY <1>7, <1>11, PrefixIsFirst, UptoSplits, SharedAssumption
    <3>2. next'[p] - 1 = end
      BY <1>7, <1>11
    <3>3. CASE next'[p] <= tip[p]
      BY <2>1, <3>1, <3>2, <3>3 DEF SyncInv
    <3>4. CASE ~(next'[p] <= tip[p])
      <4>1. end = tip[p]
        BY <1>2, <1>3, <1>7, <1>11, <3>4
      <4> QED
        BY <2>1, <3>1, <3>4, <4>1 DEF SyncInv
    <3> QED
      BY <3>3, <3>4
  <2>5. ReaderInv(p)' /\ KeptInv(p)'
    BY <1>1, <1>10, <2>1 DEF SharedInv, ProcInv, ReaderInv, KeptInv
  <2> QED
    BY <2>3, <2>4, <2>5 DEF ProcInv
<1>14. \A q \in Procs \ {p} : Same(q)
  BY <1>1 DEF SharedInv, TypeOK, Same, runVars
<1>15. undone' = undone
  BY <1>1
<1> QED
  BY <1>2, <1>10, <1>12, <1>13, <1>14, <1>15, HolderStep

-----------------------------------------------------------------------------
(* The theorems.                                                              *)

(* Every step keeps the invariant. *)
LEMMA SharedStep == ASSUME SharedInv, [Next]_vars PROVE SharedInv'
<1>1. CASE UNCHANGED vars
  BY <1>1, StutterStep
<1>2. CASE Grow
  BY <1>2, GrowStep
<1>3. ASSUME NEW p \in Procs, NEW isFresh \in BOOLEAN, Begin(p, isFresh)
      PROVE  SharedInv'
  BY <1>3, BeginStep
<1>4. ASSUME NEW p \in Procs, Run(p)
      PROVE  SharedInv'
  BY <1>4, OpenFileStep, LockStep, WriteHeaderStep, StatStep, CheckHeaderStep, ScanStep,
     VerifyStep, FetchStep, CloseStep, EachStep DEF Run
<1>5. ASSUME NEW p \in Procs, ReadFails(p)
      PROVE  SharedInv'
  BY <1>5, ReadFailsStep
<1>6. ASSUME NEW p \in Procs, Kill(p)
      PROVE  SharedInv'
  BY <1>6, KillStep
<1> QED
  BY <1>1, <1>2, <1>3, <1>4, <1>5, <1>6 DEF Next

(* The invariant always holds. *)
LEMMA SharedInductive == Spec => []SharedInv
BY SharedInit, SharedStep, PTL DEF Spec

(* The shapes of the variables; and a process between its flock and its Close holds *)
(* the lock, however many others try (cache/lock_unix.go).                          *)
THEOREM SharedTypeCorrect == Spec => []TypeOK
<1>1. SharedInv => TypeOK
  BY DEF SharedInv
<1> QED
  BY <1>1, SharedInductive, PTL

(* A file that opens as a Cache holds whole blocks of the history from the start on, *)
(* whatever processes write, are refused or killed, or empty the file with --fresh   *)
(* while another holds the lock (cache/cache.go, OpenFile).                          *)
THEOREM FilesNeverInterleave == Spec => []NeverInterleaved
<1>1. SharedInv => NeverInterleaved
  BY DEF SharedInv, FileInv
<1> QED
  BY <1>1, SharedInductive, PTL

(* Only the read back ends a run well. *)
LEMMA OnlyEachSucceeds ==
    ASSUME SharedInv, [Next]_vars, NEW p \in Procs, result'[p] = "ok", result[p] # "ok"
    PROVE  Each(p) /\ CanRead(p)
<1>1. result \in [Procs -> {"none", "ok", "error", "killed"}]
  BY DEF SharedInv, TypeOK
<1>2. ~(UNCHANGED vars) /\ ~Grow
  BY <1>1 DEF vars, Grow
<1>3. ASSUME NEW q \in Procs, NEW isFresh \in BOOLEAN PROVE ~Begin(q, isFresh)
  BY <1>1 DEF Begin
<1>4. ASSUME NEW q \in Procs PROVE ~ReadFails(q) /\ ~Kill(q)
  BY <1>1 DEF ReadFails, Kill, End
<1>5. ASSUME NEW q \in Procs
      PROVE  /\ ~OpenFile(q) /\ ~WriteHeader(q) /\ ~Stat(q) /\ ~Scan(q) /\ ~Fetch(q) /\ ~Close(q)
  BY <1>1 DEF OpenFile, WriteHeader, Stat, Scan, Fetch, Close, Goto
<1>6. ASSUME NEW q \in Procs PROVE ~Lock(q) /\ ~CheckHeader(q) /\ ~Verify(q)
  BY <1>1 DEF Lock, CheckHeader, Verify, Goto, End
<1>7. PICK q \in Procs : Each(q)
  BY <1>2, <1>3, <1>4, <1>5, <1>6 DEF Next, Run
<1>8. q = p /\ CanRead(q)
  BY <1>1, <1>7 DEF Each, End
<1> QED
  BY <1>7, <1>8

(* A run that succeeds returns the history through its tip at least, although it   *)
(* gives up the lock between Sync and the read back (epoch/engine.go); only a      *)
(* --fresh of another process leaves it with less, and then still whole blocks.    *)
THEOREM RunsReadBackTheirHistory == Spec => ReadsBackItsHistory
<1>1. ASSUME SharedInv, [Next]_vars, NEW p \in Procs, result'[p] = "ok", result[p] # "ok"
      PROVE  \E n \in 0..MaxBlock : history'[p] = Prefix(n) /\ (n >= tip[p] \/ undone[p])
  <2>1. Each(p) /\ CanRead(p)
    BY <1>1, OnlyEachSucceeds
  <2>2. /\ pc[p] = "each" /\ file \in Seq(1..Len(Log)) /\ held[p] \in Seq(1..Len(Log))
        /\ tip[p] \in 1..MaxBlock /\ tip[p] \in Nat /\ MaxBlock \in Nat /\ buf[p] = <<>>
    BY <1>1, <2>1, SharedAssumption DEF SharedInv, TypeOK, Each, ProcInv, SyncInv
  <2>3. PICK m \in 0..MaxBlock : held[p] = Prefix(m)
    BY <1>1, <2>2 DEF SharedInv, ProcInv, ReaderInv
  <2>4. Len(file) >= Len(held[p])
    BY <2>1, <2>2 DEF CanRead
  <2>5. file = held[p]
    <3>1. CASE file = <<>>
      <4>1. Len(held[p]) = 0
        BY <2>2, <2>4, <3>1
      <4> QED
        BY <2>2, <3>1, <4>1, EmptySeq
    <3>2. CASE file # <<>>
      BY <1>1, <2>2, <3>2 DEF SharedInv, ProcInv, ReaderInv
    <3> QED
      BY <3>1, <3>2
  <2>6. history'[p] = held[p]
    <3>1. history'[p] = SubSeq(file, 1, Len(held[p]))
      BY <1>1, <2>1 DEF Each, End, SharedInv, TypeOK
    <3>2. SubSeq(file, 1, Len(file)) = file
      BY <2>2, SubSeqFull
    <3> QED
      BY <2>5, <3>1, <3>2
  <2>7. ~undone[p] => Len(file) >= Upto(tip[p])
    BY <1>1, <2>2 DEF SharedInv, ProcInv, KeptInv, ReaderInv
  <2>8. CASE undone[p] \/ m >= tip[p]
    BY <2>3, <2>6, <2>8
  <2>9. CASE ~undone[p] /\ ~(m >= tip[p])
    <3>1. m \in Nat /\ m <= tip[p]
      BY <2>2, <2>9
    <3>2. Len(held[p]) = Upto(m) /\ Prefix(m) = First(Upto(m)) /\ Prefix(tip[p]) = First(Upto(tip[p]))
      BY <2>2, <2>3, <3>1, PrefixIsFirst
    <3>3. Upto(m) <= Upto(tip[p]) /\ Upto(m) \in Int /\ Upto(tip[p]) \in Int
      <4>1. \A n \in Nat : Upto(n) \in 0..Len(Log)
        BY UptoSplits
      <4>2. \A n \in Nat : Upto(n) \in Int
        BY <4>1, SharedAssumption
      <4> QED
        BY <2>2, <3>1, <4>2, UptoGrows
    <3>4. Upto(m) = Upto(tip[p])
      BY <2>5, <2>7, <2>9, <3>2, <3>3
    <3>5. history'[p] = Prefix(tip[p]) /\ tip[p] >= tip[p] /\ tip[p] \in 0..MaxBlock
      BY <2>2, <2>3, <2>6, <3>2, <3>4
    <3> QED
      BY <3>5
  <2> QED
    BY <2>8, <2>9
<1>2. SharedInv /\ [Next]_vars =>
          [\A p \in Procs : (result'[p] = "ok" /\ result[p] # "ok") =>
              \E n \in 0..MaxBlock : /\ history'[p] = Prefix(n)
                                     /\ n >= tip[p] \/ undone[p]]_vars
  BY <1>1
<1> QED
  BY <1>2, SharedInductive, PTL DEF Spec, ReadsBackItsHistory
=============================================================================
