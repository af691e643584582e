---------------------------- MODULE CacheProofs ----------------------------
(***************************************************************************)
(* Proofs about Cache, for every chain, start block, chunk, checkpoint and *)
(* number of faults.                                                       *)
(***************************************************************************)
EXTENDS Cache, SequenceTheorems, WellFoundedInduction, TLAPS

-----------------------------------------------------------------------------
(* The operators the Cache is built from.                                    *)

(* A set of naturals that is not empty has a least element, and Min is it. *)
LEMMA MinIsLeast ==
    ASSUME NEW S \in SUBSET Nat, S # {}
    PROVE  Min(S) \in S /\ \A y \in S : Min(S) <= y
<1>1. \E x \in S : \A y \in S : ~ (<<y, x>> \in OpToRel(<, Nat))
  BY NatLessThanWellFounded, WFMin
<1>2. \E x \in S : \A y \in S : ~ (y < x)
  BY <1>1, Zenon DEF OpToRel
<1>3. \E x \in S : \A y \in S : x =< y
  BY <1>2
<1>. QED  BY <1>3 DEF Min

(* A bounded set of naturals that is not empty has a greatest element: Max. *)
LEMMA MaxIsGreatest ==
    ASSUME NEW n \in Nat, NEW S \in SUBSET (0..n), S # {}
    PROVE  Max(S) \in S /\ \A y \in S : y <= Max(S)
<1>. DEFINE T == {n - x : x \in S}
<1>1. T \in SUBSET Nat /\ T # {}
  <2>1. \A x \in S : n - x \in Nat
    OBVIOUS
  <2>. QED  BY <2>1
<1>. PICK m \in T : \A y \in T : m <= y
  BY <1>1, MinIsLeast
<1>2. n - m \in S /\ \A y \in S : n - m >= y
  OBVIOUS
<1>. QED  BY <1>2 DEF Max

(* Upto is well defined: it splits a branch's log at a block. *)
LEMMA UptoSplits ==
    ASSUME NEW b \in Branches, NEW n \in Blocks
    PROVE  /\ Upto(b, n) \in 0..Len(Log[b])
           /\ IsUpto(b, n, Upto(b, n))
BY LogAssumption DEF Upto

(* Every record is from a block of the history. *)
LEMMA RecordBlock ==
    ASSUME NEW r \in Records
    PROVE  r.block \in Start..MaxBlock /\ r # Bad
<1>. PICK b \in Branches : \E i \in 1..Len(Log[b]) : r = Log[b][i]
  BY DEF Records
<1>. QED  BY LogAssumption

(* Transfers are records. *)
LEMMA TransfersType ==
    ASSUME NEW b \in Branches, NEW m \in Start..(MaxBlock + 1), NEW n \in Blocks
    PROVE  Transfers(b, m, n) \in Seq(Records)
<1>1. m - 1 \in Blocks
  BY BoundsAssumption DEF Blocks
<1>2. /\ Upto(b, m - 1) \in 0..Len(Log[b])
      /\ Upto(b, n) \in 0..Len(Log[b])
  BY <1>1, UptoSplits
<1>3. Log[b] \in Seq(Records)
  BY LogAssumption
<1>4. \A i \in (Upto(b, m - 1) + 1)..Upto(b, n) : Log[b][i] \in Records
  BY <1>2, <1>3, ElementOfSeq
<1>. QED  BY <1>2, <1>4, SubSeqProperties DEF Transfers

(* A scan keeps some of the file's slots, and none it did not accept. *)
LEMMA ScanKeepsReadable ==
    ASSUME NEW f \in Seq(Records \cup {Bad})
    PROVE  /\ Scan(f) \in 0..Len(f)
           /\ \A i \in 1..Scan(f) : Readable(f, i)
<1>1. CASE Clean(f)
  BY <1>1 DEF Scan, Clean
<1>2. CASE ~Clean(f)
  <2>. DEFINE S == {0} \cup BlockStarts(f)
  <2>1. S \in SUBSET (0..Len(f)) /\ S # {}
    BY DEF BlockStarts
  <2>2. Max(S) \in S
    BY <2>1, MaxIsGreatest, LenProperties
  <2>3. Scan(f) = Max(S)
    BY <1>2 DEF Scan
  <2>4. \A k \in S : \A i \in 1..k : Readable(f, i)
    BY DEF BlockStarts
  <2>. QED  BY <2>1, <2>2, <2>3, <2>4
<1>. QED  BY <1>1, <1>2

(* The slots a scan keeps are records. *)
LEMMA ScannedType ==
    ASSUME NEW f \in Seq(Records \cup {Bad})
    PROVE  /\ SubSeq(f, 1, Scan(f)) \in Seq(Records)
           /\ Len(SubSeq(f, 1, Scan(f))) = Scan(f)
<1>1. /\ Scan(f) \in 0..Len(f)
      /\ \A i \in 1..Scan(f) : f[i] \in Records
  BY ScanKeepsReadable, ElementOfSeq DEF Readable
<1>. QED  BY <1>1, SubSeqProperties

(* firstAtOrAbove is a position of the file. *)
LEMMA FirstAtOrAboveType ==
    ASSUME NEW f, Len(f) \in Nat, NEW n \in Int
    PROVE  FirstAtOrAbove(f, n) \in 0..Len(f)
<1>. DEFINE S == {Len(f)} \cup {i \in 0..(Len(f) - 1) : f[i + 1].block >= n}
<1>1. S \in SUBSET Nat /\ S # {} /\ S \subseteq 0..Len(f)
  OBVIOUS
<1>2. Min(S) \in S
  BY <1>1, MinIsLeast
<1>. QED  BY <1>1, <1>2 DEF FirstAtOrAbove

(* Where Sync resumes is a block of the history, or the one after it. *)
LEMMA ResumeAfterType ==
    ASSUME NEW f \in Seq(Records), tip \in Blocks
    PROVE  ResumeAfter(f) \in Start..(MaxBlock + 1)
<1>1. f # <<>> => f[Len(f)] \in Records
  BY EmptySeq, ElementOfSeq
<1>2. f # <<>> => f[Len(f)].block \in Start..MaxBlock
  BY <1>1, RecordBlock
<1>. QED  BY <1>2, BoundsAssumption DEF ResumeAfter, Blocks

(* A cut leaves a sequence of slots, none shorter than where it may start. *)
LEMMA CutsType ==
    ASSUME NEW f \in Seq(Records \cup {Bad}), NEW k \in 0..Len(f), NEW g \in Cuts(f, k)
    PROVE  g \in Seq(Records \cup {Bad}) /\ Len(g) >= k
<1>1. ASSUME NEW j \in k..Len(f)
      PROVE  /\ SubSeq(f, 1, j) \in Seq(Records \cup {Bad})
             /\ Len(SubSeq(f, 1, j)) = j
  <2>1. Len(f) \in Nat /\ \A i \in 1..j : f[i] \in Records \cup {Bad}
    BY ElementOfSeq
  <2>. QED  BY <2>1, SubSeqProperties
<1>2. CASE \E j \in k..Len(f) : g = SubSeq(f, 1, j)
  BY <1>1, <1>2
<1>3. CASE \E j \in k..(Len(f) - 1) : g = SubSeq(f, 1, j) \o <<Bad>>
  <2>. PICK j \in k..(Len(f) - 1) : g = SubSeq(f, 1, j) \o <<Bad>>
    BY <1>3
  <2>1. <<Bad>> \in Seq(Records \cup {Bad}) /\ Len(<<Bad>>) = 1
    OBVIOUS
  <2>. HIDE DEF Cuts
  <2>. QED  BY <1>1, <2>1, ConcatProperties
<1>. QED  BY <1>2, <1>3 DEF Cuts

(* Nothing is left of nothing. *)
LEMMA CutsOfNothing ==
    ASSUME NEW g \in Cuts(<<>>, 0)
    PROVE  g = <<>>
<1>1. Len(<<>>) = 0 /\ 0..(0 - 1) = {} /\ 0..0 = {0}
  OBVIOUS
<1>2. g = SubSeq(<<>>, 1, 0)
  BY <1>1 DEF Cuts
<1>. QED  BY <1>2, SubSeqEmpty

-----------------------------------------------------------------------------
(* The type invariant. It rests on this: a file that a run has opened and not *)
(* yet closed holds no damage; a file without a header holds nothing; only    *)
(* the chunk loop has records in the buffer.                                  *)
OpenIsGood  == pc \in {"verify", "search", "fetch"} => file \in Seq(Records)
HeaderFirst == /\ header \in {"none", "part"} => file = <<>>
               /\ pc \in {"verify", "search", "fetch"} => header = "ours"
BufferInUse == pc # "fetch" => buf = <<>>

TypeInv == TypeOK /\ OpenIsGood /\ HeaderFirst /\ BufferInUse

(* What the Cache holds, on disk and in the buffer, has a type of its own. *)
LEMMA HeldType ==
    ASSUME TypeInv
    PROVE  /\ Held \in Seq(Records \cup {Bad})
           /\ Len(Held) \in Nat /\ Len(file) <= Len(Held)
           /\ pc \in {"verify", "search", "fetch"} => Held \in Seq(Records)
           /\ pc # "fetch" => Held = file
<1>1. buf \in Seq(Records \cup {Bad})
  BY SeqMonotonic DEF TypeInv, TypeOK
<1>2. /\ Held \in Seq(Records \cup {Bad})
      /\ Len(Held) \in Nat /\ Len(file) <= Len(Held)
  BY <1>1, ConcatProperties DEF TypeInv, TypeOK, Held
<1>3. pc \in {"verify", "search", "fetch"} => Held \in Seq(Records)
  BY ConcatProperties DEF TypeInv, TypeOK, OpenIsGood, Held
<1>4. pc # "fetch" => Held = file
  BY ConcatEmptySeq DEF TypeInv, TypeOK, BufferInUse, Held
<1>. QED  BY <1>2, <1>3, <1>4

(* The states a run starts from. *)
LEMMA TypeInit == Init => TypeInv
BY BoundsAssumption, EmptySeq
   DEF Init, TypeInv, TypeOK, OpenIsGood, HeaderFirst, BufferInUse, Blocks

(* load keeps the type, whatever it is told to report and wherever it leads. *)
LEMMA TypeLoad ==
    ASSUME TypeInv, NEW repair \in SUBSET {"repair"}, NEW opened \in {"verify", "each"},
           pc \in {"locked", "reopen"}, Load(repair, opened),
           UNCHANGED <<chainVars, tip, buf, next, lo, hi, faults>>
    PROVE  TypeInv'
<1>. USE DEF TypeInv, TypeOK, OpenIsGood, HeaderFirst, BufferInUse, chainVars
<1>1. CASE header \in {"none", "part"}
  <2>1. /\ header' = "ours" /\ pc' = opened
        /\ did' = did \cup (IF header = "part" THEN repair ELSE {})
        /\ UNCHANGED <<file, durable, told, history, result>>
    BY <1>1 DEF Load
  <2>. QED  BY <1>1, <2>1, EmptySeq
<1>2. CASE header = "other"
  <2>1. EndRun("error", <<>>) /\ UNCHANGED <<diskVars, did>>
    BY <1>2 DEF Load
  <2>. QED  BY <1>2, <2>1, EmptySeq DEF EndRun, diskVars
<1>3. CASE header = "ours"
  <2>1. /\ file' = SubSeq(file, 1, Scan(file))
        /\ durable' = IF Clean(file) THEN durable ELSE Scan(file)
        /\ did' = did \cup (IF Clean(file) THEN {} ELSE repair)
        /\ pc' = opened
        /\ UNCHANGED <<header, told, history, result>>
    BY <1>3 DEF Load
  <2>2. /\ file' \in Seq(Records) /\ Len(file') = Scan(file) /\ Scan(file) \in 0..Len(file)
        /\ Clean(file) => Scan(file) = Len(file)
    BY <2>1, ScannedType, ScanKeepsReadable DEF Scan
  <2>3. file' \in Seq(Records \cup {Bad})
    BY <2>2, SeqMonotonic
  <2>4. durable' \in 0..Len(file')
    BY <2>1, <2>2
  <2>5. did' \in SUBSET {"repair", "reorg"}
    BY <2>1
  <2>. QED  BY <1>3, <2>1, <2>2, <2>3, <2>4, <2>5
<1>. QED  BY <1>1, <1>2, <1>3

(* Closing the file with what the buffer holds keeps the type. *)
LEMMA TypeClose ==
    ASSUME TypeInv, CloseCache, UNCHANGED header
    PROVE  /\ file' \in Seq(Records \cup {Bad})
           /\ durable' \in 0..Len(file')
           /\ buf' = <<>> /\ buf' \in Seq(Records)
           /\ header' \in {"none", "part"} => file' = <<>>
BY HeldType, EmptySeq DEF CloseCache, TypeInv, HeaderFirst

(* One step keeps the type invariant. *)
LEMMA TypeNext == TypeInv /\ [Next]_vars => TypeInv'
<1>. SUFFICES ASSUME TypeInv, [Next]_vars PROVE TypeInv'
  OBVIOUS
<1>. USE DEF TypeInv, TypeOK, OpenIsGood, HeaderFirst, BufferInUse
<1>1. CASE Grow \/ Settle \/ Reorg
  <2>1. /\ branch' \in Branches /\ head' \in Start..MaxBlock /\ settled' \in (Start - 1)..head'
        /\ UNCHANGED <<diskVars, runVars, faults>>
    BY <1>1, BoundsAssumption DEF Grow, Settle, Reorg
  <2>. QED  BY <2>1 DEF diskVars, runVars
<1>2. ASSUME NEW f \in Finalities, NEW fresh \in BOOLEAN, Begin(f, fresh)
      PROVE  TypeInv'
  <2>1. tip' \in Blocks
    BY <1>2, BoundsAssumption DEF Begin, Blocks
  <2>2. /\ file' \in Seq(Records \cup {Bad}) /\ durable' \in 0..Len(file')
        /\ header' \in {"none", "part", "ours", "other"}
        /\ header' \in {"none", "part"} => file' = <<>>
    <3>1. CASE fresh
      <4>1. header' = "none" /\ file' = <<>> /\ durable' = 0
        BY <1>2, <3>1 DEF Begin
      <4>. QED  BY <4>1, EmptySeq
    <3>2. CASE ~fresh
      BY <1>2, <3>2 DEF Begin, diskVars
    <3>. QED  BY <3>1, <3>2
  <2>3. history' \in Seq(Records)
    BY <1>2, EmptySeq DEF Begin
  <2>. QED  BY <1>2, <2>1, <2>2, <2>3 DEF Begin, chainVars
<1>3. CASE Open
  BY <1>3, TypeLoad DEF Open
<1>4. CASE Verify
  <2>1. FirstAtOrAbove(file, tip + 1) \in Nat
    <3>1. Len(file) \in Nat /\ tip + 1 \in Int
      BY LenProperties, BoundsAssumption DEF Blocks
    <3>. QED  BY <3>1, FirstAtOrAboveType
  <2>2. ResumeAfter(file) \in Start..(MaxBlock + 1)
    BY <1>4, ResumeAfterType DEF Verify
  <2>. QED  BY <1>4, <2>1, <2>2 DEF Verify, chainVars, diskVars
<1>5. CASE Probe
  BY <1>5 DEF Probe, chainVars, diskVars
<1>6. CASE TruncateAtFork
  <2>. USE <1>6 DEF TruncateAtFork, chainVars
  <2>1. CASE lo < Len(file)
    <3>. DEFINE keep == FirstAtOrAbove(file, file[lo + 1].block)
    <3>1. file[lo + 1].block \in Int
      BY <2>1, ElementOfSeq, RecordBlock, BoundsAssumption
    <3>2. keep \in 0..Len(file)
      BY <3>1, FirstAtOrAboveType, LenProperties
    <3>. HIDE DEF keep
    <3>3. /\ SubSeq(file, 1, keep) \in Seq(Records)
          /\ Len(SubSeq(file, 1, keep)) = keep
      BY <3>2, SubSeqProperties, ElementOfSeq
    <3>4. /\ file' = SubSeq(file, 1, keep) /\ durable' = keep
          /\ did' = did \cup {"reorg"} /\ pc' = "fetch"
          /\ next' = ResumeAfter(file')
          /\ UNCHANGED <<branch, head, settled, header, tip, buf, lo, hi, told, history, result, faults>>
      BY <2>1 DEF keep
    <3>5. file' \in Seq(Records \cup {Bad})
      BY <3>3, <3>4, SeqMonotonic
    <3>6. next' \in Start..(MaxBlock + 1)
      BY <3>3, <3>4, ResumeAfterType
    <3>. QED  BY <2>1, <3>2, <3>3, <3>4, <3>5, <3>6
  <2>2. CASE ~(lo < Len(file))
    <3>1. CloseCache /\ EndRun("error", <<>>) /\ UNCHANGED <<next, did>>
      BY <2>2
    <3>. QED  BY <3>1, TypeClose, EmptySeq DEF EndRun
  <2>. QED  BY <2>1, <2>2
<1>7. CASE Fetch
  <2>. DEFINE end   == IF tip - next >= Chunk THEN next + Chunk - 1 ELSE tip
              batch == Transfers(branch, next, end)
  <2>1. /\ pc = "fetch" /\ next <= tip
        /\ UNCHANGED <<chainVars, header, tip, lo, hi, did, faults>>
    BY <1>7 DEF Fetch
  <2>2. end \in Blocks /\ next <= end /\ end + 1 \in Start..(MaxBlock + 1)
    BY <2>1, BoundsAssumption DEF Blocks
  <2>3. batch \in Seq(Records)
    BY <2>2, TransfersType
  <2>. HIDE DEF end, batch
  <2>4. CASE Forward(Held, batch)
    <3>1. /\ Held \o batch \in Seq(Records) /\ buf \o batch \in Seq(Records)
          /\ Len(Held \o batch) \in Nat
          /\ Held \o batch \in Seq(Records \cup {Bad})
      BY <2>1, <2>3, HeldType, ConcatProperties, SeqMonotonic, LenProperties
    <3>2. /\ next' = end + 1 /\ UNCHANGED <<pc, told, history, result>>
          /\ \/ file' = Held \o batch /\ durable' = Len(Held \o batch) /\ buf' = <<>>
             \/ buf' = buf \o batch /\ UNCHANGED <<file, durable>>
      BY <1>7, <2>4 DEF Fetch, end, batch
    <3>3. CASE file' = Held \o batch /\ durable' = Len(Held \o batch) /\ buf' = <<>>
      BY <2>1, <2>2, <3>1, <3>2, <3>3, EmptySeq DEF chainVars
    <3>4. CASE buf' = buf \o batch /\ UNCHANGED <<file, durable>>
      BY <2>1, <2>2, <3>1, <3>2, <3>4 DEF chainVars
    <3>. QED  BY <3>2, <3>3, <3>4
  <2>5. CASE ~Forward(Held, batch)
    <3>1. CloseCache /\ EndRun("error", <<>>) /\ UNCHANGED next
      BY <1>7, <2>5 DEF Fetch, end, batch
    <3>. QED  BY <2>1, <3>1, TypeClose, EmptySeq DEF EndRun, chainVars
  <2>. QED  BY <2>4, <2>5
<1>8. CASE Close
  BY <1>8, TypeClose DEF Close, chainVars
<1>9. CASE Reopen
  BY <1>9, TypeLoad DEF Reopen
<1>10. CASE Each
  <2>1. /\ pc = "each" /\ CloseCache
        /\ UNCHANGED <<chainVars, header, tip, next, lo, hi, did, faults>>
    BY <1>10 DEF Each
  <2>2. CASE \E i \in 1..Len(file) : file[i] = Bad
    <3>1. EndRun("error", <<>>)
      BY <1>10, <2>2 DEF Each
    <3>. QED  BY <2>1, <3>1, TypeClose, EmptySeq DEF EndRun, chainVars
  <2>3. CASE ~ \E i \in 1..Len(file) : file[i] = Bad
    <3>1. EndRun("ok", file)
      BY <1>10, <2>3 DEF Each
    <3>2. file \in Seq(Records)
      <4>1. /\ Len(file) \in Nat /\ file \in [1..Len(file) -> Records \cup {Bad}]
        BY LenProperties
      <4>2. \A i \in 1..Len(file) : file[i] \in Records
        BY <2>3, <4>1
      <4>3. SubSeq(file, 1, Len(file)) \in Seq(Records)
        BY <4>1, <4>2, SubSeqProperties
      <4>. QED  BY <4>3, SubSeqFull
    <3>. QED  BY <2>1, <3>1, <3>2, TypeClose DEF EndRun, chainVars
  <2>. QED  BY <2>2, <2>3
<1>11. CASE ReadFails
  <2>1. /\ CloseCache /\ EndRun("error", <<>>)
        /\ UNCHANGED <<chainVars, header, tip, next, lo, hi, did>>
    BY <1>11 DEF ReadFails
  <2>2. faults' \in 0..MaxFaults
    BY <1>11, BoundsAssumption DEF ReadFails, Fault
  <2>. QED  BY <2>1, <2>2, TypeClose, EmptySeq DEF EndRun, chainVars
<1>12. CASE Kill \/ PowerLoss
  <2>1. faults' \in 0..MaxFaults
    BY <1>12, BoundsAssumption DEF Kill, PowerLoss, Fault
  <2>2. \E k \in 0..Len(file) :
            file' \in Cuts(Held, k) /\ (durable' = Len(file') \/ (durable' = durable /\ k = Len(file)))
    BY <1>12, LenProperties DEF Kill, PowerLoss
  <2>. PICK k \in 0..Len(file) :
            file' \in Cuts(Held, k) /\ (durable' = Len(file') \/ (durable' = durable /\ k = Len(file)))
    BY <2>2
  <2>. k \in 0..Len(Held)
    BY HeldType, LenProperties
  <2>3. file' \in Seq(Records \cup {Bad}) /\ durable' \in 0..Len(file')
    <3>1. file' \in Seq(Records \cup {Bad}) /\ Len(file') >= k
      BY CutsType, HeldType
    <3>. QED  BY <3>1, LenProperties
  <2>5. Die
    BY <1>12 DEF Kill, PowerLoss
  <2>4. header' \in {"none", "part"} => file' = <<>>
    <3>. SUFFICES ASSUME header' \in {"none", "part"} PROVE file' = <<>>
      OBVIOUS
    <3>1. header \in {"none", "part"}
      BY <2>5 DEF Die
    <3>2. Held = <<>> /\ k = 0
      BY <3>1, HeldType, EmptySeq
    <3>. QED  BY <3>2, CutsOfNothing
  <2>. QED  BY <2>1, <2>3, <2>4, <2>5, EmptySeq DEF Die, chainVars
<1>14. CASE Rot
  <2>1. /\ faults' \in 0..MaxFaults /\ pc \in {"idle", "reopen", "each"}
        /\ UNCHANGED <<chainVars, durable, runVars>>
    BY <1>14, BoundsAssumption DEF Rot, Fault
  <2>2. CASE header = "ours" /\ header' = "other" /\ UNCHANGED file
    BY <2>1, <2>2 DEF chainVars, runVars
  <2>3. CASE (\E i \in 1..Len(file) : file' = [file EXCEPT ![i] = Bad]) /\ UNCHANGED header
    <3>. PICK i \in 1..Len(file) : file' = [file EXCEPT ![i] = Bad]
      BY <2>3
    <3>1. file' \in Seq(Records \cup {Bad}) /\ Len(file') = Len(file)
      BY ExceptSeq
    <3>2. file # <<>>
      BY EmptySeq
    <3>. QED  BY <2>1, <2>3, <3>1, <3>2 DEF chainVars, runVars
  <2>. QED  BY <1>14, <2>2, <2>3 DEF Rot
<1>15. CASE UNCHANGED vars
  BY <1>15 DEF vars, chainVars, diskVars, runVars
<1>. QED
  BY <1>1, <1>2, <1>3, <1>4, <1>5, <1>6, <1>7, <1>8, <1>9, <1>10, <1>11, <1>12, <1>14, <1>15
     DEF Next, Run

(* The Cache's state has its type in every reachable state: in particular the *)
(* position Sync resumes from is always a block of the history, and what a    *)
(* successful run returns is records only, never damage.                      *)
THEOREM TypeCorrect == Spec => []TypeOK
<1>1. TypeInv => TypeOK
  BY DEF TypeInv
<1>. QED  BY <1>1, TypeInit, TypeNext, PTL DEF Spec

-----------------------------------------------------------------------------
(* Whatever happens to the chain and to the file, what the Cache holds runs  *)
(* forward and holds nothing twice; damage in between does not change that.  *)

Tidy(f) ==
    \A i, j \in 1..Len(f) :
        (i < j /\ f[i] # Bad /\ f[j] # Bad) => f[i].block <= f[j].block /\ f[i] # f[j]

(* And the chunk loop reads on past everything that is held. *)
ForwardInv ==
    /\ Tidy(Held)
    /\ (pc = "fetch" /\ next <= tip) => \A i \in 1..Len(Held) : Held[i].block < next
    /\ RunsForward

(* Keeping the beginning keeps order. *)
LEMMA TidyPrefix ==
    ASSUME NEW f \in Seq(Records \cup {Bad}), Tidy(f), NEW k \in 0..Len(f)
    PROVE  Tidy(SubSeq(f, 1, k))
<1>1. Len(f) \in Nat /\ \A i \in 1..k : f[i] \in Records \cup {Bad}
  BY ElementOfSeq
<1>2. Len(SubSeq(f, 1, k)) = k /\ \A i \in 1..k : SubSeq(f, 1, k)[i] = f[i]
  BY <1>1, SubSeqProperties
<1>3. \A i \in 1..k : i \in 1..Len(f)
  BY <1>1
<1>. QED  BY <1>2, <1>3 DEF Tidy

(* So does a cut, whatever it leaves of the record it falls in. *)
LEMMA TidyCuts ==
    ASSUME NEW f \in Seq(Records \cup {Bad}), Tidy(f), NEW k \in 0..Len(f), NEW g \in Cuts(f, k)
    PROVE  Tidy(g)
<1>1. CASE \E j \in k..Len(f) : g = SubSeq(f, 1, j)
  BY <1>1, TidyPrefix
<1>2. CASE \E j \in k..(Len(f) - 1) : g = SubSeq(f, 1, j) \o <<Bad>>
  <2>1. PICK j \in k..(Len(f) - 1) : g = SubSeq(f, 1, j) \o <<Bad>>
    BY <1>2
  <2>2. Len(f) \in Nat /\ j \in 0..Len(f) /\ \A i \in 1..j : f[i] \in Records \cup {Bad}
    BY ElementOfSeq
  <2>. DEFINE p == SubSeq(f, 1, j)
  <2>3. p \in Seq(Records \cup {Bad}) /\ Len(p) = j /\ Tidy(p)
    BY <2>2, SubSeqProperties, TidyPrefix
  <2>. HIDE DEF p
  <2>4. Len(g) = j + 1 /\ g[j + 1] = Bad /\ \A i \in 1..j : g[i] = p[i]
    BY <2>1, <2>3 DEF p
  <2>5. ASSUME NEW x \in 1..Len(g), NEW y \in 1..Len(g), x < y, g[x] # Bad, g[y] # Bad
        PROVE  g[x].block <= g[y].block /\ g[x] # g[y]
    <3>1. x \in 1..Len(p) /\ y \in 1..Len(p) /\ g[x] = p[x] /\ g[y] = p[y]
      BY <2>2, <2>3, <2>4, <2>5
    <3>. QED  BY <2>3, <2>5, <3>1 DEF Tidy
  <2>. QED  BY <2>5 DEF Tidy
<1>. QED  BY <1>1, <1>2 DEF Cuts

(* And so does a flipped bit. *)
LEMMA TidyRot ==
    ASSUME NEW f \in Seq(Records \cup {Bad}), Tidy(f), NEW i \in 1..Len(f)
    PROVE  Tidy([f EXCEPT ![i] = Bad])
<1>1. /\ Len([f EXCEPT ![i] = Bad]) = Len(f)
      /\ \A j \in 1..Len(f) : [f EXCEPT ![i] = Bad][j] = IF j = i THEN Bad ELSE f[j]
  BY ExceptSeq, LenProperties
<1>. QED  BY <1>1 DEF Tidy

(* A chunk is in order and lies in its range. *)
LEMMA TidyChunk ==
    ASSUME NEW b \in Branches, NEW m \in Start..(MaxBlock + 1), NEW n \in Blocks
    PROVE  /\ Tidy(Transfers(b, m, n))
           /\ \A i \in 1..Len(Transfers(b, m, n)) : Transfers(b, m, n)[i].block \in m..n
<1>. DEFINE u == Upto(b, m - 1)
            v == Upto(b, n)
            t == Transfers(b, m, n)
<1>1. m - 1 \in Blocks /\ m \in Int /\ n \in Int
  BY BoundsAssumption DEF Blocks
<1>2. u \in 0..Len(Log[b]) /\ v \in 0..Len(Log[b]) /\ IsUpto(b, m - 1, u) /\ IsUpto(b, n, v)
  BY <1>1, UptoSplits
<1>3. Log[b] \in Seq(Records) /\ Len(Log[b]) \in Nat
  BY LogAssumption, LenProperties
<1>4. \A i \in (u + 1)..v : Log[b][i] \in Records
  BY <1>2, <1>3, ElementOfSeq
<1>5. t = SubSeq(Log[b], u + 1, v)
  BY DEF Transfers
<1>. HIDE DEF u, v, t
<1>6. /\ Len(t) = IF u + 1 <= v THEN v - u ELSE 0
      /\ \A i \in 1..Len(t) : i \in 1..(v - u) /\ t[i] = Log[b][u + i] /\ u + i \in (u + 1)..v
  <2>1. \A i \in 1..(v - u) : t[i] = Log[b][(u + 1) + i - 1] /\ (u + 1) + i - 1 = u + i
    BY <1>2, <1>3, <1>4, <1>5, SubSeqProperties
  <2>2. Len(t) = IF u + 1 <= v THEN v - (u + 1) + 1 ELSE 0
    BY <1>2, <1>3, <1>4, <1>5, SubSeqProperties
  <2>. QED  BY <1>2, <2>1, <2>2
<1>7. ASSUME NEW i \in 1..Len(t)
      PROVE  t[i].block \in m..n /\ t[i] = Log[b][u + i] /\ u + i \in 1..Len(Log[b])
  <2>1. u + i \in 1..Len(Log[b]) /\ u + i > u /\ u + i <= v
    BY <1>2, <1>3, <1>6
  <2>2. Log[b][u + i].block \in Int
    BY <2>1, LogAssumption, BoundsAssumption
  <2>3. Log[b][u + i].block <= n /\ ~(Log[b][u + i].block <= m - 1)
    BY <1>2, <2>1 DEF IsUpto
  <2>. QED  BY <1>1, <1>6, <2>1, <2>2, <2>3
<1>8. ASSUME NEW i \in 1..Len(t), NEW j \in 1..Len(t), i < j
      PROVE  t[i].block <= t[j].block /\ t[i] # t[j]
  <2>1. u + i \in 1..Len(Log[b]) /\ u + j \in 1..Len(Log[b]) /\ u + i < u + j /\ u + i # u + j
    BY <1>2, <1>7, <1>8
  <2>2. t[i] # t[j]
    BY <1>7, <2>1, LogAssumption
  <2>3. Log[b][u + j].block \in Blocks /\ Log[b][u + i].block \in Int /\ Log[b][u + j].block \in Int
    <3>1. Log[b][u + i].block \in Start..MaxBlock /\ Log[b][u + j].block \in Start..MaxBlock
      BY <2>1, LogAssumption
    <3>. QED  BY <3>1, BoundsAssumption DEF Blocks
  <2>4. Log[b][u + i].block <= Log[b][u + j].block
    <3>1. PICK k \in 0..Len(Log[b]) : IsUpto(b, Log[b][u + j].block, k)
      BY <2>3, LogAssumption
    <3>2. u + j <= k
      BY <2>1, <2>3, <3>1 DEF IsUpto
    <3>. QED  BY <1>2, <2>1, <3>1, <3>2 DEF IsUpto
  <2>. QED  BY <1>7, <2>2, <2>4
<1>9. Tidy(t)
  BY <1>8 DEF Tidy
<1>. QED  BY <1>7, <1>9 DEF t

(* What is all before what follows it stays in order with it. *)
LEMMA TidyJoin ==
    ASSUME NEW f \in Seq(Records), NEW g \in Seq(Records), Tidy(f), Tidy(g), NEW n \in Int,
           \A i \in 1..Len(f) : f[i].block < n, \A i \in 1..Len(g) : g[i].block >= n
    PROVE  Tidy(f \o g)
<1>1. /\ Len(f) \in Nat /\ Len(g) \in Nat /\ Len(f \o g) = Len(f) + Len(g)
      /\ \A i \in 1..(Len(f) + Len(g)) : (f \o g)[i] = IF i <= Len(f) THEN f[i] ELSE g[i - Len(f)]
  BY ConcatProperties, LenProperties
<1>2. /\ \A i \in 1..Len(f) : f[i].block \in Int /\ f[i] # Bad
      /\ \A i \in 1..Len(g) : g[i].block \in Int /\ g[i] # Bad
  BY ElementOfSeq, RecordBlock, BoundsAssumption
<1>3. ASSUME NEW i \in 1..Len(f \o g), NEW j \in 1..Len(f \o g), i < j
      PROVE  (f \o g)[i].block <= (f \o g)[j].block /\ (f \o g)[i] # (f \o g)[j]
  <2>. DEFINE x == (f \o g)[i]
              y == (f \o g)[j]
  <2>1. CASE j <= Len(f)
    <3>1. i \in 1..Len(f) /\ j \in 1..Len(f) /\ x = f[i] /\ y = f[j]
      BY <1>1, <1>3, <2>1
    <3>. QED  BY <1>2, <1>3, <3>1 DEF Tidy
  <2>2. CASE i > Len(f)
    <3>1. i - Len(f) \in 1..Len(g) /\ j - Len(f) \in 1..Len(g) /\ i - Len(f) < j - Len(f)
          /\ x = g[i - Len(f)] /\ y = g[j - Len(f)]
      BY <1>1, <1>3, <2>2
    <3>. QED  BY <1>2, <3>1 DEF Tidy
  <2>3. CASE i <= Len(f) /\ j > Len(f)
    <3>1. i \in 1..Len(f) /\ j - Len(f) \in 1..Len(g) /\ x = f[i] /\ y = g[j - Len(f)]
      BY <1>1, <1>3, <2>3
    <3>. HIDE DEF x, y
    <3>2. x.block \in Int /\ y.block \in Int /\ x.block < n /\ y.block >= n
      BY <1>2, <3>1
    <3>3. x.block <= y.block /\ x.block # y.block
      BY <3>2
    <3>4. x.block <= y.block /\ x # y
      BY <3>3
    <3>. QED  BY <3>4 DEF x, y
  <2>. QED  BY <1>1, <2>1, <2>2, <2>3
<1>. QED  BY <1>3 DEF Tidy

(* Sync resumes past all it holds, or not at all. *)
LEMMA ResumesPast ==
    ASSUME NEW f \in Seq(Records), Tidy(f), tip \in Blocks, ResumeAfter(f) <= tip
    PROVE  \A i \in 1..Len(f) : f[i].block < ResumeAfter(f)
<1>1. CASE f = <<>>
  BY <1>1
<1>2. CASE f # <<>>
  <2>1. Len(f) \in Nat /\ Len(f) \in 1..Len(f)
    BY <1>2, LenProperties, EmptySeq
  <2>2. \A i \in 1..Len(f) : f[i].block \in Int /\ f[i] # Bad
    BY ElementOfSeq, RecordBlock, BoundsAssumption
  <2>3. \A i \in 1..Len(f) : f[i].block <= f[Len(f)].block
    BY <2>1, <2>2 DEF Tidy
  <2>4. tip \in Int
    BY BoundsAssumption DEF Blocks
  <2>5. ResumeAfter(f) = f[Len(f)].block + 1
    BY <1>2, <2>1, <2>2, <2>4 DEF ResumeAfter
  <2>. QED  BY <2>1, <2>2, <2>3, <2>5
<1>. QED  BY <1>1, <1>2

(* Outside the chunk loop only the file matters, and a history is what it was or empty. *)
LEMMA ForwardElsewhere ==
    ASSUME TypeInv', ForwardInv, pc' # "fetch", Tidy(file'), history' \in {history, <<>>}
    PROVE  ForwardInv'
<1>1. Held' = file'
  BY HeldType, ConcatEmptySeq DEF TypeInv, TypeOK, BufferInUse, Held
<1>2. RunsForward'
  BY EmptySeq DEF ForwardInv, RunsForward
<1>. QED  BY <1>1, <1>2 DEF ForwardInv, Tidy

(* The chunk loop starts past what the file holds. *)
LEMMA ForwardEntering ==
    ASSUME TypeInv', ForwardInv, pc' = "fetch", buf' = <<>>, Tidy(file'), UNCHANGED <<tip, history>>,
           next' = ResumeAfter(file')
    PROVE  ForwardInv'
<1>1. file' \in Seq(Records) /\ tip \in Blocks
  BY DEF TypeInv, TypeOK, OpenIsGood
<1>2. Held' = file'
  BY <1>1, ConcatEmptySeq DEF Held
<1>3. next' <= tip' => \A i \in 1..Len(file') : file'[i].block < next'
  BY <1>1, ResumesPast
<1>4. RunsForward'
  BY DEF ForwardInv, RunsForward
<1>. QED  BY <1>2, <1>3, <1>4 DEF ForwardInv, Tidy

(* A chunk follows all that is held. *)
LEMMA ForwardFetch ==
    ASSUME TypeInv, TypeInv', ForwardInv, Fetch
    PROVE  ForwardInv'
<1>. DEFINE end   == IF tip - next >= Chunk THEN next + Chunk - 1 ELSE tip
            batch == Transfers(branch, next, end)
<1>1. /\ pc = "fetch" /\ next <= tip /\ tip' = tip
      /\ branch \in Branches /\ next \in Start..(MaxBlock + 1) /\ tip \in Blocks
  BY DEF Fetch, TypeInv, TypeOK
<1>2. end \in Blocks /\ end + 1 \in Int /\ next \in Int
  BY <1>1, BoundsAssumption DEF Blocks
<1>3. /\ batch \in Seq(Records) /\ Tidy(batch)
      /\ \A i \in 1..Len(batch) : batch[i].block \in next..end
  BY <1>1, <1>2, TransfersType, TidyChunk
<1>4. Held \in Seq(Records) /\ Tidy(Held) /\ \A i \in 1..Len(Held) : Held[i].block < next
  BY <1>1, HeldType DEF ForwardInv
<1>5. CASE ~Forward(Held, batch)
  <2>1. CloseCache /\ EndRun("error", <<>>)
    BY <1>5 DEF Fetch
  <2>2. pc' # "fetch" /\ file' = Held /\ history' = <<>>
    BY <2>1 DEF CloseCache, EndRun
  <2>3. Tidy(file')
    BY <1>4, <2>2
  <2>. QED  BY <2>2, <2>3, ForwardElsewhere
<1>6. CASE Forward(Held, batch)
  <2>1. /\ next' = end + 1 /\ UNCHANGED <<pc, history>>
        /\ \/ file' = Held \o batch /\ buf' = <<>>
           \/ buf' = buf \o batch /\ UNCHANGED file
    BY <1>6 DEF Fetch
  <2>. HIDE DEF end, batch
  <2>2. Held' = Held \o batch
    <3>1. CASE file' = Held \o batch /\ buf' = <<>>
      <4>1. Held \o batch \in Seq(Records)
        BY <1>3, <1>4, ConcatProperties
      <4>2. (Held \o batch) \o <<>> = Held \o batch
        <5>. DEFINE h == Held \o batch
        <5>. HIDE DEF h
        <5>1. h \in Seq(Records) => h \o <<>> = h
          BY ConcatEmptySeq
        <5>. QED  BY <4>1, <5>1 DEF h
      <4>3. Held' = file' \o buf'
        BY DEF Held
      <4>. QED  BY <3>1, <4>2, <4>3
    <3>2. CASE buf' = buf \o batch /\ UNCHANGED file
      <4>1. file \in Seq(Records) /\ buf \in Seq(Records)
        BY <1>1 DEF TypeInv, TypeOK, OpenIsGood
      <4>2. file \o (buf \o batch) = (file \o buf) \o batch
        <5>. PICK R : R = Records
          OBVIOUS
        <5>1. file \in Seq(R) /\ buf \in Seq(R) /\ batch \in Seq(R)
          BY <1>3, <4>1
        <5>. QED  BY <5>1, ConcatAssociative, SMT
      <4>. QED  BY <3>2, <4>2 DEF Held
    <3>. QED  BY <2>1, <3>1, <3>2
  <2>3. Tidy(Held \o batch)
    <3>1. \A i \in 1..Len(batch) : batch[i].block >= next
      BY <1>2, <1>3
    <3>. QED  BY <1>2, <1>3, <1>4, <3>1, TidyJoin
  <2>4. \A i \in 1..Len(Held \o batch) : (Held \o batch)[i].block < end + 1
    <3>1. next <= end
      BY <1>1, <1>2, BoundsAssumption DEF end, Blocks
    <3>2. /\ Len(Held) \in Nat /\ Len(batch) \in Nat /\ Len(Held \o batch) = Len(Held) + Len(batch)
          /\ \A i \in 1..(Len(Held) + Len(batch)) :
                (Held \o batch)[i] = IF i <= Len(Held) THEN Held[i] ELSE batch[i - Len(Held)]
      BY <1>3, <1>4, ConcatProperties, LenProperties
    <3>3. \A i \in 1..Len(Held) : Held[i].block \in Int /\ Held[i].block < end + 1
      <4>1. \A i \in 1..Len(Held) : Held[i].block \in Int
        BY <1>4, ElementOfSeq, RecordBlock, BoundsAssumption
      <4>2. end \in Int
        BY <1>2, BoundsAssumption DEF Blocks
      <4>. QED  BY <1>2, <1>4, <3>1, <4>1, <4>2
    <3>4. \A i \in 1..Len(batch) : batch[i].block < end + 1
      <4>1. end \in Int
        BY <1>2, BoundsAssumption DEF Blocks
      <4>. QED  BY <1>2, <1>3, <4>1
    <3>5. ASSUME NEW i \in 1..(Len(Held) + Len(batch))
          PROVE  (Held \o batch)[i].block < end + 1
      <4>1. CASE i <= Len(Held)
        BY <3>2, <3>3, <4>1
      <4>2. CASE i > Len(Held)
        <5>1. i - Len(Held) \in 1..Len(batch) /\ (Held \o batch)[i] = batch[i - Len(Held)]
          BY <3>2, <4>2
        <5>. QED  BY <3>4, <5>1
      <4>. QED  BY <3>2, <4>1, <4>2
    <3>. QED  BY <3>2, <3>5
  <2>5. RunsForward'
    BY <2>1 DEF ForwardInv, RunsForward
  <2>. QED  BY <2>1, <2>2, <2>3, <2>4, <2>5 DEF ForwardInv, Tidy
<1>. QED  BY <1>5, <1>6

(* load keeps a beginning of the file. *)
LEMMA ForwardLoad ==
    ASSUME TypeInv, TypeInv', ForwardInv, NEW repair, NEW opened \in {"verify", "each"},
           pc \in {"locked", "reopen"}, Load(repair, opened)
    PROVE  ForwardInv'
<1>1. file \in Seq(Records \cup {Bad}) /\ Tidy(file)
  BY HeldType DEF TypeInv, TypeOK, ForwardInv
<1>2. pc' # "fetch" /\ history' \in {history, <<>>} /\ (file' = file \/ file' = SubSeq(file, 1, Scan(file)))
  BY DEF Load, EndRun, diskVars
<1>3. Tidy(SubSeq(file, 1, Scan(file)))
  BY <1>1, ScanKeepsReadable, TidyPrefix
<1>4. Tidy(file')
  BY <1>1, <1>2, <1>3
<1>. QED  BY <1>2, <1>4, ForwardElsewhere

(* Every step keeps the order. *)
LEMMA ForwardNext == TypeInv /\ TypeInv' /\ ForwardInv /\ [Next]_vars => ForwardInv'
<1>. SUFFICES ASSUME TypeInv, TypeInv', ForwardInv, [Next]_vars PROVE ForwardInv'
  OBVIOUS
<1>0. file \in Seq(Records \cup {Bad}) /\ (pc # "fetch" => Tidy(file)) /\ Tidy(Held)
  BY HeldType DEF TypeInv, TypeOK, ForwardInv
<1>1. CASE Grow \/ Settle \/ Reorg \/ UNCHANGED vars
  <2>1. UNCHANGED <<file, buf, pc, next, tip, history>>
    BY <1>1 DEF Grow, Settle, Reorg, vars, diskVars, runVars
  <2>. QED  BY <2>1 DEF ForwardInv, Tidy, Held, RunsForward
<1>2. ASSUME NEW f \in Finalities, NEW fresh \in BOOLEAN, Begin(f, fresh)
      PROVE  ForwardInv'
  <2>1. pc = "idle" /\ pc' = "locked" /\ history' = <<>> /\ (file' = file \/ file' = <<>>)
    BY <1>2 DEF Begin, diskVars
  <2>2. Tidy(<<>>)
    BY DEF Tidy
  <2>3. Tidy(file')
    BY <1>0, <2>1, <2>2
  <2>. QED  BY <2>1, <2>3, ForwardElsewhere
<1>3. CASE Open \/ Reopen
  BY <1>3, ForwardLoad DEF Open, Reopen
<1>4. CASE Verify
  <2>1. pc = "verify" /\ UNCHANGED <<file, buf, tip, history>>
    BY <1>4 DEF Verify, diskVars
  <2>2. CASE pc' = "fetch"
    <3>1. next' = ResumeAfter(file') /\ buf' = <<>>
      BY <1>4, <2>1, <2>2 DEF Verify, TypeInv, BufferInUse
    <3>2. Tidy(file')
      BY <1>0, <2>1
    <3>. QED  BY <2>1, <2>2, <3>1, <3>2, ForwardEntering
  <2>3. CASE pc' # "fetch"
    <3>1. Tidy(file')
      BY <1>0, <2>1
    <3>. QED  BY <2>1, <2>3, <3>1, ForwardElsewhere
  <2>. QED  BY <2>2, <2>3
<1>5. CASE Probe
  <2>1. pc' # "fetch" /\ history' = history /\ Tidy(file')
    BY <1>0, <1>5 DEF Probe, diskVars
  <2>. QED  BY <2>1, ForwardElsewhere
<1>6. CASE TruncateAtFork
  <2>1. pc = "search" /\ buf = <<>> /\ file \in Seq(Records) /\ Tidy(file) /\ Held = file
    BY <1>0, <1>6, HeldType DEF TruncateAtFork, TypeInv, BufferInUse, OpenIsGood
  <2>2. CASE lo < Len(file)
    <3>. DEFINE keep == FirstAtOrAbove(file, file[lo + 1].block)
    <3>1. keep \in 0..Len(file)
      <4>1. Len(file) \in Nat /\ lo + 1 \in 1..Len(file)
        <5>1. Len(file) \in Nat /\ lo \in Nat
          BY <2>1, LenProperties DEF TypeInv, TypeOK
        <5>. QED  BY <2>2, <5>1
      <4>2. file[lo + 1].block \in Int
        BY <2>1, <4>1, ElementOfSeq, RecordBlock, BoundsAssumption
      <4>. QED  BY <4>1, <4>2, FirstAtOrAboveType
    <3>2. /\ file' = SubSeq(file, 1, keep) /\ pc' = "fetch" /\ next' = ResumeAfter(file')
          /\ UNCHANGED <<buf, tip, history>>
      BY <1>6, <2>2 DEF TruncateAtFork
    <3>. HIDE DEF keep
    <3>3. Tidy(file')
      BY <1>0, <2>1, <3>1, <3>2, TidyPrefix
    <3>. QED  BY <2>1, <3>2, <3>3, ForwardEntering
  <2>3. CASE ~(lo < Len(file))
    <3>1. CloseCache /\ EndRun("error", <<>>)
      BY <1>6, <2>3 DEF TruncateAtFork
    <3>2. pc' # "fetch" /\ history' = <<>> /\ Tidy(file')
      BY <1>0, <3>1 DEF CloseCache, EndRun
    <3>. QED  BY <3>2, ForwardElsewhere
  <2>. QED  BY <2>2, <2>3
<1>7. CASE Fetch
  BY <1>7, ForwardFetch
<1>8. CASE Close \/ ReadFails
  <2>1. pc' # "fetch" /\ history' \in {history, <<>>} /\ Tidy(file')
    BY <1>0, <1>8 DEF Close, ReadFails, CloseCache, EndRun
  <2>. QED  BY <2>1, ForwardElsewhere
<1>9. CASE Each
  <2>1. pc = "each" /\ pc' = "idle" /\ file' = file
    BY <1>9, HeldType DEF Each, EndRun, CloseCache
  <2>2. CASE \E i \in 1..Len(file) : file[i] = Bad
    <3>1. history' = <<>> /\ Tidy(file')
      BY <1>0, <1>9, <2>1, <2>2 DEF Each, EndRun
    <3>. QED  BY <2>1, <3>1, ForwardElsewhere
  <2>3. CASE ~ \E i \in 1..Len(file) : file[i] = Bad
    <3>1. history' = file
      BY <1>9, <2>3 DEF Each, EndRun
    <3>2. RunsForward'
      BY <1>0, <2>1, <2>3, <3>1 DEF Tidy, RunsForward
    <3>3. Held' = file'
      BY <2>1, HeldType, ConcatEmptySeq DEF TypeInv, TypeOK, BufferInUse, Held
    <3>4. Tidy(file')
      BY <1>0, <2>1
    <3>. QED  BY <2>1, <3>2, <3>3, <3>4 DEF ForwardInv, Tidy
  <2>. QED  BY <2>2, <2>3
<1>10. CASE Kill \/ PowerLoss
  <2>1. pc' = "idle" /\ history' = history /\ \E k \in 0..Len(file) : file' \in Cuts(Held, k)
    BY <1>10, LenProperties DEF Kill, PowerLoss, Die, TypeInv, TypeOK
  <2>2. PICK k \in 0..Len(file) : file' \in Cuts(Held, k)
    BY <2>1
  <2>3. Held \in Seq(Records \cup {Bad}) /\ k \in 0..Len(Held)
    <3>1. Held \in Seq(Records \cup {Bad}) /\ Len(Held) \in Nat /\ Len(file) <= Len(Held) /\ Len(file) \in Nat
      BY <1>0, HeldType, LenProperties
    <3>. QED  BY <3>1
  <2>4. Tidy(file')
    BY <1>0, <2>2, <2>3, TidyCuts
  <2>. QED  BY <2>1, <2>4, ForwardElsewhere
<1>11. CASE Rot
  <2>1. pc \in {"idle", "reopen", "each"} /\ pc' = pc /\ history' = history
    BY <1>11, BoundsAssumption DEF Rot, runVars
  <2>2. file' = file \/ \E i \in 1..Len(file) : file' = [file EXCEPT ![i] = Bad]
    BY <1>11 DEF Rot
  <2>3. Tidy(file')
    BY <1>0, <2>1, <2>2, TidyRot
  <2>. QED  BY <2>1, <2>3, ForwardElsewhere
<1>. QED
  BY <1>1, <1>2, <1>3, <1>4, <1>5, <1>6, <1>7, <1>8, <1>9, <1>10, <1>11 DEF Next, Run

(* Sync and Append: at any finality, with reorganisations at any step, writes cut at *)
(* any record and bits flipping at any time, a successful run's history runs forward *)
(* and holds no record twice.                                                        *)
THEOREM HistoryRunsForward == Spec => []RunsForward
<1>1. Init => TypeInv /\ ForwardInv
  <2>. SUFFICES ASSUME Init PROVE ForwardInv
    BY TypeInit
  <2>1. Held = <<>> /\ history = <<>> /\ pc = "idle"
    BY ConcatEmptySeq, EmptySeq DEF Init, Held
  <2>. QED  BY <2>1 DEF ForwardInv, Tidy, RunsForward
<1>2. (TypeInv /\ ForwardInv) /\ [Next]_vars => (TypeInv /\ ForwardInv)'
  BY TypeNext, ForwardNext
<1>3. TypeInv /\ ForwardInv => RunsForward
  BY DEF ForwardInv
<1>. QED  BY <1>1, <1>2, <1>3, PTL DEF Spec

-----------------------------------------------------------------------------
(***************************************************************************)
(* What a successful run hands to the rules is the chain's own history:    *)
(* the proof, for every chain and any number of kills, power losses and    *)
(* flipped bits, under the four conditions of Steady. Each is needed: TLC  *)
(* finds a counterexample when any one of them is dropped. At "safe" the   *)
(* chain may reorganise at any step of a run.                              *)
(***************************************************************************)

(* Runs ask for one finality, no reorganisation overtakes a run that reads *)
(* blocks that are not settled, a short write never ends between two       *)
(* records of one block, and the file is not damaged between sync's Close  *)
(* and the Open that follows it.                                           *)
Steady ==
    /\ Finalities \in {{"latest"}, {"safe"}}
    /\ ReorgMidRun = FALSE \/ Finalities = {"safe"}
    /\ AlignedCuts = FALSE
    /\ "reopen" \notin RotPoints

-----------------------------------------------------------------------------
(* The inductive invariant.                                                   *)

(* The newest block a run may have read: the tip of the one under way, or of *)
(* the next one.                                                             *)
Limit == IF "latest" \in Finalities THEN head ELSE settled
Reach == IF pc = "idle" THEN Limit ELSE tip

(* f is what is left of branch b's log through block n, damage included: slot *)
(* for slot, and ending in damage or at a block boundary.                     *)
Shadows(f, b, n) ==
    /\ Len(f) <= Upto(b, n)
    /\ \A i \in 1..Len(f) : f[i] \in {Bad, Log[b][i]}
    /\ f = <<>> \/ f[Len(f)] = Bad \/ \E m \in Blocks : Len(f) = Upto(b, m)

TipInv    == pc # "idle" => tip <= Limit
DiskInv   == \E b \in Branches, n \in Blocks : n <= Reach /\ Shadows(Held, b, n)
VerifyInv == pc \in {"verify", "search"} =>
                \E b \in Branches, n \in Blocks : n <= tip /\ file = Transfers(b, Start, n)
SearchInv == pc = "search" =>
                /\ file # <<>> /\ ~OnChain(file[Len(file)])
                /\ lo <= hi /\ hi <= Len(file)
                /\ \A i \in 1..lo : OnChain(file[i])
                /\ \A i \in (hi + 1)..Len(file) : ~OnChain(file[i])
FetchInv  == pc = "fetch" => next <= tip + 1 /\ Held = Transfers(branch, Start, next - 1)
ReadInv   == pc \in {"reopen", "each"} =>
                /\ Len(file) = Upto(branch, tip)
                /\ \A i \in 1..Len(file) : \/ file[i] = Log[branch][i]
                                           \/ pc = "each" /\ file[i] = Bad

HistoryInv == TypeInv /\ TipInv /\ DiskInv /\ VerifyInv /\ SearchInv /\ FetchInv /\ ReadInv

-----------------------------------------------------------------------------
(* Facts about a branch's log.                                                *)

(* Nothing is before the start block, and a later block has carried no less. *)
LEMMA UptoMonotone ==
    ASSUME NEW b \in Branches, NEW m \in Blocks, NEW n \in Blocks, m <= n
    PROVE  Upto(b, Start - 1) = 0 /\ Upto(b, m) <= Upto(b, n)
<1>. Start - 1 \in Blocks /\ m \in Int /\ n \in Int
  BY BoundsAssumption DEF Blocks
<1>. Len(Log[b]) \in Nat
  BY LogAssumption, LenProperties
<1>1. \A i \in 1..Len(Log[b]) : Log[b][i].block \in Int /\ Log[b][i].block >= Start
  BY LogAssumption, BoundsAssumption
<1>2. Upto(b, Start - 1) = 0
  <2>1. /\ Upto(b, Start - 1) \in 0..Len(Log[b])
        /\ \A i \in 1..Len(Log[b]) : Log[b][i].block <= Start - 1 <=> i <= Upto(b, Start - 1)
    BY UptoSplits DEF IsUpto
  <2>. QED  BY <1>1, <2>1, BoundsAssumption
<1>3. Upto(b, m) <= Upto(b, n)
  <2>1. /\ Upto(b, m) \in 0..Len(Log[b])
        /\ \A i \in 1..Len(Log[b]) : Log[b][i].block <= m <=> i <= Upto(b, m)
    BY UptoSplits DEF IsUpto
  <2>2. /\ Upto(b, n) \in 0..Len(Log[b])
        /\ \A i \in 1..Len(Log[b]) : Log[b][i].block <= n <=> i <= Upto(b, n)
    BY UptoSplits DEF IsUpto
  <2>3. CASE Upto(b, m) = 0
    BY <2>2, <2>3
  <2>4. CASE Upto(b, m) # 0
    <3>1. Upto(b, m) \in 1..Len(Log[b])
      BY <2>1, <2>4
    <3>2. Log[b][Upto(b, m)].block <= m
      BY <2>1, <3>1
    <3>. QED  BY <1>1, <2>2, <3>1, <3>2
  <2>. QED  BY <2>3, <2>4
<1>. QED  BY <1>2, <1>3

(* The history of a branch through block n is the front of its log. *)
LEMMA WholeIsFront ==
    ASSUME NEW b \in Branches, NEW n \in Blocks
    PROVE  LET f == Transfers(b, Start, n)
           IN  /\ f \in Seq(Records) /\ Len(f) = Upto(b, n)
               /\ \A i \in 1..Len(f) : f[i] = Log[b][i]
<1>0. n \in Int /\ n <= n
  BY BoundsAssumption DEF Blocks
<1>1. Transfers(b, Start, n) = SubSeq(Log[b], 1, Upto(b, n))
  <2>1. Upto(b, Start - 1) = 0
    BY <1>0, UptoMonotone
  <2>2. Upto(b, Start - 1) + 1 = 1
    BY <2>1
  <2>. QED  BY <2>2, Zenon DEF Transfers
<1>2. Upto(b, n) \in 0..Len(Log[b]) /\ Len(Log[b]) \in Nat
  BY UptoSplits, LogAssumption, LenProperties
<1>3. \A i \in 1..Upto(b, n) : Log[b][i] \in Records
  BY <1>2, LogAssumption, ElementOfSeq
<1>. HIDE DEF Transfers
<1>. QED  BY <1>1, <1>2, <1>3, SubSeqProperties

(* And a sequence that is the front of the log is that history. *)
LEMMA FrontIsWhole ==
    ASSUME NEW b \in Branches, NEW n \in Blocks, NEW f \in Seq(Records \cup {Bad}),
           Len(f) = Upto(b, n), \A i \in 1..Len(f) : f[i] = Log[b][i]
    PROVE  f = Transfers(b, Start, n)
<1>. DEFINE g == Transfers(b, Start, n)
<1>1. g \in Seq(Records) /\ Len(g) = Upto(b, n) /\ \A i \in 1..Len(g) : g[i] = Log[b][i]
  BY WholeIsFront
<1>. HIDE DEF g
<1>2. g \in Seq(Records \cup {Bad})
  BY <1>1, SeqMonotonic
<1>3. f = g
  BY <1>1, <1>2, SeqEqual
<1>. QED  BY <1>3 DEF g

(* A record followed by one of a later block closes its block. *)
LEMMA BlockBoundary ==
    ASSUME NEW b \in Branches, NEW k \in 1..(Len(Log[b]) - 1),
           Log[b][k].block < Log[b][k + 1].block
    PROVE  Log[b][k].block \in Blocks /\ Upto(b, Log[b][k].block) = k
<1>1. Len(Log[b]) \in Nat
  BY LogAssumption, LenProperties
<1>. DEFINE n == Log[b][k].block
<1>2. n \in Blocks /\ n \in Int /\ Log[b][k + 1].block \in Int
  <2>1. k \in 1..Len(Log[b]) /\ k + 1 \in 1..Len(Log[b])
    BY <1>1
  <2>2. n \in Start..MaxBlock /\ Log[b][k + 1].block \in Start..MaxBlock
    BY <2>1, LogAssumption
  <2>. QED  BY <2>2, BoundsAssumption DEF Blocks
<1>3. /\ Upto(b, n) \in 0..Len(Log[b])
      /\ \A i \in 1..Len(Log[b]) : Log[b][i].block <= n <=> i <= Upto(b, n)
  BY <1>2, UptoSplits DEF IsUpto
<1>4. k <= Upto(b, n) /\ ~(k + 1 <= Upto(b, n))
  BY <1>1, <1>2, <1>3
<1>. QED  BY <1>2, <1>3, <1>4

(* The log is in block order, and a record whose block is on another branch has *)
(* all its predecessors there too.                                              *)
LEMMA LogInOrder ==
    ASSUME NEW b \in Branches, NEW j \in 1..Len(Log[b]), NEW i \in 1..j
    PROVE  /\ i \in 1..Len(Log[b])
           /\ Log[b][i].block <= Log[b][j].block
           /\ \A c \in Branches : Chain[c][Log[b][j].block] = Log[b][j].hash
                                     => Chain[c][Log[b][i].block] = Log[b][i].hash
<1>1. Len(Log[b]) \in Nat /\ i \in 1..Len(Log[b])
  BY LogAssumption, LenProperties
<1>. DEFINE n == Log[b][j].block
<1>2. /\ n \in Blocks /\ Log[b][i].block \in Blocks /\ n \in Int /\ Log[b][i].block \in Int
      /\ Log[b][j].hash = Chain[b][n] /\ Log[b][i].hash = Chain[b][Log[b][i].block]
  <2>1. n \in Start..MaxBlock /\ Log[b][i].block \in Start..MaxBlock
    BY <1>1, LogAssumption
  <2>2. Log[b][j].hash = Chain[b][n] /\ Log[b][i].hash = Chain[b][Log[b][i].block]
    BY <1>1, LogAssumption
  <2>. QED  BY <2>1, <2>2, BoundsAssumption DEF Blocks
<1>3. /\ Upto(b, n) \in 0..Len(Log[b])
      /\ \A k \in 1..Len(Log[b]) : Log[b][k].block <= n <=> k <= Upto(b, n)
  BY <1>2, UptoSplits DEF IsUpto
<1>4. j <= Upto(b, n)
  BY <1>2, <1>3
<1>5. Log[b][i].block <= n
  BY <1>1, <1>3, <1>4
<1>6. ASSUME NEW c \in Branches, Chain[c][n] = Log[b][j].hash
      PROVE  Chain[c][Log[b][i].block] = Log[b][i].hash
  BY <1>2, <1>5, <1>6, HashAssumption
<1>. QED  BY <1>1, <1>5, <1>6

-----------------------------------------------------------------------------
(* Facts about files that shadow a log.                                       *)

(* The history of a branch shadows its log. *)
LEMMA WholeShadows ==
    ASSUME NEW b \in Branches, NEW n \in Blocks
    PROVE  Shadows(Transfers(b, Start, n), b, n)
<1>. DEFINE f == Transfers(b, Start, n)
<1>1. f \in Seq(Records) /\ Len(f) = Upto(b, n) /\ \A i \in 1..Len(f) : f[i] = Log[b][i]
  BY WholeIsFront
<1>2. Upto(b, n) \in Nat
  BY UptoSplits
<1>. HIDE DEF f
<1>. QED  BY <1>1, <1>2 DEF Shadows, f

(* Cutting a file short, and tearing its last record, leaves a shadow. *)
LEMMA CutShadows ==
    ASSUME Steady, NEW b \in Branches, NEW n \in Blocks, NEW f \in Seq(Records \cup {Bad}),
           Shadows(f, b, n), NEW k \in 0..Len(f), NEW g \in Cuts(f, k)
    PROVE  Shadows(g, b, n)
<1>. Len(f) \in Nat /\ \A i \in 1..Len(f) : f[i] \in Records \cup {Bad}
  BY LenProperties, ElementOfSeq
<1>. Upto(b, n) \in 0..Len(Log[b]) /\ Len(Log[b]) \in Nat
  BY UptoSplits, LogAssumption, LenProperties
<1>1. ASSUME NEW j \in 0..Len(f)
      PROVE  /\ SubSeq(f, 1, j) \in Seq(Records \cup {Bad}) /\ Len(SubSeq(f, 1, j)) = j
             /\ \A i \in 1..j : SubSeq(f, 1, j)[i] = f[i]
  <2>1. \A i \in 1..j : f[i] \in Records \cup {Bad}
    OBVIOUS
  <2>. QED  BY <2>1, SubSeqProperties
<1>2. ASSUME NEW j \in k..Len(f), g = SubSeq(f, 1, j),
             j \in {0, Len(f)} \/ (f[j] # Bad /\ f[j + 1] # Bad /\ f[j].block # f[j + 1].block)
      PROVE  Shadows(g, b, n)
  <2>1. Len(g) = j /\ \A i \in 1..j : g[i] = f[i]
    BY <1>1, <1>2
  <2>2. g \in Seq(Records \cup {Bad})
    BY <1>1, <1>2
  <2>3. CASE j = 0
    BY <2>1, <2>2, <2>3, EmptySeq DEF Shadows
  <2>4. CASE j = Len(f)
    <3>1. g = f
      BY <2>4, <1>2, SubSeqFull
    <3>. QED  BY <3>1
  <2>5. CASE j \notin {0, Len(f)}
    <3>1. j \in 1..(Len(f) - 1) /\ f[j] = Log[b][j] /\ f[j + 1] = Log[b][j + 1]
      BY <1>2, <2>5 DEF Shadows
    <3>2. j \in 1..(Len(Log[b]) - 1) /\ j \in 1..(j + 1) /\ j + 1 \in 1..Len(Log[b])
      BY <3>1 DEF Shadows
    <3>3. Log[b][j].block <= Log[b][j + 1].block
      BY <3>2, LogInOrder
    <3>4. Log[b][j].block \in Int /\ Log[b][j + 1].block \in Int
      BY <3>2, LogAssumption, BoundsAssumption
    <3>5. Log[b][j].block < Log[b][j + 1].block
      BY <1>2, <2>5, <3>1, <3>3, <3>4
    <3>6. Log[b][j].block \in Blocks /\ Upto(b, Log[b][j].block) = j
      BY <3>2, <3>5, BlockBoundary
    <3>. QED  BY <2>1, <3>1, <3>6 DEF Shadows
  <2>. QED  BY <2>3, <2>4, <2>5
<1>3. ASSUME NEW j \in k..(Len(f) - 1), g = SubSeq(f, 1, j) \o <<Bad>>
      PROVE  Shadows(g, b, n)
  <2>1. <<Bad>> \in Seq(Records \cup {Bad}) /\ Len(<<Bad>>) = 1 /\ <<Bad>>[1] = Bad
    OBVIOUS
  <2>2. j \in 0..Len(f)
    OBVIOUS
  <2>3. /\ Len(g) = j + 1 /\ g[j + 1] = Bad
        /\ \A i \in 1..j : g[i] = f[i]
    BY <1>1, <1>3, <2>1, <2>2, ConcatProperties
  <2>. QED  BY <2>3 DEF Shadows
<1>4. g \in Cuts(f, k) /\ AlignedCuts = FALSE
  BY DEF Steady
<1>. QED  BY <1>2, <1>3, <1>4 DEF Cuts

(* Damaging one slot leaves a shadow. *)
LEMMA RotShadows ==
    ASSUME NEW b \in Branches, NEW n \in Blocks, NEW f \in Seq(Records \cup {Bad}),
           Shadows(f, b, n), NEW k \in 1..Len(f)
    PROVE  Shadows([f EXCEPT ![k] = Bad], b, n)
<1>. DEFINE g == [f EXCEPT ![k] = Bad]
<1>1. /\ Len(g) = Len(f) /\ Len(f) \in Nat
      /\ \A j \in 1..Len(f) : g[j] = IF j = k THEN Bad ELSE f[j]
  BY ExceptSeq, LenProperties
<1>. HIDE DEF g
<1>2. Shadows(g, b, n)
  BY <1>1, EmptySeq DEF Shadows
<1>. QED  BY <1>2 DEF g

(* What a scan keeps of a shadow is a whole history of that branch: the heart of *)
(* repair. Cutting back to a block boundary leaves no half block.                *)
LEMMA ScanLeavesWhole ==
    ASSUME NEW b \in Branches, NEW n \in Blocks, NEW f \in Seq(Records \cup {Bad}),
           Shadows(f, b, n)
    PROVE  \E m \in Blocks : m <= n /\ SubSeq(f, 1, Scan(f)) = Transfers(b, Start, m)
<1>. DEFINE k == Scan(f)
            g == SubSeq(f, 1, k)
<1>. n \in Int /\ Start - 1 \in Blocks /\ Start - 1 <= n
  BY BoundsAssumption DEF Blocks
<1>. Upto(b, n) \in 0..Len(Log[b]) /\ Len(Log[b]) \in Nat /\ Len(f) \in Nat
  BY UptoSplits, LogAssumption, LenProperties
<1>1. k \in 0..Len(f) /\ \A i \in 1..k : Readable(f, i)
  BY ScanKeepsReadable
<1>. HIDE DEF k
<1>2. \A i \in 1..k : f[i] = Log[b][i]
  BY <1>1 DEF Readable, Shadows
<1>3. g \in Seq(Records \cup {Bad}) /\ Len(g) = k /\ \A i \in 1..k : g[i] = Log[b][i]
  <2>1. \A i \in 1..k : f[i] \in Records \cup {Bad}
    BY <1>1, ElementOfSeq
  <2>. QED  BY <1>1, <1>2, <2>1, SubSeqProperties
<1>. HIDE DEF g
<1>4. SUFFICES \E m \in Blocks : m <= n /\ k = Upto(b, m)
  BY <1>3, FrontIsWhole DEF g, k
<1>5. CASE k = 0
  BY <1>5, UptoMonotone
<1>6. CASE k # 0 /\ Clean(f)
  <2>1. k = Len(f) /\ f # <<>> /\ f[Len(f)] # Bad
    BY <1>1, <1>6, EmptySeq DEF k, Scan, Clean, Readable
  <2>. PICK m \in Blocks : Len(f) = Upto(b, m)
    BY <2>1 DEF Shadows
  <2>. m \in Int
    BY BoundsAssumption DEF Blocks
  <2>2. CASE m <= n
    BY <2>1, <2>2
  <2>3. CASE n < m
    <3>1. Upto(b, n) <= Upto(b, m)
      BY <2>3, UptoMonotone
    <3>2. k = Upto(b, n)
      BY <2>1, <3>1 DEF Shadows
    <3>. QED  BY <3>2
  <2>. QED  BY <2>2, <2>3
<1>7. CASE k # 0 /\ ~Clean(f)
  <2>1. k \in BlockStarts(f)
    <3>. DEFINE S == {0} \cup BlockStarts(f)
    <3>1. S \in SUBSET (0..Len(f)) /\ S # {}
      BY DEF BlockStarts
    <3>2. Max(S) \in S
      BY <3>1, MaxIsGreatest
    <3>. QED  BY <1>7, <3>2 DEF k, Scan
  <2>2. /\ k \in 1..(Len(f) - 1) /\ f[k] # Bad /\ f[k + 1] # Bad
        /\ f[k].block <= f[k + 1].block /\ f[k].block # f[k + 1].block
    BY <2>1 DEF BlockStarts, Readable
  <2>3. /\ f[k] = Log[b][k] /\ f[k + 1] = Log[b][k + 1]
        /\ k \in 1..(Len(Log[b]) - 1) /\ k + 1 \in 1..Len(Log[b]) /\ k \in 1..Len(Log[b])
    BY <2>2 DEF Shadows
  <2>4. /\ Log[b][k].block \in Int /\ Log[b][k + 1].block \in Int
    <3>1. Log[b][k].block \in Start..MaxBlock /\ Log[b][k + 1].block \in Start..MaxBlock
      BY <2>3, LogAssumption
    <3>. QED  BY <3>1, BoundsAssumption
  <2>5. Log[b][k].block \in Blocks /\ Upto(b, Log[b][k].block) = k
    <3>1. Log[b][k].block < Log[b][k + 1].block
      BY <2>2, <2>3, <2>4
    <3>. QED  BY <2>3, <3>1, BlockBoundary, Zenon
  <2>6. Log[b][k].block <= n
    <3>1. k <= Upto(b, n)
      BY <2>2 DEF Shadows
    <3>. QED  BY <2>3, <3>1, UptoSplits DEF IsUpto
  <2>. QED  BY <2>5, <2>6
<1>. QED  BY <1>5, <1>6, <1>7

(* A history through block n has no record past a later block t. *)
LEMMA NothingPast ==
    ASSUME NEW b \in Branches, NEW n \in Blocks, NEW t \in Blocks, n <= t,
           NEW f, f = Transfers(b, Start, n)
    PROVE  /\ \A i \in 1..Len(f) : f[i].block \in Int /\ f[i].block <= n
           /\ FirstAtOrAbove(f, t + 1) = Len(f)
<1>. n \in Int /\ t \in Int
  BY BoundsAssumption DEF Blocks
<1>1. /\ f \in Seq(Records) /\ Len(f) = Upto(b, n) /\ Len(f) \in Nat
      /\ \A i \in 1..Len(f) : f[i] = Log[b][i]
  BY WholeIsFront, LenProperties
<1>2. /\ Upto(b, n) \in 0..Len(Log[b]) /\ Len(Log[b]) \in Nat
      /\ \A i \in 1..Len(Log[b]) : Log[b][i].block <= n <=> i <= Upto(b, n)
  BY UptoSplits, LogAssumption, LenProperties DEF IsUpto
<1>3. \A i \in 1..Len(Log[b]) : Log[b][i].block \in Int
  BY LogAssumption, BoundsAssumption
<1>4. \A i \in 1..Len(f) : f[i].block \in Int /\ f[i].block <= n
  BY <1>1, <1>2, <1>3
<1>5. {i \in 0..(Len(f) - 1) : f[i + 1].block >= t + 1} = {}
  BY <1>1, <1>4
<1>6. FirstAtOrAbove(f, t + 1) = Min({Len(f)})
  BY <1>5 DEF FirstAtOrAbove
<1>7. Min({Len(f)}) = Len(f)
  <2>1. {Len(f)} \in SUBSET Nat /\ {Len(f)} # {}
    BY <1>1
  <2>2. Min({Len(f)}) \in {Len(f)}
    BY <2>1, MinIsLeast
  <2>. QED  BY <2>2
<1>. QED  BY <1>4, <1>6, <1>7

(* If the last record of a whole block is on branch c, what precedes it is the *)
(* history of c through that block.                                            *)
LEMMA AdoptBranch ==
    ASSUME NEW b \in Branches, NEW c \in Branches, NEW f \in Seq(Records \cup {Bad}),
           Len(f) \in 1..Len(Log[b]), \A i \in 1..Len(f) : f[i] = Log[b][i],
           Upto(b, f[Len(f)].block) = Len(f),
           Chain[c][f[Len(f)].block] = f[Len(f)].hash
    PROVE  f[Len(f)].block \in Blocks /\ f = Transfers(c, Start, f[Len(f)].block)
<1>. DEFINE n == f[Len(f)].block
<1>. Len(f) \in Nat /\ Len(Log[b]) \in Nat
  BY LenProperties, LogAssumption
<1>1. f[Len(f)] = Log[b][Len(f)]
  OBVIOUS
<1>2. n \in Blocks /\ Chain[c][n] = Chain[b][n]
  <2>1. Log[b][Len(f)].block \in Start..MaxBlock /\ Log[b][Len(f)].hash = Chain[b][Log[b][Len(f)].block]
    BY LogAssumption, Zenon
  <2>2. n \in Start..MaxBlock /\ Chain[c][n] = Chain[b][n]
    BY <1>1, <2>1
  <2>. QED  BY <2>2, BoundsAssumption DEF Blocks
<1>3. Upto(c, n) = Len(f) /\ \A i \in 1..Len(f) : Log[c][i] = Log[b][i]
  BY <1>2, HashAssumption
<1>. QED  BY <1>2, <1>3, FrontIsWhole

(* The first record of a log is the last of its block, or another follows: the *)
(* last record of a whole history closes its block.                            *)
LEMMA LastClosesBlock ==
    ASSUME NEW b \in Branches, NEW n \in Blocks, NEW f, f = Transfers(b, Start, n), f # <<>>
    PROVE  Upto(b, f[Len(f)].block) = Len(f)
<1>. n \in Int
  BY BoundsAssumption DEF Blocks
<1>1. /\ f \in Seq(Records) /\ Len(f) = Upto(b, n) /\ Len(f) \in Nat \ {0}
      /\ \A i \in 1..Len(f) : f[i] = Log[b][i]
  BY WholeIsFront, EmptySeq
<1>2. /\ Upto(b, n) \in 0..Len(Log[b]) /\ Len(Log[b]) \in Nat
      /\ \A i \in 1..Len(Log[b]) : Log[b][i].block <= n <=> i <= Upto(b, n)
  BY UptoSplits, LogAssumption, LenProperties DEF IsUpto
<1>. DEFINE m == f[Len(f)].block
<1>3. m = Log[b][Len(f)].block /\ Len(f) \in 1..Len(Log[b])
  BY <1>1, <1>2
<1>4. m \in Blocks /\ m \in Int /\ m <= n
  <2>1. Log[b][Len(f)].block \in Start..MaxBlock
    BY <1>3, LogAssumption, Zenon
  <2>2. m <= n
    BY <1>1, <1>2, <1>3
  <2>. QED  BY <1>3, <2>1, <2>2, BoundsAssumption DEF Blocks
<1>5. /\ Upto(b, m) \in 0..Len(Log[b])
      /\ \A i \in 1..Len(Log[b]) : Log[b][i].block <= m <=> i <= Upto(b, m)
  BY <1>4, UptoSplits DEF IsUpto
<1>6. Len(f) <= Upto(b, m)
  BY <1>3, <1>4, <1>5
<1>7. Upto(b, m) <= Upto(b, n)
  BY <1>4, UptoMonotone
<1>. QED  BY <1>1, <1>5, <1>6, <1>7

-----------------------------------------------------------------------------
(* The invariant holds initially, and every step keeps it.                    *)

(* The states a run starts from: no file, so nothing on it to be wrong. *)
LEMMA HistoryInit == ASSUME Steady, Init PROVE HistoryInv
<1>1. TypeInv
  BY TypeInit
<1>2. Held = <<>>
  BY DEF Init, Held
<1>3. Start - 1 \in Blocks /\ Start - 1 <= Reach
  BY BoundsAssumption DEF Init, Reach, Limit, Blocks
<1>4. Shadows(<<>>, branch, Start - 1)
  BY <1>3, UptoSplits DEF Shadows, Init
<1>5. DiskInv
  BY <1>2, <1>3, <1>4 DEF DiskInv, Init
<1>. QED  BY <1>1, <1>5 DEF HistoryInv, Init, TipInv, VerifyInv, SearchInv, FetchInv, ReadInv

(* A run that ends without touching what is held, and closes the file, leaves a *)
(* shadow behind.                                                               *)
LEMMA EndKeepsShadow ==
    ASSUME HistoryInv, TypeInv', pc # "idle", pc' = "idle", Held' = Held, UNCHANGED chainVars
    PROVE  HistoryInv'
<1>1. tip \in Int /\ Limit \in Int /\ Limit' = Limit /\ tip <= Limit
  BY BoundsAssumption DEF HistoryInv, TipInv, TypeInv, TypeOK, Limit, chainVars, Blocks
<1>2. DiskInv'
  <2>1. PICK b \in Branches, n \in Blocks : n <= tip /\ Shadows(Held, b, n)
    BY DEF HistoryInv, DiskInv, Reach
  <2>2. n <= Limit'
    BY <1>1, <2>1, BoundsAssumption DEF Blocks
  <2>. QED  BY <2>1, <2>2 DEF DiskInv, Reach
<1>. QED  BY <1>2 DEF HistoryInv, TipInv, VerifyInv, SearchInv, FetchInv, ReadInv

(* Close writes the buffer behind the file: what the Cache holds is unchanged. *)
LEMMA CloseKeepsHeld ==
    ASSUME HistoryInv, CloseCache
    PROVE  Held' = Held /\ file' = Held
<1>1. Held \in Seq(Records \cup {Bad})
  BY HeldType DEF HistoryInv
<1>2. Held' = file' \o buf' /\ file' = Held /\ buf' = <<>>
  BY DEF Held, CloseCache
<1>. HIDE DEF Held
<1>. QED  BY <1>1, <1>2, ConcatEmptySeq

(* Two branches that share a block share the history through every earlier one. *)
LEMMA SharedPast ==
    ASSUME NEW b \in Branches, NEW c \in Branches, NEW m \in Blocks, NEW n \in Blocks,
           n <= m, Chain[b][m] = Chain[c][m]
    PROVE  /\ Chain[b][n] = Chain[c][n]
           /\ Upto(b, n) = Upto(c, n)
           /\ \A i \in 1..Upto(b, n) : Log[b][i] = Log[c][i]
           /\ Transfers(b, Start, n) = Transfers(c, Start, n)
<1>1. Chain[b][n] = Chain[c][n]
  BY HashAssumption
<1>2. Upto(b, n) = Upto(c, n) /\ \A i \in 1..Upto(b, n) : Log[b][i] = Log[c][i]
  BY <1>1, HashAssumption
<1>. DEFINE f == Transfers(b, Start, n)
<1>3. f \in Seq(Records) /\ Len(f) = Upto(b, n) /\ \A i \in 1..Len(f) : f[i] = Log[b][i]
  BY WholeIsFront
<1>. HIDE DEF f
<1>4. f \in Seq(Records \cup {Bad}) /\ Len(f) = Upto(c, n) /\ \A i \in 1..Len(f) : f[i] = Log[c][i]
  BY <1>2, <1>3, SeqMonotonic
<1>5. f = Transfers(c, Start, n)
  BY <1>4, FrontIsWhole
<1>. QED  BY <1>1, <1>2, <1>5 DEF f

(* A reorganisation under a run that reads settled blocks only: the new branch is *)
(* the old one as far as the run looks.                                           *)
LEMMA HistoryOvertaken ==
    ASSUME Steady, HistoryInv, Reorg, pc # "idle",
           UNCHANGED <<diskVars, runVars>>, Held' = Held
    PROVE  VerifyInv' /\ SearchInv' /\ FetchInv' /\ ReadInv'
<1>1. Limit = settled /\ tip <= settled
  BY DEF Steady, Reorg, Limit, HistoryInv, TipInv
<1>2. /\ branch \in Branches /\ branch' \in Branches
      /\ Chain[branch][settled] = Chain[branch'][settled]
  BY DEF Reorg, HistoryInv, TypeInv, TypeOK
<1>3. /\ settled \in Blocks /\ tip \in Blocks /\ settled \in Int /\ tip \in Int
      /\ next - 1 \in Blocks /\ next \in Int /\ \A n \in Blocks : n \in Int
  BY BoundsAssumption DEF HistoryInv, TypeInv, TypeOK, Blocks
<1>4. ASSUME NEW n \in Blocks, n <= tip
      PROVE  /\ Chain[branch][n] = Chain[branch'][n]
             /\ Upto(branch, n) = Upto(branch', n)
             /\ \A i \in 1..Upto(branch, n) : Log[branch][i] = Log[branch'][i]
             /\ Transfers(branch, Start, n) = Transfers(branch', Start, n)
  <2>1. n <= settled
    BY <1>1, <1>3, <1>4
  <2>. QED  BY <1>2, <1>3, <2>1, SharedPast
<1>5. VerifyInv'
  BY DEF HistoryInv, VerifyInv, diskVars, runVars
<1>6. SearchInv'
  <2>. SUFFICES ASSUME pc = "search" PROVE SearchInv'
    BY DEF SearchInv, runVars
  <2>1. PICK b \in Branches, n \in Blocks : n <= tip /\ file = Transfers(b, Start, n)
    BY DEF HistoryInv, VerifyInv
  <2>2. ASSUME NEW i \in 1..Len(file) PROVE  Chain[branch'][file[i].block] = file[i].hash <=> OnChain(file[i])
    <3>1. /\ Len(file) = Upto(b, n) /\ file[i] = Log[b][i] /\ Upto(b, n) \in 0..Len(Log[b])
          /\ \A k \in 1..Len(Log[b]) : Log[b][k].block <= n <=> k <= Upto(b, n)
      BY <2>1, WholeIsFront, UptoSplits DEF IsUpto
    <3>2. i \in 1..Len(Log[b]) /\ file[i].block <= n
      BY <3>1, LogAssumption, LenProperties
    <3>3. file[i].block \in Blocks
      <4>1. Log[b][i].block \in Start..MaxBlock /\ Start \in Nat
        BY ONLY <3>2, b \in Branches, LogAssumption, BoundsAssumption
      <4>2. Start..MaxBlock \subseteq Blocks
        BY <4>1, BoundsAssumption DEF Blocks
      <4>. QED  BY <3>1, <4>1, <4>2, Zenon
    <3>4. file[i].block <= tip
      <4>1. file[i].block \in Int /\ n \in Int /\ n <= tip
        BY <1>3, <2>1, <3>3
      <4>. QED  BY <1>3, <3>2, <4>1
    <3>5. Chain[branch][file[i].block] = Chain[branch'][file[i].block]
      BY <1>4, <3>3, <3>4
    <3>. QED  BY <3>5 DEF OnChain
  <2>3. /\ file # <<>> /\ ~OnChain(file[Len(file)]) /\ lo <= hi /\ hi <= Len(file)
        /\ \A i \in 1..lo : OnChain(file[i])
        /\ \A i \in (hi + 1)..Len(file) : ~OnChain(file[i])
        /\ lo \in Nat /\ hi \in Nat /\ file \in Seq(Records \cup {Bad})
    BY DEF HistoryInv, SearchInv, TypeInv, TypeOK
  <2>4. Len(file) \in Nat \ {0}
    BY <2>3, EmptySeq, LenProperties
  <2>5. /\ Chain[branch'][file[Len(file)].block] # file[Len(file)].hash
        /\ \A i \in 1..lo : Chain[branch'][file[i].block] = file[i].hash
        /\ \A i \in (hi + 1)..Len(file) : Chain[branch'][file[i].block] # file[i].hash
    <3>1. Len(file) \in 1..Len(file) /\ 1..lo \subseteq 1..Len(file) /\ (hi + 1)..Len(file) \subseteq 1..Len(file)
      BY <2>3, <2>4
    <3>. HIDE DEF OnChain
    <3>. QED  BY <2>2, <2>3, <3>1, Zenon
  <2>. QED  BY <2>3, <2>5 DEF SearchInv, OnChain, diskVars, runVars
<1>7. FetchInv'
  <2>. SUFFICES ASSUME pc = "fetch" PROVE FetchInv'
    BY DEF FetchInv, runVars
  <2>1. next <= tip + 1 /\ Held = Transfers(branch, Start, next - 1)
    BY DEF HistoryInv, FetchInv
  <2>2. next - 1 <= tip
    BY <1>3, <2>1
  <2>3. Transfers(branch, Start, next - 1) = Transfers(branch', Start, next - 1)
    BY <1>3, <1>4, <2>2
  <2>. QED  BY <2>1, <2>3 DEF FetchInv, runVars
<1>8. ReadInv'
  <2>1. /\ Upto(branch, tip) = Upto(branch', tip)
        /\ \A i \in 1..Upto(branch, tip) : Log[branch][i] = Log[branch'][i]
    BY <1>3, <1>4
  <2>. QED  BY <2>1 DEF HistoryInv, ReadInv, diskVars, runVars
<1>. QED  BY <1>5, <1>6, <1>7, <1>8

(* The chain moves between runs, grows and settles during one, and reorganises *)
(* during one that reads settled blocks only.                                  *)
LEMMA HistoryChain ==
    ASSUME Steady, HistoryInv, TypeInv', Grow \/ Settle \/ Reorg
    PROVE  HistoryInv'
<1>1. UNCHANGED <<diskVars, runVars, faults>> /\ head' >= head /\ settled' >= settled
  <2>1. head \in Int /\ settled \in Int
    BY DEF HistoryInv, TypeInv, TypeOK
  <2>2. CASE Grow
    BY <2>1, <2>2 DEF Grow
  <2>3. CASE Settle
    BY <2>1, <2>3 DEF Settle
  <2>4. CASE Reorg
    BY <2>1, <2>4 DEF Reorg
  <2>. QED  BY <2>2, <2>3, <2>4
<1>2. pc = "idle" \/ branch' = branch \/ Reorg
  BY DEF Grow, Settle
<1>3. Held' = Held
  BY <1>1 DEF Held, diskVars, runVars
<1>4. /\ head \in Int /\ head' \in Int /\ settled \in Int /\ settled' \in Int /\ tip \in Int
      /\ \A n \in Blocks : n \in Int
  BY BoundsAssumption DEF HistoryInv, TypeInv, TypeOK, Blocks
<1>5. Limit' >= Limit /\ Reach' >= Reach /\ Limit \in Int /\ Limit' \in Int /\ Reach \in Int /\ Reach' \in Int
  BY <1>1, <1>4 DEF Limit, Reach, runVars
<1>6. DiskInv'
  <2>1. PICK b \in Branches, n \in Blocks : n <= Reach /\ Shadows(Held, b, n)
    BY DEF HistoryInv, DiskInv
  <2>2. n <= Reach'
    BY <1>4, <1>5, <2>1
  <2>. QED  BY <1>3, <2>1, <2>2 DEF DiskInv
<1>7. TipInv'
  BY <1>1, <1>4, <1>5 DEF HistoryInv, TipInv, runVars
<1>8. VerifyInv' /\ SearchInv' /\ FetchInv' /\ ReadInv'
  <2>1. CASE pc = "idle" \/ branch' = branch
    BY <1>1, <1>3, <2>1 DEF HistoryInv, VerifyInv, SearchInv, FetchInv, ReadInv, OnChain, diskVars, runVars
  <2>2. CASE pc # "idle" /\ Reorg
    BY <1>1, <1>3, <2>2, HistoryOvertaken
  <2>. QED  BY <1>2, <2>1, <2>2
<1>. QED  BY <1>6, <1>7, <1>8 DEF HistoryInv

(* A run starts: its tip is what bounds the file. *)
LEMMA HistoryBegin ==
    ASSUME Steady, HistoryInv, TypeInv', NEW f \in Finalities, NEW fresh \in BOOLEAN, Begin(f, fresh)
    PROVE  HistoryInv'
<1>1. /\ pc = "idle" /\ pc' = "locked" /\ UNCHANGED <<chainVars, buf>>
      /\ tip' = Limit /\ Limit' = Limit
  BY DEF Begin, Steady, Limit, chainVars
<1>2. /\ Limit \in Int /\ Start - 1 \in Blocks /\ Start - 1 <= Limit
  BY BoundsAssumption DEF HistoryInv, TypeInv, TypeOK, Blocks, Limit
<1>3. DiskInv'
  <2>1. CASE fresh
    <3>1. Held' = <<>>
      BY <1>1, <2>1, EmptySeq DEF Begin, Held, HistoryInv, TypeInv, BufferInUse
    <3>2. branch \in Branches
      BY DEF HistoryInv, TypeInv, TypeOK
    <3>3. Shadows(<<>>, branch, Start - 1)
      BY <1>2, <3>2, UptoSplits DEF Shadows
    <3>. QED  BY <1>1, <1>2, <3>1, <3>2, <3>3 DEF DiskInv, Reach, chainVars
  <2>2. CASE ~fresh
    <3>1. Held' = Held
      BY <1>1, <2>2 DEF Begin, Held, diskVars
    <3>2. Reach' = Reach
      BY <1>1 DEF Reach
    <3>. QED  BY <3>1, <3>2 DEF HistoryInv, DiskInv
  <2>. QED  BY <2>1, <2>2
<1>4. TipInv'
  BY <1>1, <1>2 DEF TipInv
<1>. QED  BY <1>1, <1>3, <1>4 DEF HistoryInv, VerifyInv, SearchInv, FetchInv, ReadInv

(* Open leaves a whole history of some branch, or refuses the file. *)
LEMMA HistoryOpen ==
    ASSUME HistoryInv, TypeInv', Open
    PROVE  HistoryInv'
<1>1. /\ pc = "locked" /\ Load({"repair"}, "verify")
      /\ UNCHANGED <<chainVars, tip, buf, next, lo, hi, faults>>
      /\ buf = <<>> /\ file \in Seq(Records \cup {Bad}) /\ Held = file
  BY HeldType DEF Open, HistoryInv, TypeInv, TypeOK, BufferInUse
<1>2. CASE header = "other"
  <2>1. pc' = "idle" /\ Held' = Held
    BY <1>1, <1>2 DEF Load, EndRun, diskVars, Held
  <2>. QED  BY <1>1, <2>1, EndKeepsShadow
<1>3. CASE header # "other"
  <2>1. PICK b \in Branches, n \in Blocks : n <= tip /\ Shadows(file, b, n)
    BY <1>1 DEF HistoryInv, DiskInv, Reach
  <2>2. pc' = "verify" /\ \E m \in Blocks : m <= n /\ file' = Transfers(b, Start, m)
    <3>1. CASE header \in {"none", "part"}
      <4>1. file = <<>> /\ file' = file /\ pc' = "verify"
        BY <1>1, <3>1 DEF Load, HistoryInv, TypeInv, HeaderFirst
      <4>2. Start - 1 \in Blocks /\ Start - 1 <= n /\ n \in Int /\ Upto(b, Start - 1) = 0
        <5>1. Start - 1 \in Blocks /\ Start - 1 <= n /\ n \in Int
          BY BoundsAssumption DEF Blocks
        <5>. QED  BY <5>1, UptoMonotone
      <4>3. file = Transfers(b, Start, Start - 1)
        <5>1. Len(file) = 0 /\ \A i \in 1..Len(file) : file[i] = Log[b][i]
          BY <4>1
        <5>. QED  BY <1>1, <4>2, <5>1, FrontIsWhole
      <4>. QED  BY <4>1, <4>2, <4>3
    <3>2. CASE header = "ours"
      <4>1. file' = SubSeq(file, 1, Scan(file)) /\ pc' = "verify"
        BY <1>1, <3>2 DEF Load
      <4>. QED  BY <1>1, <2>1, <4>1, ScanLeavesWhole
    <3>. QED  BY <1>3, <3>1, <3>2 DEF HistoryInv, TypeInv, TypeOK
  <2>3. PICK m \in Blocks : m <= n /\ file' = Transfers(b, Start, m)
    BY <2>2
  <2>4. m <= tip' /\ tip' = tip
    BY <1>1, <2>1, <2>3, BoundsAssumption DEF Blocks, HistoryInv, TypeInv, TypeOK
  <2>5. Held' = file'
    BY <1>1, ConcatEmptySeq DEF Held, TypeInv, TypeOK
  <2>6. DiskInv'
    BY <2>2, <2>3, <2>4, <2>5, WholeShadows DEF DiskInv, Reach
  <2>7. TipInv'
    BY <1>1, <2>2 DEF HistoryInv, TipInv, Limit, chainVars
  <2>8. VerifyInv'
    BY <2>2, <2>3, <2>4 DEF VerifyInv
  <2>. QED  BY <2>2, <2>6, <2>7, <2>8 DEF HistoryInv, SearchInv, FetchInv, ReadInv
<1>. QED  BY <1>2, <1>3

(* verify compares the newest record with the chain: either all that is held is *)
(* the chain's history, or the search starts.                                   *)
LEMMA HistoryVerify ==
    ASSUME HistoryInv, TypeInv', Verify
    PROVE  HistoryInv'
<1>1. /\ pc = "verify" /\ UNCHANGED <<chainVars, diskVars, tip, buf>>
      /\ Held' = Held /\ Held = file /\ file \in Seq(Records) /\ file \in Seq(Records \cup {Bad})
      /\ tip \in Blocks /\ tip \in Int
  BY HeldType, BoundsAssumption, SeqMonotonic
     DEF Verify, Held, diskVars, HistoryInv, TypeInv, TypeOK, OpenIsGood, Blocks
<1>2. PICK b \in Branches, n \in Blocks : n <= tip /\ file = Transfers(b, Start, n)
  BY <1>1 DEF HistoryInv, VerifyInv
<1>3. /\ FirstAtOrAbove(file, tip + 1) = Len(file) /\ Len(file) \in Nat
      /\ \A i \in 1..Len(file) : file[i].block \in Int /\ file[i].block <= n
  BY <1>1, <1>2, NothingPast, LenProperties
<1>4. pc' \in {"search", "fetch"}
  BY DEF Verify
<1>5. DiskInv' /\ TipInv'
  BY <1>1, <1>4 DEF HistoryInv, DiskInv, TipInv, Reach, Limit, chainVars
<1>6. VerifyInv'
  BY <1>1, <1>2 DEF VerifyInv, diskVars
<1>7. CASE file = <<>>
  <2>1. pc' = "fetch" /\ next' = Start
    BY <1>3, <1>7 DEF Verify, ResumeAfter
  <2>2. Start - 1 \in Blocks /\ Start <= tip + 1
    BY <1>1, BoundsAssumption DEF Blocks
  <2>3. branch \in Branches /\ Upto(branch, Start - 1) = 0
    <3>1. branch \in Branches /\ Start - 1 <= Start - 1
      BY BoundsAssumption DEF HistoryInv, TypeInv, TypeOK
    <3>. QED  BY <2>2, <3>1, UptoMonotone
  <2>4. file = Transfers(branch, Start, Start - 1)
    <3>1. Len(file) = 0 /\ \A i \in 1..Len(file) : file[i] = Log[branch][i]
      BY <1>7
    <3>. QED  BY <1>1, <2>2, <2>3, <3>1, FrontIsWhole
  <2>5. FetchInv'
    BY <1>1, <2>1, <2>2, <2>4 DEF FetchInv, chainVars, diskVars
  <2>. QED  BY <1>5, <1>6, <2>1, <2>5 DEF HistoryInv, SearchInv, ReadInv
<1>8. CASE file # <<>> /\ OnChain(file[Len(file)])
  <2>1. Len(file) \in Nat \ {0} /\ pc' = "fetch" /\ next' = ResumeAfter(file)
    BY <1>1, <1>3, <1>8, EmptySeq DEF Verify
  <2>. DEFINE m == file[Len(file)].block
  <2>2. /\ Len(file) = Upto(b, n) /\ Upto(b, n) \in 0..Len(Log[b])
        /\ \A i \in 1..Len(file) : file[i] = Log[b][i]
    BY <1>2, WholeIsFront, UptoSplits
  <2>3. Upto(b, m) = Len(file)
    BY <1>2, <1>8, LastClosesBlock
  <2>4. branch \in Branches /\ Chain[branch][m] = file[Len(file)].hash
    BY <1>8 DEF OnChain, HistoryInv, TypeInv, TypeOK
  <2>5. Len(file) \in 1..Len(Log[b])
    BY <2>1, <2>2, LogAssumption, LenProperties
  <2>6. m \in Blocks /\ file = Transfers(branch, Start, m)
    BY <1>1, <2>2, <2>3, <2>4, <2>5, AdoptBranch
  <2>7. m \in Int /\ m <= tip /\ n \in Int
    BY <1>1, <1>2, <1>3, <2>1, BoundsAssumption DEF Blocks
  <2>8. next' = m + 1
    BY <1>1, <1>8, <2>1, <2>7 DEF ResumeAfter
  <2>9. FetchInv'
    <3>1. next' <= tip' + 1 /\ next' - 1 = m
      BY <1>1, <2>7, <2>8
    <3>. QED  BY <1>1, <2>6, <3>1 DEF FetchInv, chainVars
  <2>. QED  BY <1>5, <1>6, <2>1, <2>9 DEF HistoryInv, SearchInv, ReadInv
<1>9. CASE file # <<>> /\ ~OnChain(file[Len(file)])
  <2>1. Len(file) \in Nat \ {0} /\ pc' = "search" /\ lo' = 0 /\ hi' = Len(file)
    BY <1>1, <1>3, <1>9, EmptySeq DEF Verify
  <2>2. SearchInv'
    BY <1>1, <1>9, <2>1 DEF SearchInv, OnChain, chainVars, diskVars
  <2>. QED  BY <1>5, <1>6, <2>1, <2>2 DEF HistoryInv, FetchInv, ReadInv
<1>. QED  BY <1>7, <1>8, <1>9

(* A probe moves one bound of the search, and what it learns of one record holds *)
(* of all those before it, or of all those after it.                             *)
LEMMA HistoryProbe ==
    ASSUME HistoryInv, TypeInv', Probe
    PROVE  HistoryInv'
<1>1. /\ pc = "search" /\ lo < hi /\ UNCHANGED <<chainVars, diskVars, pc, tip, buf>>
      /\ Held' = Held /\ lo \in Nat /\ hi \in Nat
  BY DEF Probe, Held, diskVars, HistoryInv, TypeInv, TypeOK
<1>2. PICK b \in Branches, n \in Blocks : n <= tip /\ file = Transfers(b, Start, n)
  BY <1>1 DEF HistoryInv, VerifyInv
<1>3. /\ Len(file) \in Nat /\ Len(file) <= Len(Log[b]) /\ Len(Log[b]) \in Nat
      /\ \A i \in 1..Len(file) : file[i] = Log[b][i]
  BY <1>2, WholeIsFront, UptoSplits, LogAssumption, LenProperties
<1>4. ASSUME NEW j \in 1..Len(file), NEW i \in 1..j, OnChain(file[j])
      PROVE  OnChain(file[i])
  <2>1. j \in 1..Len(Log[b]) /\ i \in 1..Len(file)
    BY <1>3
  <2>2. branch \in Branches
    BY DEF HistoryInv, TypeInv, TypeOK
  <2>3. file[i] = Log[b][i] /\ file[j] = Log[b][j]
    BY <1>3, <2>1
  <2>4. Chain[branch][Log[b][j].block] = Log[b][j].hash
    BY <1>4, <2>3 DEF OnChain
  <2>. QED  BY <2>1, <2>2, <2>3, <2>4, LogInOrder, Zenon DEF OnChain
<1>. DEFINE mid == (lo + hi) \div 2
<1>5. mid \in Nat /\ lo <= mid /\ mid < hi
  BY <1>1
<1>6. /\ IF OnChain(file[mid + 1]) THEN lo' = mid + 1 /\ hi' = hi ELSE hi' = mid /\ lo' = lo
  BY DEF Probe
<1>. HIDE DEF mid
<1>7. /\ hi <= Len(file) /\ file # <<>> /\ ~OnChain(file[Len(file)])
      /\ \A i \in 1..lo : OnChain(file[i])
      /\ \A i \in (hi + 1)..Len(file) : ~OnChain(file[i])
  BY <1>1 DEF HistoryInv, SearchInv
<1>8. /\ lo' <= hi' /\ hi' <= Len(file)
      /\ \A i \in 1..lo' : OnChain(file[i])
      /\ \A i \in (hi' + 1)..Len(file) : ~OnChain(file[i])
  <2>1. CASE OnChain(file[mid + 1])
    <3>1. mid + 1 \in 1..Len(file) /\ lo' = mid + 1 /\ hi' = hi
      BY <1>1, <1>3, <1>5, <1>6, <1>7, <2>1
    <3>2. \A i \in 1..lo' : OnChain(file[i])
      BY <1>4, <2>1, <3>1
    <3>. QED  BY <1>1, <1>5, <1>7, <3>1, <3>2
  <2>2. CASE ~OnChain(file[mid + 1])
    <3>1. mid + 1 \in 1..Len(file) /\ hi' = mid /\ lo' = lo
      BY <1>1, <1>3, <1>5, <1>6, <1>7, <2>2
    <3>2. ASSUME NEW i \in (hi' + 1)..Len(file) PROVE ~OnChain(file[i])
      <4>1. i \in 1..Len(file) /\ mid + 1 \in 1..i
        BY <1>3, <1>5, <3>1
      <4>. QED  BY <1>4, <2>2, <4>1
    <3>. QED  BY <1>1, <1>3, <1>5, <1>7, <3>1, <3>2
  <2>. QED  BY <2>1, <2>2
<1>9. SearchInv'
  BY <1>1, <1>7, <1>8 DEF SearchInv, OnChain, chainVars, diskVars
<1>10. DiskInv' /\ TipInv' /\ VerifyInv'
  BY <1>1, <1>2 DEF HistoryInv, DiskInv, TipInv, VerifyInv, Reach, Limit, chainVars, diskVars
<1>. QED  BY <1>1, <1>9, <1>10 DEF HistoryInv, FetchInv, ReadInv

(* At the end of the search the two bounds name the fork, and Truncate cuts *)
(* exactly there.                                                           *)
LEMMA ForkFound ==
    ASSUME HistoryInv, pc = "search", lo = hi
    PROVE  /\ lo < Len(file)
           /\ FirstAtOrAbove(file, file[lo + 1].block) = lo
           /\ \A i \in 1..Len(file) : OnChain(file[i]) <=> i <= lo
           /\ lo > 0 => file[lo].block < file[lo + 1].block
<1>. lo \in Nat /\ branch \in Branches
  BY DEF HistoryInv, TypeInv, TypeOK
<1>2. PICK b \in Branches, n \in Blocks : n <= tip /\ file = Transfers(b, Start, n)
  BY DEF HistoryInv, VerifyInv
<1>3. /\ Len(file) \in Nat /\ Len(file) <= Len(Log[b]) /\ Len(Log[b]) \in Nat
      /\ \A i \in 1..Len(file) : file[i] = Log[b][i]
  BY <1>2, WholeIsFront, UptoSplits, LogAssumption, LenProperties
<1>4. /\ file # <<>> /\ ~OnChain(file[Len(file)]) /\ lo <= Len(file)
      /\ \A i \in 1..lo : OnChain(file[i])
      /\ \A i \in (lo + 1)..Len(file) : ~OnChain(file[i])
  BY DEF HistoryInv, SearchInv
<1>5. lo < Len(file)
  <2>1. Len(file) # 0
    BY <1>2, <1>4, WholeIsFront, EmptySeq
  <2>. QED  BY <1>3, <1>4, <2>1
<1>6. \A i \in 1..Len(file) : OnChain(file[i]) <=> i <= lo
  BY <1>3, <1>4
<1>7. \A i \in 1..Len(file) : /\ file[i].block \in Int
                              /\ file[i].hash = Chain[b][file[i].block]
  <2>1. ASSUME NEW i \in 1..Len(file)
        PROVE  file[i].block \in Start..MaxBlock /\ file[i].hash = Chain[b][file[i].block]
    <3>1. i \in 1..Len(Log[b]) /\ file[i] = Log[b][i]
      BY <1>3
    <3>. QED  BY <3>1, LogAssumption, Zenon
  <2>. QED  BY <2>1, BoundsAssumption
<1>8. ASSUME NEW i \in 1..lo PROVE file[i].block < file[lo + 1].block
  <2>1. i \in 1..Len(file) /\ lo + 1 \in 1..Len(file) /\ lo + 1 \in 1..Len(Log[b]) /\ i \in 1..(lo + 1)
    BY <1>3, <1>5
  <2>2. file[i].block <= file[lo + 1].block
    BY <1>3, <2>1, LogInOrder
  <2>3. OnChain(file[i]) /\ ~OnChain(file[lo + 1])
    BY <1>6, <2>1
  <2>4. file[i].block # file[lo + 1].block
    BY <1>7, <2>1, <2>3 DEF OnChain
  <2>. QED  BY <1>7, <2>1, <2>2, <2>4
<1>9. FirstAtOrAbove(file, file[lo + 1].block) = lo
  <2>. DEFINE S == {Len(file)} \cup {i \in 0..(Len(file) - 1) : file[i + 1].block >= file[lo + 1].block}
  <2>1. S \in SUBSET Nat /\ S # {}
    BY <1>3
  <2>2. lo \in S
    BY <1>3, <1>5, <1>7
  <2>3. ASSUME NEW i \in S PROVE i >= lo
    <3>1. CASE i < lo
      <4>1. i \in 0..(Len(file) - 1) /\ i + 1 \in 1..lo /\ file[i + 1].block >= file[lo + 1].block
        BY <1>3, <1>5, <3>1
      <4>2. file[i + 1].block \in Int /\ file[lo + 1].block \in Int
        BY <1>3, <1>5, <1>7, <4>1
      <4>. QED  BY <1>8, <4>1, <4>2
    <3>. QED  BY <1>3, <3>1
  <2>. HIDE DEF S
  <2>4. Min(S) \in S /\ \A y \in S : Min(S) <= y
    BY <2>1, MinIsLeast
  <2>5. Min(S) = lo
    <3>1. Min(S) \in Nat /\ Min(S) <= lo
      BY <2>1, <2>2, <2>4
    <3>2. Min(S) >= lo
      BY <2>3, <2>4
    <3>. QED  BY <3>1, <3>2
  <2>. QED  BY <2>5 DEF FirstAtOrAbove, S
<1>. QED  BY <1>5, <1>6, <1>8, <1>9

(* Truncate cuts exactly at the fork, so what is left is whole blocks of the chain. *)
LEMMA HistoryTruncate ==
    ASSUME HistoryInv, TypeInv', TruncateAtFork
    PROVE  HistoryInv'
<1>1. /\ pc = "search" /\ lo = hi /\ UNCHANGED <<chainVars, tip>>
      /\ tip \in Int /\ lo \in Nat /\ tip \in Blocks /\ branch \in Branches
      /\ file \in Seq(Records) /\ buf = <<>>
  BY BoundsAssumption
     DEF TruncateAtFork, HistoryInv, TypeInv, TypeOK, OpenIsGood, BufferInUse, Blocks, chainVars
<1>2. /\ lo < Len(file) /\ FirstAtOrAbove(file, file[lo + 1].block) = lo
      /\ \A i \in 1..Len(file) : OnChain(file[i]) <=> i <= lo
      /\ lo > 0 => file[lo].block < file[lo + 1].block
  BY <1>1, ForkFound
<1>3. /\ file' = SubSeq(file, 1, lo) /\ next' = ResumeAfter(file') /\ pc' = "fetch"
      /\ buf' = buf
  BY <1>2 DEF TruncateAtFork
<1>4. PICK b \in Branches, n \in Blocks : n <= tip /\ file = Transfers(b, Start, n)
  BY <1>1 DEF HistoryInv, VerifyInv
<1>5. /\ Len(file) \in Nat /\ Len(file) <= Len(Log[b]) /\ Len(Log[b]) \in Nat
      /\ \A i \in 1..Len(file) : file[i] = Log[b][i]
  BY <1>4, WholeIsFront, UptoSplits, LogAssumption, LenProperties
<1>6. /\ Len(file') = lo /\ \A i \in 1..lo : file'[i] = file[i]
      /\ file' \in Seq(Records) /\ file' \in Seq(Records \cup {Bad})
  <2>1. \A i \in 1..lo : file[i] \in Records
    BY <1>1, <1>2, <1>5, ElementOfSeq
  <2>. QED  BY <1>1, <1>3, <2>1, SubSeqProperties, SeqMonotonic
<1>7. \E m \in Blocks : next' = m + 1 /\ m <= tip /\ file' = Transfers(branch, Start, m)
  <2>1. CASE lo = 0
    <3>1. file' = <<>> /\ next' = Start
      BY <1>3, <1>6, <2>1, EmptySeq DEF ResumeAfter
    <3>2. Start - 1 \in Blocks /\ Start - 1 <= tip /\ Start - 1 <= Start - 1 /\ Start = (Start - 1) + 1
      BY <1>1, BoundsAssumption DEF Blocks
    <3>3. Upto(branch, Start - 1) = 0
      BY <1>1, <3>2, UptoMonotone
    <3>4. file' = Transfers(branch, Start, Start - 1)
      <4>1. Len(file') = 0 /\ \A i \in 1..Len(file') : file'[i] = Log[branch][i]
        BY <1>6, <2>1
      <4>. QED  BY <1>1, <1>6, <3>2, <3>3, <4>1, FrontIsWhole
    <3>. QED  BY <3>1, <3>2, <3>4
  <2>2. CASE lo > 0
    <3>. DEFINE m == file[lo].block
    <3>1. /\ lo \in 1..(Len(Log[b]) - 1) /\ lo \in 1..Len(Log[b]) /\ lo \in 1..Len(file)
          /\ lo + 1 \in 1..Len(file)
      BY <1>1, <1>2, <1>5, <2>2
    <3>2. Log[b][lo].block < Log[b][lo + 1].block
      BY <1>2, <1>5, <2>2, <3>1
    <3>3. Upto(b, m) = lo
      BY <1>5, <3>1, <3>2, BlockBoundary
    <3>4. file'[Len(file')] = file[lo]
      BY <1>6, <3>1
    <3>5. Chain[branch][m] = file[lo].hash
      BY <1>2, <3>1 DEF OnChain
    <3>6. m \in Blocks /\ file' = Transfers(branch, Start, m)
      <4>1. \A i \in 1..Len(file') : file'[i] = Log[b][i]
        BY <1>5, <1>6, <3>1
      <4>. QED  BY <1>1, <1>6, <3>1, <3>3, <3>4, <3>5, <4>1, AdoptBranch
    <3>7. m < tip /\ m \in Int
      <4>1. file[lo + 1].block \in Int /\ file[lo + 1].block <= n /\ m \in Int
        BY <1>1, <1>4, <3>1, NothingPast
      <4>. QED  BY <1>1, <1>2, <1>4, <2>2, <4>1, BoundsAssumption DEF Blocks
    <3>8. next' = m + 1
      <4>1. file' # <<>> /\ file'[Len(file')].block = m /\ tip' = tip
        BY <1>1, <1>6, <2>2, <3>4, EmptySeq
      <4>2. ResumeAfter(file') = m + 1
        BY <1>1, <3>7, <4>1 DEF ResumeAfter
      <4>. QED  BY <1>3, <4>2
    <3>. QED  BY <1>1, <3>6, <3>7, <3>8
  <2>. QED  BY <1>1, <2>1, <2>2
<1>8. PICK m \in Blocks : next' = m + 1 /\ m <= tip /\ file' = Transfers(branch, Start, m)
  BY <1>7
<1>9. Held' = file' /\ m \in Int
  BY <1>1, <1>3, <1>6, ConcatEmptySeq, BoundsAssumption DEF Held, Blocks
<1>10. FetchInv'
  <2>1. next' <= tip' + 1 /\ next' - 1 = m
    BY <1>1, <1>8, <1>9
  <2>. QED  BY <1>1, <1>8, <1>9, <2>1 DEF FetchInv, chainVars
<1>11. DiskInv' /\ TipInv'
  BY <1>1, <1>3, <1>8, <1>9, WholeShadows DEF HistoryInv, DiskInv, TipInv, Reach, Limit, chainVars
<1>. QED  BY <1>3, <1>10, <1>11 DEF HistoryInv, VerifyInv, SearchInv, ReadInv

(* Two adjacent reads of a branch are one longer read. *)
LEMMA ReadsJoin ==
    ASSUME NEW b \in Branches, NEW m \in Blocks, NEW n \in Blocks, m <= n
    PROVE  Transfers(b, Start, m) \o Transfers(b, m + 1, n) = Transfers(b, Start, n)
<1>. m \in Int /\ n \in Int
  BY BoundsAssumption DEF Blocks
<1>1. /\ Upto(b, Start - 1) = 0 /\ Upto(b, m) <= Upto(b, n)
      /\ Upto(b, m) \in 0..Len(Log[b]) /\ Upto(b, n) \in 0..Len(Log[b])
      /\ Log[b] \in Seq(Records) /\ Len(Log[b]) \in Nat
  BY UptoMonotone, UptoSplits, LogAssumption, LenProperties
<1>2. Upto(b, Start - 1) + 1 = 1 /\ (m + 1) - 1 = m
  BY <1>1
<1>3. SubSeq(Log[b], 1, Upto(b, m)) \o SubSeq(Log[b], Upto(b, m) + 1, Upto(b, n))
        = SubSeq(Log[b], 1, Upto(b, n))
  <2>1. /\ 1 \in 1..(Len(Log[b]) + 1) /\ Upto(b, m) \in (1 - 1)..Len(Log[b])
        /\ Upto(b, n) \in Upto(b, m)..Len(Log[b])
    BY <1>1
  <2>. QED  BY <1>1, <2>1, ConcatAdjacentSubSeq
<1>. QED  BY <1>2, <1>3, Zenon DEF Transfers

(* A chunk extends the history, and whether it is checkpointed makes no *)
(* difference to what is held.                                          *)
LEMMA HistoryFetch ==
    ASSUME HistoryInv, TypeInv', Fetch
    PROVE  HistoryInv'
<1>. DEFINE end   == IF tip - next >= Chunk THEN next + Chunk - 1 ELSE tip
            batch == Transfers(branch, next, end)
<1>1. /\ pc = "fetch" /\ next <= tip /\ UNCHANGED <<chainVars, tip>>
      /\ next \in Int /\ tip \in Blocks /\ tip \in Int /\ branch \in Branches
      /\ next \in Start..(MaxBlock + 1)
  BY BoundsAssumption DEF Fetch, HistoryInv, TypeInv, TypeOK, Blocks
<1>2. end \in Blocks /\ end \in Int /\ next - 1 \in Blocks /\ next - 1 <= end /\ end <= tip
  BY <1>1, BoundsAssumption DEF Blocks
<1>. HIDE DEF end
<1>3. Held = Transfers(branch, Start, next - 1)
  BY <1>1 DEF HistoryInv, FetchInv
<1>4. Held \o batch = Transfers(branch, Start, end)
  <2>1. (next - 1) + 1 = next
    BY <1>1
  <2>2. Transfers(branch, Start, next - 1) \o Transfers(branch, (next - 1) + 1, end) = Transfers(branch, Start, end)
    BY <1>1, <1>2, ReadsJoin
  <2>. QED  BY <1>3, <2>1, <2>2
<1>5. /\ file \in Seq(Records) /\ buf \in Seq(Records) /\ batch \in Seq(Records)
      /\ Held \in Seq(Records)
  BY <1>1, <1>2, TransfersType, HeldType DEF HistoryInv, TypeInv, TypeOK, OpenIsGood
<1>. HIDE DEF batch
<1>6. CASE Forward(Held, batch)
  <2>1. /\ next' = end + 1 /\ pc' = pc
        /\ \/ file' = Held \o batch /\ buf' = <<>>
           \/ buf' = buf \o batch /\ UNCHANGED file
    BY <1>6 DEF Fetch, end, batch
  <2>2. Held' = Held \o batch
    <3>1. CASE file' = Held \o batch /\ buf' = <<>>
      <4>1. Held' = (Held \o batch) \o <<>> /\ Held \o batch \in Seq(Records)
        BY <1>5, <3>1, ConcatProperties DEF Held
      <4>. QED  BY <4>1, ConcatEmptySeq
    <3>2. CASE buf' = buf \o batch /\ UNCHANGED file
      <4>1. Held' = file \o (buf \o batch) /\ Held \o batch = (file \o buf) \o batch
        BY <3>2 DEF Held
      <4>. QED  BY <1>5, <4>1, ConcatAssociative
    <3>. QED  BY <2>1, <3>1, <3>2
  <2>3. FetchInv'
    <3>1. next' <= tip' + 1 /\ next' - 1 = end
      BY <1>1, <1>2, <2>1
    <3>. QED  BY <1>1, <1>4, <2>2, <3>1 DEF FetchInv, chainVars
  <2>4. DiskInv' /\ TipInv'
    BY <1>1, <1>2, <1>4, <2>1, <2>2, WholeShadows DEF HistoryInv, DiskInv, TipInv, Reach, Limit, chainVars
  <2>. QED  BY <1>1, <2>1, <2>3, <2>4 DEF HistoryInv, VerifyInv, SearchInv, ReadInv
<1>7. CASE ~Forward(Held, batch)
  <2>1. CloseCache /\ pc' = "idle"
    BY <1>7 DEF Fetch, EndRun, end, batch
  <2>. QED  BY <1>1, <2>1, CloseKeepsHeld, EndKeepsShadow
<1>. QED  BY <1>6, <1>7

(* The chunk loop is done at the tip, and Close writes it all. *)
LEMMA HistoryClose ==
    ASSUME HistoryInv, TypeInv', Close
    PROVE  HistoryInv'
<1>1. /\ pc = "fetch" /\ pc' = "reopen" /\ next > tip /\ CloseCache
      /\ UNCHANGED <<chainVars, tip>>
      /\ next \in Int /\ tip \in Blocks /\ tip \in Int /\ branch \in Branches
  BY BoundsAssumption DEF Close, HistoryInv, TypeInv, TypeOK, Blocks
<1>2. next <= tip + 1 /\ Held = Transfers(branch, Start, next - 1)
  BY <1>1 DEF HistoryInv, FetchInv
<1>3. next - 1 = tip
  BY <1>1, <1>2
<1>4. Held' = Held /\ file' = Transfers(branch, Start, tip)
  BY <1>1, <1>2, <1>3, CloseKeepsHeld
<1>5. ReadInv'
  <2>1. Len(file') = Upto(branch, tip) /\ \A i \in 1..Len(file') : file'[i] = Log[branch][i]
    BY <1>1, <1>4, WholeIsFront
  <2>. QED  BY <1>1, <2>1 DEF ReadInv, chainVars
<1>6. DiskInv' /\ TipInv'
  BY <1>1, <1>4 DEF HistoryInv, DiskInv, TipInv, Reach, Limit, chainVars
<1>. QED  BY <1>1, <1>5, <1>6 DEF HistoryInv, VerifyInv, SearchInv, FetchInv

(* The second Open finds nothing to repair. *)
LEMMA HistoryReopen ==
    ASSUME HistoryInv, TypeInv', Reopen
    PROVE  HistoryInv'
<1>1. /\ pc = "reopen" /\ Load({}, "each") /\ UNCHANGED <<chainVars, tip, buf>>
      /\ file \in Seq(Records \cup {Bad}) /\ branch \in Branches /\ tip \in Blocks
  BY DEF Reopen, HistoryInv, TypeInv, TypeOK
<1>2. /\ Len(file) = Upto(branch, tip) /\ \A i \in 1..Len(file) : file[i] = Log[branch][i]
  BY <1>1 DEF HistoryInv, ReadInv
<1>3. Clean(file)
  <2>. SUFFICES ASSUME NEW i \in 1..Len(file) PROVE Readable(file, i)
    BY DEF Clean
  <2>1. /\ Len(file) <= Len(Log[branch]) /\ Len(file) \in Nat /\ Len(Log[branch]) \in Nat
    BY <1>1, <1>2, UptoSplits, LogAssumption, LenProperties
  <2>2. i \in 1..Len(Log[branch]) /\ file[i] = Log[branch][i]
    BY <1>2, <2>1
  <2>3. Log[branch][i] \in Records
    BY <1>1, <2>2, LogAssumption, ElementOfSeq
  <2>4. file[i] # Bad /\ file[i].block >= Start
    BY <2>2, <2>3, RecordBlock, BoundsAssumption
  <2>5. i > 1 => file[i - 1].block <= file[i].block
    <3>. SUFFICES ASSUME i > 1 PROVE file[i - 1].block <= file[i].block
      OBVIOUS
    <3>1. i - 1 \in 1..i /\ i - 1 \in 1..Len(file)
      BY <2>1
    <3>. QED  BY <1>1, <1>2, <2>2, <3>1, LogInOrder
  <2>. QED  BY <2>4, <2>5 DEF Readable
<1>4. UNCHANGED file /\ pc' \in {"idle", "each"}
  <2>1. SubSeq(file, 1, Scan(file)) = file
    BY <1>1, <1>3, SubSeqFull DEF Scan
  <2>. QED  BY <1>1, <2>1 DEF Load, EndRun, diskVars
<1>5. Held' = Held
  BY <1>1, <1>4 DEF Held
<1>6. CASE pc' = "idle"
  BY <1>1, <1>5, <1>6, EndKeepsShadow
<1>7. CASE pc' = "each"
  <2>1. ReadInv'
    BY <1>1, <1>2, <1>4, <1>7 DEF ReadInv, chainVars
  <2>2. DiskInv' /\ TipInv'
    BY <1>1, <1>5, <1>7 DEF HistoryInv, DiskInv, TipInv, Reach, Limit, chainVars
  <2>. QED  BY <1>7, <2>1, <2>2 DEF HistoryInv, VerifyInv, SearchInv, FetchInv
<1>. QED  BY <1>4, <1>6, <1>7

(* What goes wrong leaves a shadow of some branch's log. *)
LEMMA HistoryFault ==
    ASSUME Steady, HistoryInv, TypeInv', ReadFails \/ Kill \/ PowerLoss \/ Rot
    PROVE  HistoryInv'
<1>1. CASE ReadFails
  <2>1. CloseCache /\ pc' = "idle" /\ pc # "idle" /\ UNCHANGED chainVars
    BY <1>1 DEF ReadFails, EndRun
  <2>. QED  BY <2>1, CloseKeepsHeld, EndKeepsShadow
<1>2. CASE Kill \/ PowerLoss
  <2>1. /\ pc' = "idle" /\ buf' = <<>> /\ UNCHANGED chainVars
        /\ file' \in Cuts(Held, Len(file)) \/ file' \in Cuts(Held, durable)
    BY <1>2 DEF Kill, PowerLoss, Die
  <2>2. /\ Held \in Seq(Records \cup {Bad}) /\ Len(file) \in 0..Len(Held) /\ durable \in 0..Len(Held)
        /\ file' \in Seq(Records \cup {Bad})
    <3>1. Held \in Seq(Records \cup {Bad}) /\ Len(Held) \in Nat /\ Len(file) <= Len(Held)
      BY HeldType DEF HistoryInv
    <3>2. file \in Seq(Records \cup {Bad}) /\ durable \in 0..Len(file) /\ file' \in Seq(Records \cup {Bad})
      BY DEF HistoryInv, TypeInv, TypeOK
    <3>. QED  BY <3>1, <3>2, LenProperties
  <2>3. PICK b \in Branches, n \in Blocks : n <= Reach /\ Shadows(Held, b, n)
    BY DEF HistoryInv, DiskInv
  <2>4. Shadows(file', b, n)
    BY <2>1, <2>2, <2>3, CutShadows
  <2>5. Held' = file'
    BY <2>1, <2>2, ConcatEmptySeq DEF Held
  <2>6. n <= Reach'
    <3>1. /\ Limit' = Limit /\ Limit \in Int /\ tip \in Int /\ n \in Int /\ (pc # "idle" => tip <= Limit)
      BY <2>1, BoundsAssumption DEF HistoryInv, TipInv, TypeInv, TypeOK, Limit, chainVars, Blocks
    <3>. QED  BY <2>1, <2>3, <3>1 DEF Reach
  <2>7. DiskInv'
    BY <2>3, <2>4, <2>5, <2>6 DEF DiskInv
  <2>. QED  BY <2>1, <2>7 DEF HistoryInv, TipInv, VerifyInv, SearchInv, FetchInv, ReadInv
<1>3. CASE Rot
  <2>1. /\ pc \in {"idle", "each"} /\ UNCHANGED <<chainVars, runVars>>
    BY <1>3, BoundsAssumption DEF Rot, Steady
  <2>2. file' = file \/ \E i \in 1..Len(file) : file' = [file EXCEPT ![i] = Bad]
    BY <1>3 DEF Rot
  <2>3. /\ Held = file /\ Held' = file' /\ file \in Seq(Records \cup {Bad})
    BY <2>1, HeldType, ConcatEmptySeq DEF HistoryInv, TypeInv, TypeOK, BufferInUse, Held, runVars
  <2>4. DiskInv'
    <3>1. PICK b \in Branches, n \in Blocks : n <= Reach /\ Shadows(file, b, n)
      BY <2>3 DEF HistoryInv, DiskInv
    <3>2. Shadows(file', b, n)
      BY <2>2, <2>3, <3>1, RotShadows
    <3>3. Reach' = Reach
      BY <2>1 DEF Reach, Limit, chainVars, runVars
    <3>. QED  BY <2>3, <3>1, <3>2, <3>3 DEF DiskInv
  <2>5. ReadInv'
    <3>1. Len(file') = Len(file) /\ \A i \in 1..Len(file) : file'[i] \in {Bad, file[i]}
      BY <2>2, <2>3, ExceptSeq
    <3>. QED  BY <2>1, <3>1 DEF HistoryInv, ReadInv, chainVars, runVars
  <2>6. TipInv'
    BY <2>1 DEF HistoryInv, TipInv, Limit, chainVars, runVars
  <2>. QED  BY <2>1, <2>4, <2>5, <2>6 DEF HistoryInv, VerifyInv, SearchInv, FetchInv, runVars
<1>. QED  BY <1>1, <1>2, <1>3

(* Reading the records back changes nothing on disk. *)
LEMMA HistoryEach ==
    ASSUME HistoryInv, TypeInv', Each
    PROVE  HistoryInv'
<1>1. CloseCache /\ pc = "each" /\ pc' = "idle" /\ UNCHANGED chainVars
  BY DEF Each, EndRun
<1>. QED  BY <1>1, CloseKeepsHeld, EndKeepsShadow

(* One step keeps the history invariant. *)
LEMMA HistoryNext == ASSUME Steady, HistoryInv, [Next]_vars PROVE HistoryInv'
<1>1. TypeInv'
  BY TypeNext DEF HistoryInv
<1>2. CASE Next
  BY <1>1, <1>2, HistoryChain, HistoryBegin, HistoryOpen, HistoryVerify, HistoryProbe, HistoryTruncate,
     HistoryFetch, HistoryClose, HistoryReopen, HistoryEach, HistoryFault DEF Next, Run
<1>3. CASE UNCHANGED vars
  BY <1>3 DEF HistoryInv, TypeInv, TypeOK, OpenIsGood, HeaderFirst, BufferInUse, TipInv, DiskInv,
     VerifyInv, SearchInv, FetchInv, ReadInv, Held, Reach, Limit, OnChain, vars, chainVars, diskVars, runVars
<1>. QED  BY <1>2, <1>3

-----------------------------------------------------------------------------
(* From a successful Open on, the Cache holds whole blocks of one branch, from *)
(* the start block on, after any number of kills, power losses and flipped     *)
(* bits: repair never keeps half a block.                                      *)
THEOREM OpenedHoldsWholeBlocks == ASSUME Steady PROVE Spec => []WholeBlocks
<1>1. Init => HistoryInv
  BY HistoryInit
<1>2. HistoryInv /\ [Next]_vars => HistoryInv'
  BY HistoryNext
<1>3. HistoryInv => WholeBlocks
  <2>. SUFFICES ASSUME HistoryInv, pc \in {"verify", "search", "fetch"}
                PROVE  \E b \in Branches, n \in Blocks : Held = Transfers(b, Start, n)
    BY DEF WholeBlocks
  <2>1. CASE pc \in {"verify", "search"}
    <3>1. Held = file
      BY <2>1, HeldType DEF HistoryInv
    <3>. QED  BY <2>1, <3>1 DEF HistoryInv, VerifyInv
  <2>2. CASE pc = "fetch"
    <3>1. next - 1 \in Blocks /\ branch \in Branches
      BY BoundsAssumption DEF HistoryInv, TypeInv, TypeOK, Blocks
    <3>. QED  BY <2>2, <3>1 DEF HistoryInv, FetchInv
  <2>. QED  BY <2>1, <2>2
<1>. QED  BY <1>1, <1>2, <1>3, PTL DEF Spec

(* What a run that succeeds hands to the rules is exactly what the chain carries *)
(* from the start block through the run's tip.                                   *)
THEOREM SuccessIsTheChainsHistory == ASSUME Steady PROVE Spec => HistoryExact
<1>1. Init => HistoryInv
  BY HistoryInit
<1>2. HistoryInv /\ [Next]_vars => HistoryInv'
  BY HistoryNext
<1>3. ASSUME HistoryInv, [Next]_vars, result' = "ok", result # "ok"
      PROVE  SubSeq(history', 1, FirstAtOrAbove(history', tip + 1)) = Transfers(branch, Start, tip)
  <2>1. Each
    BY <1>3 DEF Next, Run, Grow, Settle, Reorg, Begin, Open, Verify, Probe, TruncateAtFork, Fetch, Close,
       Reopen, ReadFails, Kill, PowerLoss, Rot, Load, EndRun, Die, vars, runVars
  <2>2. /\ pc = "each" /\ history' = file /\ \A i \in 1..Len(file) : file[i] # Bad
    BY <1>3, <2>1 DEF Each, EndRun
  <2>3. /\ branch \in Branches /\ tip \in Blocks /\ tip <= tip
        /\ file \in Seq(Records \cup {Bad})
    BY <1>3, BoundsAssumption DEF HistoryInv, TypeInv, TypeOK, Blocks
  <2>4. Len(file) = Upto(branch, tip) /\ \A i \in 1..Len(file) : file[i] = Log[branch][i]
    BY <1>3, <2>2 DEF HistoryInv, ReadInv
  <2>5. file = Transfers(branch, Start, tip)
    BY <2>3, <2>4, FrontIsWhole
  <2>6. FirstAtOrAbove(file, tip + 1) = Len(file)
    BY <2>3, <2>5, NothingPast
  <2>. QED  BY <2>2, <2>3, <2>5, <2>6, SubSeqFull
<1>4. HistoryInv /\ [Next]_vars =>
        [(result' = "ok" /\ result # "ok") =>
          SubSeq(history', 1, FirstAtOrAbove(history', tip + 1)) = Transfers(branch, Start, tip)]_vars
  BY <1>3
<1>. QED  BY <1>1, <1>2, <1>4, PTL DEF Spec, HistoryExact

(* verify's binary search, each probe a separate read, ends at the fork: Truncate *)
(* drops exactly the records that are no longer on the chain.                     *)
THEOREM SearchFindsTheFork == ASSUME Steady PROVE Spec => ForkExact
<1>1. Init => HistoryInv
  BY HistoryInit
<1>2. HistoryInv /\ [Next]_vars => HistoryInv'
  BY HistoryNext
<1>3. ASSUME HistoryInv, [Next]_vars, "reorg" \in did', "reorg" \notin did
      PROVE  /\ Len(file') < Len(file)
             /\ \A i \in 1..Len(file) : OnChain(file[i]) <=> i <= Len(file')
  <2>1. TruncateAtFork /\ lo < Len(file)
    BY <1>3 DEF Next, Run, Grow, Settle, Reorg, Begin, Open, Verify, Probe, TruncateAtFork, Fetch, Close,
       Reopen, Each, ReadFails, Kill, PowerLoss, Rot, Load, EndRun, Die, vars, runVars
  <2>2. /\ FirstAtOrAbove(file, file[lo + 1].block) = lo
        /\ \A i \in 1..Len(file) : OnChain(file[i]) <=> i <= lo
    BY <1>3, <2>1, ForkFound DEF TruncateAtFork
  <2>3. file' = SubSeq(file, 1, lo) /\ lo \in Nat
    BY <1>3, <2>1, <2>2 DEF TruncateAtFork, HistoryInv, TypeInv, TypeOK
  <2>4. Len(file') = lo
    <3>1. file \in Seq(Records \cup {Bad}) /\ Len(file) \in Nat
      BY <1>3, LenProperties DEF HistoryInv, TypeInv, TypeOK
    <3>2. \A i \in 1..lo : file[i] \in Records \cup {Bad}
      BY <2>1, <2>3, <3>1, ElementOfSeq
    <3>. QED  BY <2>3, <3>2, SubSeqProperties
  <2>. QED  BY <2>1, <2>2, <2>4
<1>4. HistoryInv /\ [Next]_vars =>
        [("reorg" \in did' /\ "reorg" \notin did) =>
          /\ Len(file') < Len(file)
          /\ \A i \in 1..Len(file) : OnChain(file[i]) <=> i <= Len(file')]_vars
  BY <1>3
<1>. QED  BY <1>1, <1>2, <1>4, PTL DEF Spec, ForkExact
=============================================================================
