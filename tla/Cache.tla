------------------------------- MODULE Cache -------------------------------
(***************************************************************************)
(* The Cache: the Verifier's append-only log of NUTZ transfers, and the    *)
(* run of the Engine that opens it, verifies it against the chain, repairs *)
(* it, brings it to a tip and reads it back (cache/cache.go, cache/sync.go *)
(* and Engine.Sync of epoch/engine.go).                                    *)
(*                                                                         *)
(* Around it: a chain that grows, settles and reorganises, a process that  *)
(* is killed, a machine that loses power, a disk that loses bits.          *)
(***************************************************************************)
EXTENDS Integers, Sequences, FiniteSetsExt

CONSTANTS
    Branches,      \* the chains the node may follow
    Chain,         \* Chain[b][n]: the hash of block n on branch b
    Log,           \* Log[b]: every NUTZ transfer of branch b, in (block, index) order
    Start,         \* Options.Start, the token's creation block
    MaxBlock,      \* bound: the last block of every branch
    Chunk,         \* SyncOptions.Chunk, blocks per read
    Checkpoint,    \* checkpointRecords
    Finalities,    \* the finality levels runs ask for, out of "latest" and "safe"
    MaxFaults,     \* bound: kills, power losses, flipped bits, failed reads
    ReorgMidRun,   \* may the chain reorganise while a run is under way
    AlignedCuts,   \* may a write be cut short between two records of one block
    RotPoints,     \* the pcs at which a bit of the file may flip
    Bad            \* a slot of the file that does not decode: a failing CRC or a short tail

Blocks  == (Start - 1)..MaxBlock
Records == UNION {{Log[b][i] : i \in 1..Len(Log[b])} : b \in Branches}

(* Upto(b, n) is how many transfers branch b carries through block n. *)
IsUpto(b, n, k) == \A i \in 1..Len(Log[b]) : Log[b][i].block <= n <=> i <= k
Upto(b, n)      == CHOOSE k \in 0..Len(Log[b]) : IsUpto(b, n, k)

(* Reader.Transfers: the transfers of blocks lo..hi of the branch the node follows. *)
Transfers(b, lo, hi) == SubSeq(Log[b], Upto(b, lo - 1) + 1, Upto(b, hi))

ASSUME BoundsAssumption ==
    /\ Start \in Nat \ {0} /\ MaxBlock \in Nat /\ Start <= MaxBlock
    /\ Chunk \in Nat \ {0} /\ Checkpoint \in Nat \ {0} /\ MaxFaults \in Nat
    /\ Finalities \subseteq {"latest", "safe"}
    /\ ReorgMidRun \in BOOLEAN /\ AlignedCuts \in BOOLEAN
    /\ RotPoints \subseteq {"idle", "reopen", "each"}

(* Logs are in block order, a record names the block it was in, and no branch has *)
(* one twice: a transfer is known by its block and its index there.               *)
ASSUME LogAssumption ==
    /\ Branches # {}
    /\ Bad \notin Records
    /\ \A b \in Branches :
          /\ Log[b] \in Seq(Records)
          /\ \A i \in 1..Len(Log[b]) : /\ Log[b][i].block \in Start..MaxBlock
                                       /\ Log[b][i].hash = Chain[b][Log[b][i].block]
          /\ \A i, j \in 1..Len(Log[b]) : Log[b][i] = Log[b][j] => i = j
          /\ \A n \in Blocks : \E k \in 0..Len(Log[b]) : IsUpto(b, n, k)

(* A hash commits to the block's content and to its ancestors. *)
ASSUME HashAssumption ==
    \A a, b \in Branches : \A n \in Blocks :
        Chain[a][n] = Chain[b][n] =>
            /\ \A m \in Blocks : m <= n => Chain[a][m] = Chain[b][m]
            /\ Upto(a, n) = Upto(b, n)
            /\ \A i \in 1..Upto(a, n) : Log[a][i] = Log[b][i]

VARIABLES
    branch,    \* the branch the node follows,
    head,      \* its newest block
    settled,   \* and the newest block that will never be reorganised away
    header,    \* of the file: "none", "part"ial, "ours" or "other"
    file,      \* its slots, as the operating system has them
    durable,   \* how many of them a power loss cannot take
    pc,        \* where the run is; "idle" is no run
    tip,       \* the block number Head resolved for this run
    buf,       \* Cache.writer: records appended and not yet written
    next,      \* Sync's start of the next chunk
    lo, hi,    \* the bounds of verify's binary search
    did,       \* what the run did to the Cache: Synced.Repaired and Synced.Reorg
    told,      \* what Engine.Synced reports afterwards
    history,   \* Engine.history
    result,    \* of the last run: "none", "ok", "error", "killed"
    faults

chainVars == <<branch, head, settled>>
diskVars  == <<header, file, durable>>
runVars   == <<pc, tip, buf, next, lo, hi, did, told, history, result>>
vars      == <<chainVars, diskVars, runVars, faults>>

(* Cache.count and Cache.last are over what is on disk and in the buffer. *)
Held == file \o buf

-----------------------------------------------------------------------------
(* The chain (external).                                                    *)

Grow ==
    /\ head < MaxBlock
    /\ head' = head + 1
    /\ UNCHANGED <<branch, settled, diskVars, runVars, faults>>

Settle ==
    /\ settled < head
    /\ settled' = settled + 1
    /\ UNCHANGED <<branch, head, diskVars, runVars, faults>>

(* The node adopts a longer branch that keeps what was settled. *)
Reorg ==
    /\ pc = "idle" \/ ReorgMidRun
    /\ \E b \in Branches \ {branch} :
          /\ Chain[b][settled] = Chain[branch][settled]
          /\ branch' = b
    /\ head < MaxBlock
    /\ head' \in (head + 1)..MaxBlock
    /\ UNCHANGED <<settled, diskVars, runVars, faults>>

-----------------------------------------------------------------------------
(* What Open, Append, Truncate and Close do to the file.                    *)

(* scan accepts slot i, having accepted every slot before it. *)
Readable(f, i) ==
    /\ f[i] # Bad
    /\ f[i].block >= Start
    /\ (i > 1 /\ f[i - 1] # Bad) => f[i - 1].block <= f[i].block

Clean(f) == \A i \in 1..Len(f) : Readable(f, i)

(* blockStart: the records before the block of the last one scan accepted. *)
BlockStarts(f) ==
    {k \in 1..(Len(f) - 1) : /\ \A i \in 1..(k + 1) : Readable(f, i)
                             /\ f[k].block # f[k + 1].block}

(* Mutant: keep the last good record, not the last whole block. *)
ScanToRecord(f) == Max({0} \cup {k \in 1..Len(f) : \A i \in 1..k : Readable(f, i)})

(* scan and repair: how many records survive an Open. *)
Scan(f) == IF Clean(f) THEN Len(f) ELSE Max({0} \cup BlockStarts(f))

(* firstAtOrAbove: the number of records before the first from block on. *)
FirstAtOrAbove(f, block) ==
    Min({Len(f)} \cup {i \in 0..(Len(f) - 1) : f[i + 1].block >= block})

(* Append's check that a batch runs forward, from floor. *)
Forward(f, batch) ==
    /\ \A i \in 1..Len(batch) : batch[i].block >= IF f = <<>> THEN Start ELSE f[Len(f)].block
    /\ \A i \in 1..(Len(batch) - 1) : batch[i].block <= batch[i + 1].block

(* Mutant: fsync what was never flushed. *)
CloseUnflushed ==
    /\ file' = file
    /\ durable' = Len(Held)
    /\ buf' = <<>>

(* Close, and the checkpoint it starts with; the lock goes with the descriptor. *)
CloseCache ==
    /\ file' = Held
    /\ durable' = Len(Held)
    /\ buf' = <<>>

(* How a run ends: Engine.Sync keeps its report, for Synced, on success only. *)
EndRun(outcome, records) ==
    /\ pc' = "idle"
    /\ result' = outcome
    /\ history' = records
    /\ told' = IF outcome = "ok" THEN did ELSE {}

(* Mutant: a header cut short is taken for another's. *)
LoadPartRefused(repair, opened) ==
    \/ /\ header = "none"
       /\ header' = "ours"
       /\ pc' = opened
       /\ UNCHANGED <<file, durable, did, told, history, result>>
    \/ /\ header \in {"part", "other"}
       /\ EndRun("error", <<>>)
       /\ UNCHANGED <<diskVars, did>>
    \/ /\ header = "ours"
       /\ file' = SubSeq(file, 1, Scan(file))
       /\ durable' = IF Clean(file) THEN durable ELSE Scan(file)
       /\ did' = did \cup (IF Clean(file) THEN {} ELSE repair)
       /\ pc' = opened
       /\ UNCHANGED <<header, told, history, result>>

(* load: write a missing header, refuse another's, scan and repair our own. *)
Load(repair, opened) ==
    \/ /\ header \in {"none", "part"}
       /\ header' = "ours"
       /\ did' = did \cup (IF header = "part" THEN repair ELSE {})
       /\ pc' = opened
       /\ UNCHANGED <<file, durable, told, history, result>>
    \/ /\ header = "other"
       /\ EndRun("error", <<>>)
       /\ UNCHANGED <<diskVars, did>>
    \/ /\ header = "ours"
       /\ file' = SubSeq(file, 1, Scan(file))
       /\ durable' = IF Clean(file) THEN durable ELSE Scan(file)
       /\ did' = did \cup (IF Clean(file) THEN {} ELSE repair)
       /\ pc' = opened
       /\ UNCHANGED <<header, told, history, result>>

-----------------------------------------------------------------------------
(* A run: Head, then Engine.sync.                                           *)

(* Head resolves the tip; OpenFile, with O_TRUNC for --fresh, and the lock. *)
Begin(finality, fresh) ==
    /\ pc = "idle"
    /\ tip' = IF finality = "latest" THEN head ELSE settled
    /\ IF fresh THEN header' = "none" /\ file' = <<>> /\ durable' = 0
                ELSE UNCHANGED diskVars
    /\ pc' = "locked"
    /\ result' = "none"
    /\ did' = {} /\ told' = {} /\ history' = <<>>
    /\ UNCHANGED <<chainVars, buf, next, lo, hi, faults>>

Open ==
    /\ pc = "locked"
    /\ Load({"repair"}, "verify")
    /\ UNCHANGED <<chainVars, tip, buf, next, lo, hi, faults>>

(* Mutant: read the last held block again. *)
ResumeAtLast(f) ==
    IF f = <<>> THEN Start
    ELSE IF f[Len(f)].block >= tip THEN tip + 1 ELSE f[Len(f)].block

(* Where Sync resumes reading once verify is done with file f; past the tip, *)
(* it reads nothing.                                                         *)
ResumeAfter(f) ==
    IF f = <<>> THEN Start
    ELSE IF f[Len(f)].block >= tip THEN tip + 1 ELSE f[Len(f)].block + 1

OnChain(r) == Chain[branch][r.block] = r.hash

(* verify: nothing held at or below the tip, or the newest such record asked for. *)
Verify ==
    /\ pc = "verify"
    /\ LET n == FirstAtOrAbove(file, tip + 1)
       IN IF n = 0 \/ OnChain(file[n])
          THEN /\ pc' = "fetch" /\ next' = ResumeAfter(file)
               /\ UNCHANGED <<lo, hi>>
          ELSE /\ pc' = "search" /\ lo' = 0 /\ hi' = n
               /\ UNCHANGED next
    /\ UNCHANGED <<chainVars, diskVars, tip, buf, did, told, history, result, faults>>

(* Mutants: the bounds swapped, and a lower bound that does not move past mid. *)
ProbeSwapped ==
    /\ pc = "search" /\ lo < hi
    /\ LET mid == (lo + hi) \div 2
       IN IF OnChain(file[mid + 1]) THEN hi' = mid /\ UNCHANGED lo
                                    ELSE lo' = mid + 1 /\ UNCHANGED hi
    /\ UNCHANGED <<chainVars, diskVars, pc, tip, buf, next, did, told, history, result, faults>>

ProbeStuck ==
    /\ pc = "search" /\ lo < hi
    /\ LET mid == (lo + hi) \div 2
       IN IF OnChain(file[mid + 1]) THEN lo' = mid /\ UNCHANGED hi
                                    ELSE hi' = mid /\ UNCHANGED lo
    /\ UNCHANGED <<chainVars, diskVars, pc, tip, buf, next, did, told, history, result, faults>>

(* One header read of the binary search for the first record off the chain. *)
Probe ==
    /\ pc = "search" /\ lo < hi
    /\ LET mid == (lo + hi) \div 2
       IN IF OnChain(file[mid + 1]) THEN lo' = mid + 1 /\ UNCHANGED hi
                                    ELSE hi' = mid /\ UNCHANGED lo
    /\ UNCHANGED <<chainVars, diskVars, pc, tip, buf, next, did, told, history, result, faults>>

(* The search is over: Truncate from the fork block on, or fail to read the *)
(* record past the end when every probe found its block after all.          *)
TruncateAtFork ==
    /\ pc = "search" /\ lo = hi
    /\ IF lo < Len(file)
       THEN LET keep == FirstAtOrAbove(file, file[lo + 1].block)
            IN /\ file' = SubSeq(file, 1, keep)
               /\ durable' = keep
               /\ did' = did \cup {"reorg"}
               /\ next' = ResumeAfter(file')
               /\ pc' = "fetch"
               /\ UNCHANGED <<buf, told, history, result>>
       ELSE CloseCache /\ EndRun("error", <<>>) /\ UNCHANGED <<next, did>>
    /\ UNCHANGED <<chainVars, header, tip, lo, hi, faults>>

(* One chunk of Sync: read, Append, and a checkpoint when enough is pending. *)
Fetch ==
    /\ pc = "fetch" /\ next <= tip
    /\ LET end   == IF tip - next >= Chunk THEN next + Chunk - 1 ELSE tip
           batch == Transfers(branch, next, end)
       IN IF Forward(Held, batch)
          THEN /\ IF Len(buf \o batch) >= Checkpoint
                  THEN /\ file' = Held \o batch
                       /\ durable' = Len(Held \o batch)
                       /\ buf' = <<>>
                  ELSE /\ buf' = buf \o batch
                       /\ UNCHANGED <<file, durable>>
               /\ next' = end + 1
               /\ UNCHANGED <<pc, told, history, result>>
          ELSE CloseCache /\ EndRun("error", <<>>) /\ UNCHANGED next
    /\ UNCHANGED <<chainVars, header, tip, lo, hi, did, faults>>

(* Sync has reached the tip, and sync closes the file. *)
Close ==
    /\ pc = "fetch" /\ next > tip
    /\ CloseCache
    /\ pc' = "reopen"
    /\ UNCHANGED <<chainVars, header, tip, next, lo, hi, did, told, history, result, faults>>

(* The second Open of sync, which never asks what this one repaired. *)
Reopen ==
    /\ pc = "reopen"
    /\ Load({}, "each")
    /\ UNCHANGED <<chainVars, tip, buf, next, lo, hi, faults>>

(* Mutant: damage ends the read instead of failing it. *)
EachToDamage ==
    /\ pc = "each"
    /\ EndRun("ok", SubSeq(file, 1, Min({Len(file)} \cup {i - 1 : i \in {j \in 1..Len(file) : file[j] = Bad}})))
    /\ CloseCache
    /\ UNCHANGED <<chainVars, header, tip, next, lo, hi, did, faults>>

(* Each: every record again checked on the way out, or the run fails. *)
Each ==
    /\ pc = "each"
    /\ IF \E i \in 1..Len(file) : file[i] = Bad
       THEN EndRun("error", <<>>)
       ELSE EndRun("ok", file)
    /\ CloseCache
    /\ UNCHANGED <<chainVars, header, tip, next, lo, hi, did, faults>>

-----------------------------------------------------------------------------
(* What goes wrong.                                                          *)

Fault == faults < MaxFaults /\ faults' = faults + 1

(* A read fails, or the run is cancelled: the deferred Close keeps the chunks. *)
ReadFails ==
    /\ Fault
    /\ pc \in {"verify", "search", "fetch"}
    /\ CloseCache
    /\ EndRun("error", <<>>)
    /\ UNCHANGED <<chainVars, header, tip, next, lo, hi, did>>

(* What may be left of a stream of writes cut at or after slot k: whole, torn *)
(* inside a record, or between two records.                                   *)
Cuts(f, from) ==
    {SubSeq(f, 1, k) : k \in {j \in from..Len(f) :
        \/ j \in {0, Len(f)}
        \/ AlignedCuts
        \/ f[j] # Bad /\ f[j + 1] # Bad /\ f[j].block # f[j + 1].block}}
    \cup {SubSeq(f, 1, k) \o <<Bad>> : k \in from..(Len(f) - 1)}

Die ==
    /\ pc' = "idle"
    /\ buf' = <<>>
    /\ result' = IF pc = "idle" THEN result ELSE "killed"
    /\ header' \in IF pc = "locked" /\ header = "none" THEN {"none", "part"} ELSE {header}
    /\ UNCHANGED <<chainVars, tip, next, lo, hi, did, told, history>>

(* The process is killed, or a write fails short, after which bufio writes no *)
(* more: the file keeps some of the buffer.                                   *)
Kill ==
    /\ Fault
    /\ pc # "idle"
    /\ file' \in Cuts(Held, Len(file))
    /\ Die
    /\ UNCHANGED durable

(* Power is lost: whatever was not fsynced may be gone. *)
PowerLoss ==
    /\ Fault
    /\ file' \in Cuts(Held, durable)
    /\ durable' = Len(file')
    /\ Die

(* A bit of the file flips. *)
Rot ==
    /\ Fault
    /\ pc \in RotPoints
    /\ \/ /\ header = "ours"
          /\ header' = "other"
          /\ UNCHANGED file
       \/ /\ \E i \in 1..Len(file) : file' = [file EXCEPT ![i] = Bad]
          /\ UNCHANGED header
    /\ UNCHANGED <<chainVars, durable, runVars>>

-----------------------------------------------------------------------------
Init ==
    /\ branch \in Branches
    /\ head = Start /\ settled = Start - 1
    /\ header \in {"none", "other"} /\ file = <<>> /\ durable = 0
    /\ pc = "idle" /\ tip = Start - 1 /\ buf = <<>> /\ next = Start /\ lo = 0 /\ hi = 0
    /\ did = {} /\ told = {} /\ history = <<>> /\ result = "none"
    /\ faults = 0

Run == \/ Open \/ Verify \/ Probe \/ TruncateAtFork \/ Fetch \/ Close \/ Reopen \/ Each

Next ==
    \/ Grow \/ Settle \/ Reorg
    \/ \E f \in Finalities, fresh \in BOOLEAN : Begin(f, fresh)
    \/ Run
    \/ ReadFails \/ Kill \/ PowerLoss \/ Rot

Spec == Init /\ [][Next]_vars

(* Every run is driven to its end, someone runs the Verifier again and again (the *)
(* Signer does every hour), and faults are bounded by MaxFaults.                  *)
Fairness ==
    /\ WF_vars(Run)
    /\ WF_vars(\E f \in Finalities : Begin(f, FALSE))

FairSpec == Spec /\ Fairness

-----------------------------------------------------------------------------
(* What makes the Cache correct.                                             *)

(* The shapes of the variables; and never is more fsynced than was written. *)
TypeOK ==
    /\ branch \in Branches
    /\ head \in Start..MaxBlock
    /\ settled \in (Start - 1)..head
    /\ header \in {"none", "part", "ours", "other"}
    /\ file \in Seq(Records \cup {Bad})
    /\ durable \in 0..Len(file)
    /\ pc \in {"idle", "locked", "verify", "search", "fetch", "reopen", "each"}
    /\ tip \in Blocks
    /\ buf \in Seq(Records)
    /\ next \in Start..(MaxBlock + 1)
    /\ lo \in Nat /\ hi \in Nat
    /\ did \in SUBSET {"repair", "reorg"}
    /\ told \in SUBSET {"repair", "reorg"}
    /\ history \in Seq(Records)
    /\ result \in {"none", "ok", "error", "killed"}
    /\ faults \in 0..MaxFaults

(* From a successful Open on, the Cache holds whole blocks of one branch from the  *)
(* start block on: no damage, no gap, and never half a block, whenever a run was     *)
(* killed, the power failed or a record was damaged before, because repair cuts back *)
(* to a block boundary. Only a write cut exactly between two records of one block is *)
(* not repaired, having left no damage (AlignedCuts): with it the property fails.    *)
WholeBlocks ==
    pc \in {"verify", "search", "fetch"} =>
        \E b \in Branches, n \in Blocks : Held = Transfers(b, Start, n)

(* A run that succeeds hands the rules exactly the transfers the chain carries from *)
(* the start block through its tip: Engine.history, up to the tip.                  *)
HistoryExact ==
    [][(result' = "ok" /\ result # "ok") =>
          SubSeq(history', 1, FirstAtOrAbove(history', tip + 1)) = Transfers(branch, Start, tip)]_vars

(* verify's binary search finds the fork: what Truncate drops is off the chain, *)
(* what it keeps is on it.                                                      *)
ForkExact ==
    [][("reorg" \in did' /\ "reorg" \notin did) =>
          /\ Len(file') < Len(file)
          /\ \A i \in 1..Len(file) : OnChain(file[i]) <=> i <= Len(file')]_vars

(* Every run ends: Sync, its search and its chunk loop always terminate. *)
EveryRunEnds == pc # "idle" ~> pc = "idle"

(* Once faults and reorganisations stop, the Cache between runs holds the chain's *)
(* history through its tip for good, unless a refused file is never replaced with *)
(* --fresh.                                                                       *)
Converges ==
    \/ <>[](header = "other")
    \/ <>[](pc = "idle" => file = Transfers(branch, Start, head))

(* Whatever happens to the chain and to the file, a successful run's history runs *)
(* forward and holds no record twice: Append and Sync's resumption see to that.   *)
RunsForward ==
    \A i, j \in 1..Len(history) :
        i < j => history[i].block <= history[j].block /\ history[i] # history[j]

(* What a run that ended did to the Cache is what the Engine reports of it. *)
ReportComplete == pc = "idle" /\ result \in {"ok", "error"} => did \subseteq told
=============================================================================
