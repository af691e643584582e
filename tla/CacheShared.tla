---------------------------- MODULE CacheShared ----------------------------
(***************************************************************************)
(* Several runs of the Verifier on one Cache file: the Signer's hourly one *)
(* and manual ones. What keeps them apart is an advisory lock that each    *)
(* open file descriptor takes and loses (cache/lock_unix.go), and what it  *)
(* does not cover is what OpenFile does before it (cache/cache.go).        *)
(*                                                                         *)
(* The chain only grows and no byte is damaged: reorganisations, torn      *)
(* writes and repairs are the subject of Cache. Record i is the i-th       *)
(* transfer of the chain.                                                  *)
(***************************************************************************)
EXTENDS Integers, Sequences, FiniteSets

CONSTANTS
    Procs,         \* the processes
    Log,           \* Log[i]: the block of the i-th transfer
    MaxBlock,      \* bound: the last block
    Chunk,         \* SyncOptions.Chunk
    Checkpoint,    \* checkpointRecords
    Nobody         \* the lock's holder when it is free

ASSUME SharedAssumption ==
    /\ MaxBlock \in Nat \ {0} /\ Chunk \in Nat \ {0} /\ Checkpoint \in Nat \ {0}
    /\ Log \in Seq(1..MaxBlock)
    /\ \A i, j \in 1..Len(Log) : i <= j => Log[i] <= Log[j]
    /\ Nobody \notin Procs

Upto(n)       == Cardinality({i \in 1..Len(Log) : Log[i] <= n})
Reads(lo, hi) == [i \in 1..(Upto(hi) - Upto(lo - 1)) |-> Upto(lo - 1) + i]

VARIABLES
    head,      \* the newest block of the chain
    header,    \* the file's first bytes: "none" when it is empty, "ours" or "other"
    file,      \* its records
    lock,      \* the process whose descriptor holds the flock
    pc,        \* pc[p]: where the run of p is, "idle" when there is none
    fresh,     \* fresh[p]: was it started with --fresh
    pass,      \* is it at its first or its second Open
    tip,       \* the block it reads to
    held,      \* Cache.count and Cache.last: the records it believes the Cache holds
    buf,       \* Cache.writer: those not yet written
    next,      \* Sync's start of the next chunk
    history,   \* what its last run returned,
    result,    \* and how that ended
    undone     \* has another process opened the file with --fresh since p started

fileVars == <<header, file>>
runVars  == <<fresh, pass, tip>>
vars     == <<head, fileVars, lock, pc, runVars, held, buf, next, history, result, undone>>

(* The chain (external) gains a block. *)
Grow ==
    /\ head < MaxBlock
    /\ head' = head + 1
    /\ UNCHANGED <<fileVars, lock, pc, runVars, held, buf, next, history, result, undone>>

-----------------------------------------------------------------------------
(* A descriptor in O_APPEND writes at the end of the file, wherever that is by *)
(* now: in one that was emptied meanwhile, where the header should be.         *)
Write(records) ==
    /\ file' = file \o records
    /\ header' = IF header = "none" /\ records # <<>> THEN "other" ELSE header

(* Mutant: any descriptor that is closed takes the lock along. *)
CloseFileAny(p) == lock' = Nobody

(* The flock goes with the descriptor that holds it. *)
CloseFile(p) == lock' = IF lock = p THEN Nobody ELSE lock

(* The run ends; the descriptor is closed, its buffer flushed before or lost. *)
End(p, outcome, records) ==
    /\ pc' = [pc EXCEPT ![p] = "idle"]
    /\ result' = [result EXCEPT ![p] = outcome]
    /\ history' = [history EXCEPT ![p] = records]
    /\ buf' = [buf EXCEPT ![p] = <<>>]
    /\ CloseFile(p)

Goto(p, where) ==
    /\ pc' = [pc EXCEPT ![p] = where]
    /\ UNCHANGED <<lock, result, history>>

(* A run starts: Head resolves a tip, at whatever finality. *)
Begin(p, isFresh) ==
    /\ pc[p] = "idle"
    /\ \E n \in 1..head : tip' = [tip EXCEPT ![p] = n]
    /\ fresh' = [fresh EXCEPT ![p] = isFresh]
    /\ pass' = [pass EXCEPT ![p] = 1]
    /\ pc' = [pc EXCEPT ![p] = "open"]
    /\ held' = [held EXCEPT ![p] = <<>>]
    /\ next' = [next EXCEPT ![p] = 1]
    /\ result' = [result EXCEPT ![p] = "none"]
    /\ history' = [history EXCEPT ![p] = <<>>]
    /\ undone' = [undone EXCEPT ![p] = FALSE]
    /\ UNCHANGED <<head, fileVars, lock, buf>>

(* Mutant: the second Open takes the options of the first. *)
TruncatesBoth(p) == fresh[p]

(* Only the first Open of a run is told of --fresh. *)
Truncates(p) == fresh[p] /\ pass[p] = 1

(* OpenFile: O_TRUNC takes effect here, whoever holds the lock. *)
OpenFile(p) ==
    /\ pc[p] = "open"
    /\ IF Truncates(p)
       THEN /\ header' = "none" /\ file' = <<>>
            /\ undone' = [q \in Procs |-> q # p \/ undone[q]]
       ELSE UNCHANGED <<fileVars, undone>>
    /\ Goto(p, "opened")
    /\ UNCHANGED <<head, runVars, held, buf, next>>

(* Mutant: lock as lock_other.go has it, which keeps nobody out. *)
LockOther(p) ==
    /\ pc[p] = "opened"
    /\ lock' = p
    /\ pc' = [pc EXCEPT ![p] = "stat"]
    /\ UNCHANGED <<head, fileVars, runVars, held, buf, next, history, result, undone>>

(* Mutant: a process that finds the lock taken tries again. *)
LockRetried(p) ==
    /\ pc[p] = "opened"
    /\ IF lock = Nobody
       THEN lock' = p /\ pc' = [pc EXCEPT ![p] = "stat"]
       ELSE UNCHANGED <<lock, pc>>
    /\ UNCHANGED <<head, fileVars, runVars, held, buf, next, history, result, undone>>

(* flock, LOCK_EX and LOCK_NB: taken, or the run is refused. *)
Lock(p) ==
    /\ pc[p] = "opened"
    /\ IF lock = Nobody
       THEN /\ lock' = p
            /\ pc' = [pc EXCEPT ![p] = "stat"]
            /\ UNCHANGED <<buf, result, history>>
       ELSE End(p, "error", <<>>)
    /\ UNCHANGED <<head, fileVars, runVars, held, next, undone>>

(* Where load leads: Sync, or the read back. *)
Loaded(p) == IF pass[p] = 1 THEN "verify" ELSE "each"

(* load: an empty file gets its header, *)
WriteHeader(p) ==
    /\ pc[p] = "stat" /\ header = "none"
    /\ header' = "ours"
    /\ held' = [held EXCEPT ![p] = <<>>]
    /\ Goto(p, Loaded(p))
    /\ UNCHANGED <<head, file, runVars, buf, next, undone>>

(* and any other has its header checked, *)
Stat(p) ==
    /\ pc[p] = "stat" /\ header # "none"
    /\ Goto(p, "header")
    /\ UNCHANGED <<head, fileVars, runVars, held, buf, next, undone>>

(* which by now may be gone, *)
CheckHeader(p) ==
    /\ pc[p] = "header"
    /\ IF header = "ours" THEN Goto(p, "scan") /\ UNCHANGED buf
                          ELSE End(p, "error", <<>>)
    /\ UNCHANGED <<head, fileVars, runVars, held, next, undone>>

(* and its records scanned up to where the file now ends. *)
Scan(p) ==
    /\ pc[p] = "scan"
    /\ held' = [held EXCEPT ![p] = file]
    /\ Goto(p, Loaded(p))
    /\ UNCHANGED <<head, fileVars, runVars, buf, next, undone>>

(* Are the records p believes written still there to be read? *)
CanRead(p) == Len(file) + Len(buf[p]) >= Len(held[p])

(* Where Sync resumes after the last record held. *)
ResumeAfter(p) ==
    IF held[p] = <<>> THEN 1
    ELSE LET last == Log[held[p][Len(held[p])]]
         IN IF last >= tip[p] THEN tip[p] + 1 ELSE last + 1

(* verify reads the newest record at or below the tip back from the file. *)
Verify(p) ==
    /\ pc[p] = "verify"
    /\ IF CanRead(p)
       THEN /\ next' = [next EXCEPT ![p] = ResumeAfter(p)]
            /\ Goto(p, "fetch")
            /\ UNCHANGED buf
       ELSE /\ End(p, "error", <<>>)
            /\ UNCHANGED next
    /\ UNCHANGED <<head, fileVars, runVars, held, undone>>

(* One chunk of Sync, with a checkpoint when enough is pending. *)
Fetch(p) ==
    /\ pc[p] = "fetch" /\ next[p] <= tip[p]
    /\ LET end   == IF tip[p] - next[p] >= Chunk THEN next[p] + Chunk - 1 ELSE tip[p]
           batch == Reads(next[p], end)
           due   == Len(buf[p] \o batch) >= Checkpoint
       IN /\ IF due THEN Write(buf[p] \o batch) ELSE UNCHANGED fileVars
          /\ buf' = [buf EXCEPT ![p] = IF due THEN <<>> ELSE @ \o batch]
          /\ held' = [held EXCEPT ![p] = @ \o batch]
          /\ next' = [next EXCEPT ![p] = end + 1]
    /\ UNCHANGED <<head, lock, pc, runVars, history, result, undone>>

(* Sync is done: Close flushes and lets the lock go, and a second Open follows. *)
Close(p) ==
    /\ pc[p] = "fetch" /\ next[p] > tip[p]
    /\ Write(buf[p])
    /\ buf' = [buf EXCEPT ![p] = <<>>]
    /\ pass' = [pass EXCEPT ![p] = 2]
    /\ pc' = [pc EXCEPT ![p] = "open"]
    /\ CloseFile(p)
    /\ UNCHANGED <<head, fresh, tip, held, next, history, result, undone>>

(* Each reads back as many records as the second Open counted. *)
Each(p) ==
    /\ pc[p] = "each"
    /\ IF CanRead(p) THEN End(p, "ok", SubSeq(file, 1, Len(held[p])))
                     ELSE End(p, "error", <<>>)
    /\ UNCHANGED <<head, fileVars, runVars, held, next, undone>>

(* A read of the chain fails; the deferred Close flushes what was appended. *)
ReadFails(p) ==
    /\ pc[p] \in {"verify", "fetch"}
    /\ Write(buf[p])
    /\ End(p, "error", <<>>)
    /\ UNCHANGED <<head, runVars, held, next, undone>>

(* The process is killed, and its buffer lost. *)
Kill(p) ==
    /\ pc[p] # "idle"
    /\ End(p, "killed", <<>>)
    /\ UNCHANGED <<head, fileVars, runVars, held, next, undone>>

-----------------------------------------------------------------------------
Init ==
    /\ head = 1
    /\ header \in {"none", "other"} /\ file = <<>>
    /\ lock = Nobody
    /\ pc = [p \in Procs |-> "idle"]
    /\ fresh = [p \in Procs |-> FALSE] /\ pass = [p \in Procs |-> 1]
    /\ tip = [p \in Procs |-> 1] /\ next = [p \in Procs |-> 1]
    /\ held = [p \in Procs |-> <<>>] /\ buf = [p \in Procs |-> <<>>]
    /\ history = [p \in Procs |-> <<>>] /\ result = [p \in Procs |-> "none"]
    /\ undone = [p \in Procs |-> FALSE]

Run(p) ==
    \/ OpenFile(p) \/ Lock(p)
    \/ WriteHeader(p) \/ Stat(p) \/ CheckHeader(p) \/ Scan(p)
    \/ Verify(p) \/ Fetch(p) \/ Close(p) \/ Each(p)

Next ==
    \/ Grow
    \/ \E p \in Procs :
          \/ \E isFresh \in BOOLEAN : Begin(p, isFresh)
          \/ Run(p) \/ ReadFails(p) \/ Kill(p)

Spec == Init /\ [][Next]_vars

(* Nothing in a run waits for another process: the lock does not block. *)
FairSpec == Spec /\ \A p \in Procs : WF_vars(Run(p))

-----------------------------------------------------------------------------
(* The transfers through block n. *)
Prefix(n) == Reads(1, n)

(* The shapes of the variables; and whoever is between the lock and its Close *)
(* holds the lock.                                                            *)
TypeOK ==
    /\ head \in 1..MaxBlock
    /\ header \in {"none", "ours", "other"} /\ file \in Seq(1..Len(Log))
    /\ lock \in Procs \cup {Nobody}
    /\ pc \in [Procs -> {"idle", "open", "opened", "stat", "header", "scan", "verify", "fetch", "each"}]
    /\ fresh \in [Procs -> BOOLEAN] /\ undone \in [Procs -> BOOLEAN]
    /\ pass \in [Procs -> {1, 2}]
    /\ tip \in [Procs -> 1..MaxBlock] /\ next \in [Procs -> 1..(MaxBlock + 1)]
    /\ held \in [Procs -> Seq(1..Len(Log))] /\ buf \in [Procs -> Seq(1..Len(Log))]
    /\ history \in [Procs -> Seq(1..Len(Log))]
    /\ result \in [Procs -> {"none", "ok", "error", "killed"}]
    /\ \A p \in Procs : pc[p] \notin {"idle", "open", "opened"} => lock = p

(* A file that opens as a Cache is whole blocks of the history from the start on, *)
(* whatever processes ran at once, were refused, were killed or emptied the file  *)
(* under each other: the records of two writers never interleave, and what is     *)
(* appended to a file that was emptied can never pass for a Cache.                *)
NeverInterleaved ==
    header = "ours" => \E n \in 0..MaxBlock : file = Prefix(n)

(* A run that succeeds returns the history through its tip at least, although it *)
(* gives up the lock between writing the records and reading them back; only a   *)
(* --fresh of another process since it started can leave it with less, and even  *)
(* then with whole blocks from the start on.                                     *)
ReadsBackItsHistory ==
    [][\A p \in Procs : (result'[p] = "ok" /\ result[p] # "ok") =>
          \E n \in 0..MaxBlock : /\ history'[p] = Prefix(n)
                                 /\ n >= tip[p] \/ undone[p]]_vars

(* Every run ends, by success, refusal or error, whoever holds the lock. *)
EveryRunEnds == \A p \in Procs : pc[p] # "idle" ~> pc[p] = "idle"

(* While a process holds the lock, nobody else changes the file. *)
HolderAloneWrites ==
    [][\A p \in Procs :
          (lock = p /\ UNCHANGED <<pc[p], next[p]>>) => UNCHANGED fileVars]_vars
=============================================================================
