------------------------------- MODULE FanOut -------------------------------
(***************************************************************************)
(* The Reader's concurrency: Timestamps spreads its header batches over a  *)
(* bounded pool (inParallel), every batch is asked of all endpoints at     *)
(* once (crossCheck, eachEndpoint), and at both levels the first failure   *)
(* is kept and cancels the rest (firstFailure). All of chain/reader.go.    *)
(***************************************************************************)
EXTENDS Integers, FiniteSets

CONSTANTS
    Endpoints,     \* at least two: a single one is asked with no fan-out
    Workers,       \* min(n, Reader.concurrency) goroutines
    N,             \* the number of batches
    Answers,       \* what an endpoint may say of a batch
    None           \* no error, no answer, no job

ASSUME FanOutAssumption ==
    /\ N \in Nat \ {0}
    /\ Cardinality(Endpoints) > 1 /\ Answers # {}
    /\ Cardinality(Workers) \in 1..N
    /\ None \notin Endpoints \cup Answers

Jobs == 1..N

(* What a worker is on besides a batch: receiving from the channel, or nothing *)
(* any more.                                                                   *)
Receiving == 0
Gone      == -1

(* An error names an endpoint, and whether the read failed on its own account or   *)
(* because its context was cancelled; a Disagreement and a ctx.Err() name nobody.  *)
Error == [who : Endpoints, cause : {"own", "cancelled"}]
            \cup [who : {None}, cause : {"disagreement", "ctx"}]

Disagreement == [who |-> None, cause |-> "disagreement"]
CtxErr       == [who |-> None, cause |-> "ctx"]
Success      == [who |-> None, cause |-> "ok"]

(* nil is not an error. *)
ASSUME NoneAssumption == None \notin Error \cup {Success}

VARIABLES
    says,       \* says[j][e]: what endpoint e answers to batch j
    parent,     \* has the caller's context been cancelled
    next,       \* the dispatcher's loop: the next batch to hand out
    job,        \* job[w]: the batch worker w is on, Receiving or Gone
    read,       \* read[w][e]: the goroutine of endpoint e in w's crossCheck
    inner,      \* inner[w]: the firstFailure of w's eachEndpoint
    failed,     \* the firstFailure of inParallel
    broken,     \* the endpoints a read of which failed on its own account
    out,        \* Timestamps' map
    result      \* of Timestamps: None until it returns, Success, or an error

vars == <<says, parent, next, job, read, inner, failed, broken, out, result>>

(* The contexts: a parent's cancellation reaches its children. *)
Done         == parent \/ failed # None
InnerDone(w) == Done \/ inner[w] # None

(* Mutant: the latest failure wins. *)
RecordLast(kept, err) == err

(* firstFailure.record: keep err if it is the first; with it comes the cancel. *)
Record(kept, err) == IF kept = None THEN err ELSE kept

-----------------------------------------------------------------------------
(* The caller gives up. *)
Cancel ==
    /\ ~parent /\ result = None
    /\ parent' = TRUE
    /\ UNCHANGED <<says, next, job, read, inner, failed, broken, out, result>>

(* The dispatcher's select: a worker receives the batch, *)
Dispatch(w) ==
    /\ next <= N /\ job[w] = Receiving
    /\ job' = [job EXCEPT ![w] = next]
    /\ read' = [read EXCEPT ![w] = [e \in Endpoints |-> "asking"]]
    /\ next' = next + 1
    /\ UNCHANGED <<says, parent, inner, failed, broken, out, result>>

(* Mutant: one offer too many. *)
SkipPast ==
    /\ next <= N + 1 /\ Done
    /\ next' = next + 1
    /\ UNCHANGED <<says, parent, job, read, inner, failed, broken, out, result>>

(* or the context is done and the batch is handed to nobody. *)
Skip ==
    /\ next <= N /\ Done
    /\ next' = next + 1
    /\ UNCHANGED <<says, parent, job, read, inner, failed, broken, out, result>>

(* A read ends: with an answer, with a failure, or cancelled. *)
Answered(w, e) ==
    /\ job[w] \in Jobs /\ read[w][e] = "asking"
    /\ read' = [read EXCEPT ![w][e] = "answered"]
    /\ UNCHANGED <<says, parent, next, job, inner, failed, broken, out, result>>

Fails(w, e) ==
    /\ job[w] \in Jobs /\ read[w][e] = "asking"
    /\ read' = [read EXCEPT ![w][e] = "own"]
    /\ broken' = broken \cup {e}
    /\ UNCHANGED <<says, parent, next, job, inner, failed, out, result>>

Cancelled(w, e) ==
    /\ job[w] \in Jobs /\ read[w][e] = "asking"
    /\ InnerDone(w)
    /\ read' = [read EXCEPT ![w][e] = "cancelled"]
    /\ UNCHANGED <<says, parent, next, job, inner, failed, broken, out, result>>

(* Its goroutine then records the failure, under the lock, and is done. *)
RecordRead(w, e) ==
    /\ job[w] \in Jobs /\ read[w][e] \in {"own", "cancelled"}
    /\ inner' = [inner EXCEPT ![w] = Record(@, [who |-> e, cause |-> read[w][e]])]
    /\ read' = [read EXCEPT ![w][e] = "over"]
    /\ UNCHANGED <<says, parent, next, job, failed, broken, out, result>>

(* crossCheck's comparison: every answer against the first. *)
Agree(j) == \A d, e \in Endpoints : says[j][d] = says[j][e]

(* The batch's goroutines are all over (wg.Wait): a failure or a disagreement is *)
(* recorded and ends the worker, an agreed answer goes into the map.             *)
Finish(w) ==
    /\ job[w] \in Jobs /\ \A e \in Endpoints : read[w][e] \in {"answered", "over"}
    /\ LET err == IF inner[w] # None THEN inner[w]
                  ELSE IF Agree(job[w]) THEN None ELSE Disagreement
       IN IF err # None
          THEN /\ failed' = Record(failed, err)
               /\ job' = [job EXCEPT ![w] = Gone]
               /\ UNCHANGED out
          ELSE /\ out' = [out EXCEPT ![job[w]] = CHOOSE x \in {says[job[w]][e] : e \in Endpoints} : TRUE]
               /\ job' = [job EXCEPT ![w] = Receiving]
               /\ UNCHANGED failed
    /\ inner' = [inner EXCEPT ![w] = None]
    /\ UNCHANGED <<says, parent, next, read, broken, result>>

(* The channel is closed after the last batch, and idle workers leave. *)
Leave(w) ==
    /\ next > N /\ job[w] = Receiving
    /\ job' = [job EXCEPT ![w] = Gone]
    /\ UNCHANGED <<says, parent, next, read, inner, failed, broken, out, result>>

(* What inParallel returns. *)
Outcome == IF failed # None THEN failed ELSE IF parent THEN CtxErr ELSE Success

Return ==
    /\ next > N /\ \A w \in Workers : job[w] = Gone
    /\ result = None
    /\ result' = Outcome
    /\ UNCHANGED <<says, parent, next, job, read, inner, failed, broken, out>>

(* Nothing is left to do once Timestamps has returned. *)
Returned == result # None /\ UNCHANGED vars

Init ==
    /\ says \in [Jobs -> [Endpoints -> Answers]]
    /\ parent = FALSE /\ next = 1
    /\ job = [w \in Workers |-> Receiving]
    /\ read = [w \in Workers |-> [e \in Endpoints |-> "over"]]
    /\ inner = [w \in Workers |-> None] /\ failed = None /\ broken = {}
    /\ out = [j \in Jobs |-> None] /\ result = None

Worker(w) ==
    \/ Dispatch(w) \/ Finish(w) \/ Leave(w)
    \/ \E e \in Endpoints : Answered(w, e) \/ Fails(w, e) \/ Cancelled(w, e) \/ RecordRead(w, e)

Next ==
    \/ Cancel \/ Skip \/ Return \/ Returned
    \/ \E w \in Workers : Worker(w)

Spec == Init /\ [][Next]_vars

(* Goroutines run, and a read ends: the http.Client's 30 second timeout sees to it. *)
Fairness ==
    /\ WF_vars(Skip) /\ WF_vars(Return)
    /\ \A w \in Workers : WF_vars(Worker(w))

FairSpec == Spec /\ Fairness

-----------------------------------------------------------------------------
(* The shapes of the variables. *)
TypeOK ==
    /\ says \in [Jobs -> [Endpoints -> Answers]]
    /\ parent \in BOOLEAN
    /\ next \in 1..(N + 1)
    /\ job \in [Workers -> Jobs \cup {Receiving, Gone}]
    /\ read \in [Workers -> [Endpoints -> {"asking", "answered", "own", "cancelled", "over"}]]
    /\ inner \in [Workers -> Error \cup {None}]
    /\ failed \in Error \cup {None} /\ broken \subseteq Endpoints
    /\ out \in [Jobs -> Answers \cup {None}]
    /\ result \in Error \cup {None, Success}

(* Timestamps keeps the promise of AgreedRead. It returns: the dispatcher of an    *)
(* unbuffered channel is never left offering a batch to workers that have all      *)
(* gone. Without an error it returns the whole map, agreed on by all: a            *)
(* cancellation that makes the dispatcher skip a batch never passes for success.   *)
(* And an error names an endpoint that failed by itself: unless the caller gave    *)
(* up, nobody is blamed for the cancellation a neighbour's failure caused.         *)
Agreed == INSTANCE AgreedRead WITH
              Batches <- Jobs,
              gaveUp  <- parent,
              answer  <- IF result = Success THEN out ELSE result

ImplementsAgreedRead == Agreed!Spec
=============================================================================
