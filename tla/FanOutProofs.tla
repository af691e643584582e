---------------------------- MODULE FanOutProofs ----------------------------
(***************************************************************************)
(* The Reader's fan-out keeps the safe half of AgreedRead's promise: the   *)
(* proof, for any number of endpoints, workers and batches. That it        *)
(* returns at all is liveness, which TLC checks.                           *)
(***************************************************************************)
EXTENDS FanOut, FiniteSetTheorems, TLAPS

-----------------------------------------------------------------------------
(* The inductive invariant.                                                   *)

(* Who is on a batch was handed it; and once Timestamps has returned nobody is. *)
PoolInv ==
    /\ \A w \in Workers : job[w] \in Jobs => job[w] < next
    /\ result # None => next > N /\ \A w \in Workers : job[w] = Gone

(* A batch that was offered is in the map, or a worker is on it, or it was skipped or *)
(* failed, and then the context is done; and the map holds what all endpoints say.    *)
MapInv ==
    /\ \A j \in Jobs : j < next => \/ out[j] # None
                                   \/ \E w \in Workers : job[w] = j
                                   \/ Done
    /\ \A j \in Jobs : out[j] # None => \A e \in Endpoints : says[j][e] = out[j]

(* A read that was cancelled was so for a reason: one failed before it in the same *)
(* batch, or the context of all batches is done.                                   *)
ReadInv ==
    \A w \in Workers : job[w] \in Jobs => \A e \in Endpoints :
        /\ read[w][e] = "own" => e \in broken
        /\ read[w][e] = "cancelled" => InnerDone(w)

OwnFault(err)   == err.cause = "own" /\ err.who \in broken
Interrupt(err)  == err.cause = "cancelled" /\ err.who \in Endpoints
RealDispute(err) == err = Disagreement /\ \E j \in Jobs : ~Agree(j)

(* The first failure of a batch is an endpoint's own, or the context of all batches  *)
(* was done by then; the first failure of all is own, a dispute, or the caller's.    *)
BlameInv ==
    /\ \A w \in Workers : inner[w] # None => OwnFault(inner[w]) \/ (Interrupt(inner[w]) /\ Done)
    /\ failed # None => OwnFault(failed) \/ RealDispute(failed) \/ (Interrupt(failed) /\ parent)

FanOutInv == TypeOK /\ PoolInv /\ MapInv /\ ReadInv /\ BlameInv

-----------------------------------------------------------------------------
(* The constants.                                                             *)

(* What the proofs use of the constants: nil and the marks of idle workers are nothing else. *)
LEMMA Constants ==
    /\ N \in Nat \ {0} /\ Endpoints # {}
    /\ Receiving \notin Jobs /\ Gone \notin Jobs /\ Receiving # Gone
    /\ None \notin Answers /\ None \notin Error /\ None # Success
<1>1. Cardinality({}) = 0
  BY FS_EmptySet
<1>2. Endpoints # {}
  BY <1>1, FanOutAssumption
<1> QED
  BY <1>2, FanOutAssumption, NoneAssumption DEF Jobs, Receiving, Gone

(* The errors, and that none of them is Success. *)
LEMMA Errors ==
    /\ \A e \in Endpoints, k \in {"own", "cancelled"} : [who |-> e, cause |-> k] \in Error
    /\ Disagreement \in Error /\ CtxErr \in Error
    /\ Success \notin Error
BY DEF Error, Disagreement, CtxErr, Success

(* What a read records when it fails is an error. *)
LEMMA RecordIsAnError ==
    ASSUME NEW kept \in Error \cup {None}, NEW err \in Error
    PROVE  /\ Record(kept, err) \in Error /\ Record(kept, err) # None
           /\ kept # None => Record(kept, err) = kept
           /\ kept = None => Record(kept, err) = err
BY Constants DEF Record

-----------------------------------------------------------------------------
(* The steps.                                                                 *)

(* Every worker is ready and nothing was read. *)
LEMMA FanOutInit == ASSUME Init PROVE FanOutInv
<1>1. TypeOK
  <2>1. next \in 1..(N + 1)
    BY Constants DEF Init
  <2>2. /\ job \in [Workers -> Jobs \cup {Receiving, Gone}]
        /\ read \in [Workers -> [Endpoints -> {"asking", "answered", "own", "cancelled", "over"}]]
        /\ inner \in [Workers -> Error \cup {None}]
        /\ out \in [Jobs -> Answers \cup {None}]
    BY DEF Init
  <2> QED
    BY <2>1, <2>2 DEF Init, TypeOK
<1>2. PoolInv /\ MapInv /\ ReadInv /\ BlameInv
  BY Constants DEF Init, PoolInv, MapInv, ReadInv, BlameInv, Jobs
<1> QED
  BY <1>1, <1>2 DEF FanOutInv

(* Nothing happens. *)
LEMMA StutterStep == ASSUME FanOutInv, UNCHANGED vars PROVE FanOutInv'
BY DEF FanOutInv, vars, TypeOK, PoolInv, MapInv, ReadInv, BlameInv, Done, InnerDone,
       OwnFault, Interrupt, RealDispute, Agree

(* The caller's context is cancelled. *)
LEMMA CancelStep == ASSUME FanOutInv, Cancel PROVE FanOutInv'
<1> USE DEF Cancel
<1>1. TypeOK'
  BY DEF FanOutInv, TypeOK
<1>2. PoolInv' /\ MapInv' /\ ReadInv'
  BY DEF FanOutInv, PoolInv, MapInv, ReadInv, Done, InnerDone
<1>3. BlameInv'
  BY DEF FanOutInv, BlameInv, Done, OwnFault, Interrupt, RealDispute, Agree
<1> QED
  BY <1>1, <1>2, <1>3 DEF FanOutInv

(* The dispatcher skips what is left once the context is done. *)
LEMMA SkipStep == ASSUME FanOutInv, Skip PROVE FanOutInv'
<1> USE DEF Skip
<1>1. TypeOK'
  BY Constants DEF FanOutInv, TypeOK
<1>2. PoolInv'
  BY Constants DEF FanOutInv, TypeOK, PoolInv, Jobs
<1>3. MapInv' /\ ReadInv'
  BY DEF FanOutInv, MapInv, ReadInv, Done, InnerDone
<1>4. BlameInv'
  BY DEF FanOutInv, BlameInv, Done, OwnFault, Interrupt, RealDispute, Agree
<1> QED
  BY <1>1, <1>2, <1>3, <1>4 DEF FanOutInv

(* A batch is handed to a worker, which starts a read per endpoint. *)
LEMMA DispatchStep == ASSUME FanOutInv, NEW w \in Workers, Dispatch(w) PROVE FanOutInv'
<1>1. /\ next \in Jobs /\ next' = next + 1 /\ job[w] = Receiving /\ job'[w] = next
      /\ job' = [job EXCEPT ![w] = next]
      /\ \A v \in Workers \ {w} : job'[v] = job[v] /\ read'[v] = read[v]
      /\ read' = [read EXCEPT ![w] = [e \in Endpoints |-> "asking"]]
      /\ read'[w] = [e \in Endpoints |-> "asking"]
      /\ UNCHANGED <<says, parent, inner, failed, broken, out, result>>
  BY Constants DEF FanOutInv, TypeOK, Dispatch, Jobs
<1>2. TypeOK'
  <2>1. next' \in 1..(N + 1)
    BY <1>1, Constants DEF Jobs
  <2> QED
    BY <1>1, <2>1 DEF FanOutInv, TypeOK
<1>3. PoolInv'
  <2>1. \A v \in Workers : job'[v] \in Jobs => job'[v] < next'
    BY <1>1, Constants DEF FanOutInv, PoolInv, Jobs
  <2>2. result = None
    BY <1>1, Constants DEF FanOutInv, PoolInv
  <2> QED
    BY <1>1, <2>1, <2>2 DEF PoolInv
<1>4. MapInv'
  <2>1. ASSUME NEW j \in Jobs, j < next'
        PROVE  out[j] # None \/ (\E v \in Workers : job'[v] = j) \/ Done
    <3>1. CASE j = next
      BY <1>1, <3>1
    <3>2. CASE j # next
      <4>1. j < next
        BY <1>1, <2>1, <3>2, Constants DEF Jobs
      <4>2. \A v \in Workers : job[v] = j => job'[v] = j
        BY <1>1, Constants
      <4> QED
        BY <4>1, <4>2 DEF FanOutInv, MapInv
    <3> QED
      BY <3>1, <3>2
  <2> QED
    BY <1>1, <2>1 DEF FanOutInv, MapInv, Done
<1>5. ReadInv'
  <2>1. ASSUME NEW v \in Workers, job'[v] \in Jobs, NEW e \in Endpoints
        PROVE  /\ read'[v][e] = "own" => e \in broken'
               /\ read'[v][e] = "cancelled" => InnerDone(v)'
    <3>1. CASE v = w
      BY <1>1, <3>1
    <3>2. CASE v # w
      BY <1>1, <2>1, <3>2 DEF FanOutInv, ReadInv, InnerDone, Done
    <3> QED
      BY <3>1, <3>2
  <2> QED
    BY <2>1 DEF ReadInv
<1>6. BlameInv'
  BY <1>1 DEF FanOutInv, BlameInv, Done, OwnFault, Interrupt, RealDispute, Agree
<1> QED
  BY <1>2, <1>3, <1>4, <1>5, <1>6 DEF FanOutInv

(* A read that ends changes nothing but itself, and who is broken. *)
LEMMA ReadEndStep ==
    ASSUME FanOutInv, NEW w \in Workers, NEW e \in Endpoints, job[w] \in Jobs,
           NEW how \in {"answered", "own", "cancelled"},
           read' = [read EXCEPT ![w][e] = how],
           how = "cancelled" => InnerDone(w),
           broken \subseteq broken', broken' \subseteq Endpoints, how = "own" => e \in broken',
           UNCHANGED <<says, parent, next, job, inner, failed, out, result>>
    PROVE  FanOutInv'
<1>1. TypeOK'
  BY DEF FanOutInv, TypeOK
<1>2. PoolInv' /\ MapInv'
  BY DEF FanOutInv, PoolInv, MapInv, Done
<1>3. ReadInv'
  <2>1. ASSUME NEW v \in Workers, job[v] \in Jobs, NEW d \in Endpoints
        PROVE  /\ read'[v][d] = "own" => d \in broken'
               /\ read'[v][d] = "cancelled" => InnerDone(v)
    <3>1. CASE v = w /\ d = e
      BY <3>1 DEF FanOutInv, TypeOK
    <3>2. CASE ~(v = w /\ d = e)
      <4>1. read'[v][d] = read[v][d]
        BY <3>2 DEF FanOutInv, TypeOK
      <4> QED
        BY <2>1, <4>1 DEF FanOutInv, ReadInv
    <3> QED
      BY <3>1, <3>2
  <2> QED
    BY <2>1 DEF ReadInv, InnerDone, Done
<1>4. BlameInv'
  BY DEF FanOutInv, BlameInv, Done, OwnFault, Interrupt, RealDispute, Agree
<1> QED
  BY <1>1, <1>2, <1>3, <1>4 DEF FanOutInv

(* An endpoint answers. *)
LEMMA AnsweredStep ==
    ASSUME FanOutInv, NEW w \in Workers, NEW e \in Endpoints, Answered(w, e)
    PROVE  FanOutInv'
<1>1. broken \subseteq broken' /\ broken' \subseteq Endpoints
  BY DEF Answered, FanOutInv, TypeOK
<1> QED
  BY <1>1, ReadEndStep DEF Answered

(* An endpoint fails on its own account. *)
LEMMA FailsStep ==
    ASSUME FanOutInv, NEW w \in Workers, NEW e \in Endpoints, Fails(w, e)
    PROVE  FanOutInv'
<1>1. broken \subseteq broken' /\ broken' \subseteq Endpoints /\ e \in broken'
  BY DEF Fails, FanOutInv, TypeOK
<1> QED
  BY <1>1, ReadEndStep DEF Fails

(* A read returns because its context was cancelled. *)
LEMMA CancelledStep ==
    ASSUME FanOutInv, NEW w \in Workers, NEW e \in Endpoints, Cancelled(w, e)
    PROVE  FanOutInv'
<1>1. broken \subseteq broken' /\ broken' \subseteq Endpoints
  BY DEF Cancelled, FanOutInv, TypeOK
<1> QED
  BY <1>1, ReadEndStep DEF Cancelled

(* The first failure that a batch records is blamed on whoever deserves it. *)
LEMMA RecordReadStep ==
    ASSUME FanOutInv, NEW w \in Workers, NEW e \in Endpoints, RecordRead(w, e)
    PROVE  FanOutInv'
<1> DEFINE err == [who |-> e, cause |-> read[w][e]]
<1>1. /\ job[w] \in Jobs /\ read[w][e] \in {"own", "cancelled"}
      /\ inner' = [inner EXCEPT ![w] = Record(inner[w], err)]
      /\ read' = [read EXCEPT ![w][e] = "over"]
      /\ UNCHANGED <<says, parent, next, job, failed, broken, out, result>>
  BY DEF RecordRead
<1>2. err \in Error /\ err.who = e /\ err.cause = read[w][e]
  BY <1>1, Errors
<1>3. inner[w] \in Error \cup {None}
  BY DEF FanOutInv, TypeOK
<1> HIDE DEF err
<1>4. /\ inner'[w] \in Error /\ inner'[w] # None
      /\ inner[w] # None => inner'[w] = inner[w]
      /\ inner[w] = None => inner'[w] = err
  <2>1. inner'[w] = Record(inner[w], err)
    BY <1>1 DEF FanOutInv, TypeOK
  <2> QED
    BY <1>2, <1>3, <2>1, RecordIsAnError
<1>5. \A v \in Workers \ {w} : inner'[v] = inner[v]
  BY <1>1 DEF FanOutInv, TypeOK
<1>6. TypeOK'
  <2>1. inner' = [inner EXCEPT ![w] = inner'[w]]
    BY <1>1, <1>4 DEF FanOutInv, TypeOK
  <2>2. inner' \in [Workers -> Error \cup {None}]
    BY <1>4, <2>1 DEF FanOutInv, TypeOK
  <2> QED
    BY <1>1, <2>2 DEF FanOutInv, TypeOK
<1>7. PoolInv' /\ MapInv'
  BY <1>1 DEF FanOutInv, PoolInv, MapInv, Done
<1>8. ReadInv'
  <2>1. ASSUME NEW v \in Workers, job[v] \in Jobs, NEW d \in Endpoints
        PROVE  /\ read'[v][d] = "own" => d \in broken
               /\ read'[v][d] = "cancelled" => InnerDone(v)'
    <3>1. CASE v = w
      <4>1. InnerDone(v)'
        BY <1>4, <3>1 DEF InnerDone
      <4>2. read'[v][d] = "own" => read[v][d] = "own"
        BY <1>1 DEF FanOutInv, TypeOK
      <4> QED
        BY <2>1, <4>1, <4>2 DEF FanOutInv, ReadInv
    <3>2. CASE v # w
      <4>1. read'[v][d] = read[v][d]
        BY <1>1, <3>2 DEF FanOutInv, TypeOK
      <4> QED
        BY <1>1, <1>5, <2>1, <3>2, <4>1 DEF FanOutInv, ReadInv, InnerDone, Done
    <3> QED
      BY <3>1, <3>2
  <2> QED
    BY <1>1, <2>1 DEF ReadInv
<1>9. BlameInv'
  <2>1. inner[w] = None => OwnFault(err) \/ (Interrupt(err) /\ Done)
    <3>1. CASE read[w][e] = "own"
      BY <1>1, <1>2, <3>1 DEF FanOutInv, ReadInv, OwnFault
    <3>2. CASE read[w][e] = "cancelled"
      <4>1. InnerDone(w)
        BY <1>1, <3>2 DEF FanOutInv, ReadInv
      <4> QED
        BY <1>2, <3>2, <4>1 DEF InnerDone, Interrupt
    <3> QED
      BY <1>1, <3>1, <3>2
  <2>2. ASSUME NEW v \in Workers, inner'[v] # None
        PROVE  OwnFault(inner'[v]) \/ (Interrupt(inner'[v]) /\ Done)
    <3>1. CASE v = w /\ inner[w] = None
      BY <1>4, <2>1, <3>1
    <3>2. CASE ~(v = w /\ inner[w] = None)
      <4>1. inner'[v] = inner[v]
        BY <1>4, <1>5, <3>2
      <4> QED
        BY <2>2, <4>1 DEF FanOutInv, BlameInv
    <3> QED
      BY <3>1, <3>2
  <2>3. failed # None => OwnFault(failed) \/ RealDispute(failed) \/ (Interrupt(failed) /\ parent)
    BY DEF FanOutInv, BlameInv
  <2> QED
    BY <1>1, <2>2, <2>3 DEF BlameInv, Done, OwnFault, Interrupt, RealDispute, Agree
<1> QED
  BY <1>6, <1>7, <1>8, <1>9 DEF FanOutInv

(* A worker leaves when there is nothing more to hand out. *)
LEMMA LeaveStep == ASSUME FanOutInv, NEW w \in Workers, Leave(w) PROVE FanOutInv'
<1>1. /\ next > N /\ job[w] = Receiving /\ job' = [job EXCEPT ![w] = Gone] /\ job'[w] = Gone
      /\ \A v \in Workers \ {w} : job'[v] = job[v]
      /\ UNCHANGED <<says, parent, next, read, inner, failed, broken, out, result>>
  BY DEF FanOutInv, TypeOK, Leave
<1>2. TypeOK'
  BY <1>1 DEF FanOutInv, TypeOK
<1>3. PoolInv'
  BY <1>1, Constants DEF FanOutInv, PoolInv
<1>4. MapInv'
  <2>1. ASSUME NEW j \in Jobs, NEW v \in Workers, job[v] = j PROVE job'[v] = j
    BY <1>1, <2>1, Constants
  <2> QED
    BY <1>1, <2>1 DEF FanOutInv, MapInv, Done
<1>5. ReadInv'
  BY <1>1, Constants DEF FanOutInv, ReadInv, InnerDone, Done
<1>6. BlameInv'
  BY <1>1 DEF FanOutInv, BlameInv, Done, OwnFault, Interrupt, RealDispute, Agree
<1> QED
  BY <1>2, <1>3, <1>4, <1>5, <1>6 DEF FanOutInv

(* What Finish has in common whichever way it ends. *)
LEMMA FinishPool ==
    ASSUME FanOutInv, NEW w \in Workers, job[w] \in Jobs, NEW to \in {Receiving, Gone},
           job' = [job EXCEPT ![w] = to], inner' = [inner EXCEPT ![w] = None],
           failed # None => failed' # None,
           UNCHANGED <<says, parent, next, read, broken, result>>
    PROVE  PoolInv' /\ ReadInv'
<1>1. job'[w] = to /\ job'[w] \notin Jobs /\ \A v \in Workers \ {w} : job'[v] = job[v] /\ inner'[v] = inner[v]
  BY Constants DEF FanOutInv, TypeOK
<1>2. result = None
  BY Constants DEF FanOutInv, PoolInv
<1>3. PoolInv'
  BY <1>1, <1>2 DEF FanOutInv, PoolInv
<1>4. ReadInv'
  <2>1. ASSUME NEW v \in Workers, job'[v] \in Jobs, NEW e \in Endpoints
        PROVE  /\ read'[v][e] = "own" => e \in broken'
               /\ read'[v][e] = "cancelled" => InnerDone(v)'
    <3>1. v # w /\ job[v] \in Jobs /\ inner'[v] = inner[v]
      BY <1>1, <2>1
    <3> QED
      BY <2>1, <3>1 DEF FanOutInv, ReadInv, InnerDone, Done
  <2> QED
    BY <2>1 DEF ReadInv
<1> QED
  BY <1>3, <1>4

(* A worker has all its reads: it compares them, or records the first failure. *)
LEMMA FinishStep == ASSUME FanOutInv, NEW w \in Workers, Finish(w) PROVE FanOutInv'
<1> DEFINE j   == job[w]
           err == IF inner[w] # None THEN inner[w] ELSE IF Agree(j) THEN None ELSE Disagreement
           a   == CHOOSE x \in {says[j][e] : e \in Endpoints} : TRUE
<1>1. /\ j \in Jobs /\ inner' = [inner EXCEPT ![w] = None]
      /\ UNCHANGED <<says, parent, next, read, broken, result>>
      /\ IF err # None
         THEN /\ failed' = Record(failed, err) /\ job' = [job EXCEPT ![w] = Gone] /\ out' = out
         ELSE /\ out' = [out EXCEPT ![j] = a]
              /\ job' = [job EXCEPT ![w] = Receiving] /\ failed' = failed
  BY DEF Finish
<1>2. err \in Error \cup {None} /\ failed \in Error \cup {None} /\ inner[w] \in Error \cup {None}
  BY Errors DEF FanOutInv, TypeOK
<1>3. inner'[w] = None /\ \A v \in Workers \ {w} : inner'[v] = inner[v]
  BY <1>1 DEF FanOutInv, TypeOK
<1>4. inner' \in [Workers -> Error \cup {None}]
  BY <1>1 DEF FanOutInv, TypeOK
<1>5. CASE err # None
  <2>1. OwnFault(err) \/ RealDispute(err) \/ (Interrupt(err) /\ Done)
    <3>1. CASE inner[w] # None
      BY <3>1 DEF FanOutInv, BlameInv
    <3>2. CASE inner[w] = None
      <4>1. err = Disagreement /\ ~Agree(j)
        BY <1>5, <3>2
      <4> QED
        BY <1>1, <4>1 DEF RealDispute
    <3> QED
      BY <3>1, <3>2
  <2> HIDE DEF err
  <2>2. /\ failed' = Record(failed, err) /\ job' = [job EXCEPT ![w] = Gone] /\ out' = out
    BY <1>1, <1>5
  <2>3. /\ failed' \in Error /\ failed' # None
        /\ failed # None => failed' = failed
        /\ failed = None => failed' = err
    BY <1>2, <1>5, <2>2, RecordIsAnError
  <2>4. TypeOK'
    BY <1>1, <1>4, <2>2, <2>3 DEF FanOutInv, TypeOK
  <2>5. PoolInv' /\ ReadInv'
    BY <1>1, <2>2, <2>3, FinishPool
  <2>6. MapInv'
    BY <1>1, <2>2, <2>3 DEF FanOutInv, MapInv, Done
  <2>7. BlameInv'
    <3>1. OwnFault(failed') \/ RealDispute(failed') \/ (Interrupt(failed') /\ parent)
      <4>1. CASE failed = None
        BY <2>1, <2>3, <4>1 DEF Done
      <4>2. CASE failed # None
        BY <2>3, <4>2 DEF FanOutInv, BlameInv
      <4> QED
        BY <4>1, <4>2
    <3>2. \A v \in Workers : inner'[v] # None => OwnFault(inner'[v]) \/ Interrupt(inner'[v])
      BY <1>3 DEF FanOutInv, BlameInv
    <3> QED
      BY <1>1, <2>3, <3>1, <3>2 DEF BlameInv, Done, OwnFault, Interrupt, RealDispute, Agree
  <2> QED
    BY <2>4, <2>5, <2>6, <2>7 DEF FanOutInv
<1>6. CASE err = None
  <2>1. inner[w] = None /\ Agree(j)
    BY <1>2, <1>6, Errors, Constants
  <2>2. a \in Answers /\ \A e \in Endpoints : says[j][e] = a
    <3>1. \A e \in Endpoints : says[j][e] \in Answers
      BY <1>1 DEF FanOutInv, TypeOK
    <3>2. a \in {says[j][e] : e \in Endpoints}
      BY Constants
    <3> QED
      BY <2>1, <3>1, <3>2 DEF Agree
  <2>3. /\ out' = [out EXCEPT ![j] = a]
        /\ job' = [job EXCEPT ![w] = Receiving] /\ failed' = failed
    BY <1>1, <1>6
  <2> HIDE DEF err, a
  <2>4. TypeOK'
    <3>1. out' \in [Jobs -> Answers \cup {None}]
      BY <1>1, <2>2, <2>3 DEF FanOutInv, TypeOK
    <3>2. job' \in [Workers -> Jobs \cup {Receiving, Gone}]
      BY <2>3 DEF FanOutInv, TypeOK
    <3> QED
      BY <1>1, <1>4, <2>3, <3>1, <3>2 DEF FanOutInv, TypeOK
  <2>5. PoolInv' /\ ReadInv'
    BY <1>1, <2>3, FinishPool
  <2>6. MapInv'
    <3>1. /\ out'[j] = a /\ a # None /\ \A i \in Jobs \ {j} : out'[i] = out[i]
      BY <1>1, <2>2, <2>3, Constants DEF FanOutInv, TypeOK
    <3>2. ASSUME NEW i \in Jobs, i < next
          PROVE  out'[i] # None \/ (\E v \in Workers : job'[v] = i) \/ Done
      <4>1. CASE i = j
        BY <3>1, <4>1
      <4>2. CASE i # j
        <5>1. \A v \in Workers : job[v] = i => job'[v] = i
          BY <2>3, <4>2 DEF FanOutInv, TypeOK
        <5> QED
          BY <3>1, <3>2, <4>2, <5>1 DEF FanOutInv, MapInv
      <4> QED
        BY <4>1, <4>2
    <3>3. ASSUME NEW i \in Jobs, out'[i] # None
          PROVE  \A e \in Endpoints : says[i][e] = out'[i]
      BY <2>2, <3>1, <3>3 DEF FanOutInv, MapInv
    <3> QED
      BY <1>1, <2>3, <3>2, <3>3 DEF MapInv, Done
  <2>7. BlameInv'
    <3>1. \A v \in Workers : inner'[v] # None => inner'[v] = inner[v]
      BY <1>3
    <3> QED
      BY <1>1, <2>3, <3>1 DEF FanOutInv, BlameInv, Done, OwnFault, Interrupt, RealDispute, Agree
  <2> QED
    BY <2>4, <2>5, <2>6, <2>7 DEF FanOutInv
<1> QED
  BY <1>5, <1>6

(* inParallel returns once the workers are gone. *)
LEMMA ReturnStep == ASSUME FanOutInv, Return PROVE FanOutInv'
<1>1. /\ next > N /\ \A w \in Workers : job[w] = Gone
      /\ result' = Outcome
      /\ UNCHANGED <<says, parent, next, job, read, inner, failed, broken, out>>
  BY DEF Return
<1>2. TypeOK'
  <2>1. result' \in Error \cup {None, Success}
    BY <1>1, Errors DEF FanOutInv, TypeOK, Outcome
  <2> QED
    BY <1>1, <2>1 DEF FanOutInv, TypeOK
<1>3. PoolInv' /\ MapInv' /\ ReadInv'
  BY <1>1 DEF FanOutInv, PoolInv, MapInv, ReadInv, Done, InnerDone
<1>4. BlameInv'
  BY <1>1 DEF FanOutInv, BlameInv, Done, OwnFault, Interrupt, RealDispute, Agree
<1> QED
  BY <1>2, <1>3, <1>4 DEF FanOutInv

(* Every step keeps the invariant. *)
LEMMA FanOutStep == ASSUME FanOutInv, [Next]_vars PROVE FanOutInv'
<1>1. CASE UNCHANGED vars \/ Returned
  BY <1>1, StutterStep DEF Returned
<1>2. CASE Cancel \/ Skip \/ Return
  BY <1>2, CancelStep, SkipStep, ReturnStep
<1>3. ASSUME NEW w \in Workers, Dispatch(w) \/ Finish(w) \/ Leave(w)
      PROVE  FanOutInv'
  BY <1>3, DispatchStep, FinishStep, LeaveStep
<1>4. ASSUME NEW w \in Workers, NEW e \in Endpoints,
             Answered(w, e) \/ Fails(w, e) \/ Cancelled(w, e) \/ RecordRead(w, e)
      PROVE  FanOutInv'
  BY <1>4, AnsweredStep, FailsStep, CancelledStep, RecordReadStep
<1> QED
  BY <1>1, <1>2, <1>3, <1>4 DEF Next, Worker

(* The invariant always holds. *)
LEMMA FanOutInductive == Spec => []FanOutInv
BY FanOutInit, FanOutStep, PTL DEF Spec

-----------------------------------------------------------------------------
(* The theorems.                                                              *)

(* The shapes of the variables, for any number of goroutines. *)
THEOREM FanOutTypeCorrect == Spec => []TypeOK
<1>1. FanOutInv => TypeOK
  BY DEF FanOutInv
<1> QED
  BY <1>1, FanOutInductive, PTL

(* inParallel returns the map only when it is whole and agreed on, and an error only *)
(* with a reason.                                                                    *)
LEMMA ReturnIsReturn == ASSUME FanOutInv, Return PROVE Agreed!Return
<1>1. /\ next > N /\ \A w \in Workers : job[w] = Gone
      /\ result = None /\ result' = Outcome
      /\ UNCHANGED <<says, parent, next, job, read, inner, failed, broken, out>>
  BY DEF Return
<1>2. CASE failed = None /\ ~parent
  <2>1. result' = Success
    BY <1>1, <1>2 DEF Outcome
  <2>2. ASSUME NEW j \in Jobs
        PROVE  out[j] \in Answers /\ \A e \in Endpoints : says[j][e] = out[j]
    <3>1. j < next
      BY <1>1, Constants DEF FanOutInv, TypeOK, Jobs
    <3>2. \A w \in Workers : job[w] # j
      BY <1>1, Constants
    <3>3. out[j] # None
      BY <1>2, <3>1, <3>2 DEF FanOutInv, MapInv, Done
    <3> QED
      BY <3>3 DEF FanOutInv, MapInv, TypeOK
  <2>3. out \in [Jobs -> Answers]
    BY <2>2 DEF FanOutInv, TypeOK
  <2>4. out \in Agreed!Unanimous
    BY <2>2, <2>3 DEF Agreed!Unanimous
  <2> QED
    BY <1>1, <2>1, <2>4, Constants DEF Agreed!Return
<1>3. CASE failed # None
  <2>1. result' = failed /\ failed \in Error
    BY <1>1, <1>3 DEF Outcome, FanOutInv, TypeOK
  <2>2. failed \in Agreed!Justified
    <3>1. CASE OwnFault(failed)
      <4>1. failed \in [who : Endpoints, cause : {"own", "cancelled"}]
        BY <2>1, <3>1 DEF OwnFault, Error
      <4>2. failed \in [who : broken, cause : {"own"}]
        BY <3>1, <4>1 DEF OwnFault
      <4> QED
        BY <4>2 DEF Agreed!Justified
    <3>2. CASE RealDispute(failed)
      <4>1. PICK j \in Jobs : ~Agree(j)
        BY <3>2 DEF RealDispute
      <4>2. Agreed!Unanimous = {}
        <5>1. ASSUME NEW a \in Agreed!Unanimous PROVE FALSE
          BY <4>1, <5>1 DEF Agreed!Unanimous, Agree
        <5> QED
          BY <5>1
      <4>3. failed \in [who : {None}, cause : {"disagreement"}]
        BY <3>2 DEF RealDispute, Disagreement
      <4> QED
        BY <4>2, <4>3 DEF Agreed!Justified
    <3>3. CASE Interrupt(failed) /\ parent
      <4>1. failed \in [who : Endpoints, cause : {"own", "cancelled"}]
        BY <2>1, <3>3 DEF Interrupt, Error
      <4>2. failed \in [who : Endpoints, cause : {"cancelled"}]
        BY <3>3, <4>1 DEF Interrupt
      <4> QED
        BY <3>3, <4>2 DEF Agreed!Justified
    <3> QED
      BY <1>3, <3>1, <3>2, <3>3 DEF FanOutInv, BlameInv
  <2>3. result' # Success
    BY <2>1, Errors
  <2> QED
    BY <1>1, <2>1, <2>2, <2>3, Constants DEF Agreed!Return
<1>4. CASE failed = None /\ parent
  <2>1. result' = CtxErr
    BY <1>1, <1>4 DEF Outcome
  <2>2. CtxErr \in Agreed!Justified
    <3>1. CtxErr \in [who : {None}, cause : {"ctx"}]
      BY DEF CtxErr
    <3> QED
      BY <1>4, <3>1 DEF Agreed!Justified
  <2>3. result' # Success
    BY <2>1, Errors
  <2> QED
    BY <1>1, <2>1, <2>2, <2>3, Constants DEF Agreed!Return
<1> QED
  BY <1>2, <1>3, <1>4

(* Every step is one of AgreedRead, or changes nothing it speaks of. *)
LEMMA FanOutStepRefines ==
    ASSUME FanOutInv, [Next]_vars
    PROVE  [Agreed!Next]_(Agreed!vars)
<1>1. CASE UNCHANGED vars \/ Returned
  BY <1>1 DEF Returned, vars, Agreed!vars
<1>2. CASE Cancel
  BY <1>2, Constants DEF Cancel, Agreed!Next, Agreed!GiveUp
<1>3. CASE Skip
  BY <1>3 DEF Skip, Agreed!vars
<1>4. CASE Return
  BY <1>4, ReturnIsReturn DEF Agreed!Next
<1>5. ASSUME NEW w \in Workers, Dispatch(w) \/ Leave(w)
      PROVE  UNCHANGED Agreed!vars
  BY <1>5 DEF Dispatch, Leave, Agreed!vars
<1>6. ASSUME NEW w \in Workers, job[w] \in Jobs
      PROVE  result = None /\ result # Success
  BY <1>6, Constants DEF FanOutInv, PoolInv
<1>7. ASSUME NEW w \in Workers, Finish(w)
      PROVE  UNCHANGED Agreed!vars
  <2>1. job[w] \in Jobs /\ UNCHANGED <<says, parent, broken, result>>
    BY <1>7 DEF Finish
  <2> QED
    BY <1>6, <2>1 DEF Agreed!vars
<1>8. ASSUME NEW w \in Workers, NEW e \in Endpoints,
             Answered(w, e) \/ Cancelled(w, e) \/ RecordRead(w, e)
      PROVE  UNCHANGED Agreed!vars
  BY <1>8 DEF Answered, Cancelled, RecordRead, Agreed!vars
<1>9. ASSUME NEW w \in Workers, NEW e \in Endpoints, Fails(w, e)
      PROVE  Agreed!Break(e)
  <2>1. result = None /\ result # Success
    BY <1>6, <1>9 DEF Fails
  <2> QED
    BY <1>9, <2>1 DEF Fails, Agreed!Break
<1> QED
  BY <1>1, <1>2, <1>3, <1>4, <1>5, <1>7, <1>8, <1>9 DEF Next, Worker, Agreed!Next

(* Timestamps implements the safe half of AgreedRead: what it returns is the whole map, *)
(* agreed on by all endpoints, or an error that names an endpoint which failed by       *)
(* itself, a real disagreement, or the caller's own cancellation; and it returns once.  *)
THEOREM FanOutImplementsAgreedRead == Spec => Agreed!Init /\ [][Agreed!Next]_(Agreed!vars)
<1>1. Init => Agreed!Init
  BY Constants DEF Init, Agreed!Init
<1>2. FanOutInv /\ [Next]_vars => [Agreed!Next]_(Agreed!vars)
  BY FanOutStepRefines
<1> QED
  BY <1>1, <1>2, FanOutInductive, PTL DEF Spec
=============================================================================
