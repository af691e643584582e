----------------------------- MODULE AgreedRead -----------------------------
(***************************************************************************)
(* What a cross-checked read of several batches promises its caller,       *)
(* however many goroutines carry it out: it returns, either with what      *)
(* every endpoint says of every batch, or with an error that has a reason  *)
(* (the comments of crossCheck, firstFailure, inParallel and Disagreement  *)
(* in chain/reader.go). FanOut is shown to implement it.                   *)
(***************************************************************************)
CONSTANTS
    Endpoints,
    Batches,
    Answers,
    None           \* not returned yet

VARIABLES
    says,       \* says[b][e]: what endpoint e answers to batch b
    gaveUp,     \* has the caller's context been cancelled
    broken,     \* the endpoints with a read that failed on its own account
    answer      \* what the caller gets

vars == <<says, gaveUp, broken, answer>>

Init ==
    /\ says \in [Batches -> [Endpoints -> Answers]]
    /\ gaveUp = FALSE /\ broken = {} /\ answer = None

GiveUp ==
    /\ ~gaveUp /\ answer = None
    /\ gaveUp' = TRUE
    /\ UNCHANGED <<says, broken, answer>>

Break(e) ==
    /\ answer = None
    /\ broken' = broken \cup {e}
    /\ UNCHANGED <<says, gaveUp, answer>>

(* Everything that was asked, as all endpoints answer it. *)
Unanimous ==
    {a \in [Batches -> Answers] : \A b \in Batches, e \in Endpoints : says[b][e] = a[b]}

(* An endpoint that failed is named; one that was only interrupted is not, unless *)
(* the caller gave up; a disagreement is a real one.                              *)
Justified ==
    [who : broken, cause : {"own"}]
    \cup (IF Unanimous = {} THEN [who : {None}, cause : {"disagreement"}] ELSE {})
    \cup (IF gaveUp THEN [who : Endpoints, cause : {"cancelled"}] \cup [who : {None}, cause : {"ctx"}]
          ELSE {})

Return ==
    /\ answer = None
    /\ answer' \in Unanimous \cup Justified
    /\ UNCHANGED <<says, gaveUp, broken>>

Next == GiveUp \/ Return \/ \E e \in Endpoints : Break(e)

Spec == Init /\ [][Next]_vars /\ WF_vars(Return)
=============================================================================
