------------------------------ MODULE MCFanOut ------------------------------
(***************************************************************************)
(* Three batches, two workers and two endpoints, which agree on a batch or *)
(* do not: only whether answers are equal matters, so that one endpoint    *)
(* may always say x.                                                       *)
(***************************************************************************)
EXTENDS FanOut

CONSTANTS e1, e2, w1, w2, x, y

MCEndpoints == {e1, e2}
MCWorkers   == {w1, w2}
MCAnswers   == {x, y}

MCInit == Init /\ \A j \in Jobs : says[j][e1] = x

MCSpec == MCInit /\ [][Next]_vars /\ Fairness
=============================================================================
