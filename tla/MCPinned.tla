------------------------------ MODULE MCPinned ------------------------------
(***************************************************************************)
(* Block numbers of five values, so that ranges reach the top of the word, *)
(* and two branches that share the first two blocks. EndBlock is asked of  *)
(* every chain of block times, and Transfers of every choice of blocks of  *)
(* none, two and four logs after a first of two, with an endpoint that     *)
(* returns three.                                                          *)
(***************************************************************************)
EXTENDS Pinned

CONSTANTS a, b, e1, e2

MCEndpoints == {e1, e2}
MCBranches  == {a, b}
MCDensities == {0, 2, 4}
MCEpochs    == {0, 3}

Forward == {t \in [0..MaxWord -> 1..3] : \A n \in 1..MaxWord : t[n - 1] <= t[n]}
MCTimes == {t \in [MCBranches -> Forward] : \A n \in 0..Common : t[a][n] = t[b][n]}

(* Beyond the fork a branch is dense where the other is empty. *)
MCContents ==
    {[x \in MCBranches |-> [n \in 0..MaxWord |-> IF x = b /\ n > Common THEN 4 - c[n] ELSE c[n]]] :
        c \in {d \in [0..MaxWord -> MCDensities] : d[0] = 2}}

SomeTimes    == CHOOSE t \in MCTimes : t[a][MaxWord] # t[b][MaxWord]
SomeContents == CHOOSE c \in MCContents : TRUE

(* Block times matter to EndBlock alone, and logs to Transfers. *)
MCInit ==
    \/ /\ op = "EndBlock" /\ contents = SomeContents /\ from = 0 /\ to = 0
       /\ height \in {[e \in Endpoints |-> n] : n \in {0, MaxWord - 1}}
       /\ PinnedInit
    \/ /\ op = "Transfers" /\ times = SomeTimes /\ epoch = 0
       /\ height = [e \in Endpoints |-> MaxWord]
       /\ PinnedInit

MCSpec == MCInit /\ [][PinnedNext]_allVars /\ WF_allVars(Run)
=============================================================================
