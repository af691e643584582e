------------------------------ MODULE MCCache ------------------------------
(***************************************************************************)
(* A small chain for Cache: up to 5 blocks on three branches. b leaves a   *)
(* after block 2 and c after block 1. Some blocks carry several transfers, *)
(* some none, so that a cut can fall inside a block and a branch can carry *)
(* transfers where another is quiet.                                       *)
(***************************************************************************)
EXTENDS Cache, SequencesExt

CONSTANTS a, b, c

MCBranches == {a, b, c}

ForkOf == (a :> 0) @@ (b :> 3) @@ (c :> 2)

MCChain == [x \in MCBranches |-> [n \in 0..MaxBlock |-> IF n >= ForkOf[x] THEN <<x, n>> ELSE <<a, n>>]]

Carried == (a :> <<2, 1, 0, 2, 1>>) @@ (b :> <<2, 1, 1, 0, 2>>) @@ (c :> <<2, 2, 0, 1, 1>>)

MCLog ==
    [x \in MCBranches |->
        FlattenSeq([n \in 1..MaxBlock |->
            [i \in 1..Carried[x][n] |-> [block |-> n, hash |-> MCChain[x][n], index |-> i]]])]

MCLatest == {"latest"}
MCMixed  == {"latest", "safe"}

MCIdle   == {"idle", "each"}
MCAny    == {"idle", "reopen", "each"}
MCNever  == {}
=============================================================================
