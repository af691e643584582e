SPECIFICATION FairSpec
CONSTANTS
    a = a
    b = b
    c = c
    Bad = Bad
    Branches <- MCBranches
    Chain <- MCChain
    Log <- MCLog
    Start = 1
    MaxBlock = 4
    Chunk = 2
    Checkpoint = 3
    Finalities <- MCMixed
    MaxFaults = 1
    ReorgMidRun = TRUE
    AlignedCuts = TRUE
    RotPoints <- MCAny
INVARIANT RunsForward
PROPERTY EveryRunEnds
