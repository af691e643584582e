SPECIFICATION FairSpec
CONSTANTS
    a = a
    b = b
    c = c
    Bad = Bad
    Branches <- MCBranches
    Chain <- MCChain
    Log <- MCLog
    Start = 1
    MaxBlock = 4
    Chunk = 2
    Checkpoint = 3
    Finalities <- MCLatest
    MaxFaults = 2
    ReorgMidRun = FALSE
    AlignedCuts = FALSE
    RotPoints <- MCIdle
INVARIANTS
    TypeOK
    WholeBlocks
PROPERTIES
    HistoryExact
    ForkExact
    Converges
