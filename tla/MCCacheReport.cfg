SPECIFICATION Spec
CONSTANTS
    a = a
    b = b
    c = c
    Bad = Bad
    Branches <- MCBranches
    Chain <- MCChain
    Log <- MCLog
    Start = 1
    MaxBlock = 5
    Chunk = 2
    Checkpoint = 3
    Finalities <- MCLatest
    MaxFaults = 1
    ReorgMidRun = FALSE
    AlignedCuts = FALSE
    RotPoints <- MCNever
INVARIANT ReportComplete
