SPECIFICATION FairSpec
CONSTANTS
    p1 = p1
    p2 = p2
    Nobody = Nobody
    Procs <- MCProcs
    Log <- MCLog
    MaxBlock = 3
    Chunk = 1
    Checkpoint = 2
INVARIANTS
    TypeOK
    NeverInterleaved
PROPERTIES
    ReadsBackItsHistory
    EveryRunEnds
