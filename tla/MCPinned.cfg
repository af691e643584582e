SPECIFICATION MCSpec
CONSTANTS
    a = a
    b = b
    e1 = e1
    e2 = e2
    Endpoints <- MCEndpoints
    Branches <- MCBranches
    Common = 1
    Times <- MCTimes
    Contents <- MCContents
    Epochs <- MCEpochs
    EpochSeconds = 2
    MaxTime = 7
    MaxWord = 4
    MaxSpan = 4
    Limit = 3
    Densities <- MCDensities
    MaxSpurious = 1
INVARIANTS
    PinnedTypeOK
    RangeExact
    RefusedOnlyIfDense
    EndBlockIsLast
    ReadsMatch
    TipIsHeldByAll
PROPERTY CallReturns
