SPECIFICATION Spec
CONSTANTS
    MaxEpoch = 3
    Funding <- MCFunding
    Draws <- MCDraws
    Populations <- MCPopulations
    Dust = 2
    MaxLogs = 3
    MaxVoids = 1
    SearchSpan = 1
INVARIANTS
    TypeOK
    RootJudgedAsPosted
    WalkAgreesWithCompute
    MatchedWalkConserves
    ExpectationVouchedFor
    UnpostedIsNoMatch
    LatestIsLatest
