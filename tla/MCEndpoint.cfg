SPECIFICATION FairSpec
CONSTANTS
    c1 = c1
    c2 = c2
    Calls <- MCCalls
    Wanted <- MCWanted
    Headers <- MCHeaders
    MaxAttempts = 3
    Capacity = 2
INVARIANTS
    TypeOK
    HeadersAsAsked
    BudgetKept
    ServedOnceWell
PROPERTY Returns
