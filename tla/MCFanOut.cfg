SPECIFICATION MCSpec
CONSTANTS
    e1 = e1
    e2 = e2
    w1 = w1
    w2 = w2
    x = x
    y = y
    None = None
    Endpoints <- MCEndpoints
    Workers <- MCWorkers
    Answers <- MCAnswers
    N = 3
INVARIANT TypeOK
PROPERTY ImplementsAgreedRead
