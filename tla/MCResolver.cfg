CONSTANTS
    a1 = a1  a2 = a2  b1 = b1  b2 = b2  alpha = alpha  beta = beta
    Requests = {a1, a2, b1, b2}
    Endpoints = {alpha, beta}
    Of <- TwoHosts
    None = None
SPECIFICATION FairSpec
INVARIANTS NoneLost OneAtATime
PROPERTY EveryoneAnswered
CHECK_DEADLOCK FALSE
