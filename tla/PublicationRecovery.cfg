SPECIFICATION FairSpec
CONSTANTS
    Pubs = {p1, p2}
    Workers = {w1}
    Operators = {o1}
    NoPub = NoPub
    LeaseDuration = 1
    RetryDelay = 1
    SweepLimit = 1
    MaxClaims = 1
    MaxTime = 2
PROPERTIES
    StrandedClaimIsRecovered
CHECK_DEADLOCK FALSE
