CONSTANTS
    Submits = {s1, s2, s3}
    Gets = {g1}
    Cancels = {c1}
    Unregistered = {s3}
    NoOne = NoOne
    PoolSize = 2
    MaxFailures = 1
    N = 2
    Compensable = {1}
SPECIFICATION FairSpec
INVARIANTS
    RepliesAgree
    LoserFindsWinner
    ResponsesFit
PROPERTIES
    EveryRequestAnswered
CHECK_DEADLOCK FALSE
