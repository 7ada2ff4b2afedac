SPECIFICATION FairSpec
CONSTANTS
    Delay = 5
    Timeout = 12
    NodeMayFail = TRUE
    MaxChecks = 5
INVARIANT RejectedAfterTimeout
INVARIANT StopsOnlyWhenFound
PROPERTY KeepsPromise
PROPERTY PromiseSettles
CHECK_DEADLOCK FALSE
