\* Deadlines over three attempts with backoff; a stream body is not retried.
CONSTANTS
    Home = home
    Origins = {home}
    Secure = {home}
    Requests <- TimedRequests
    RetryMethods = {"GET"}
    MaxAttempts = 3
    MaxElapsed = 4
    MaxDelay = 2
    MaxRedirects = 1
    PoolTimeout = 1
    DrainCap = 1
    MaxTime = 5
    Never = Never
    NoOrigin = NoOrigin
SPECIFICATION FairSpec
CHECK_DEADLOCK FALSE
INVARIANT TotalBound
PROPERTIES RequestEnds
