\* The total timeout is the client's, not the request's.
CONSTANTS
    Home = home
    Origins = {home}
    Secure = {home}
    Requests <- ClientTimedRequests
    RetryMethods = {"GET"}
    MaxAttempts = 3
    MaxElapsed = 4
    MaxDelay = 2
    MaxRedirects = 1
    PoolTimeout = 1
    DrainCap = 1
    MaxTime = 5
    Never = Never
    NoOrigin = NoOrigin
SPECIFICATION Spec
CHECK_DEADLOCK FALSE
INVARIANT WithinTotal
