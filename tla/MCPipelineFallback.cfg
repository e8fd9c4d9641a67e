\* The HTTP/3 attempt of a dispatch fails late, and the TCP fallback starts over.
CONSTANTS
    Home = home
    Origins = {home}
    Secure = {home}
    Requests <- FallbackTimedRequests
    RetryMethods = {"GET"}
    MaxAttempts = 3
    MaxElapsed = 4
    MaxDelay = 2
    MaxRedirects = 1
    PoolTimeout = 1
    DrainCap = 1
    MaxTime = 5
    Never = Never
    NoOrigin = NoOrigin
SPECIFICATION Spec
CHECK_DEADLOCK FALSE
INVARIANT WithinTotal
