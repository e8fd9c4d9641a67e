\* Redirect and retry policy: who gets which credentials and bodies; and the
\* Alt-Svc cache and suppressor under two concurrent callers.
CONSTANTS
    Home = home
    Origins = {home, peer, plain}
    Secure = {home, peer}
    Requests <- PolicyRequests
    RetryMethods = {"GET"}
    MaxAttempts = 2
    MaxElapsed = Never
    MaxDelay = 0
    MaxRedirects = 2
    PoolTimeout = Never
    DrainCap = 0
    MaxTime = 0
    Never = Never
    NoOrigin = NoOrigin
    t1 = t1  t2 = t2
    o1 = o1  o2 = o2
    e1 = e1  e2 = e2
    Tasks = {t1, t2}
    MaxRequests = 4
    AltOrigins = {o1, o2}
    Endpoints = {e1, e2}
    Ages = {1}
    MaxEntries = 1
    Base = 1
    MaxBackoff = 2
    Totals = {1}
    Policies = {"Http3Only", "Auto"}
    AltMaxTime = 1
    NoDeadline = NoDeadline
SPECIFICATION SafetySpec
SYMMETRY TaskSymmetry
CHECK_DEADLOCK FALSE
INVARIANTS HopsInScope ReplayAllowed FallbackAllowed
PROPERTIES AdvertisementPrevails
