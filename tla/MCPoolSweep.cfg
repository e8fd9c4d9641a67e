\* Three requests, two origins, a sweep on every insertion into a non-empty table.
CONSTANTS
    Tasks = {t1, t2, t3}
    Origins = {o1, o2}
    Entries = {e1, e2, e3, e4}
    MaxInFlight = 2
    MaxPerOrigin = 1
    SweepThreshold = 0
    Unlimited = Unlimited
    NoOrigin = NoOrigin
    NoEntry = NoEntry
    NoTask = NoTask
SPECIFICATION Spec
SYMMETRY MCSymmetry
INVARIANTS PermitsConserved RegistrationsExact
