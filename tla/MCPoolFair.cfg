\* The table never outgrows the threshold: no entry is ever removed.
CONSTANTS
    Tasks = {t1, t2, t3}
    Origins = {o1, o2}
    Entries = {e1, e2}
    MaxInFlight = 2
    MaxPerOrigin = 1
    SweepThreshold = 2
    Unlimited = Unlimited
    NoOrigin = NoOrigin
    NoEntry = NoEntry
    NoTask = NoTask
SPECIFICATION FairSpec
PROPERTIES AcquireEnds RefinesLimiters
