SPECIFICATION FairSpec
CONSTANTS
  t1 = t1  t2 = t2
  k1 = k1  k2 = k2
  Tasks = {t1, t2}
  Keys = {k1, k2}
  Gens = {1, 2}
  Targets <- ModelTargets
  MaxEntries = 1
  MaxRequests = 3
  Nobody = Nobody
CHECK_DEADLOCK FALSE
INVARIANTS FallbackIsUnsent
PROPERTIES SessionsStayApart WaitersGoOn
