SPECIFICATION Spec
CONSTANTS
  Workers = {w1}
  SessionIds = {s1}
  StreamIds = {t1}
  AdminIds = {i1}
  Names = {n1}
  MaxScripts = 2
  MaxRequests = 1
  MaxEvents = 3
  None = None
INVARIANT RestoredStoresEnds
CHECK_DEADLOCK FALSE
