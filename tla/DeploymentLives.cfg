SPECIFICATION Spec
CONSTANTS
  Workers = {w1, w2}
  SessionIds = {s1}
  StreamIds = {t1, t2}
  AdminIds = {i1, i2}
  Names = {n1}
  MaxScripts = 3
  MaxRequests = 2
  MaxEvents = 4
  None = None
SYMMETRY Symmetry
INVARIANTS TypeOK DoneIsModel RefusedStoresAll OneOwner AuthorizedIsAdmin
PROPERTIES MigrationsKeepSessions OnlyLateEndRefuses
\* When the last script has left the backend stopped, nothing else happens.
CHECK_DEADLOCK FALSE
