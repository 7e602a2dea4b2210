SPECIFICATION Spec
CONSTANTS
  Users = {u1, u2}
  Codes = {k1, k2}
  Workers = {w1, w2}
  MaxHistory = 5
  None = None
INVARIANTS CodesDistinct HistoryExplains HistoryValid
PROPERTIES LifecycleSpec
