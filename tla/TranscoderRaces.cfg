SPECIFICATION FairSpec
CONSTANTS
  Paths = {p1, p2}
  Handles = {h1, h2}
  Callers = {c1, c2}
  OSErrors = TRUE
  None = None
INVARIANTS TypeOK StopLeavesNone Supervised RegisteredRuns
PROPERTIES StoppedThreadsEnd KeepsTranscoding
CHECK_DEADLOCK FALSE
