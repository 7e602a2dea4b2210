SPECIFICATION Spec
CONSTANTS
  Workers = {w1, w2}
  SessionIds = {1}
  StreamIds = {1, 2}
  Keys = {k1, k2}
  PathNames = {p1}
  p1 = p1
  a1 = a1
  a2 = a2
  None = None
  Keep = Keep
  AutoPath <- MCAutoPath
  Patches <- MCRacingPatches
  Operations = {"start", "stop", "rotate", "revoke", "bind", "create", "create_stream", "update_stream"}
SYMMETRY Symmetry
INVARIANTS TypeOK RevokedIsStamped ReferencesExist
PROPERTIES SettledForever OffUntilReopened
