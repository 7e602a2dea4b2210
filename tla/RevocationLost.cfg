SPECIFICATION Spec
CONSTANTS
  Workers = {w1, w2}
  SessionIds = {1}
  StreamIds = {1}
  Keys = {k1}
  PathNames = {p1}
  p1 = p1
  a1 = a1
  a2 = a2
  None = None
  Keep = Keep
  AutoPath <- MCAutoPath
  Patches <- MCPatches
  Operations = {"start", "revoke"}
PROPERTY RevokedCannotPublish
