SPECIFICATION MediaSpec
CONSTANTS
  Workers = {w1, w2}
  SessionIds = {1, 2}
  StreamIds = {1, 2}
  Keys = {k1, k2}
  PathNames = {p1}
  p1 = p1
  a1 = a1
  a2 = a2
  None = None
  Keep = Keep
  AutoPath <- MCAutoPath
  Patches <- MCPatches
  Operations = {"start", "bind"}
  Startup = Startup
  Transcoded = Transcoded
  Unstarted = Unstarted
  Faults = {"process"}
  MaxFaults = 1
INVARIANTS Distinct OverlapsKeepAlias
SYMMETRY Symmetry
PROPERTY RestoredIsServed
