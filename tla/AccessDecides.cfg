SPECIFICATION Spec
CONSTANTS
  Users = {u1}
  Groups = {g1}
  Streams = {s1, s2}
  Paths = {p1, p2, p3}
  Keys = {k1}
  Viewers = {v1}
  Noting <- MCNoting
  None = None
SYMMETRY Symmetry
INVARIANTS AdmissionJustified InactiveNotWatched RefusalJustified
