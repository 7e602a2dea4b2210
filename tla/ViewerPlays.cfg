SPECIFICATION Spec
CONSTANTS
  Codes = {c1, c2}
  Tasks = {t1, t2, t3}
  Connections = {p1, p2, p3, p4}
  AutoPlay = TRUE
  None = None
SYMMETRY Symmetry
INVARIANTS TypeOK OneConnection ShownIsCurrent PanelNeedsToken BadgeSettles
