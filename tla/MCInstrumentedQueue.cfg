SPECIFICATION Spec
CONSTANTS
  Keys = {k1, k2, k3}
  Workers = {w1, w2, w3}
  Absent = Absent
SYMMETRY Symmetry
INVARIANTS
  NoGhost
CHECK_DEADLOCK FALSE
