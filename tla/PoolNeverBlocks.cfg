SPECIFICATION Spec
CONSTANTS
  Listers = {l1, l2, l3, l4, l5}
  OneStatement = {o1}
  MaxConns = 5
  MaxChapters = 2
SYMMETRY Symmetry
INVARIANTS NoPoolDeadlock
CHECK_DEADLOCK FALSE
