CONSTANT Request = {r1, r2}
SYMMETRY Symmetry
SPECIFICATION Spec
CHECK_DEADLOCK FALSE
INVARIANTS
  ExitSparesAll
