SPECIFICATION Spec
CONSTANTS
  Req = {r1, r2, r3}
  Gates = 2
  Limit <- MCLimit
  Window <- MCWindow
  MaxTime = 9
SYMMETRY Symmetry
INVARIANTS TypeOK
PROPERTY Limiter
CHECK_DEADLOCK FALSE
