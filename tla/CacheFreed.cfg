SPECIFICATION MCSpec
CONSTANTS
  Writers = {r1, r2}
  Caches = {c1, c2, c3}
  NULL = NULL
  Nobody = Nobody
  InitMayFail = FALSE
  t1 = t1
  w = w
  none = none
  MaxRaises = 0
INVARIANTS ExclusiveAccess
