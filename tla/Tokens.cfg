SPECIFICATION Spec
CONSTANTS
  Pairs = {t1, t2, t3}
  Callers = {c1, c2}
  Workers = {w1, w2}
  Null = Null
SYMMETRY Interchangeable
INVARIANTS TokensTypeOK RotationBounded PhoneHoldsUsable
CHECK_DEADLOCK FALSE
