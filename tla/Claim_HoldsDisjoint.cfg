SPECIFICATION Spec
CONSTANTS
  Sessions = {s1, s2}
  Payments = {p1}
  Reservations = {r1}
  Seats = {A}
  Passports = {x}
  Workers = {w1, w2}
  Null = Null
  Provider = "stripe"
  Ops = {"create"}
  MaxRefund = 2
INVARIANT HoldsDisjoint
CHECK_DEADLOCK FALSE
