SPECIFICATION Spec
CONSTANTS
  Sessions = {s1}
  Payments = {p1, p2}
  Reservations = {r1, r2}
  Seats = {A}
  Passports = {x}
  Workers = {w1, w2}
  Null = Null
  Provider = "stripe"
  Ops = {"create", "read", "submit", "pay", "webhook", "verify", "refund", "cancel", "validate", "drop"}
  MaxRefund = 2
SYMMETRY Interchangeable
INVARIANTS CompletedMeansSeated LinksAgree NoFreeSeat
CHECK_DEADLOCK FALSE
