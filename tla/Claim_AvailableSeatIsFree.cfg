SPECIFICATION Spec
CONSTANTS
  Sessions = {s1}
  Payments = {p1}
  Reservations = {r1}
  Seats = {A}
  Passports = {x}
  Workers = {w1, w2}
  Null = Null
  Provider = "stripe"
  Ops = {"create", "submit", "pay", "webhook", "refund"}
  MaxRefund = 2
INVARIANT AvailableSeatIsFree
CHECK_DEADLOCK FALSE
