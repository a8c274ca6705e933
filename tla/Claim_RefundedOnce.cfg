SPECIFICATION Spec
CONSTANTS
  Sessions = {s1}
  Payments = {p1}
  Reservations = {r1}
  Seats = {A}
  Passports = {x}
  Workers = {w1, w2}
  Null = Null
  Provider = "mock"
  Ops = {"create", "submit", "pay", "webhook", "cancel"}
  MaxRefund = 4
INVARIANT RefundedOnce
CHECK_DEADLOCK FALSE
