SPECIFICATION Spec
CONSTANTS
  Sessions = {s1, s2}
  Payments = {p1, p2}
  Reservations = {r1, r2}
  Seats = {A}
  Passports = {x}
  Workers = {w1, w2}
  Null = Null
  Provider = "mock"
  Ops = {"create", "read", "submit", "pay", "webhook", "refund", "cancel", "validate"}
  MaxRefund = 4
SYMMETRY Interchangeable
INVARIANTS BookingInv SeatSoldOnce LinksAgree
CHECK_DEADLOCK FALSE
