SPECIFICATION Spec
CONSTANTS
  Sessions = {s1, s2}
  Payments = {p1, p2}
  Reservations = {r1, r2}
  Seats = {A, B}
  Passports = {x}
  Workers = {w1, w2}
  Null = Null
  Provider = "stripe"
  Ops = {"create", "submit", "pay", "webhook"}
  MaxRefund = 2
INVARIANT PassengerOncePerFlight
CHECK_DEADLOCK FALSE
