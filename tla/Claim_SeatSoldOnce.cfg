SPECIFICATION DirectSpec
CONSTANTS
  Sessions = {s1}
  Payments = {p1}
  Reservations = {r1, r2, r3}
  Seats = {A, B}
  Passports = {x, y}
  Workers = {w1, w2}
  Null = Null
  Provider = "mock"
  Ops = {"order", "reserve"}
  MaxRefund = 4
INVARIANT SeatSoldOnce
CHECK_DEADLOCK FALSE
