SPECIFICATION Spec
CONSTANTS
  Sessions = {s1, s2}
  Payments = {p1, p2}
  Reservations = {r1, r2}
  Seats = {A, B}
  Passports = {x, y}
  Workers = {w1, w2}
  Null = Null
  Provider = "stripe"
  Ops = {"create", "submit", "pay", "webhook"}
  MaxRefund = 2
SYMMETRY Interchangeable
INVARIANTS BookingInv OneReservationPerSession SeatSoldOnce
PROPERTIES ImplementsSeatSale
CHECK_DEADLOCK FALSE
