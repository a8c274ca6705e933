SPECIFICATION DirectSpec
CONSTANTS
  Sessions = {s1}
  Payments = {p1}
  Reservations = {r1, r2, r3}
  Seats = {A, B}
  Passports = {x, y}
  Workers = {w1, w2}
  Null = Null
  Provider = "mock"
  Ops = {"create", "submit", "pay", "webhook", "cancel", "order", "reserve", "details"}
  MaxRefund = 2
SYMMETRY Interchangeable
INVARIANTS DirectTypeOK ProvisionalNeverBoards CheckoutUnharmed
PROPERTIES DirectStaysCanceled PassengersKept
CHECK_DEADLOCK FALSE
