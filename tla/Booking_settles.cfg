SPECIFICATION FairSpec
CONSTANTS
  Sessions = {s1, s2}
  Payments = {p1, p2}
  Reservations = {r1}
  Seats = {A}
  Passports = {x}
  Workers = {w1, w2}
  Null = Null
  Provider = "stripe"
  Ops = {"create", "read", "submit", "pay", "webhook"}
  MaxRefund = 2
PROPERTIES CapturedSettles
CHECK_DEADLOCK FALSE
