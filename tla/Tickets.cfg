SPECIFICATION Spec
CONSTANTS
  Bookings = {b1}
  Travelers = {n1}
  Accounts = {o, x}
  Files = {f1, f2}
  Fields = {number}
  Workers = {w1, w2}
  Null = Null
SYMMETRY Interchangeable
INVARIANTS TicketsTypeOK ClaimsBounded FilesBeforeRows
PROPERTY TripsStayListed
CHECK_DEADLOCK FALSE
