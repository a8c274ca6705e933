SPECIFICATION Spec
CONSTANTS
  Bookings = {b1}
  Travelers = {n1}
  Accounts = {o}
  Files = {f1}
  Fields = {number}
  Workers = {w1, w2}
  Null = Null
PROPERTIES AdmittedOnce
CHECK_DEADLOCK FALSE
