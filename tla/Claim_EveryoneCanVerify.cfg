SPECIFICATION Spec
CONSTANTS
  Users = {u1, u2}
  Emails = {e1, e2}
  Passwords = {p1, p2}
  Links = {l1, l2, l3}
  Workers = {w1, w2}
  Null = Null
  Environment = "staging"
SYMMETRY Interchangeable
INVARIANTS EveryoneCanVerify
CHECK_DEADLOCK FALSE
