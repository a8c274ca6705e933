SPECIFICATION Spec
CONSTANTS
  Users = {a, u}
  Chief = a
  StaffRoles = {r}
  Workers = {w1, w2}
  Null = Null
  Asks = {{}, {"manage", "staff"}}
SYMMETRY Interchangeable
INVARIANTS StaffTypeOK PermissionsAsAsked SuperadminIntact
CHECK_DEADLOCK FALSE
