SPECIFICATION Spec
CONSTANTS
  Reservations = {r1}
  Jobs <- MCJobs
  First <- MCFirst
  Kinds <- MCKinds
  Window <- MCWindow
  Departures = {4, 5}
  Buffers = {1}
  MinTtl = 1
  MaxDeaths = 1
  MaxMoves = 1
INVARIANTS RemindersTypeOK PushedOnce MarkedHasRow SteadyReminded
CHECK_DEADLOCK FALSE
