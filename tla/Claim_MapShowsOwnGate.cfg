SPECIFICATION Spec
CONSTANTS
  Trips = {t1, t2}
  Locales = {ar, en}
  Spots = {home}
  Modes = {taxi}
  Asked <- MCMaps
  Destination <- MCDestination
  Gate <- MCGate
  Todos = {1}
  Workers = {w1, w2}
  NoGate = NoGate
INVARIANTS MapShowsOwnGate
CHECK_DEADLOCK FALSE
