SPECIFICATION FairSpec
CONSTANTS
  Trips = {t1}
  Locales = {ar, en}
  Spots = {home}
  Modes = {taxi}
  Asked <- MCAsked
  Destination <- MCDestination
  Gate <- MCGate
  Todos = {1}
  Workers = {w1, w2}
  NoGate = NoGate
INVARIANTS TripsTypeOK AnswersFit FeedbackBounded
PROPERTIES DeletedStays FallbackPasses
CHECK_DEADLOCK FALSE
