CONSTANTS
  s1 = s1
  s2 = s2
  None = None
  Steps <- MCSteps
SPECIFICATION Spec
INVARIANTS
  TypeOK
  HonestResult
  NoStrayKill
  SettledMeansGone
PROPERTIES
  NoKillAfterSettle
  SettlesOrEscapes
CHECK_DEADLOCK FALSE
