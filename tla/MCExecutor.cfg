CONSTANTS
  run1 = run1
  None = None
  Threw = Threw
  Runs <- MCRuns
  MaxTests = 3
SPECIFICATION Spec
INVARIANTS
  TypeOK
  VerdictFaithful
  StopsAtFirstFailure
  MountOutlivesContainer
PROPERTIES
  ImplementsContract
  EndsOrEscapes
CHECK_DEADLOCK FALSE
