CONSTANTS
  s1 = s1
  s2 = s2
  None = None
  Steps <- MCOneStep
SPECIFICATION Spec
PROPERTIES
  EveryStepSettles
CHECK_DEADLOCK FALSE
