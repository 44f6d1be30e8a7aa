CONSTANTS
  q1 = q1
  q2 = q2
  q3 = q3
  None = None
  Threw = Threw
  Submits <- MCSubmits
  Trials <- MCTrials
  MaxConcurrentExecutions = 1
  MaxQueueLength = 1
  MaxTests = 1
  Points <- MCPoints
  Edits = 1
  Crashes = 1
  DbMayFail = TRUE
SPECIFICATION Spec
INVARIANTS
  TypeOK
  HiddenCaseRedacted
  RowsCohere
  AnswersTruthful
  NoSlotLeft
PROPERTIES
  EveryRequestAnswered
CHECK_DEADLOCK FALSE
