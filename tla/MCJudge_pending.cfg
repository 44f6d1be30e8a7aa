CONSTANTS
  q1 = q1
  q2 = q2
  q3 = q3
  None = None
  Threw = Threw
  Submits <- MCOneSubmit
  Trials <- MCTrials
  MaxConcurrentExecutions = 1
  MaxQueueLength = 0
  MaxTests = 1
  Points <- MCPoints
  Edits = 0
  Crashes = 0
  DbMayFail = FALSE
SPECIFICATION Spec
PROPERTIES
  EverySubmissionJudged
CHECK_DEADLOCK FALSE
