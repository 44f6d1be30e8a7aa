CONSTANTS
  r1 = r1
  r2 = r2
  r3 = r3
  r4 = r4
  r5 = r5
  Requests <- MCRequests
  MaxConcurrentExecutions = 2
  MaxQueueLength = 2
SPECIFICATION Spec
INVARIANTS
  TypeOK
  SlotsConserved
  QueueCounted
  NoIdleSlotWhileWaiting
PROPERTIES
  RefusedOnlyWhenFull
  NoStarvation
  ImplementsAdmission
