CONSTANTS
  e1 = e1
  e2 = e2
  s1 = s1
  s2 = s2
  f1 = f1
  f2 = f2
  r1 = r1
  r2 = r2
  p1 = p1
  Earlier = Earlier
  None = None
  Emails <- MCEmails
  Signups <- MCNoRequests
  Forgots <- MCOneForgot
  Resets <- MCResets
  Profiles <- MCNoRequests
SPECIFICATION Spec
INVARIANTS
  SingleUse
CHECK_DEADLOCK FALSE
