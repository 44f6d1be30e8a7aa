CONSTANTS
  e1 = e1
  e2 = e2
  s1 = s1
  s2 = s2
  f1 = f1
  f2 = f2
  r1 = r1
  r2 = r2
  p1 = p1
  Earlier = Earlier
  None = None
  Emails <- MCEmails
  Signups <- MCSignups
  Forgots <- MCForgots
  Resets <- MCResets
  Profiles <- MCProfiles
SPECIFICATION Spec
INVARIANTS
  TypeOK
  OneSignupWins
PROPERTIES
  PasswordsSetByReset
  OnlyLastLinkOpens
SYMMETRY MCSymmetry
CHECK_DEADLOCK FALSE
