CONSTANTS
  admin = admin
  ann = ann
  sum = sum
  prime = prime
  t1 = t1
  t2 = t2
  None = None
  Accounts <- MCAccounts
  Admins <- MCAdmins
  Slugs <- MCSlugs
  OldTests <- MCOldTests
  Drafts <- MCDrafts
  MaxSends = 4
SPECIFICATION Spec
INVARIANTS
  VerdictOfLastClick
  PageShowsStored
PROPERTIES
  ActsAsShown
SYMMETRY MCSymmetry
CHECK_DEADLOCK FALSE
