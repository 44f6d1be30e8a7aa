CONSTANTS
  p1 = p1
  p2 = p2
  c1 = c1
  n1 = n1
  n2 = n2
  u1 = u1
  d1 = d1
  s1 = s1
  a1 = a1
  r1 = r1
  k1 = k1
  w1 = w1
  w2 = w2
  x1 = x1
  alice = alice
  bob = bob
  sum = sum
  prime = prime
  None = None
  Keep = Keep
  OldProblems <- MCOldProblems
  OldContests <- MCOldContests
  Creates <- MCCreates
  Updates <- MCUpdates
  Deletes <- MCDeletes
  Seeds <- MCSeeds
  Adds <- MCAdds
  Removals <- MCRemovals
  NewContests <- MCNewContests
  ContestUpdates <- MCContestUpdates
  ContestDeletes <- MCContestDeletes
  Loads <- MCLoads
  Titles <- MCTitles
  Times <- MCTimes
  Participants <- MCParticipants
  PointValues <- MCPointValues
  MaxRequests = 4
SPECIFICATION ContestSpec
INVARIANTS
  ReferencesHold
  WindowsProper
  StandingsAsDescribed
PROPERTIES
  EditsAimed
SYMMETRY MCSymmetry
CHECK_DEADLOCK FALSE
