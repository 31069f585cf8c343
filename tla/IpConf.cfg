SPECIFICATION FairSpec
CONSTANTS
  n1 = n1
  n2 = n2
  r1 = r1
  Nodes = {n1, n2}
  Requests = {r1}
  Reports = {1, 2}
  Loads <- MCLoads
  windowSize = 2
  Addresses = {1, 2}
  Top = 1
CHECK_DEADLOCK FALSE
INVARIANTS WindowSums
PROPERTIES NewestCounts RequestsAreAnswered
