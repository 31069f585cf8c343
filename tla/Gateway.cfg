SPECIFICATION FairSpec
CONSTANTS
  c1 = c1
  c2 = c2
  c3 = c3
  Conns = {c1, c2, c3}
  Loads <- MCLoads
  NumFDs = 3
  Acceptors = {a1}
  w1 = w1
  w2 = w2
  Workers = {w1, w2}
  None = None
  MaxSequence = 1
  CmdNum = 1
CHECK_DEADLOCK FALSE
INVARIANTS UniqueIDs ConnectionsAreBounded StaysWatched
PROPERTIES ReadReachesState HangupIsReported
