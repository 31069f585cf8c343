SPECIFICATION FairSpec
CONSTANTS
  w1 = w1
  w2 = w2
  w3 = w3
  Workers = {w1, w2, w3}
  Pools <- MCPools
  Flows <- MCFlows
  Caps = {0, 1}
CHECK_DEADLOCK FALSE
INVARIANTS DepsCompletedUnlessSwapped
PROPERTIES RunEnds WorkersComeBack
