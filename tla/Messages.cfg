SPECIFICATION Spec
CONSTANTS
  ConnIDs = {1}
  Dids = {1}
  ClientIDs = {0, 1}
  Objs = {o1, o2}
  SlotSize = 1
  MaxCrashes = 1
  MaxCallbacks = 1
  MaxTimeouts = 1
  Leaving = {}
  RedisFast = TRUE
  RedisMayFail = FALSE
  Handler = Handler
  Nil = Nil
SYMMETRY ObjSymmetry
INVARIANTS UnackedIsRetried CountedIsPushed SlotsAreServed
