SPECIFICATION Spec
CONSTANTS
  ConnIDs = {1, 2}
  Dids = {1}
  ClientIDs = {}
  Objs = {o1, o2}
  SlotSize = 1
  MaxCrashes = 0
  MaxCallbacks = 1
  MaxTimeouts = 2
  Leaving = {}
  RedisFast = TRUE
  RedisMayFail = TRUE
  Handler = Handler
  Nil = Nil
SYMMETRY ObjSymmetry
INVARIANTS TypeOK EveryConnIsWatched RouteIsOwned NoSilentLogOut RouteLostOnlyByLogOut
PROPERTIES LogOutForgets
