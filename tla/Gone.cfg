SPECIFICATION FairSpec
CONSTANTS
  ConnIDs = {1}
  Dids = {1}
  ClientIDs = {0}
  Objs = {o1}
  SlotSize = 1
  MaxCrashes = 1
  MaxCallbacks = 1
  MaxTimeouts = 2
  Leaving = {1}
  RedisFast = TRUE
  RedisMayFail = FALSE
  Handler = Handler
  Nil = Nil
CHECK_DEADLOCK FALSE
PROPERTIES GoneIsLoggedOut
