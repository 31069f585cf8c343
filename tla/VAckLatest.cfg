SPECIFICATION Spec
CONSTANTS
  ConnIDs = {1}
  Dids = {1}
  ClientIDs = {0, 1}
  Objs = {o1}
  SlotSize = 1
  MaxCrashes = 0
  MaxCallbacks = 1
  MaxTimeouts = 2
  Leaving = {}
  RedisFast = TRUE
  RedisMayFail = FALSE
  Handler = Handler
  Nil = Nil
PROPERTIES AckConfirmsLatest
