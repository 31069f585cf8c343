SPECIFICATION FairSpec
CONSTANTS
  Items = {i1, i2, i3}
  Callers = {c1, c2}
  Worker = w
  MaxTime = 2
  None = None
CHECK_DEADLOCK FALSE
INVARIANTS WakeupHandshake NoLostWakeup
PROPERTIES OfferReturns Implements
