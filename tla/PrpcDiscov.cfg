SPECIFICATION FairSpec
CONSTANTS
  a = a
  b = b
  ga = ga
  gb = gb
  Servers = {a, b}
  SvcOf <- MCSvcOf
  Dialers = {ga, gb}
  Want <- MCWant
  Loads <- MCLoads
CHECK_DEADLOCK FALSE
INVARIANTS RegisteredIsCached
PROPERTIES EndpointsAreTold ShutdownEnds
