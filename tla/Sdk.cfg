SPECIFICATION FairSpec
CONSTANTS
  MaxTexts = 2
  MaxDials = 2
  MaxInFlight = 2
CHECK_DEADLOCK FALSE
INVARIANTS NumbersAgree
PROPERTIES TakenIsShown AckReachesServer
