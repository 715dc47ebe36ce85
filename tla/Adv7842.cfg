SPECIFICATION FairSpec
CONSTANTS
  Modes = {"m1", "m2"}
  NoMode = "none"
  Rates = {60}
  ViFaults = TRUE
  DetectFaults = TRUE
INVARIANTS
  OneCaller
  ToldBeforeAnswered
  QuietAtExit
PROPERTIES
  MainReturns
  FollowsSignal
