SPECIFICATION FairSpec
CONSTANTS
  Modes = {"m1", "m2"}
  NoMode = "none"
  Rates = {30, 60}
  ViFaults = FALSE
INVARIANTS
  OneCaller
  ActedOnRunFmt
  DeviceLeftOff
PROPERTIES
  MainReturns
  FollowsMaster
