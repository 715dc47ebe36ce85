SPECIFICATION Spec
CONSTANTS
  Outputs = {"vo0", "vo1"}
  Syncs <- TwoOutputs
  Groups = {"grp0"}
  VoChns = 1
  VpssChns = 2
  MaxFaults = 1
INVARIANTS
  OpenIsWhole
  ClosedIsGone
  RefusedOnlyAfterFailure
