SPECIFICATION Spec
CONSTANTS
  Chains <- Chip3
  MaxFaults = 2
  MaxLives = 2
INVARIANTS
  TypeOK
  NeverRefused
  CompleteInLoop
  CleanBeforeExit
  NothingLeft
