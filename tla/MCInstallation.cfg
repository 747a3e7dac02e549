SPECIFICATION FairSpec
CONSTANTS
  MaxTokens = 4
  MaxBoots = 5
  MaxLaunches = 3
  Scenarios <- MCScenarios
INVARIANTS TypeOK SetupIsSafe SetupIsServed
PROPERTY UpdateHolds
CHECK_DEADLOCK FALSE
