SPECIFICATION FairSpec
CONSTANTS
  a = a
  b = b
  c = c
  d = d
  k1 = k1
  k2 = k2
  k3 = k3
  NoKey = NoKey
  Nobody = Nobody
  Runs <- MCRuns
  Keys <- MCKeys
  Scenarios <- MCScenarios
  Limit = 2
  Faults = 1
  Moves = 5
  Calls = 1
  Settle = 1
  Grace = 2
CHECK_DEADLOCK FALSE
INVARIANTS TypeOK PagesAreAccounted AccountIsRight AnswersAreFinal
PROPERTY WorkEnds
