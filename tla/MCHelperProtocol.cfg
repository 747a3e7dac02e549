SPECIFICATION FairSpec
CONSTANTS
  MaxRuns = 2
  Traces = {"a", "b"}
  Texts = 1
  Plans <- MCPlans
INVARIANTS TypeOK StreamIsWhole
PROPERTY RunsEnd
CHECK_DEADLOCK FALSE
