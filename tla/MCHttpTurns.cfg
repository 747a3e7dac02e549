SPECIFICATION FairSpec
CONSTANTS
  MaxBuffered = 4
  Turns = {"a", "b"}
  Posts = 3
  MaxRetries = 1
  Scenarios <- MCScenarios
INVARIANTS TypeOK ResponsesAreWhole WorkIsAccounted
PROPERTY RequestsEnd
CHECK_DEADLOCK FALSE
