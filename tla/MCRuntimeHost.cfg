SPECIFICATION FairSpec
CONSTANTS
  Pids = {1, 2, 3}
  Scenarios <- MCScenarios
CHECK_DEADLOCK FALSE
INVARIANTS TypeOK RuntimeIsAsRecorded TurnsSurvive
PROPERTY OperationsEnd
