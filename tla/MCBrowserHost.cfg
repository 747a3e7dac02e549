SPECIFICATION Spec
CONSTANTS
  t1 = t1  t2 = t2  t3 = t3  h1 = h1  h2 = h2  k = k
  Turns = {t1, t2, t3}
  Helpers = {h1, h2}
  Keys = {k}
  NoKey = NoKey
  KeyOf <- MCKeyOf
  Scenarios <- MCScenarios
  MaxTabs = 2
INVARIANT TypeOK
PROPERTIES
  TurnsKeepTheirPages
  OrphansGo
CHECK_DEADLOCK FALSE
