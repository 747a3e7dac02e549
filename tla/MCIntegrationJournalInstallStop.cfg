\* A stop while installing.
CONSTANTS
  Baselines = {empty, routed}
  Routed = {routed}
  Empty = empty
  Cataloged = {routed}
  Routes = {r1}
  Catalogs = {k1, k2}
  CrashIn = {"install"}
  MaxCrashes = 1
  MaxFaults = 0
  MaxEdits = 0
  Missing = Missing
SPECIFICATION Spec
SYMMETRY Symmetry
INVARIANT StopResolves
