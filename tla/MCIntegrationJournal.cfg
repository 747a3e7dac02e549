\* Stops everywhere, a write that fails and a restore after it, edits by the user. A stop while installing can leave nothing to do, so deadlock is allowed.
CONSTANTS
  Baselines = {empty, routed}
  Routed = {routed}
  Empty = empty
  Cataloged = {routed}
  Routes = {r1, r2}
  Catalogs = {k1, k2}
  CrashIn = {"install", "deactivate", "activate", "refresh", "uninstall"}
  MaxCrashes = 2
  MaxFaults = 2
  MaxEdits = 2
  Missing = Missing
SPECIFICATION Spec
SYMMETRY Symmetry
INVARIANT TypeOK
INVARIANT NothingIsLost
INVARIANT SwitchRecovers
CHECK_DEADLOCK FALSE
