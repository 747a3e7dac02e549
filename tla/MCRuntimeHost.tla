--------------------------- MODULE MCRuntimeHost ---------------------------
EXTENDS RuntimeHost

Scenario(installed, target, asks, arrivals, failures, dies, apart) == [config |-> installed, target |-> target,
  asks |-> asks, turns |-> arrivals, faults |-> failures, dies |-> dies, apart |-> apart,
  throughout |-> TRUE, restarts |-> 1]
\* A runtime in full mode whose daemon and tunnel fail, also while they recover.
Failing(asks, failures, limit) ==
  [Scenario("full", "full", asks, 0, failures, FALSE, TRUE) EXCEPT !.throughout = FALSE, !.restarts = limit]
MCScenarios == {
  Scenario("full", "full", {"quit"}, 0, 1, FALSE, TRUE),
  Scenario("full", "browser", {"connect"}, 0, 1, FALSE, TRUE),
  Scenario("full", "browser", {"disconnect"}, 1, 1, TRUE, TRUE),
  Scenario("browser", "full", {"setup"}, 1, 1, TRUE, TRUE),
  Scenario("none", "browser", {"setup"}, 1, 2, FALSE, TRUE),
  Scenario("browser", "browser", {"disconnect", "proxy"}, 1, 1, FALSE, FALSE),
  Scenario("browser", "browser", {"uninstall"}, 1, 2, FALSE, TRUE),
  Scenario("browser", "browser", {"quit"}, 1, 2, FALSE, TRUE),
  Failing({}, 2, 1), Failing({}, 3, 2), Failing({"disconnect"}, 2, 2),
  Scenario("old", "browser", {"connect"}, 1, 1, TRUE, FALSE)}
=============================================================================
