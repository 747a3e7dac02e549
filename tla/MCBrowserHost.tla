--------------------------- MODULE MCBrowserHost ---------------------------
EXTENDS BrowserHost

CONSTANTS t1, t2, t3, h1, h2, k

\* t1 and t2 belong to one conversation; t3 keeps nothing.
MCKeyOf == [t \in {t1, t2, t3} |-> IF t = t3 THEN NoKey ELSE k]
Runs(a, b, c) == [t \in {t1, t2, t3} |-> IF t = t1 THEN a ELSE IF t = t2 THEN b ELSE c]
Scenario(host, room, helpers, attempts, refusals, home) ==
  [host |-> host, room |-> room, helpers |-> helpers, attempts |-> attempts, refusals |-> refusals, home |-> home]
MCScenarios == {Scenario("launcher", 2, {h1}, Runs(1, 1, 0), 0, 0), Scenario("launcher", 1, {h1}, Runs(1, 0, 1), 0, 0),
                Scenario("launcher", 1, {h1, h2}, Runs(2, 0, 0), 1, 0), Scenario("roxybrowser", 1, {h1, h2}, Runs(2, 0, 0), 0, 0),
                Scenario("launcher", 1, {h1}, Runs(0, 0, 1), 1, 1), Scenario("launcher", 1, {}, Runs(0, 0, 0), 0, 3)}
=============================================================================
