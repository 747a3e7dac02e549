--------------------------- MODULE MCInstallation ---------------------------
(***************************************************************************)
(* A terminal install set up again; a migration to the launcher; a         *)
(* launcher that updates itself.                                           *)
(***************************************************************************)
EXTENDS Installation

Conf(release, tid, owner) ==
  [release |-> release, mcp |-> tid # 0, tid |-> tid, owner |-> owner, token |-> 1]
Budget(faults, crashes, turns, deaths) == [faults |-> faults, crashes |-> crashes, turns |-> turns, deaths |-> deaths]
Opt(release, mcp, tid, restart) == [NoOption EXCEPT !.release = release, !.mcp = mcp, !.tid = tid, !.restart = restart]
ByLauncher(o) == [o EXCEPT !.launcher = TRUE]

Terminal(config, loaded, setups, b) ==
  [config |-> config, loaded |-> loaded, kept |-> TRUE, setups |-> setups, budget |-> b,
   version |-> 1, updates |-> FALSE, dest |-> "none", platform |-> "other", power |-> 0, deaths |-> 0]
Update(tid, dest, platform, faults, deaths, b) ==
  [config |-> Conf(1, tid, "launcher"), loaded |-> FALSE, kept |-> TRUE, setups |-> <<>>, budget |-> b,
   version |-> 1, updates |-> TRUE, dest |-> dest, platform |-> platform, power |-> faults, deaths |-> deaths]

Old == Conf(1, 1, "terminal")
WithLogin(o) == [o EXCEPT !.login = TRUE]

(* an upgrade and its repetition; other changes; a first install; a profile that is missing *)
Terminals ==
  {Terminal(Old, TRUE, <<Opt(2, TRUE, 0, TRUE), Opt(2, TRUE, 0, r)>>, b) :
     r \in BOOLEAN, b \in {Budget(2, 0, 1, 0), Budget(0, 1, 2, 0), Budget(1, 0, 1, 1)}}
  \cup {Terminal(Old, TRUE, <<o, Opt(1, FALSE, 0, TRUE)>>, Budget(1, 0, 1, 1)) :
     o \in {Opt(1, FALSE, 0, TRUE), Opt(1, TRUE, 2, FALSE), WithLogin(Opt(1, TRUE, 2, TRUE)), WithLogin(Opt(1, TRUE, 0, FALSE))}}
  \cup {Terminal(NoConfig, FALSE, <<Opt(1, TRUE, t, FALSE), WithLogin(Opt(1, TRUE, 1, TRUE))>>, Budget(1, 1, 1, 1)) : t \in {0, 1}}
  \cup {[Terminal(Old, TRUE, <<Opt(1, TRUE, 0, FALSE), Opt(2, TRUE, 2, TRUE)>>, Budget(1, 0, 1, 1)) EXCEPT !.kept = FALSE]}

Migrations ==
  {Terminal(Old, TRUE, <<ByLauncher(Opt(2, m, 0, r)), ByLauncher(Opt(2, TRUE, 2, TRUE))>>, Budget(1, 0, 1, 1)) :
     m \in BOOLEAN, r \in BOOLEAN}
  \cup {Terminal(Old, TRUE, <<ByLauncher(Opt(2, m, 0, TRUE)), Opt(1, TRUE, 0, FALSE)>>, Budget(1, 0, 0, 1)) : m \in BOOLEAN}
  \cup {Terminal(Old, TRUE, <<Opt(1, TRUE, 2, TRUE), ByLauncher(Opt(1, TRUE, 0, TRUE))>>, Budget(1, 1, 2, 0))}

Updates ==
  {Update(t, d, p, 1, 1, Budget(1, 0, 0, 0)) : t \in {0, 1}, d \in {"none", "stale"}, p \in {"mac", "other"}}
  \cup {Update(1, "none", "mac", 2, 0, Budget(0, 0, 0, 0))}

MCScenarios == Terminals \cup Migrations \cup Updates
=============================================================================
