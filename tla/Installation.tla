---------------------------- MODULE Installation ----------------------------
(***************************************************************************)
(* Setups and updates of one installation.  Setups are run from a terminal *)
(* one after the other, or by the launcher, which restores what was there  *)
(* when its setup fails; a launcher that starts with a configuration of    *)
(* another release runs one by itself.                                     *)
(***************************************************************************)
EXTENDS Setup, LauncherUpdate, Sequences

CONSTANT Scenarios   \* bound: what is installed at first, and what is asked

Scenario ==
  [config : Config, loaded : BOOLEAN, kept : BOOLEAN, setups : Seq(Option), updates : BOOLEAN,
   budget : [faults : Nat, crashes : Nat, turns : Nat, deaths : Nat],
   version : Versions \ {0}, dest : {"none", "stale", "whole"}, platform : {"mac", "other"}, power : Nat, deaths : Nat]

\* launchd runs the daemon of a terminal install only
ASSUME ScenariosAssumption ==
  /\ Scenarios \subseteq Scenario
  /\ \A s \in Scenarios : s.loaded => s.config.owner = "terminal"

VARIABLE scenario

vars == <<machine, route, job, budget, history, installation, scenario>>

Init ==
  /\ scenario \in Scenarios
  /\ InitSetup(scenario.config, scenario.loaded, scenario.kept)
  /\ InitUpdate(scenario.version, scenario.dest, scenario.platform, scenario.power, scenario.deaths)
  /\ budget = scenario.budget

\* Bound: one setup at a time; one that failed in the launcher is over when it is restored, or dies.
Idle == job.at \in Over /\ (At("failed") => ~job.opt.launcher)
Asked == Len(scenario.setups) > 0

\* setup from a terminal, or migration and new credentials from the launcher's window
StartSetup ==
  /\ Idle /\ Asked /\ Off
  /\ job' = NewJob(Head(scenario.setups))
  /\ scenario' = [scenario EXCEPT !.setups = Tail(@)]
  /\ UNCHANGED <<machine, route, budget, history, installation>>

SetupDies ==
  /\ ~Idle /\ Off /\ budget.deaths > 0
  /\ budget' = [budget EXCEPT !.deaths = @ - 1]
  /\ job' = [job EXCEPT !.at = "dead"]
  /\ history' = [history EXCEPT !.abandoned = IF daemon.accepting THEN @ ELSE @ \cup {daemon.born}]
  /\ UNCHANGED <<machine, route, installation, scenario>>

\* restoreSetupCheckpoint, and restorePreviousRuntime of a terminal's runtime: what changed on
\* disk is installed and started again.
Restores ==
  LET c == job.checkpoint
      repairs == Exists(c.saved) /\ c.saved.owner = "terminal" /\ Snapshot # c
      restored == [tunnel EXCEPT !.plist = c.served, !.profile = c.profile] IN
  /\ At("failed") /\ job.opt.launcher
  /\ Goes("undone") /\ saved' = c.saved /\ route' = c.route
  /\ service' = IF repairs /\ ~Loaded THEN [plist |-> c.plist, loaded |-> "yes", args |-> c.plist]
                ELSE [service EXCEPT !.plist = c.plist]
  /\ tunnel' = IF repairs /\ c.saved.mcp /\ ~tunnel.loaded THEN TunnelStarted(restored) ELSE restored
  /\ UNCHANGED <<daemon, budget, history, installation, scenario>>

\* upgradeManagedRuntime
UpgradeOption == [NoOption EXCEPT !.release = launcher.version, !.mcp = saved.mcp, !.launcher = TRUE, !.restart = TRUE]
Upgrade ==
  /\ Is("upgrade") /\ Idle
  /\ IF saved.owner = "launcher" /\ saved.release # launcher.version
     THEN Becomes("upgrading") /\ job' = NewJob(UpgradeOption)
     ELSE Becomes("ready") /\ UNCHANGED job
  /\ UNCHANGED <<machine, route, budget, history, ctl, worker, disk, bundle, power, scenario>>

UpgradeEnds ==
  /\ Is("upgrading") /\ job.at \in {"done", "undone"}
  /\ Becomes("ready")
  /\ UNCHANGED <<machine, route, job, budget, history, ctl, worker, disk, bundle, power, scenario>>

\* A launcher that dies takes its setup with it.
Died == job' = IF Is("upgrading") /\ job.at \notin {"done", "undone"} THEN [job EXCEPT !.at = "dead"] ELSE job

Launchers ==
  /\ scenario.updates
  /\ \/ (LauncherStep \/ WorkerStep \/ Launch \/ BeginInstall \/ QuitRefused \/ UserQuits \/ WorkerDies) /\ UNCHANGED job
     \/ LauncherDies /\ Died
  /\ UNCHANGED <<machine, route, budget, history, scenario>>

Step == (SetupStep /\ UNCHANGED <<installation, scenario>>) \/ Restores
Next ==
  \/ Step \/ StartSetup \/ SetupDies
  \/ Machine /\ UNCHANGED <<installation, scenario>>
  \/ Upgrade \/ UpgradeEnds \/ Launchers

Spec == Init /\ [][Next]_vars

\* The programs run on, launchd unloads and starts, and a quit is carried out or refused; who
\* asks, opens, and dies is free.
FairSpec ==
  /\ Spec
  /\ WF_vars(Step) /\ WF_vars(Upgrade \/ UpgradeEnds)
  /\ WF_vars((Serves \/ Unloads) /\ UNCHANGED <<route, installation, scenario>>)
  /\ WF_vars((LauncherStep \/ WorkerStep \/ QuitRefused) /\ UNCHANGED <<machine, route, job, budget, history, scenario>>)

TypeOK == SetupTypeOK /\ UpdateTypeOK

-----------------------------------------------------------------------------

\* What an update leaves behind is of one piece: an application is always there, the launcher that
\* started has its runtime bundle, a cancelled install has no worker, and a launcher that is ready with a configuration of its own
\* release has the native profile and the Codex integration of that release, unless it died in the
\* middle of its upgrade: the next start looks at the configuration only (hazard).
UpdateIsWhole ==
  /\ ApplicationIsKept /\ RuntimeIsWhole /\ CancelledIsOver
  /\ Is("ready") /\ saved.owner = "launcher" /\ saved.release = launcher.version =>
       /\ saved.mcp => tunnel.profile = ProfileOf(saved)
       /\ route = saved.release \/ At("dead")
  /\ Is("ready") /\ saved.owner = "launcher" /\ saved.release # launcher.version => At("undone")

\* An update that is handed to a worker ends, with the launcher open and free to install again:
\* the new one, or the old one if the quit was refused or the swap failed (relaunchExisting).  Not
\* if somebody dies, if the worker gives up while the quit still goes on, if both renames of a
\* swap fail (ApplicationIsKept), or if the launcher that is opened cannot make its runtime.
UpdateLands ==
  worker.at = "waiting" ~>
    \/ Is("ready") /\ ctl # "installing"
    \/ Is("broken") \/ disk.app = 0 \/ worker.at = "gone" \/ power.deaths = 0
    \/ launcher.pid = MaxLaunches

\* An update leaves one whole installation and an open launcher.
UpdateHolds == []UpdateIsWhole /\ UpdateLands
=============================================================================
