--------------------------- MODULE LauncherUpdate ---------------------------
(***************************************************************************)
(* How the launcher replaces itself: the update controller (update.cjs),   *)
(* the detached worker that waits for the launcher to exit and swaps the   *)
(* application (update-worker.cjs), and the next launcher's start, which   *)
(* first makes its own runtime bundle whole (runtime-install.cjs).         *)
(*                                                                         *)
(* There are two versions, 1 and 2; the release on GitHub is 2.  On macOS  *)
(* the application is swapped by two renames; on Linux and Windows one     *)
(* step (a rename of the wrapper, the installer) replaces it.              *)
(***************************************************************************)
EXTENDS Naturals

CONSTANT MaxLaunches    \* bound: launcher processes

ASSUME LaunchesAssumption == MaxLaunches \in Nat

Versions == 0 .. 2      \* 0: none

VARIABLES
  launcher,  \* the launcher's process
  ctl,       \* the state of its update controller
  worker,    \* the update worker: whom it waits for, and whether its temporary root is there
  disk,      \* the application, the one moved aside, and the staged one
  bundle,    \* the runtime bundle of version 2: installed, the one moved aside
  power      \* bound: what may still fail; lost: the application is gone for good

installation == <<launcher, ctl, worker, disk, bundle, power>>

InitUpdate(version, dest, platform, faults, deaths) ==
  /\ launcher = [at |-> "off", version |-> 0, pid |-> 0]
  /\ ctl = "idle"
  /\ worker = [at |-> "none", parent |-> 0, temp |-> FALSE]
  /\ disk = [app |-> version, swap |-> 0, next |-> 0]
  /\ bundle = [dest |-> dest, prev |-> FALSE]
  /\ power = [platform |-> platform, faults |-> faults, deaths |-> deaths]

UpdateTypeOK ==
  /\ launcher \in [at : {"off", "broken", "starting", "staged", "moved", "upgrade", "upgrading", "ready", "quitting"},
                   version : Versions, pid : 0 .. MaxLaunches]
  /\ ctl \in {"idle", "available", "downloading", "installing", "up-to-date", "error"}
  /\ worker \in [at : {"none", "waiting", "copy", "away", "in", "back", "launch", "relaunch", "done", "gone"},
                 parent : 0 .. MaxLaunches, temp : BOOLEAN]
  /\ disk \in [app : Versions, swap : Versions, next : Versions]
  /\ bundle \in [dest : {"none", "stale", "whole"}, prev : BOOLEAN]
  /\ power \in [platform : {"mac", "other"}, faults : Nat, deaths : Nat]

Is(s) == launcher.at = s
Off == launcher.at \in {"off", "broken"}   \* broken: it started, and could not make its runtime
Becomes(s) == launcher' = [launcher EXCEPT !.at = s]
Works(s) == worker.at = s
Fails == power.faults > 0 /\ power' = [power EXCEPT !.faults = @ - 1]
Well == UNCHANGED power

-----------------------------------------------------------------------------
(* The launcher's start: ensurePackagedRuntime.                            *)

Launched == [at |-> "starting", version |-> disk.app, pid |-> launcher.pid + 1]

\* The user opens the application.
Launch ==
  /\ Off /\ disk.app # 0 /\ launcher.pid < MaxLaunches
  /\ launcher' = Launched /\ ctl' = "idle"
  /\ UNCHANGED <<worker, disk, bundle, power>>

\* A bundle that is whole is used; what was moved aside before is cleaned up.
FindBundle ==
  /\ Is("starting")
  /\ \/ /\ launcher.version = 1 \/ bundle.dest = "whole"
        /\ Becomes("upgrade") /\ bundle' = [bundle EXCEPT !.prev = FALSE] /\ Well
     \/ launcher.version = 2 /\ bundle.dest # "whole" /\ Becomes("staged") /\ Well /\ UNCHANGED bundle
     \/ launcher.version = 2 /\ bundle.dest # "whole" /\ Becomes("broken") /\ Fails /\ UNCHANGED bundle
  /\ UNCHANGED <<ctl, worker, disk>>

\* The temporary copy is whole: the bundle in its place is moved aside.
MoveAside ==
  /\ Is("staged")
  /\ \/ Becomes("moved") /\ bundle' = [dest |-> "none", prev |-> bundle.dest # "none"] /\ Well
     \/ Becomes("broken") /\ Fails /\ UNCHANGED bundle
  /\ UNCHANGED <<ctl, worker, disk>>

\* The copy takes its place, or what was moved aside comes back; a restore that fails is tried
\* once more at the end, and then left to the next start.
MoveIn ==
  /\ Is("moved")
  /\ \/ Becomes("upgrade") /\ bundle' \in {[dest |-> "whole", prev |-> FALSE], [dest |-> "whole", prev |-> bundle.prev]} /\ Well
     \/ /\ Becomes("broken") /\ Fails
        /\ bundle' \in {[dest |-> IF bundle.prev THEN "stale" ELSE "none", prev |-> FALSE], [dest |-> "none", prev |-> bundle.prev]}
  /\ UNCHANGED <<ctl, worker, disk>>

-----------------------------------------------------------------------------
(* The update controller and the quit it asks for.                         *)

Running == launcher.at \in {"upgrade", "upgrading", "ready"}

\* checkOnce
CheckOnce ==
  /\ Running /\ ctl = "idle"
  /\ \/ ctl' = (IF launcher.version = 1 THEN "available" ELSE "up-to-date") /\ Well
     \/ ctl' = "error" /\ Fails
  /\ UNCHANGED <<launcher, worker, disk, bundle>>

\* beginInstall: one at a time, and only of a release that was found.  Bound: a worker that an
\* earlier launcher left behind has ended.
BeginInstall ==
  /\ Running /\ ctl = "available" /\ worker.at \in {"none", "done", "gone"}
  /\ ctl' = "downloading"
  /\ UNCHANGED <<launcher, worker, disk, bundle, power>>

\* The verified download is handed to a worker, and the launcher asked to quit.
Download ==
  /\ Running /\ ctl = "downloading"
  /\ \/ /\ ctl' = "installing" /\ worker' = [at |-> "waiting", parent |-> launcher.pid, temp |-> TRUE]
        /\ launcher' = IF Is("ready") THEN [launcher EXCEPT !.at = "quitting"] ELSE launcher
        /\ Well
     \/ ctl' = "available" /\ Fails /\ UNCHANGED <<launcher, worker>>
  /\ UNCHANGED <<disk, bundle>>

\* requestQuit refuses while an operation runs, or fails: cancelInstall kills the worker.
QuitRefused ==
  /\ ctl = "installing"
  /\ \/ Running /\ Well /\ UNCHANGED launcher
     \/ Is("quitting") /\ Fails /\ Becomes("ready")
  /\ worker' = IF Works("waiting") THEN [worker EXCEPT !.at = "gone", !.temp = FALSE] ELSE [worker EXCEPT !.temp = FALSE]
  /\ ctl' = "available"
  /\ UNCHANGED <<disk, bundle>>

Quits ==
  /\ Is("quitting")
  /\ Becomes("off")
  /\ UNCHANGED <<ctl, worker, disk, bundle, power>>

UserQuits ==
  /\ Is("ready")
  /\ Becomes("off")
  /\ UNCHANGED <<ctl, worker, disk, bundle, power>>

LauncherDies ==
  /\ ~Off /\ power.deaths > 0
  /\ power' = [power EXCEPT !.deaths = @ - 1]
  /\ Becomes("off")
  /\ UNCHANGED <<ctl, worker, disk, bundle>>

-----------------------------------------------------------------------------
(* The worker.                                                             *)

ParentAlive == ~Off /\ launcher.pid = worker.parent

\* waitForParent; after two minutes the worker gives up, and relaunches nothing.
WorkerWaits ==
  /\ Works("waiting")
  /\ \/ ~ParentAlive /\ worker' = [worker EXCEPT !.at = "copy"] /\ Well
     \/ ParentAlive /\ worker' = [worker EXCEPT !.at = "gone"] /\ Fails
  /\ UNCHANGED <<launcher, ctl, disk, bundle>>

\* The staged copy next to the application; the installer, or the rename of the wrapper.
WorkerCopies ==
  /\ Works("copy")
  /\ \/ /\ Well
        /\ IF power.platform = "mac" THEN disk' = [disk EXCEPT !.next = 2] /\ worker' = [worker EXCEPT !.at = "away"]
                                     ELSE disk' = [disk EXCEPT !.app = 2] /\ worker' = [worker EXCEPT !.at = "launch"]
     \/ Fails /\ worker' = [worker EXCEPT !.at = "relaunch"] /\ UNCHANGED disk
  /\ UNCHANGED <<launcher, ctl, bundle>>

WorkerMovesAway ==
  /\ Works("away")
  /\ \/ /\ disk.app # 0 /\ Well
        /\ disk' = [disk EXCEPT !.app = 0, !.swap = disk.app] /\ worker' = [worker EXCEPT !.at = "in"]
     \/ disk.app = 0 /\ worker' = [worker EXCEPT !.at = "relaunch"] /\ Well /\ UNCHANGED disk
     \/ worker' = [worker EXCEPT !.at = "relaunch"] /\ Fails /\ UNCHANGED disk
  /\ UNCHANGED <<launcher, ctl, bundle>>

WorkerMovesIn ==
  /\ Works("in")
  /\ \/ disk' = [app |-> disk.next, swap |-> 0, next |-> 0] /\ worker' = [worker EXCEPT !.at = "launch"] /\ Well
     \/ worker' = [worker EXCEPT !.at = "back"] /\ Fails /\ UNCHANGED disk
  /\ UNCHANGED <<launcher, ctl, bundle>>

WorkerMovesBack ==
  /\ Works("back")
  /\ \/ disk' = [disk EXCEPT !.app = disk.swap, !.swap = 0] /\ Well
     \/ Fails /\ UNCHANGED disk
  /\ worker' = [worker EXCEPT !.at = "relaunch"]
  /\ UNCHANGED <<launcher, ctl, bundle>>

\* Mutant: the application is opened again only after an update that went well.
LaunchesUpdated ==
  /\ worker.at \in {"launch", "relaunch"}
  /\ worker' = [worker EXCEPT !.at = "done", !.temp = @ /\ Works("relaunch")]
  /\ IF Works("launch") /\ Off /\ disk.app # 0 /\ launcher.pid < MaxLaunches THEN launcher' = Launched /\ ctl' = "idle"
     ELSE UNCHANGED <<launcher, ctl>>
  /\ UNCHANGED <<disk, bundle, power>>

\* The application is opened; one that already runs keeps the single instance.
WorkerLaunches ==
  /\ worker.at \in {"launch", "relaunch"}
  /\ worker' = [worker EXCEPT !.at = "done", !.temp = @ /\ Works("relaunch")]
  /\ IF Off /\ disk.app # 0 /\ launcher.pid < MaxLaunches THEN launcher' = Launched /\ ctl' = "idle"
     ELSE UNCHANGED <<launcher, ctl>>
  /\ UNCHANGED <<disk, bundle, power>>

\* The worker is killed, or the machine goes down.
WorkerDies ==
  /\ worker.at \notin {"none", "done", "gone"} /\ power.deaths > 0
  /\ power' = [power EXCEPT !.deaths = @ - 1]
  /\ worker' = [worker EXCEPT !.at = "gone"]
  /\ UNCHANGED <<launcher, ctl, disk, bundle>>

LauncherStep == FindBundle \/ MoveAside \/ MoveIn \/ CheckOnce \/ Download \/ Quits
WorkerStep == WorkerWaits \/ WorkerCopies \/ WorkerMovesAway \/ WorkerMovesIn \/ WorkerMovesBack \/ WorkerLaunches

-----------------------------------------------------------------------------
(* What an update promises.                                                *)

\* Whatever fails or dies, an application is left, in its place or moved aside (updateMac); and a
\* worker never touches it while the launcher that asked for the update runs (waitForParent).
ApplicationIsKept ==
  /\ disk.app # 0 \/ disk.swap # 0
  /\ worker.at \in {"copy", "away", "in", "back"} => ~ParentAlive

\* A worker waits only for a launcher that goes to make room for it (cancelInstall).
CancelledIsOver == Works("waiting") /\ ParentAlive => ctl = "installing"

\* A launcher that started has a runtime of its own version (ensurePackagedRuntime).
RuntimeIsWhole == Running /\ launcher.version = 2 => bundle.dest = "whole"
=============================================================================
