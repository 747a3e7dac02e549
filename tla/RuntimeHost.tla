---------------------------- MODULE RuntimeHost ----------------------------
(***************************************************************************)
(* The launcher's operations on the installation and the runtime, each a   *)
(* sequence of calls of the supervisor and of the command line:            *)
(* src/launcher/electron/runtime.cjs, with startup, the proxy setting and  *)
(* quitting from main.cjs.                                                 *)
(*                                                                         *)
(* lifecycleOperation excludes RuntimeHost's operations from each other.   *)
(* Startup's own start of the runtime, the proxy setting's restart and a   *)
(* quit that has passed its check run beside them.                         *)
(***************************************************************************)
EXTENDS RuntimeSupervisor

VARIABLES
  route,  \* Codex's route to the daemon: absent, off or on
  job,    \* caller -> [kind, at, active, saved, began], the operation it is in
  lock,   \* lifecycleOperation: who holds it
  told,   \* caller -> how its last operation ended
  asked   \* the operations asked for so far

hostVars == <<route, job, lock, told, asked>>
vars == <<worldVars, marker, up, mem, pc, child, held, callers, bounds, cut, hostVars>>

Kinds  == {"startup", "upgrade", "refresh", "connect", "disconnect", "uninstall", "setup", "proxy", "quit"}
Routes == {"absent", "off", "on"}
NoJob  == [kind |-> "none", at |-> "none", active |-> FALSE, saved |-> <<"none", "absent">>, began |-> FALSE]

Init ==
  /\ InitSupervisor
  /\ route \in IF config = "none" THEN {"absent"} ELSE {"off", "on"}
  /\ job = [c \in Callers |-> NoJob] /\ lock = "none" /\ told = [c \in Callers |-> "none"] /\ asked = {}

At(c, label) == job[c].at = label
Step(c, label) == job' = [job EXCEPT ![c].at = label]
Ended(c, outcome) ==
  /\ job' = [job EXCEPT ![c] = NoJob] /\ told' = [told EXCEPT ![c] = outcome]
  /\ lock' = IF lock = c THEN "none" ELSE lock
Got(c, results) == callers[c].on = "none" /\ callers[c].got \in results
Errors == Results \ {"none", "ready"}

Untouched == UNCHANGED <<tunnelRun, up, child, scenario, turns>>
World     == UNCHANGED <<daemons, cut>> /\ Untouched
Waits     == UNCHANGED <<mem, marker, held>> /\ World
Silently  == UNCHANGED <<pc, callers>> /\ Waits

\* How an operation fails: startup's refresh of the route is best effort.
Fails(c) == IF job[c].kind = "refresh" THEN Ended(c, "ok") ELSE Ended(c, "failed")

-----------------------------------------------------------------------------
(* How operations begin.                                                   *)

Begins(c, kind) ==
  /\ up /\ job[c] = NoJob /\ (scenario.apart => \A d \in Callers : job[d] = NoJob)
  /\ kind \in scenario.asks /\ kind \notin asked /\ asked' = asked \cup {kind} /\ told' = [told EXCEPT ![c] = "none"]
NewJob(c, kind, at) ==
  job' = [job EXCEPT ![c] = [kind |-> kind, at |-> at, active |-> route = "on", saved |-> <<config, route>>, began |-> FALSE]]

\* assertion of currentOperation, then lifecycleOperation is set
Operate(kind) ==
  /\ Begins("op", kind) /\ lock = "none" /\ lock' = "op" /\ UNCHANGED <<config, route>> /\ Smooth
  /\ CASE kind \in {"setup", "uninstall"} -> NewJob("op", kind, "stopped") /\ CallStop("op", "stop")
       [] OTHER -> NewJob("op", kind, "status") /\ UNCHANGED <<pc, callers>>
  /\ Waits
SetNetworkProxy ==
  /\ Begins("proxy", "proxy") /\ config # "none"
  /\ NewJob("proxy", "proxy", "restarted") /\ CallRestart("proxy")
  /\ UNCHANGED <<config, route, lock>> /\ Smooth /\ Waits
\* requestQuit: refused while an operation is active; the turns are cancelled first
RequestQuit ==
  /\ Begins("quit", "quit") /\ lock = "none" /\ UNCHANGED <<config, route, lock>>
  /\ \/ /\ (mem.daemon = 0 \/ Serving # 0) /\ Smooth /\ NewJob("quit", "quit", "stopped")
        /\ IF mem.daemon = 0 THEN UNCHANGED <<daemons, cut>> ELSE CancelTurns
        /\ CallStop("quit", "stop") /\ UNCHANGED <<mem, marker, held>>
     \/ /\ mem.daemon # 0 /\ (IF Serving = 0 THEN Smooth ELSE Fault) /\ pc.force = "idle"
        /\ NewJob("quit", "quit", "forced")
        /\ CallForce("quit") /\ UNCHANGED <<daemons, cut, marker>>
  /\ Untouched

Launches ==
  /\ ~up /\ up' = TRUE /\ UNCHANGED <<config, route, lock, asked>> /\ Smooth
  /\ told' = [told EXCEPT !["startup"] = "none"]
  /\ IF config = "old" THEN NewJob("startup", "upgrade", "upgrade") ELSE NewJob("startup", "startup", "status")
  /\ UNCHANGED <<tunnelRun, child, scenario, turns, pc, callers, mem, marker, held, daemons, cut>>
\* The launcher is gone: only the processes and the files are left.
Vanishes == /\ up' = FALSE /\ mem' = Fresh /\ pc' = AtRest /\ child' = NoChild /\ held' = NotHeld /\ callers' = NoCalls
         /\ marker' = [marker EXCEPT !.owned = FALSE]
         /\ job' = [c \in Callers |-> NoJob] /\ lock' = "none" /\ told' = [c \in Callers |-> "none"]
         /\ UNCHANGED <<worldVars, scenario, turns, cut, route, asked>>
Dies  == up /\ scenario.dies /\ Fault /\ Vanishes
Exits == At("quit", "exit") /\ Smooth /\ Vanishes

-----------------------------------------------------------------------------
(* setBridgeEnabled                                                        *)

Bridges == {"connect", "refresh", "disconnect"}
BridgeStatus(c) ==
  /\ job[c].kind \in Bridges /\ At(c, "status") /\ UNCHANGED <<config, route>> /\ Waits
  /\ \/ (IF route = "absent" THEN Smooth ELSE Fault) /\ Fails(c) /\ UNCHANGED <<pc, callers, asked>>
     \/ /\ route # "absent" /\ Smooth /\ UNCHANGED <<told, lock, asked>>
        /\ IF job[c].kind = "disconnect" THEN CallStop(c, "stop") /\ Step(c, "stopped") ELSE CallStart(c) /\ Step(c, "started")
Connects(c) ==
  /\ job[c].kind \in {"connect", "refresh"} /\ At(c, "started") /\ UNCHANGED <<config, asked>> /\ Waits
  /\ \/ Got(c, Errors) /\ Smooth /\ Fails(c) /\ UNCHANGED <<route, pc, callers>>
     \/ Got(c, {"ready"}) /\ Smooth /\ route' = "on" /\ Ended(c, "ok") /\ UNCHANGED <<pc, callers>>
     \/ /\ Got(c, {"ready"}) /\ Fault /\ route' \in {route, "on"}
        /\ IF job[c].active THEN Fails(c) /\ UNCHANGED <<pc, callers>>
           ELSE CallStop(c, "stop") /\ Step(c, "undone") /\ UNCHANGED <<told, lock>>
Disconnects(c) ==
  /\ job[c].kind = "disconnect" /\ At(c, "stopped") /\ UNCHANGED <<config, asked>> /\ Waits
  /\ \/ Got(c, {"error"}) /\ Smooth /\ Fails(c) /\ UNCHANGED <<route, pc, callers>>
     \/ Got(c, {"stopped"}) /\ Smooth /\ Ended(c, "ok") /\ UNCHANGED <<pc, callers>>
        /\ route' = IF job[c].active THEN "off" ELSE route
     \/ /\ Got(c, {"stopped"}) /\ job[c].active /\ Fault /\ route' \in {route, "off"}
        /\ CallStart(c) /\ Step(c, "undone") /\ UNCHANGED <<told, lock>>
Undone(c) ==
  /\ At(c, "undone") /\ Got(c, Results \ {"none"})
  /\ IF job[c].kind = "upgrade" THEN Step(c, "restoreRoute") /\ lock' = "none" /\ UNCHANGED told ELSE Fails(c)
  /\ UNCHANGED <<config, route, asked>> /\ Smooth /\ Silently

-----------------------------------------------------------------------------
(* restoreBridgeRoute, and uninstallIntegration                            *)

RestoresRoute(c) ==
  /\ At(c, "restoreRoute") /\ Ended(c, "failed") /\ UNCHANGED <<config, asked>> /\ Silently
  /\ \/ lock \in {"none", c} /\ Smooth /\ route' = IF route = "on" THEN "off" ELSE route
     \/ lock \notin {"none", c} /\ Smooth /\ UNCHANGED route
     \/ lock \in {"none", c} /\ Fault /\ route' \in {route, IF route = "on" THEN "off" ELSE route}
Uninstalls ==
  /\ job["op"].kind = "uninstall" /\ At("op", "stopped") /\ UNCHANGED asked /\ Silently
  /\ \/ Got("op", {"error"}) /\ Smooth /\ Step("op", "restoreRoute") /\ UNCHANGED <<config, route, told, lock>>
     \/ Got("op", {"stopped"}) /\ Smooth /\ config' = "none" /\ route' = "absent" /\ Ended("op", "ok")
     \/ /\ Got("op", {"stopped"}) /\ Fault /\ route' \in {route, "absent"} /\ UNCHANGED config
        /\ Step("op", "restoreRoute") /\ UNCHANGED <<told, lock>>

-----------------------------------------------------------------------------
(* runSetup: of a setup, or of the upgrade that startup makes              *)

Installs == {"setup", "upgrade"}
Target(c)      == IF job[c].kind = "upgrade" THEN "browser" ELSE scenario.target
TargetRoute(c) == IF job[c].kind = "upgrade" THEN route ELSE "on"
Upgrades ==
  /\ At("startup", "upgrade") /\ UNCHANGED <<config, route, told, asked>> /\ Smooth /\ Waits
  /\ IF lock = "none" THEN lock' = "startup" /\ CallStop("startup", "stop") /\ Step("startup", "stopped")
     ELSE Step("startup", "restoreRoute") /\ UNCHANGED <<lock, pc, callers>>
RunsSetup(c) ==
  /\ job[c].kind \in Installs /\ At(c, "stopped") /\ UNCHANGED <<told, lock, asked>> /\ Waits
  /\ \/ Got(c, {"error"}) /\ Smooth /\ Step(c, "rollback") /\ UNCHANGED <<config, route, pc, callers>>
     \/ /\ Got(c, {"stopped"}) /\ Smooth /\ config' = Target(c) /\ route' = TargetRoute(c)
        /\ CallStart(c) /\ job' = [job EXCEPT ![c].at = "started", ![c].began = TRUE]
     \/ /\ Got(c, {"stopped"}) /\ Fault /\ config' \in {config, Target(c)} /\ route' \in {route, TargetRoute(c)}
        /\ job' = [job EXCEPT ![c].at = "rollback", ![c].began = TRUE] /\ UNCHANGED <<pc, callers>>
SetUp(c) ==
  /\ job[c].kind \in Installs /\ At(c, "started") /\ UNCHANGED <<config, route, asked>> /\ Smooth /\ Waits
  /\ \/ Got(c, Errors) /\ Step(c, "rollback") /\ UNCHANGED <<pc, callers, told, lock>>
     \/ Got(c, {"ready"}) /\ job[c].kind = "setup" /\ Ended(c, "ok") /\ UNCHANGED <<pc, callers>>
     \/ /\ Got(c, {"ready"}) /\ job[c].kind = "upgrade" /\ UNCHANGED <<pc, callers, told>> /\ lock' = "none"
        /\ job' = [job EXCEPT ![c].kind = "startup", ![c].at = IF job[c].active THEN "status" ELSE "disable"]
\* A first setup stops what it started, takes its files back and forgets the marker.
RollsBack(c) ==
  LET first == job[c].saved[1] = "none" /\ job[c].began
  IN /\ At(c, "rollback") /\ UNCHANGED <<told, lock, asked>> /\ Smooth /\ Waits
     /\ IF first THEN CallStop(c, "stop") /\ Step(c, "rolledBack") /\ UNCHANGED <<config, route>>
        ELSE config' = job[c].saved[1] /\ route' = job[c].saved[2] /\ Step(c, "recover") /\ UNCHANGED <<pc, callers>>
RollsBackFirst(c) ==
  /\ At(c, "rolledBack") /\ Got(c, {"stopped", "error"}) /\ Step(c, "recover")
  /\ config' = job[c].saved[1] /\ route' = job[c].saved[2] /\ marker' = NoMarker
  /\ UNCHANGED <<mem, held, pc, callers, told, lock, asked>> /\ Smooth /\ World
\* restorePreviousRuntime: one of another release is not started
Recovers(c) ==
  /\ At(c, "recover") /\ UNCHANGED <<config, route, asked>> /\ Smooth /\ Waits
  /\ IF job[c].saved[1] # "old" THEN CallStart(c) /\ Step(c, "undone") /\ UNCHANGED <<told, lock>>
     ELSE /\ UNCHANGED <<pc, callers>>
          /\ IF job[c].kind = "upgrade" THEN Step(c, "restoreRoute") /\ UNCHANGED told /\ lock' = "none" ELSE Fails(c)

-----------------------------------------------------------------------------
(* Startup, the proxy setting, quitting: main.cjs                          *)

\* After an upgrade whose route was off: setBridgeEnabled(false)
DisablesBridge ==
  /\ At("startup", "disable") /\ UNCHANGED <<config, route, told, asked>> /\ Smooth /\ Waits
  /\ IF lock = "none" THEN CallStop("startup", "stop") /\ Step("startup", "disabled") /\ lock' = "startup"
     ELSE Step("startup", "restoreRoute") /\ UNCHANGED <<pc, callers, lock>>
BridgeDisabled ==
  /\ At("startup", "disabled") /\ Got("startup", {"stopped", "error"}) /\ lock' = "none"
  /\ Step("startup", IF callers["startup"].got = "error" THEN "restoreRoute" ELSE "status")
  /\ UNCHANGED <<config, route, told, asked>> /\ Smooth /\ Silently
\* The route says whether the runtime is started; an error of the question is only logged.
StartupStatus ==
  /\ job["startup"].kind = "startup" /\ At("startup", "status") /\ UNCHANGED <<config, route, asked>> /\ Waits
  /\ \/ route = "off" /\ Smooth /\ Ended("startup", "ok") /\ UNCHANGED <<pc, callers>>
     \/ (IF route = "off" THEN Fault ELSE Smooth) /\ CallStart("startup") /\ Step("startup", "started") /\ UNCHANGED <<told, lock>>
\* Ready: an active route is refreshed, if no operation is active.  Otherwise the route is restored.
StartupStarted ==
  /\ job["startup"].kind = "startup" /\ At("startup", "started") /\ UNCHANGED <<config, route, asked>> /\ Smooth /\ Silently
  /\ \/ Got("startup", Errors) /\ Step("startup", "restoreRoute") /\ UNCHANGED <<told, lock>>
     \/ Got("startup", {"ready"}) /\ (route # "on" \/ lock # "none") /\ Ended("startup", "ok")
     \/ /\ Got("startup", {"ready"}) /\ route = "on" /\ lock = "none" /\ lock' = "startup" /\ UNCHANGED told
        /\ NewJob("startup", "refresh", "status")
ProxyRestarted ==
  /\ At("proxy", "restarted") /\ Got("proxy", Results \ {"none"})
  /\ Ended("proxy", IF callers["proxy"].got = "error" THEN "failed" ELSE "ok")
  /\ UNCHANGED <<config, route, asked>> /\ Smooth /\ Silently
Quits ==
  /\ UNCHANGED <<config, route, told, lock, asked>> /\ Smooth
  /\ \/ At("quit", "stopped") /\ Got("quit", {"stopped"}) /\ Step("quit", "exit") /\ Silently
     \/ /\ At("quit", "stopped") /\ Got("quit", {"error"}) /\ Step("quit", "forced")
        /\ CallForce("quit") /\ UNCHANGED marker /\ World
     \/ At("quit", "forced") /\ Got("quit", {"forced", "forced-partial"}) /\ Step("quit", "exit") /\ Silently

\* What goes on by itself, and what it depends on
Proceeds ==
  \/ Exits \/ Uninstalls \/ Upgrades
  \/ DisablesBridge \/ BridgeDisabled \/ StartupStatus \/ StartupStarted \/ ProxyRestarted \/ Quits
  \/ \E c \in Callers : \/ BridgeStatus(c) \/ Connects(c) \/ Disconnects(c) \/ Undone(c) \/ RestoresRoute(c)
                        \/ RunsSetup(c) \/ SetUp(c) \/ RollsBack(c) \/ RollsBackFirst(c) \/ Recovers(c)
HostNext ==
  \/ SetNetworkProxy \/ RequestQuit \/ Launches \/ Dies \/ Proceeds
  \/ \E kind \in Kinds \ {"proxy", "quit", "startup", "upgrade", "refresh"} : Operate(kind)
\* bound: in some scenarios components fail only between the operations
Between == scenario.throughout \/ faults' = faults \/ \A c \in Callers : job[c] = NoJob
Next == (SupervisorNext /\ Between /\ UNCHANGED hostVars) \/ HostNext

Spec == Init /\ [][Next]_vars

\* The event loop runs every activity on, and daemon and tunnel go on by themselves; that turns
\* arrive or end, that something fails or is asked for is never relied on.
Progress == Proceeds \/ ((TunnelUp \/ TunnelNext \/ DaemonNext \/ RecoverNext \/ HaltNext \/ StartNext \/ StopNext
                          \/ ForceNext \/ \E p \in Pids : ChildExits(p) \/ Boots(p) \/ Closes(p)) /\ UNCHANGED hostVars)
FairSpec == Spec /\ WF_vars(Progress)

-----------------------------------------------------------------------------
(* Properties.                                                             *)

\* The state is one the fields of RuntimeSupervisor and RuntimeHost can hold: no component is
\* restarted beyond its limit, and one daemon at most has the port.
TypeOK ==
  /\ \A p \in Pids : /\ daemons[p].at \in {"none", "booting", "serving", "closing"} /\ daemons[p].config \in Configs
                     /\ {daemons[p].draining, daemons[p].busy} \subseteq BOOLEAN
  /\ tunnelRun \in {"stopped", "starting", "ready", "sick"} /\ config \in Configs /\ up \in BOOLEAN
  /\ marker.pid \in Pids \cup {0} /\ mem.daemon \in Pids \cup {0} /\ mem.exits \subseteq Pids
  /\ mem.timers \subseteq Names /\ \A n \in Names : mem.restarts[n] \in 0 .. scenario.restarts
  /\ \A c \in Callers : callers[c].on \in Tasks \cup {"none", "before"} /\ callers[c].got \in Results
  /\ route \in Routes /\ lock \in Callers \cup {"none"}
  /\ cut \in {"none", "crash", "closing", "killed", "cancelled", "forced", "tangled"}
  /\ Cardinality({p \in Pids : Answers(p)}) <= 1

\* Nothing is under way or to come, and no start overlapped a recovery.
Settled == /\ up /\ Idle(Tasks) /\ mem.timers = {} /\ mem.exits = {} /\ ~mem.tangled
           /\ \A c \in Callers : job[c] = NoJob
Served  == Accepting(mem.daemon) /\ (usesTunnel => mem.tunnel)

StoppedIsGone == ~scenario.dies /\ marker = NoMarker =>
  (\A p \in Pids : ~Alive(p)) /\ mem.daemon = 0 /\ ((~mem.tunnel /\ ~mem.monitor) \/ mem.outdated)
ReadyIsServed == marker.status = "ready" /\ marker.owned => Served \/ mem.outdated
DrainIsOver   == mem.daemon # 0 /\ daemons[mem.daemon].draining => marker.status = "failed"
RouteIsServed == route = "on" => Served \/ mem.outdated \/ marker.status = "failed" \/ \E c \in Callers : told[c] = "failed"
\* Once every start, stop, recovery and operation is over, the ownership file and Codex's route
\* tell the truth.  Where a launcher that never lost a predecessor has cleared the file, no daemon
\* is left; where it says ready, the daemon accepts turns and the tunnel is there; a daemon left
\* draining is on record as failed; and where Codex is routed to the daemon it is served, or the
\* failure is on record or was told to the user.  The exception is a component that was given up,
\* restarted too often, while a start or another recovery was under way (mem.outdated), which
\* does not hear of it: it may then write ready over the failure, or leave the monitor of a
\* tunnel that a stop no longer knows of.
RuntimeIsAsRecorded == Settled => StoppedIsGone /\ ReadyIsServed /\ DrainIsOver /\ RouteIsServed

\* No start, stop or recovery kills a daemon with a turn in flight: unless the user quits, it is
\* drained first (cleanupFailedStart, performStopForSetup).
TurnsSurvive == cut # "killed"

\* Every operation ends, whatever fails in it: starts, stops and recoveries that wait for each
\* other do not wait forever, and no turn holds a drain.
OperationsEnd == <>[](\A c \in Callers : job[c] = NoJob)
=============================================================================
