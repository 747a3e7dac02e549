------------------------- MODULE RuntimeSupervisor -------------------------
(***************************************************************************)
(* The launcher's supervision of its runtime, the Responses daemon and the *)
(* MCP tunnel: src/launcher/electron/runtime-supervisor.cjs, with what the *)
(* daemon does on the control requests it sends (startServer in            *)
(* src/src/server.ts).                                                     *)
(*                                                                         *)
(* The supervisor runs activities that interleave at their awaits: a       *)
(* start, a stop (each at most once, later callers join it), a forced stop *)
(* and the recoveries of daemon and tunnel, of which one may still be at   *)
(* work when the next begins.  pc says where each one is.                  *)
(* All of its memory is lost with the launcher; daemon and tunnel live on, *)
(* and the ownership file (launcher-supervisor.json, here marker) is what  *)
(* the next launcher knows of them.                                        *)
(***************************************************************************)
EXTENDS Naturals, FiniteSets

CONSTANTS Pids,       \* process ids of daemons
          Scenarios   \* bound: the installation found, the operations asked for, how many turns
                      \* arrive, how often something fails, and whether also during the
                      \* operations (throughout), whether the launcher dies, and restarts:
                      \* MAX_RESTARTS_PER_WINDOW, while the window does not pass

ASSUME SupervisorAssumption == Pids \subseteq Nat \ {0} /\ \A s \in Scenarios : s.restarts \in Nat

VARIABLES
  daemons,    \* pid -> [at, draining, busy, config]
  tunnelRun,  \* the tunnel's runtime, which a manager of its own keeps
  marker,     \* the ownership file: [status, pid, tunnel, owned: by the launcher that runs]
  config,     \* config.json: none, browser, full, or old (browser, of another release)
  up,         \* whether the launcher runs
  mem,        \* the supervisor's fields; tangled: history, a start overlapped a
              \* recovery or a forced stop another activity; outdated: history, a component was
              \* given up while a start or another recovery was under way
  pc, child,  \* of each activity: where it is, the daemon it waits for
  held,       \* locals: what start and stop are stopping; of the stop, what it did and what it
              \* could not undo; whether the forced stop failed in part
  callers,    \* caller -> [on: the activity it awaits ("before": a stop, then a start), got: its result]
  scenario, faults, turns,
  cut         \* history: how a daemon's last turn was lost

worldVars == <<daemons, tunnelRun, config>>
bounds    == <<scenario, faults, turns>>

Names   == {"daemon", "tunnel"}
\* bound: two recoveries of a component overlap, which with at most two restarts is no bound
RecoveriesOf == [daemon |-> {"recoverDaemon", "recoverDaemonAgain"}, tunnel |-> {"recoverTunnel", "recoverTunnelAgain"}]
Recoveries   == UNION {RecoveriesOf[name] : name \in Names}
Tasks   == {"start", "stop", "force"} \cup Recoveries
Callers == {"startup", "op", "proxy", "quit"}
Configs == {"none", "browser", "full", "old"}
Results == {"none", "ready", "external", "needs-setup", "not-configured", "stopped", "forced", "forced-partial", "error"}

NoMarker == [status |-> "none", pid |-> 0, tunnel |-> FALSE, owned |-> FALSE]
Fresh == [daemon |-> 0, tunnel |-> FALSE, monitor |-> FALSE, look |-> "none", stopping |-> FALSE,
          timers |-> {}, restarts |-> [n \in Names |-> 0], exits |-> {}, restartable |-> {},
          tangled |-> FALSE, outdated |-> FALSE]
AtRest    == [t \in Tasks |-> "idle"]
NoChild   == [t \in Tasks |-> 0]
NotHeld   == [start |-> "none", stop |-> "none", drained |-> FALSE, tunnelStopped |-> FALSE,
              broken |-> FALSE, partial |-> FALSE]
NoCalls   == [c \in Callers |-> [on |-> "none", got |-> "none"]]
NoDaemon  == [at |-> "none", draining |-> FALSE, busy |-> FALSE, config |-> "none"]

InitSupervisor ==
  /\ scenario \in Scenarios
  /\ daemons = [p \in Pids |-> NoDaemon] /\ tunnelRun = "stopped" /\ marker = NoMarker
  /\ config = scenario.config /\ up = FALSE /\ mem = Fresh /\ pc = AtRest /\ child = NoChild
  /\ held = NotHeld /\ callers = NoCalls /\ faults = 0 /\ turns = 0 /\ cut = "none"

-----------------------------------------------------------------------------
(* Observations.                                                           *)

Alive(p)     == p # 0 /\ daemons[p].at # "none"
Answers(p)   == p # 0 /\ daemons[p].at \in {"serving", "closing"}
Healthy(p)   == Answers(p) /\ daemons[p].config = config               \* proxyHealth
Accepting(p) == Healthy(p) /\ ~daemons[p].draining
usesTunnel   == config = "full"
TunnelRuns   == tunnelRun # "stopped"                                  \* readTunnelHealth: processRunning
TunnelReady  == tunnelRun = "ready"                                    \* its ready
OwnersLive   == Alive(marker.pid) \/ (marker.tunnel /\ TunnelRuns)      \* by the process ids in the file
\* runtimeOwnershipMayBeLive
MayBeLive == marker.status \in {"starting", "ready", "degraded", "stopping"} \/ OwnersLive

-----------------------------------------------------------------------------
(* The pieces the activities are made of.                                  *)

Fault  == faults < scenario.faults /\ faults' = faults + 1
Smooth == UNCHANGED faults
Goto(t, label) == pc' = [pc EXCEPT ![t] = label]
Memory(m)      == mem' = m
Awaits(t, p)   == child' = [child EXCEPT ![t] = p]
Write(status, m) ==                                                  \* writeState
  marker' = [status |-> status, pid |-> m.daemon, tunnel |-> m.tunnel, owned |-> TRUE]
Daemon(p, d)   == daemons' = [daemons EXCEPT ![p] = d]
Unmonitored(m) == [m EXCEPT !.monitor = FALSE, !.look = "none"]      \* stopTunnelMonitor
Monitored(m)   == [m EXCEPT !.monitor = TRUE, !.look = "none"]       \* startTunnelMonitor

\* Those who await an activity get its result.
Return(t, result) ==
  callers' = [c \in Callers |-> IF callers[c].on = t THEN [on |-> "none", got |-> result] ELSE callers[c]]
Ends(t, result) == Goto(t, "idle") /\ Return(t, result)

\* scheduleRecovery: the file says failed once there were too many
Schedules(m, name) == ~m.stopping /\ name \notin m.timers
TooMany(m, name)   == Schedules(m, name) /\ m.restarts[name] >= scenario.restarts
\* Mutant: the restarts are not counted against the limit.
ScheduledAgain(m, name) ==
  IF ~Schedules(m, name) THEN m ELSE [m EXCEPT !.restarts[name] = @ + 1, !.timers = @ \cup {name}]
Scheduled(m, name) ==
  IF ~Schedules(m, name) \/ TooMany(m, name) THEN m
  ELSE [m EXCEPT !.restarts[name] = @ + 1, !.timers = @ \cup {name}]
Idle(tasks) == \A t \in tasks : pc[t] = "idle"
\* The others under way do not hear of what is given up.
Rescheduled(m, name, others) ==
  [Scheduled(m, name) EXCEPT !.outdated = @ \/ (TooMany(m, name) /\ ~Idle(others))]

\* A daemon's process is gone: for the launcher the exit is an event to come.
Gone(m, p) == IF m.daemon = p THEN [m EXCEPT !.exits = @ \cup {p}] ELSE m

\* stopChild: the exit it awaits is expected, so nothing is scheduled
Killed(m) == [m EXCEPT !.daemon = 0, !.exits = @ \ {m.daemon}, !.restartable = @ \ {m.daemon}]

-----------------------------------------------------------------------------
(* Daemon and tunnel.                                                      *)

WorldStep == UNCHANGED <<marker, config, up, pc, child, held, callers, scenario>>
\* What a daemon's end does to its turn, and who ended it.
Cuts(p, how) == cut' = IF ~daemons[p].busy THEN cut ELSE IF how = "killed" /\ mem.tangled THEN "tangled" ELSE how

\* startServer binds the port, or cannot
Boots(p) ==
  /\ daemons[p].at = "booting"
  /\ IF \E q \in Pids : Answers(q) THEN Daemon(p, NoDaemon) /\ Memory(Gone(mem, p))
     ELSE Daemon(p, [daemons[p] EXCEPT !.at = "serving"]) /\ UNCHANGED mem
  /\ UNCHANGED <<tunnelRun, faults, turns, cut>> /\ WorldStep
Crashes(p) ==
  /\ Alive(p) /\ Fault /\ Daemon(p, NoDaemon) /\ Memory(Gone(mem, p)) /\ Cuts(p, "crash")
  /\ UNCHANGED <<tunnelRun, turns>> /\ WorldStep
\* shutdown() after it was accepted: the turns accepted since end with it
Closes(p) ==
  /\ daemons[p].at = "closing" /\ Daemon(p, NoDaemon) /\ Memory(Gone(mem, p)) /\ Cuts(p, "closing")
  /\ UNCHANGED <<tunnelRun, faults, turns>> /\ WorldStep
TurnArrives(p) ==
  /\ Answers(p) /\ ~daemons[p].draining /\ ~daemons[p].busy /\ turns < scenario.turns /\ turns' = turns + 1
  /\ Daemon(p, [daemons[p] EXCEPT !.busy = TRUE])
  /\ UNCHANGED <<tunnelRun, mem, faults, cut>> /\ WorldStep
TurnEnds(p) ==
  /\ daemons[p].busy /\ Daemon(p, [daemons[p] EXCEPT !.busy = FALSE])
  /\ UNCHANGED <<tunnelRun, mem, faults, turns, cut>> /\ WorldStep
TunnelUp ==
  /\ tunnelRun = "starting" /\ tunnelRun' = "ready"
  /\ UNCHANGED <<daemons, mem, faults, turns, cut>> /\ WorldStep
TunnelFalls ==
  /\ TunnelRuns /\ Fault /\ tunnelRun' \in {"sick", "stopped"} \ {tunnelRun}
  /\ UNCHANGED <<daemons, mem, turns, cut>> /\ WorldStep

WorldNext == TunnelUp \/ TunnelFalls \/ \E p \in Pids :
  Boots(p) \/ Crashes(p) \/ Closes(p) \/ TurnArrives(p) \/ TurnEnds(p)

-----------------------------------------------------------------------------
(* Exits, the monitor, timers.                                             *)

Watch == UNCHANGED <<worldVars, up, child, held, callers, bounds, cut>>

\* handleTerminal in spawnChild
ChildExits(p) ==
  LET m == [mem EXCEPT !.exits = @ \ {p}, !.restartable = @ \ {p}, !.daemon = IF @ = p THEN 0 ELSE @]
      again == ~mem.stopping /\ p \in mem.restartable
  IN /\ p \in mem.exits
     /\ Memory(IF again THEN Rescheduled(m, "daemon", {"start"} \cup Recoveries) ELSE m)
     /\ Write(IF mem.stopping THEN "stopping" ELSE IF again /\ TooMany(m, "daemon") THEN "failed" ELSE "degraded", m)
     /\ UNCHANGED pc /\ Watch

\* observeTunnelForMonitor, then what is made of it; a look that changes nothing is left out
MonitorLooks ==
  /\ mem.monitor /\ ~mem.stopping /\ (~TunnelReady \/ ~mem.tunnel) /\ mem.look = "none" /\ "tunnel" \notin mem.timers
  /\ Memory([mem EXCEPT !.look = IF TunnelReady THEN "good" ELSE "bad"])
  /\ UNCHANGED <<marker, pc>> /\ Watch
\* Three bad observations or a fatal one: with fewer, it looks again.
MonitorActs ==
  /\ mem.look # "none" /\ ~mem.stopping
  /\ \/ /\ mem.look = "bad" \/ mem.tunnel
        /\ Memory([mem EXCEPT !.look = "none"]) /\ UNCHANGED marker
     \/ /\ mem.look = "good" /\ ~mem.tunnel /\ LET m == [mem EXCEPT !.look = "none", !.tunnel = TRUE]
                                             IN Memory(m) /\ Write("ready", m)
     \/ LET m == [Unmonitored(mem) EXCEPT !.tunnel = FALSE]
        IN /\ mem.look = "bad" /\ Memory(Rescheduled(m, "tunnel", {"start"} \cup Recoveries))
           /\ Write(IF TooMany(m, "tunnel") THEN "failed" ELSE "degraded", m)
  /\ UNCHANGED pc /\ Watch

\* What recover(name) begins with; without a tunnel to restart it waits for the daemon.
RecoverBegins(name) ==
  CASE mem.stopping \/ config = "none" -> "idle"
    [] name = "tunnel" /\ ~usesTunnel -> IF mem.daemon = 0 THEN "failed" ELSE "confirm"
    [] OTHER -> name
\* The back-off is over: recover(name) begins, whatever an earlier one of it still does.
TimerFires(name) ==
  \E t \in RecoveriesOf[name] :
    /\ name \in mem.timers /\ pc[t] = "idle"
    /\ \A u \in RecoveriesOf[name] : pc[u] = "idle" => t \in {u, "recoverDaemon", "recoverTunnel"}
    /\ Memory([mem EXCEPT !.timers = @ \ {name}, !.tangled = @ \/ pc.start # "idle"])
    /\ Goto(t, RecoverBegins(name)) /\ UNCHANGED marker /\ Watch

-----------------------------------------------------------------------------
(* startTunnel, of a start, a recovery or a stop's compensation.           *)

TunnelTasks == {"start", "stop"} \cup RecoveriesOf.tunnel
\* A recovery goes on when there are a daemon and, if there is to be one, a tunnel.
AfterRestart == IF mem.daemon # 0 /\ (usesTunnel => mem.tunnel) THEN "confirm" ELSE "failed"
AfterTunnel(t) == CASE t = "start" -> "daemon" [] t = "stop" -> "restore" [] OTHER -> AfterRestart
AfterTunnelError(t) == CASE t = "start" -> "clean" [] t = "stop" -> "restore" [] OTHER -> "failed"

TunnelStep == UNCHANGED <<daemons, config, up, child, callers, marker, scenario, turns, cut>>
\* A ready runtime is taken over, except by a recovery, which restarts it.
TunnelLooks(t) ==
  /\ pc[t] = "tunnel"
  /\ LET adopts == TunnelReady /\ t \notin Recoveries
     IN Memory([mem EXCEPT !.tunnel = adopts]) /\ Goto(t, IF adopts THEN "tunnelCheck" ELSE "tunnelStop")
  /\ UNCHANGED <<tunnelRun, held>> /\ Smooth /\ TunnelStep
TunnelStops(t) ==
  /\ pc[t] = "tunnelStop" /\ tunnelRun' = "stopped" /\ Goto(t, "tunnelConnect")
  /\ UNCHANGED <<mem, held>> /\ Smooth /\ TunnelStep
TunnelConnects(t) ==
  /\ pc[t] = "tunnelConnect" /\ tunnelRun' = "starting" /\ Goto(t, "tunnelWait")
  /\ UNCHANGED <<mem, held>> /\ Smooth /\ TunnelStep
TunnelWaits(t) ==
  /\ pc[t] = "tunnelWait" /\ TunnelReady /\ Goto(t, "tunnelCheck")
  /\ Memory([mem EXCEPT !.tunnel = TRUE])
  /\ UNCHANGED <<tunnelRun, held>> /\ Smooth /\ TunnelStep
TunnelChecks(t) ==
  /\ pc[t] = "tunnelCheck" /\ TunnelReady /\ Goto(t, AfterTunnel(t))
  /\ Memory(Monitored(mem))
  /\ UNCHANGED <<tunnelRun, held>> /\ Smooth /\ TunnelStep
\* It stopped or does not get ready, or a command fails; then the clean-up, which may fail too.
TunnelErrs(t) ==
  /\ pc[t] \in {"tunnel", "tunnelStop", "tunnelConnect", "tunnelWait", "tunnelCheck"}
  /\ IF pc[t] \in {"tunnelWait", "tunnelCheck"} /\ tunnelRun \in {"stopped", "sick"} THEN Smooth ELSE Fault
  /\ \/ tunnelRun' = "stopped" /\ Memory([Unmonitored(mem) EXCEPT !.tunnel = FALSE])
     \/ faults' < scenario.faults /\ Memory(Unmonitored(mem)) /\ UNCHANGED tunnelRun
  /\ held' = [held EXCEPT !.broken = (t = "stop") \/ @]
  /\ Goto(t, AfterTunnelError(t)) /\ TunnelStep

TunnelNext == \E t \in TunnelTasks :
  TunnelLooks(t) \/ TunnelStops(t) \/ TunnelConnects(t) \/ TunnelWaits(t) \/ TunnelChecks(t) \/ TunnelErrs(t)

-----------------------------------------------------------------------------
(* startDaemon, of a start, a recovery or a stop's compensation.           *)

DaemonTasks == {"start", "stop"} \cup RecoveriesOf.daemon
AfterDaemon(t) == IF t = "stop" THEN "over" ELSE AfterRestart
AfterDaemonError(t) == CASE t = "start" -> "clean" [] t = "stop" -> "over" [] OTHER -> "failed"

DaemonStep == UNCHANGED <<tunnelRun, config, up, scenario, turns>>
\* An owned daemon that drains is resumed; without one, one is spawned.
DaemonAdopted(t) ==
  /\ pc[t] = "daemon" /\ mem.daemon # 0
  /\ Daemon(mem.daemon, [daemons[mem.daemon] EXCEPT !.draining = @ /\ ~Healthy(mem.daemon)])
  /\ Awaits(t, mem.daemon) /\ Goto(t, "adoptWait")
  /\ UNCHANGED <<mem, marker, held, callers, faults, cut>> /\ DaemonStep
DaemonSpawned(t) ==
  /\ pc[t] = "daemon" /\ mem.daemon = 0
  /\ \E p \in Pids :
       LET m == [mem EXCEPT !.daemon = p]
       IN /\ ~Alive(p) /\ p \notin mem.exits /\ p # marker.pid /\ \A q \in Pids :
               q < p => Alive(q) \/ q \in mem.exits \/ q = marker.pid
          /\ Daemon(p, [NoDaemon EXCEPT !.at = "booting", !.config = config])
          /\ Memory(m) /\ Write("starting", m)
          /\ Awaits(t, p) /\ Goto(t, "spawnWait")
  /\ UNCHANGED <<held, callers, faults, cut>> /\ DaemonStep
\* waitForProxy, and the daemon is still the one waited for; a start is ready with it
DaemonWaits(t) ==
  LET m == [mem EXCEPT !.restartable = @ \cup {mem.daemon}]
  IN /\ pc[t] \in {"adoptWait", "spawnWait"} /\ Accepting(mem.daemon) /\ mem.daemon = child[t]
     /\ IF t = "start" THEN Ends(t, "ready") /\ Write("ready", m) /\ Memory([m EXCEPT !.restarts = Fresh.restarts])
        ELSE Goto(t, AfterDaemon(t)) /\ Memory(m) /\ UNCHANGED <<callers, marker>>
     /\ Awaits(t, 0) /\ UNCHANGED <<daemons, held, faults, cut>> /\ DaemonStep
\* It exited, was replaced, or is not healthy in time; one that was spawned here is killed.
DaemonErrs(t) ==
  LET lost == mem.daemon # child[t] \/ ~Alive(mem.daemon) \/ (Answers(mem.daemon) /\ ~Accepting(mem.daemon))
      kills == pc[t] = "spawnWait" /\ mem.daemon # 0
  IN /\ pc[t] \in {"adoptWait", "spawnWait"} /\ IF lost THEN Smooth ELSE ~Accepting(mem.daemon) /\ Fault
     /\ IF kills THEN /\ Daemon(mem.daemon, NoDaemon) /\ Memory(Killed(mem)) /\ Write("stopping", Killed(mem))
                      /\ Cuts(mem.daemon, "killed")
        ELSE UNCHANGED <<daemons, mem, marker, cut>>
     /\ held' = [held EXCEPT !.broken = (t = "stop") \/ @]
     /\ Goto(t, AfterDaemonError(t)) /\ Awaits(t, 0) /\ UNCHANGED callers /\ DaemonStep

DaemonNext == \E t \in DaemonTasks : DaemonAdopted(t) \/ DaemonSpawned(t) \/ DaemonWaits(t) \/ DaemonErrs(t)

-----------------------------------------------------------------------------
(* recover                                                                 *)

RecoverStep == UNCHANGED <<worldVars, up, child, held, callers, scenario, turns, cut>>
\* waitForProxy, then waitForTunnel; ready is written without another look at the daemon.
RecoverConfirms(t) ==
  /\ pc[t] = "confirm" /\ Accepting(mem.daemon)
  /\ IF usesTunnel THEN Goto(t, "confirmTunnel") /\ UNCHANGED marker
     ELSE Goto(t, "idle") /\ Write("ready", mem)
  /\ UNCHANGED mem /\ Smooth /\ RecoverStep
RecoverReady(t) ==
  /\ pc[t] = "confirmTunnel" /\ TunnelReady
  /\ LET m == [mem EXCEPT !.tunnel = TRUE] IN Memory(m) /\ Write("ready", m)
  /\ Goto(t, "idle") /\ Smooth /\ RecoverStep
RecoverErrs(t) ==
  /\ pc[t] \in {"confirm", "confirmTunnel"} /\ Goto(t, "failed")
  /\ IF IF pc[t] = "confirm" THEN ~Accepting(mem.daemon) ELSE tunnelRun \in {"stopped", "sick"}
     THEN Smooth ELSE Fault
  /\ UNCHANGED <<mem, marker>> /\ RecoverStep
\* The catch in scheduleRecovery: what failed is recorded and scheduled again.
RecoverFails(t, name) ==
  /\ t \in RecoveriesOf[name] /\ pc[t] = "failed" /\ Goto(t, "idle")
  /\ Write("failed", mem) /\ Memory(Rescheduled(mem, name, ({"start"} \cup Recoveries) \ {t}))
  /\ Smooth /\ RecoverStep

RecoverNext == \E name \in Names : \/ TimerFires(name)
                                  \/ \E t \in RecoveriesOf[name] :
                                       RecoverConfirms(t) \/ RecoverReady(t) \/ RecoverErrs(t) \/ RecoverFails(t, name)

-----------------------------------------------------------------------------
(* Draining and shutting a daemon down, and stopping the tunnel: of a stop *)
(* ("own"), of stopStaleOwnedRuntime ("stale"), of cleanupFailedStart      *)
(* ("clean").  Control requests reach whichever daemon serves the port.    *)

Serving  == CHOOSE p \in Pids \cup {0} : IF \E q \in Pids : Answers(q) THEN Answers(p) ELSE p = 0
Stopping == {"start", "stop"}
StaleTunnel == usesTunnel /\ TunnelRuns
AfterDrain(t) == IF held[t] = "own" /\ mem.tunnel THEN "tunnelOff" ELSE "shutdown"
AfterExit(t)  == IF (held[t] = "stale" /\ StaleTunnel) \/ (held[t] = "clean" /\ mem.tunnel)
                 THEN "tunnelOff" ELSE "gone"
AfterOff(t)   == IF held[t] = "own" THEN "shutdown" ELSE "gone"
Failed(t)     == IF held[t] = "own" THEN "undo" ELSE "gaveUp"

HaltStep == UNCHANGED <<config, up, callers, scenario, turns>>
\* acquireDrain: each poll drains, and reads whether turns are active
DrainPolls(t) ==
  /\ pc[t] = "drain" /\ Serving # 0
  /\ Daemon(Serving, [daemons[Serving] EXCEPT !.draining = TRUE])
  /\ IF daemons[Serving].busy THEN UNCHANGED <<pc, held>>
     ELSE Goto(t, AfterDrain(t)) /\ held' = [held EXCEPT !.drained = @ \/ (held[t] = "own")]
  /\ UNCHANGED <<mem, marker, child, tunnelRun, faults, cut>> /\ HaltStep
\* Mutant: it waits for the turns without a deadline.
DrainWaits == Serving = 0
\* The deadline of a drain passes while turns are active or nothing answers.
DrainExpires == Serving = 0 \/ daemons[Serving].busy
\* It expires or the request fails; the compensating resume may fail too.
DrainErrs(t) ==
  /\ pc[t] = "drain" /\ IF DrainExpires THEN Smooth ELSE Fault
  /\ \/ Serving # 0 /\ Daemon(Serving, [daemons[Serving] EXCEPT !.draining = FALSE])
     \/ (Serving = 0 \/ faults' < scenario.faults) /\ UNCHANGED daemons
  /\ Goto(t, Failed(t)) /\ UNCHANGED <<mem, marker, child, held, tunnelRun, cut>> /\ HaltStep
\* /admin/shutdown: refused unless the daemon drains and is idle
ShutsDown(t) ==
  /\ pc[t] = "shutdown"
  /\ IF held[t] # "stale" /\ mem.daemon = 0 THEN Goto(t, AfterExit(t)) /\ UNCHANGED <<daemons, child>>
     ELSE /\ Serving # 0 /\ daemons[Serving].draining /\ ~daemons[Serving].busy
          /\ Daemon(Serving, [daemons[Serving] EXCEPT !.at = "closing"])
          /\ Awaits(t, IF held[t] = "stale" THEN marker.pid ELSE mem.daemon)
          /\ Goto(t, "exit")
  /\ UNCHANGED <<mem, marker, held, tunnelRun, faults, cut>> /\ HaltStep
\* The process has exited and the port is free.
Exited(t) ==
  /\ pc[t] = "exit" /\ ~Alive(child[t]) /\ child[t] \notin mem.exits /\ Serving = 0
  /\ Memory(IF held[t] = "stale" THEN mem ELSE [mem EXCEPT !.daemon = 0])
  /\ Goto(t, AfterExit(t)) /\ Awaits(t, 0) /\ UNCHANGED <<daemons, marker, held, tunnelRun, faults, cut>> /\ HaltStep
\* The deadline of the exit passes while the daemon, or one that has the port, does not close.
ExitExpires(t) == \E p \in {child[t], Serving} \ {0} : daemons[p].at \in {"booting", "serving"}
\* It is refused, or does not exit in time; stale and clean resume the daemon themselves.
ShutdownErrs(t) ==
  LET refused == Serving = 0 \/ ~daemons[Serving].draining \/ daemons[Serving].busy
  IN /\ pc[t] \in {"shutdown", "exit"} /\ (pc[t] = "shutdown" /\ held[t] # "stale" => mem.daemon # 0)
     /\ IF (pc[t] = "shutdown" /\ refused) \/ (pc[t] = "exit" /\ ExitExpires(t)) THEN Smooth ELSE Fault
     /\ IF Serving # 0 /\ held[t] # "own" THEN Daemon(Serving, [daemons[Serving] EXCEPT !.draining = FALSE])
        ELSE UNCHANGED daemons
     /\ Goto(t, Failed(t)) /\ Awaits(t, 0) /\ UNCHANGED <<mem, marker, held, tunnelRun, cut>> /\ HaltStep
TunnelOff(t) ==
  /\ pc[t] = "tunnelOff" /\ tunnelRun' = "stopped" /\ Goto(t, AfterOff(t))
  /\ Memory(IF held[t] = "stale" THEN mem ELSE [Unmonitored(mem) EXCEPT !.tunnel = FALSE])
  /\ held' = [held EXCEPT !.tunnelStopped = @ \/ (held[t] = "own")]
  /\ UNCHANGED <<daemons, marker, child, faults, cut>> /\ HaltStep
\* runTunnelCommand: it is refused, cannot run, or outlasts its time and is killed,
\* whatever it did by then.
StopCommandFails == Fault /\ tunnelRun' \in {tunnelRun, "stopped"}
\* The command fails, or the tunnel is not seen to stop: it is supervised again.
TunnelOffErrs(t) ==
  /\ pc[t] = "tunnelOff" /\ StopCommandFails
  /\ Memory(IF held[t] = "stale" THEN mem ELSE Monitored(mem))
  /\ Goto(t, Failed(t)) /\ UNCHANGED <<daemons, marker, child, held, cut>> /\ HaltStep

HaltNext == \E t \in Stopping :
  DrainPolls(t) \/ DrainErrs(t) \/ ShutsDown(t) \/ Exited(t) \/ ShutdownErrs(t) \/ TunnelOff(t) \/ TunnelOffErrs(t)

\* stopStaleOwnedRuntime up to its first await: what the marker and the port say of each other
StaleRuns    == Serving # 0 /\ daemons[Serving].config = config
StaleRefused == \/ marker.status = "none"
                \/ StaleRuns /\ Serving # marker.pid
                \/ ~StaleRuns /\ Alive(marker.pid)
                \/ ~usesTunnel /\ marker.tunnel /\ TunnelRuns
Stale(t) == /\ held' = [held EXCEPT ![t] = "stale"]
            /\ Goto(t, IF StaleRefused THEN "gaveUp" ELSE IF StaleRuns THEN "drain" ELSE
                       IF StaleTunnel THEN "tunnelOff" ELSE "gone")

-----------------------------------------------------------------------------
(* startConfigured                                                         *)

Nothing   == held' = [held EXCEPT !.start = "none"]                  \* it is stopping nothing any more
StartStep == UNCHANGED <<tunnelRun, config, up, scenario, faults, turns>>
Begin(m) == Memory([m EXCEPT !.stopping = FALSE, !.outdated = FALSE, !.tangled = @ \/ ~Idle(Recoveries)]) /\ Goto("start", IF usesTunnel THEN "tunnel" ELSE "daemon")
Recoverable == (\E p \in Pids : Healthy(p)) \/ MayBeLive
StartLooks ==
  /\ pc.start = "look" /\ UNCHANGED <<daemons, child, cut>> /\ StartStep
  /\ \/ /\ config = "none" /\ UNCHANGED <<mem, held>>
        /\ IF OwnersLive
           THEN Ends("start", "external") /\ UNCHANGED marker
           ELSE Ends("start", "not-configured") /\ marker' = NoMarker
     \/ /\ config = "old" /\ ~Recoverable /\ UNCHANGED <<mem, held>>
        /\ Ends("start", "needs-setup") /\ Write("needs-setup", mem)
     \/ /\ config # "none" /\ (config = "old" \/ (mem.daemon = 0 /\ ~mem.tunnel)) /\ Recoverable
        /\ Stale("start") /\ UNCHANGED <<mem, marker, callers>>
     \/ /\ config \notin {"none", "old"} /\ (mem.daemon # 0 \/ mem.tunnel \/ ~Recoverable)
        /\ Begin(mem) /\ UNCHANGED <<marker, held, callers>>
StartStaleGone ==
  /\ pc.start = "gone" /\ held.start = "stale" /\ Nothing /\ UNCHANGED <<daemons, child, cut>> /\ StartStep
  /\ IF config = "old" THEN Ends("start", "needs-setup") /\ Write("needs-setup", mem) /\ UNCHANGED mem
     ELSE Begin(mem) /\ marker' = NoMarker /\ UNCHANGED callers
\* writeExternalState keeps the record of live owners
StartStaleFails ==
  /\ pc.start = "gaveUp" /\ held.start = "stale" /\ Ends("start", "external")
  /\ IF marker.status # "none" /\ (marker.owned \/ OwnersLive)
     THEN UNCHANGED marker ELSE Write("external", mem)
  /\ Nothing /\ UNCHANGED <<daemons, mem, child, cut>> /\ StartStep
\* Mutant: whatever daemon there is is killed.
CleansAtOnce == FALSE
\* cleanupFailedStart: a healthy daemon is drained and shut down, another one is killed
CleansGracefully == mem.daemon # 0 /\ Healthy(mem.daemon)
StartCleans ==
  LET m == [mem EXCEPT !.stopping = TRUE]
      graceful == CleansGracefully
  IN /\ pc.start = "clean" /\ held' = [held EXCEPT !.start = "clean"]
     /\ Goto("start", IF graceful THEN "drain" ELSE IF mem.tunnel THEN "tunnelOff" ELSE "gone")
     /\ IF ~graceful /\ mem.daemon # 0
        THEN Daemon(mem.daemon, NoDaemon) /\ Cuts(mem.daemon, "killed") /\ Memory(Killed(m)) /\ Write("stopping", Killed(m))
        ELSE Memory(m) /\ UNCHANGED <<daemons, cut, marker>>
     /\ UNCHANGED <<child, callers>> /\ StartStep
StartFails ==
  /\ pc.start \in {"gone", "gaveUp"} /\ held.start = "clean" /\ Ends("start", "error")
  /\ Memory([mem EXCEPT !.stopping = FALSE]) /\ Write("failed", mem)
  /\ Nothing /\ UNCHANGED <<daemons, child, cut>> /\ StartStep
StartNext == StartLooks \/ StartStaleGone \/ StartStaleFails \/ StartCleans \/ StartFails

-----------------------------------------------------------------------------
(* performStopForSetup                                                     *)

StopStep == UNCHANGED <<config, up, scenario, turns, cut>>
Halted(m) == [Unmonitored(m) EXCEPT !.stopping = TRUE, !.timers = {}]
\* The callers that await the stop to start again go on, or fail with it.
StopEnds(result) ==
  LET starts == result = "stopped" /\ \E c \in Callers : callers[c].on = "before"
  IN /\ pc' = [pc EXCEPT !.stop = "idle", !.start = IF starts THEN "look" ELSE @]
     /\ held' = [NotHeld EXCEPT !.start = held.start, !.partial = held.partial]
     /\ callers' = [c \in Callers |->
          IF callers[c].on = "stop" \/ (callers[c].on = "before" /\ ~starts) THEN [on |-> "none", got |-> result]
          ELSE IF callers[c].on = "before" THEN [on |-> "start", got |-> "none"] ELSE callers[c]]
StopHalts ==
  /\ pc.stop = "waitStart" /\ pc.start = "idle" /\ Goto("stop", "waitRecoveries") /\ Memory(Halted(mem))
  /\ UNCHANGED <<daemons, tunnelRun, marker, child, held, callers, faults>> /\ StopStep
\* Mutant: a stop does not wait for recoveries under way.
RecoveriesIgnored == TRUE
RecoveriesSettled == Idle(Recoveries)
\* adoptConfiguredTunnelForStop, of a runtime there may be or of which nothing is recorded
Adopts == usesTunnel /\ ~mem.tunnel /\ TunnelRuns /\ (Recoverable \/ marker = NoMarker)
\* What there is to stop, a tunnel that is not in memory adopted first
StopLooks ==
  LET m == [mem EXCEPT !.tunnel = @ \/ Adopts]
      alone == m.daemon = 0 /\ ~m.tunnel
  IN /\ pc.stop = "waitRecoveries" /\ RecoveriesSettled /\ Memory(m)
     /\ UNCHANGED <<daemons, tunnelRun, marker, child, callers>> /\ StopStep
     /\ \/ Smooth /\ UNCHANGED held /\ alone /\ (IF config = "none" THEN ~OwnersLive ELSE ~Recoverable) /\ Goto("stop", "gone")
        \/ Smooth /\ alone /\ config # "none" /\ Recoverable /\ Stale("stop")
        \/ Smooth /\ m.daemon # 0 /\ Healthy(m.daemon) /\ Goto("stop", "drain") /\ held' = [held EXCEPT !.stop = "own"]
        \/ Smooth /\ m.daemon = 0 /\ m.tunnel /\ usesTunnel /\ Goto("stop", "tunnelOff") /\ held' = [held EXCEPT !.stop = "own"]
        \/ /\ UNCHANGED held /\ Goto("stop", "undo")
           /\ IF \/ m.daemon # 0 /\ ~Healthy(m.daemon)
                 \/ alone /\ config = "none" /\ OwnersLive
                 \/ m.daemon = 0 /\ m.tunnel /\ ~usesTunnel THEN Smooth ELSE Adopts /\ Fault
Stops ==
  /\ pc.stop = "gone" /\ StopEnds("stopped") /\ marker' = NoMarker /\ Memory([mem EXCEPT !.stopping = FALSE])
  /\ UNCHANGED <<daemons, tunnelRun, child, faults>> /\ StopStep
StopStaleFails ==
  /\ pc.stop = "gaveUp" /\ Goto("stop", "undo")
  /\ UNCHANGED <<daemons, tunnelRun, mem, marker, child, held, callers, faults>> /\ StopStep
\* The compensations of a stop that failed: the tunnel again, then the daemon.
StopUndoes ==
  /\ pc.stop = "undo"
  /\ Goto("stop", IF held.tunnelStopped /\ usesTunnel /\ ~mem.tunnel THEN "tunnel" ELSE "restore")
  /\ UNCHANGED <<daemons, tunnelRun, mem, marker, child, held, callers, faults>> /\ StopStep
\* restoreDrainedDaemon: resumed while its process lives, else started again
StopRestores ==
  LET alive == mem.daemon # 0 /\ Alive(mem.daemon)
  IN /\ pc.stop = "restore" /\ UNCHANGED <<tunnelRun, marker, callers, faults>> /\ StopStep
     /\ \/ ~held.drained /\ Goto("stop", "over") /\ UNCHANGED <<daemons, mem, child, held>>
        \/ /\ held.drained /\ alive /\ Healthy(mem.daemon) /\ Goto("stop", "adoptWait")
           /\ Daemon(mem.daemon, [daemons[mem.daemon] EXCEPT !.draining = FALSE])
           /\ Awaits("stop", mem.daemon) /\ UNCHANGED <<mem, held>>
        \/ /\ held.drained /\ (IF alive THEN ~Healthy(mem.daemon) ELSE Serving # 0) /\ Goto("stop", "over")
           /\ held' = [held EXCEPT !.broken = TRUE] /\ UNCHANGED <<daemons, mem, child>>
        \/ /\ held.drained /\ ~alive /\ Serving = 0 /\ Goto("stop", "daemon")
           /\ Memory([mem EXCEPT !.daemon = 0]) /\ UNCHANGED <<daemons, child, held>>
StopFails ==
  LET ready == /\ ~held.broken /\ mem.daemon # 0 /\ Accepting(mem.daemon)
               /\ usesTunnel => mem.tunnel /\ TunnelReady
  IN /\ pc.stop = "over" /\ StopEnds("error") /\ Write(IF ready THEN "ready" ELSE "failed", mem)
     /\ Memory([mem EXCEPT !.stopping = FALSE])
     /\ UNCHANGED <<daemons, tunnelRun, child, faults>> /\ StopStep
StopNext == StopHalts \/ StopLooks \/ Stops \/ StopStaleFails \/ StopUndoes \/ StopRestores \/ StopFails

-----------------------------------------------------------------------------
(* forceStopOwnedRuntime                                                   *)

ForceTunnel ==
  /\ pc.force = "waitRecoveries" /\ RecoveriesSettled /\ Goto("force", "kill")
  /\ \/ ~mem.tunnel /\ Smooth /\ UNCHANGED <<mem, tunnelRun, held>>
     \/ /\ mem.tunnel /\ usesTunnel /\ Smooth /\ tunnelRun' = "stopped"
        /\ Memory([mem EXCEPT !.tunnel = FALSE]) /\ UNCHANGED held
     \/ /\ mem.tunnel /\ (IF usesTunnel THEN Fault ELSE Smooth) /\ held' = [held EXCEPT !.partial = TRUE]
        /\ UNCHANGED <<mem, tunnelRun>>
  /\ UNCHANGED <<daemons, marker, child, callers>> /\ StopStep
ForceKills ==
  LET m == [Killed(mem) EXCEPT !.stopping = FALSE]
  IN /\ pc.force = "kill" /\ Memory(m) /\ Ends("force", IF held.partial THEN "forced-partial" ELSE "forced")
     /\ IF held.partial THEN Write("failed", m) ELSE marker' = NoMarker
     /\ IF mem.daemon # 0 THEN Daemon(mem.daemon, NoDaemon) /\ Cuts(mem.daemon, "forced") ELSE UNCHANGED <<daemons, cut>>
     /\ UNCHANGED <<tunnelRun, child, held, faults, config, up, scenario, turns>>
ForceNext == ForceTunnel \/ ForceKills

SupervisorNext == \/ WorldNext \/ MonitorLooks \/ MonitorActs \/ TunnelNext \/ DaemonNext \/ RecoverNext
                  \/ HaltNext \/ StartNext \/ StopNext \/ ForceNext \/ \E p \in Pids : ChildExits(p)

-----------------------------------------------------------------------------
(* What the launcher asks for: each joins what is under way.               *)

CallStart(c) ==
  /\ callers' = [callers EXCEPT ![c] = [on |-> IF pc.stop = "idle" THEN "start" ELSE "before", got |-> "none"]]
  /\ IF pc.stop = "idle" /\ pc.start = "idle" THEN Goto("start", "look") ELSE UNCHANGED pc
CallStop(c, on) ==
  /\ callers' = [callers EXCEPT ![c] = [on |-> on, got |-> "none"]]
  /\ IF pc.stop = "idle" THEN Goto("stop", "waitStart") ELSE UNCHANGED pc
CallRestart(c) == CallStop(c, "before")
CallForce(c) ==
  /\ callers' = [callers EXCEPT ![c] = [on |-> "force", got |-> "none"]] /\ Goto("force", "waitRecoveries")
  /\ Memory([Halted(mem) EXCEPT !.tangled = @ \/ ~Idle({"start", "stop"})]) /\ held' = [held EXCEPT !.partial = FALSE]
\* cancelActiveTurns
CancelTurns ==
  LET busy == \E p \in Pids : p = Serving /\ daemons[p].busy
  IN IF busy THEN Daemon(Serving, [daemons[Serving] EXCEPT !.busy = FALSE]) /\ cut' = "cancelled" ELSE UNCHANGED <<daemons, cut>>
=============================================================================
