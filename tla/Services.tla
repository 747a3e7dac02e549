------------------------------- MODULE Services -------------------------------
(***************************************************************************)
(* The two launchd jobs of a terminal install, and the operations on them  *)
(* a setup is made of: the daemon's job (service.ts), the tunnel's job     *)
(* (tunnel-service.ts) and tunnel-client's managed runtime (tunnel.ts).    *)
(*                                                                         *)
(* A job is loaded from its plist; launchd keeps its process up.  The      *)
(* daemon reads config.json when it boots and obeys the control token it   *)
(* found there.  An operation runs in the setup program, one step between  *)
(* two awaits or two effects on the machine; a step that fails spends one  *)
(* of the faults.                                                          *)
(***************************************************************************)
EXTENDS Naturals

CONSTANTS MaxTokens,   \* bound: control tokens ever made
          MaxBoots     \* bound: boots of the daemon

ASSUME ServicesAssumption == MaxTokens \in Nat /\ MaxBoots \in Nat \ {0}

Releases == 0 .. 2     \* bound: an old and a new release; 0 is none
Tunnels == 0 .. 2      \* bound: two tunnel ids; 0 is none

\* mcp: full mode over MCP (usesMcpToolTransport); the other settings change with the token
Config == [release : Releases, mcp : BOOLEAN, tid : Tunnels, owner : {"terminal", "launcher"}, token : 0 .. MaxTokens]
NoConfig == [release |-> 0, mcp |-> FALSE, tid |-> 0, owner |-> "terminal", token |-> 0]

\* a native profile names the tunnel and the MCP worker's command
Profile == [tid : Tunnels, release : Releases]
NoProfile == [tid |-> 0, release |-> 0]
\* Mutant: the profile names the worker by the control token.
ProfileOfToken(c) == [tid |-> c.tid, release |-> c.token]
ProfileOf(c) == [tid |-> c.tid, release |-> c.release]

VARIABLES
  saved,    \* config.json
  service,  \* the daemon's job: its plist, whether it is loaded, and the release it was loaded with
  daemon,   \* the daemon's process
  tunnel,   \* the tunnel's job, the managed runtime, and the native profile
  job,      \* the setup program
  budget,   \* bound: faults, crashes of the daemon, turns, deaths of a program
  history   \* what the properties look back at

machine == <<saved, service, daemon, tunnel>>

Loaded == service.loaded # "no"
NoDaemon == [up |-> FALSE, born |-> 0, release |-> 0, config |-> NoConfig, accepting |-> FALSE, turn |-> FALSE]
Boots(born, release, c) ==
  [up |-> TRUE, born |-> born, release |-> release, config |-> c, accepting |-> TRUE, turn |-> FALSE]

At(s) == job.at = s
Goes(s) == job' = [job EXCEPT !.at = s]
Ends(why) == job' = [job EXCEPT !.at = "failed", !.why = why]
Faulty == budget.faults > 0 /\ budget' = [budget EXCEPT !.faults = @ - 1]
Sound == UNCHANGED budget

-----------------------------------------------------------------------------
(* The machine.                                                            *)

\* RunAtLoad, KeepAlive and serve
Serves ==
  /\ service.loaded = "yes" /\ ~daemon.up /\ daemon.born < MaxBoots
  /\ daemon' = Boots(daemon.born + 1, service.args, saved)
  /\ UNCHANGED <<saved, service, tunnel, job, budget, history>>

DaemonDies ==
  /\ daemon.up /\ budget.crashes > 0 /\ daemon.born < MaxBoots
  /\ budget' = [budget EXCEPT !.crashes = @ - 1]
  /\ daemon' = [NoDaemon EXCEPT !.born = daemon.born]
  /\ UNCHANGED <<saved, service, tunnel, job, history>>

TurnArrives ==
  /\ daemon.up /\ daemon.accepting /\ ~daemon.turn /\ budget.turns > 0
  /\ budget' = [budget EXCEPT !.turns = @ - 1]
  /\ daemon' = [daemon EXCEPT !.turn = TRUE]
  /\ UNCHANGED <<saved, service, tunnel, job, history>>

TurnEnds ==
  /\ daemon.turn
  /\ daemon' = [daemon EXCEPT !.turn = FALSE]
  /\ UNCHANGED <<saved, service, tunnel, job, budget, history>>

\* launchd has stopped the process of a job that was booted out.
Unloads ==
  /\ service.loaded = "leaving"
  /\ service' = [service EXCEPT !.loaded = "no"]
  /\ daemon' = [NoDaemon EXCEPT !.born = daemon.born]
  /\ UNCHANGED <<saved, tunnel, job, budget, history>>

-----------------------------------------------------------------------------
(* The drain: op is what it is for, using the configuration whose token it *)
(* shows.  assertServiceIdle releases its lease at once; restartService    *)
(* and uninstallService keep it until the job has been booted out.         *)

Acquire(op, c, then) == job' = [job EXCEPT !.at = "drain", !.op = op, !.using = c, !.then = then]
Obeys == daemon.up /\ daemon.config.token = job.using.token

\* Mutant: the daemon answers with its counters, and goes on accepting turns.
DrainedOpen == daemon
Drained == [daemon EXCEPT !.accepting = FALSE]

Resumed == [daemon EXCEPT !.accepting = TRUE]
\* A daemon that launchd stops already is resumed like any other.
Resumes ==
  /\ daemon' = Resumed
  /\ history' = [history EXCEPT !.resumed = IF service.loaded = "leaving" THEN @ \cup {daemon.born} ELSE @]
Compensates(why) == job' = [job EXCEPT !.at = "undrain", !.why = why]

Skips == CASE job.op = "idle" -> job.then [] job.op = "restart" -> "start" [] job.op = "uninstall" -> "remove"
Drain ==
  /\ At("drain")
  /\ \/ ~Loaded /\ Goes(Skips) /\ Sound /\ UNCHANGED daemon
     \/ /\ Loaded /\ Obeys /\ ~daemon.turn /\ daemon' = Drained /\ Sound
        /\ job' = [job EXCEPT !.at = IF job.op = "idle" THEN "release" ELSE "bootout", !.lease = daemon.born]
     \/ Loaded /\ Obeys /\ daemon.turn /\ daemon' = Drained /\ Sound /\ Compensates("busy")
     \/ Loaded /\ ~Obeys /\ Compensates(IF daemon.up THEN "unproven" ELSE "down") /\ Sound /\ UNCHANGED daemon
     \/ Loaded /\ Obeys /\ daemon' \in {daemon, Drained} /\ Faulty /\ Compensates("fault")
  /\ UNCHANGED <<saved, service, tunnel, history>>

\* A resume that fails leaves the daemon draining, with nobody to resume it.
Abandons == history' = [history EXCEPT !.abandoned = @ \cup {daemon.born}]
Undrain ==
  /\ At("undrain") /\ Ends(job.why)
  /\ \/ Obeys /\ Resumes /\ Sound
     \/ ~Obeys /\ Sound /\ UNCHANGED <<daemon, history>>
     \/ Obeys /\ Faulty /\ Abandons /\ UNCHANGED daemon
  /\ UNCHANGED <<saved, service, tunnel>>

Release ==
  /\ At("release")
  /\ \/ Obeys /\ Resumes /\ Goes(job.then) /\ Sound
     \/ ~Obeys /\ Ends("down") /\ Sound /\ UNCHANGED <<daemon, history>>
     \/ Obeys /\ Ends("fault") /\ Faulty /\ Abandons /\ UNCHANGED daemon
  /\ UNCHANGED <<saved, service, tunnel>>

\* restartService, uninstallService: launchctl bootout, of whatever daemon launchd has up by then.
Bootout ==
  /\ At("bootout")
  /\ \/ /\ service' = [service EXCEPT !.loaded = "leaving"] /\ Goes("unload") /\ Sound
        /\ history' = [history EXCEPT !.booted = job.lease]
     \/ Goes("giveback") /\ Faulty /\ UNCHANGED <<service, history>>
  /\ UNCHANGED <<saved, daemon, tunnel>>

WaitUnload ==
  /\ At("unload")
  /\ \/ ~Loaded /\ Goes(IF job.op = "restart" THEN "start" ELSE "remove") /\ Sound
     \/ Loaded /\ Goes("giveback") /\ Faulty
  /\ UNCHANGED <<machine, history>>

GiveBack ==
  /\ At("giveback") /\ Ends("fault")
  /\ \/ Obeys /\ Resumes /\ Sound
     \/ ~Obeys /\ Sound /\ UNCHANGED <<daemon, history>>
     \/ Obeys /\ Faulty /\ Abandons /\ UNCHANGED daemon
  /\ UNCHANGED <<saved, service, tunnel>>

\* bootstrapService, startService and the end of installService
Bootstraps == service' = [service EXCEPT !.loaded = "yes", !.args = service.plist]
Start ==
  /\ At("start")
  /\ \/ Bootstraps /\ Goes(job.then) /\ Sound
     \/ Goes("giveback") /\ Faulty /\ UNCHANGED service
  /\ UNCHANGED <<saved, daemon, tunnel, history>>

Remove ==
  /\ At("remove") /\ Goes(job.then)
  /\ service' = [service EXCEPT !.plist = 0]
  /\ UNCHANGED <<saved, daemon, tunnel, budget, history>>

\* installService: a job that is loaded keeps the release it was loaded with.
InstallService ==
  /\ At("install")
  /\ LET written == [service EXCEPT !.plist = job.new.release] IN
     \/ Loaded /\ service' = written /\ Goes("restart") /\ Sound
     \/ /\ ~Loaded /\ Goes("restart") /\ Sound
        /\ service' = [written EXCEPT !.loaded = "yes", !.args = job.new.release]
     \/ ~Loaded /\ service' = written /\ Ends("fault") /\ Faulty
  /\ UNCHANGED <<saved, daemon, tunnel, history>>

ServiceStep == Drain \/ Undrain \/ Release \/ Bootout \/ WaitUnload \/ GiveBack \/ Start \/ Remove \/ InstallService

-----------------------------------------------------------------------------
(* The tunnel.                                                             *)

TunnelStopped == [tunnel EXCEPT !.loaded = FALSE, !.runs = NoProfile]
TunnelStarted(t) == [t EXCEPT !.loaded = TRUE, !.runs = t.profile]

\* stopTunnelService (keeps the plist) and uninstallTunnelService
StopsTunnel(kept, then) ==
  \/ tunnel' = [TunnelStopped EXCEPT !.plist = @ /\ kept] /\ Goes(then) /\ Sound
  \/ tunnel.loaded /\ tunnel' \in {tunnel, TunnelStopped} /\ Ends("fault") /\ Faulty

\* connectTunnel and waitForTunnelReady, of bootstrapTunnelProfile
Connect ==
  /\ At("connect")
  /\ LET connected == [tunnel EXCEPT !.profile = ProfileOf(job.new), !.managed = TRUE] IN
     \/ tunnel' = connected /\ Goes("disconnect") /\ Sound
     \/ tunnel' \in {tunnel, connected} /\ job' = [job EXCEPT !.at = "disconnect", !.why = "fault"] /\ Faulty
  /\ UNCHANGED <<saved, service, daemon, history>>

\* stopTunnel, of the runtime that validated the profile
Disconnect(then) ==
  /\ At("disconnect")
  /\ \/ /\ tunnel' = [tunnel EXCEPT !.managed = FALSE] /\ Sound
        /\ IF job.why = "fault" THEN Ends("fault") ELSE Goes(then)
     \/ UNCHANGED tunnel /\ Ends("fault") /\ Faulty
  /\ UNCHANGED <<saved, service, daemon, history>>

\* installTunnelService, or the start of restartTunnelService
StartTunnel(step, then) ==
  /\ At(step)
  /\ \/ tunnel' = TunnelStarted([tunnel EXCEPT !.plist = TRUE]) /\ Goes(then) /\ Sound
     \/ tunnel' = [TunnelStopped EXCEPT !.plist = TRUE] /\ Ends("fault") /\ Faulty
  /\ UNCHANGED <<saved, service, daemon, history>>
==============================================================================
