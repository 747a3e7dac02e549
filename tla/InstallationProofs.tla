-------------------------- MODULE InstallationProofs --------------------------
(***************************************************************************)
(* What a setup may do to the daemon and what a finished one leaves, for   *)
(* any scenario: any sequence of setups, any number of faults, crashes,    *)
(* turns and deaths, and any number of launchers.                          *)
(***************************************************************************)
EXTENDS Installation, TLAPS

-----------------------------------------------------------------------------
(* Where a setup stands.                                                   *)

Early == {"probe", "login", "change", "configure", "port"}
Draining == {"drain", "release", "bootout", "unload", "start", "remove"}

\* A drain is on the way to what comes after it.
Toward == IF job.at \in Draining THEN job.then ELSE job.at

\* The setup is past its preflight, and has not failed.
Working == job.at \notin Over \cup {"begin", "failed", "undrain", "giveback"}

ForLauncher == job.new.owner = "launcher"
AskedToRestart == job.changed /\ job.opt.restart

-----------------------------------------------------------------------------
(* The inductive invariant.                                                *)

\* The daemon is the one of the job that is loaded; the launcher's install has none.
MachineInv ==
  /\ ~Loaded => ~daemon.up
  /\ daemon.turn => daemon.up
  /\ daemon.up => daemon.release = service.args
  /\ saved.owner = "launcher" => ~Loaded

\* What is booted out was drained while it had no turn, or started after that, or is resumed while
\* launchd stops it; who drains a daemon still holds its token.
LeaseInv ==
  /\ service.loaded = "leaving" /\ daemon.up =>
       \/ daemon.born > history.booted \/ daemon.born \in history.resumed
       \/ ~daemon.turn /\ ~daemon.accepting
  /\ job.lease <= daemon.born
  /\ At("bootout") /\ daemon.born = job.lease => ~daemon.turn /\ (daemon.up => ~daemon.accepting)
  /\ daemon.up /\ ~daemon.accepting =>
       \/ service.loaded = "leaving" \/ daemon.born \in history.abandoned
       \/ job.at \in {"undrain", "release", "bootout", "giveback"} /\ Obeys

\* What a drain is for.
PurposeInv ==
  /\ job.at \in Draining =>
       \/ job.op = "idle" /\ job.then \in {"login", "configure", "unserve", "retunnel"}
       \/ job.op = "restart" /\ job.then = "proxy"
       \/ job.op = "uninstall" /\ job.then = "own"
  /\ At("release") => job.op = "idle"
  /\ job.at \in {"bootout", "unload"} => job.op # "idle"
  /\ At("start") => job.op = "restart"
  /\ At("remove") => job.op = "uninstall"
  /\ At("disown") \/ (job.at \in Draining /\ job.op = "uninstall") => job.before # "absent"

\* Whose installation it will be, and which steps that allows.
OwnerInv ==
  /\ job.checkpoint.saved.owner = "launcher" => saved.owner = "launcher"
  /\ At("bootout") => saved.owner = "terminal"
  /\ Is("upgrading") => saved.owner = "launcher" /\ job.checkpoint.saved.owner = "launcher" /\ job.opt.launcher
  /\ Working =>
       /\ saved.owner = "launcher" \/ job.opt.launcher => ForLauncher
       /\ Toward \in {"save", "install", "restart", "proxy", "unserve", "serve", "retunnel", "ready"} => ~ForLauncher
       /\ Toward \in {"disown", "own"} => ForLauncher

\* What is saved, and what the integration was installed with.
SavedInv ==
  /\ Toward \in Early \cup {"save"} => saved = job.old
  /\ Toward \in {"install", "restart", "proxy", "unserve", "serve", "retunnel", "ready", "integrate", "done"} => saved = job.new
  /\ ~ForLauncher /\ Toward \in {"provide", "retire", "connect", "disconnect"} => saved = job.new
  /\ At("done") => route = job.new.release

\* A setup that may restart the daemon is one that changes its token.
ChangeInv ==
  /\ Working /\ ~Exists(job.old) => job.before # "loaded"
  /\ Toward \in Early \cup {"save"} =>
       (job.new.token # job.old.token => job.opt.restart \/ ~Exists(job.old))
  /\ job.at \in {"port", "save"} => (job.changed <=> Exists(job.old) /\ job.before = "loaded" /\ job.old # job.new)

\* The daemon's job for the launcher: it is gone before the configuration is the launcher's.
GoneInv ==
  /\ job.at \in {"start", "remove"} => ~Loaded
  /\ At("unload") => service.loaded # "yes"
  /\ (Working \/ At("done")) /\ ForLauncher /\ (job.before = "absent" \/ Toward \in {"integrate", "done"} \/ At("own"))
       => ~Loaded /\ service.plist = 0

\* The daemon's job for a terminal, of a setup that began with a daemon it could control.
ServiceInv ==
  history.controlled =>
    /\ Toward \in Early \cup {"save", "install"} => service.loaded = IF job.before = "loaded" THEN "yes" ELSE "no"
    /\ Toward \in Early \cup {"save"} => Controlled
    /\ job.at \in {"install", "restart"} => Controlled \/ AskedToRestart
    /\ At("restart") \/ (job.at \in {"drain", "bootout"} /\ job.op = "restart") => service.loaded = "yes"
    /\ At("proxy") => service.loaded = "yes" /\ Controlled
    /\ ~ForLauncher /\ Toward \in {"provide", "retire", "unserve", "connect", "disconnect", "serve", "retunnel",
                                   "ready", "integrate", "done"}
         => service.loaded = "yes" /\ Controlled /\ service.args = job.new.release

\* The tunnel that is wanted.
WantedInv ==
  /\ Toward \in {"unserve", "connect", "disconnect", "serve", "retunnel", "ready"} => job.new.mcp
  /\ Toward = "retire" => ~job.new.mcp
  /\ (Working \/ At("done")) /\ Toward \notin {"probe", "login", "change", "configure"} /\ job.new.mcp =>
       job.new.tid # 0 /\ (~Creds => job.old.mcp /\ job.new.tid = job.old.tid)
  /\ Working \/ At("begin") => job.why = "none" \/ (At("disconnect") /\ job.why = "fault")

\* The tunnel is as the setup found it; its profile is.
Found == tunnel.profile = job.checkpoint.profile /\ tunnel.plist = job.checkpoint.served
KeptProfile == job.checkpoint.served /\ tunnel.profile = job.checkpoint.profile

\* What there is of the tunnel when the setup is about to finish.
Provided ==
  /\ job.new.mcp => /\ tunnel.profile.tid # 0
                    /\ ForLauncher => ~tunnel.plist
                    /\ ForLauncher /\ history.profiled => tunnel.profile = ProfileOf(job.new)
                    /\ ~ForLauncher => /\ tunnel.profile = ProfileOf(job.new) \/ KeptProfile
                                       /\ tunnel.plist /\ tunnel.loaded /\ tunnel.runs = tunnel.profile
  /\ ~job.new.mcp /\ job.old.mcp => ~tunnel.loaded /\ ~tunnel.plist

\* The tunnel on the way there.
TunnelInv ==
  /\ history.profiled /\ Toward \in Early \cup {"save", "install", "restart", "proxy", "provide"} =>
       (tunnel.profile.tid # 0 => tunnel.profile = ProfileOf(job.old))
  /\ tunnel.loaded => tunnel.runs = tunnel.profile \/ tunnel.profile.tid = 0
  /\ job.opt.launcher /\ job.at \notin {"none", "done", "undone", "dead"} /\ tunnel.loaded =>
       tunnel.profile = job.checkpoint.profile
  /\ Toward \in Early \cup {"begin", "save", "install", "restart", "proxy", "provide", "retire", "unserve", "retunnel"} => Found
  /\ Toward = "retunnel" => job.checkpoint.served
  /\ job.at \in {"connect", "disconnect"} => ~tunnel.loaded /\ (ForLauncher => ~tunnel.plist)
  /\ At("disconnect") /\ job.why = "none" => tunnel.profile = ProfileOf(job.new)
  /\ Toward \in {"serve", "retunnel", "ready"} => tunnel.profile.tid # 0
  /\ Toward \in {"serve", "ready"} => tunnel.profile = ProfileOf(job.new) \/ KeptProfile
  /\ At("ready") => tunnel.plist /\ (tunnel.loaded => tunnel.runs = tunnel.profile)
  /\ Toward \in {"disown", "own", "integrate", "done"} => Provided

SetupInv ==
  /\ MachineInv /\ LeaseInv /\ PurposeInv /\ OwnerInv /\ SavedInv
  /\ ChangeInv /\ GoneInv /\ ServiceInv /\ WantedInv /\ TunnelInv

-----------------------------------------------------------------------------
(* The launcher's update.                                                  *)

UpdateInv ==
  /\ ~Off => launcher.version # 0
  /\ worker.parent <= launcher.pid
  /\ worker.at \in {"copy", "away", "in", "back"} => ~ParentAlive
  /\ disk.app # 0 \/ disk.swap # 0
  /\ worker.at \in {"away", "in"} => disk.next # 0
  /\ worker.at \in {"in", "back"} => disk.swap # 0
  /\ CancelledIsOver /\ RuntimeIsWhole
  /\ Is("quitting") /\ launcher.version = 2 => bundle.dest = "whole"

-----------------------------------------------------------------------------
(* Types.                                                                  *)

JobTyped == job \in Job
ServiceTyped == service \in [plist : Releases, loaded : {"no", "yes", "leaving"}, args : Releases]
DaemonTyped ==
  daemon \in [up : BOOLEAN, born : 0 .. MaxBoots, release : Releases, config : Config, accepting : BOOLEAN, turn : BOOLEAN]
TunnelTyped == tunnel \in [plist : BOOLEAN, loaded : BOOLEAN, managed : BOOLEAN, profile : Profile, runs : Profile]
HistoryTyped ==
  history \in [booted : Nat, resumed : SUBSET (0 .. MaxBoots), abandoned : SUBSET (0 .. MaxBoots),
              tokens : 0 .. MaxTokens, controlled : BOOLEAN, profiled : BOOLEAN]

\* The type invariant, variable by variable.
SetupTyped ==
  /\ saved \in Config /\ route \in Releases
  /\ JobTyped /\ ServiceTyped /\ DaemonTyped /\ TunnelTyped /\ HistoryTyped

LEMMA TypesAreFlat == SetupTypeOK <=> SetupTyped
BY DEF SetupTypeOK, SetupTyped, JobTyped, ServiceTyped, DaemonTyped, TunnelTyped, HistoryTyped

LEMMA JobGoes == ASSUME JobTyped, NEW s \in Steps, Goes(s) PROVE JobTyped'
BY DEF JobTyped, Job, Goes

LEMMA JobEnds == ASSUME JobTyped, NEW w \in Reasons, Ends(w) PROVE JobTyped'
BY DEF JobTyped, Job, Ends, Steps

LEMMA JobCompensates == ASSUME JobTyped, NEW w \in Reasons, Compensates(w) PROVE JobTyped'
BY DEF JobTyped, Job, Compensates, Steps

LEMMA JobAcquires ==
  ASSUME JobTyped, NEW o \in {"idle", "restart", "uninstall"}, NEW c \in Config, NEW s \in Steps, Acquire(o, c, s)
  PROVE  JobTyped'
<1>1. "drain" \in Steps
  BY DEF Steps
<1> QED BY <1>1 DEF JobTyped, Job, Acquire

LEMMA Abandoned == ASSUME DaemonTyped, HistoryTyped, Abandons PROVE HistoryTyped'
<1>1. daemon.born \in 0 .. MaxBoots
  BY DEF DaemonTyped
<1> QED BY <1>1 DEF HistoryTyped, Abandons

LEMMA DaemonDrained == ASSUME DaemonTyped, daemon' \in {daemon, Drained, Resumed} PROVE DaemonTyped'
BY DEF DaemonTyped, Drained, Resumed

LEMMA ResumedTyped == ASSUME DaemonTyped, HistoryTyped, Resumes PROVE DaemonTyped' /\ HistoryTyped'
<1>1. daemon.born \in 0 .. MaxBoots
  BY DEF DaemonTyped
<1>2. HistoryTyped'
  BY <1>1 DEF HistoryTyped, Resumes
<1> QED BY <1>2, DaemonDrained DEF Resumes

LEMMA JobFields ==
  ASSUME JobTyped
  PROVE  /\ job.at \in Steps /\ job.then \in Steps /\ job.op \in {"idle", "restart", "uninstall"}
         /\ job.using \in Config /\ job.lease \in Nat /\ job.opt \in Option /\ job.old \in Config
         /\ job.new \in Config /\ job.before \in {"absent", "installed", "loaded"} /\ job.changed \in BOOLEAN
         /\ job.why \in Reasons /\ job.checkpoint \in Checkpoint
BY DEF JobTyped, Job

LEMMA ServiceTypes ==
  ASSUME JobTyped, ServiceTyped, DaemonTyped, HistoryTyped, ServiceStep
  PROVE  JobTyped' /\ ServiceTyped' /\ DaemonTyped' /\ HistoryTyped'
<1> USE JobFields
<1>s. {"none", "undrain", "release", "bootout", "unload", "giveback", "start", "remove", "restart", "failed"} \subseteq Steps
  BY DEF Steps
<1>r. {"fault", "busy", "unproven", "down"} \subseteq Reasons
  BY DEF Reasons
<1>n. job.new.release \in Releases
  BY DEF Config
<1>1. CASE Drain
  <2>1. DaemonTyped'
    BY <1>1, DaemonDrained DEF Drain
  <2>2. ASSUME Goes(Skips) PROVE JobTyped'
    <3>1. Skips \in Steps
      BY <1>s DEF Skips
    <3> QED BY <3>1, <2>2, JobGoes
  <2>3. ASSUME job' = [job EXCEPT !.at = IF job.op = "idle" THEN "release" ELSE "bootout", !.lease = daemon.born]
        PROVE  JobTyped'
    <3>1. daemon.born \in Nat
      BY ServicesAssumption DEF DaemonTyped
    <3> QED BY <2>3, <3>1, <1>s DEF JobTyped, Job
  <2>4. JobTyped'
    BY <1>1, <2>2, <2>3, <1>r, JobCompensates DEF Drain
  <2> QED BY <2>1, <2>4, <1>1 DEF Drain, ServiceTyped, HistoryTyped
<1>2. CASE Undrain
  <2>1. JobTyped'
    BY <1>2, JobEnds DEF Undrain
  <2>2. DaemonTyped'
    BY <1>2, DaemonDrained, ResumedTyped DEF Undrain
  <2>3. HistoryTyped'
    BY <1>2, Abandoned, ResumedTyped DEF Undrain, HistoryTyped
  <2> QED BY <2>1, <2>2, <2>3, <1>2 DEF Undrain, ServiceTyped
<1>3. CASE Release
  <2>1. JobTyped'
    BY <1>3, JobEnds, JobGoes, <1>r DEF Release
  <2>2. DaemonTyped'
    BY <1>3, DaemonDrained, ResumedTyped DEF Release
  <2>3. HistoryTyped'
    BY <1>3, Abandoned, ResumedTyped DEF Release, HistoryTyped
  <2> QED BY <2>1, <2>2, <2>3, <1>3 DEF Release, ServiceTyped
<1>4. CASE Bootout
  <2>1. JobTyped'
    BY <1>4, JobGoes, <1>s DEF Bootout
  <2>2. HistoryTyped'
    BY <1>4 DEF Bootout, HistoryTyped
  <2> QED BY <2>1, <2>2, <1>4 DEF Bootout, ServiceTyped, DaemonTyped
<1>5. CASE WaitUnload
  <2>1. JobTyped'
    BY <1>5, JobGoes, <1>s DEF WaitUnload
  <2> QED BY <2>1, <1>5 DEF WaitUnload, machine, ServiceTyped, HistoryTyped, DaemonTyped
<1>6. CASE GiveBack
  <2>1. JobTyped'
    BY <1>6, JobEnds, <1>r DEF GiveBack
  <2>2. DaemonTyped'
    BY <1>6, DaemonDrained, ResumedTyped DEF GiveBack
  <2>3. HistoryTyped'
    BY <1>6, Abandoned, ResumedTyped DEF GiveBack, HistoryTyped
  <2> QED BY <2>1, <2>2, <2>3, <1>6 DEF GiveBack, ServiceTyped
<1>7. CASE Start
  <2>1. JobTyped'
    BY <1>7, JobGoes, <1>s DEF Start
  <2>2. ServiceTyped'
    BY <1>7 DEF Start, Bootstraps, ServiceTyped
  <2> QED BY <2>1, <2>2, <1>7 DEF Start, HistoryTyped, DaemonTyped
<1>8. CASE Remove
  <2>1. JobTyped'
    BY <1>8, JobGoes DEF Remove
  <2> QED BY <2>1, <1>8 DEF Remove, Releases, ServiceTyped, HistoryTyped, DaemonTyped
<1>9. CASE InstallService
  <2>1. JobTyped'
    BY <1>9, JobGoes, JobEnds, <1>s, <1>r DEF InstallService
  <2>2. ServiceTyped'
    BY <1>9, <1>n DEF InstallService, ServiceTyped
  <2> QED BY <2>1, <2>2, <1>9 DEF InstallService, HistoryTyped, DaemonTyped
<1> QED BY <1>1, <1>2, <1>3, <1>4, <1>5, <1>6, <1>7, <1>8, <1>9 DEF ServiceStep

LEMMA ProfileTyped == ASSUME NEW c \in Config PROVE ProfileOf(c) \in Profile
BY DEF Config, ProfileOf, Profile

LEMMA TunnelTypes ==
  ASSUME JobTyped, TunnelTyped, TunnelStep
  PROVE  JobTyped' /\ TunnelTyped'
<1> DEFINE S == {"own", "integrate", "disown", "serve", "ready", "disconnect"}
<1>s. S \subseteq Steps /\ "fault" \in Reasons
  BY DEF Steps, Reasons
<1>c. Commits \in S
  BY DEF Commits
<1>n. NoProfile \in Profile
  BY DEF NoProfile, Profile, Tunnels, Releases
<1> HIDE DEF S
<1>1. CASE Connect
  <2>1. ProfileOf(job.new) \in Profile
    BY JobFields, ProfileTyped
  <2>2. TunnelTyped'
    BY <1>1, <2>1 DEF Connect, TunnelTyped
  <2>3. ASSUME job' = [job EXCEPT !.at = "disconnect", !.why = "fault"] PROVE JobTyped'
    BY <2>3, <1>s DEF JobTyped, Job, S
  <2>4. "disconnect" \in Steps
    BY DEF Steps
  <2> QED BY <1>1, <2>2, <2>3, <2>4, JobGoes DEF Connect
<1>2. ASSUME NEW s \in S, Disconnect(s) PROVE JobTyped' /\ TunnelTyped'
  <2>1. TunnelTyped'
    BY <1>2 DEF Disconnect, TunnelTyped
  <2> QED BY <1>2, <2>1, <1>s, JobGoes, JobEnds DEF Disconnect
<1>3. CASE StartTunnel("serve", "ready")
  <2>1. TunnelTyped'
    BY <1>3, <1>n DEF StartTunnel, TunnelTyped, TunnelStarted, TunnelStopped
  <2>2. "ready" \in Steps
    BY DEF Steps
  <2> QED BY <1>3, <2>1, <2>2, <1>s, JobGoes, JobEnds DEF StartTunnel
<1>4. (IF ForLauncher THEN Commits ELSE "serve") \in S
  BY <1>c DEF S
<1> QED BY <1>1, <1>2, <1>3, <1>4 DEF TunnelStep, ForLauncher

LEMMA StopTypes ==
  ASSUME JobTyped, TunnelTyped, NEW k \in BOOLEAN, NEW s \in Steps, StopsTunnel(k, s)
  PROVE  JobTyped' /\ TunnelTyped'
<1>1. NoProfile \in Profile /\ "fault" \in Reasons
  BY DEF NoProfile, Profile, Tunnels, Releases, Reasons
<1>2. TunnelTyped'
  BY <1>1 DEF StopsTunnel, TunnelTyped, TunnelStopped
<1> QED BY <1>1, <1>2, JobGoes, JobEnds DEF StopsTunnel

LEMMA BasedTyped ==
  ASSUME saved \in Config, JobTyped, HistoryTyped, history.tokens < MaxTokens
  PROVE  Based \in Config /\ Based.token \in 0 .. MaxTokens
<1>1. job.opt.release \in Releases /\ job.opt.mcp \in BOOLEAN
  BY JobFields DEF Option
<1>2. history.tokens + 1 \in 0 .. MaxTokens
  BY ServicesAssumption DEF HistoryTyped
<1> QED BY <1>1, <1>2 DEF Based, Config

SetupOnly ==
  \/ Begin \/ Probe \/ Login \/ Change \/ Configure \/ Port \/ Save \/ Restart \/ WaitForProxy
  \/ Provide \/ Retire \/ Unserve \/ Retunnel \/ WaitForTunnel \/ Disown \/ Own \/ Integrate

LEMMA SetupTypes == ASSUME SetupTyped, SetupOnly PROVE SetupTyped'
<1> USE DEF SetupTyped
<1>f. /\ job.new \in Config /\ job.old \in Config /\ job.then \in Steps /\ job.opt \in Option
  BY JobFields
<1>s. /\ {"failed", "probe", "change", "login", "configure", "port", "provide", "save", "install", "restart", "proxy",
           "retire", "unserve", "retunnel", "ready", "connect", "serve", "own", "integrate", "disown", "done"} \subseteq Steps
      /\ {"refused", "fault", "proxy"} \subseteq Reasons
  BY DEF Steps, Reasons
<1>c. Commits \in Steps
  BY <1>s DEF Commits
<1> USE <1>f, <1>s
<1> USE DEF machine, Refuses
<1>1. CASE Begin
  <2>1. HistoryTyped'
    BY <1>1, BasedTyped DEF Begin, HistoryTyped, Controlled, Profiled
  <2>2. JobTyped'
    BY <1>1, BasedTyped DEF Begin, JobTyped, Job
  <2> QED BY <1>1, <2>1, <2>2 DEF Begin, ServiceTyped, DaemonTyped, TunnelTyped
<1>2. CASE Probe
  <2>1. JobTyped'
    BY <1>2, JobGoes, JobEnds, JobAcquires DEF Probe
  <2> QED BY <1>2, <2>1 DEF Probe, ServiceTyped, DaemonTyped, TunnelTyped, HistoryTyped
<1>3. CASE Login
  <2>1. JobTyped'
    BY <1>3, JobGoes, JobEnds, JobAcquires DEF Login
  <2> QED BY <1>3, <2>1 DEF Login, ServiceTyped, DaemonTyped, TunnelTyped, HistoryTyped
<1>4. CASE Change
  <2>1. JobTyped'
    BY <1>4, JobGoes, JobEnds, JobAcquires DEF Change
  <2> QED BY <1>4, <2>1 DEF Change, ServiceTyped, DaemonTyped, TunnelTyped, HistoryTyped
<1>5. CASE Configure
  <2>1. job.opt.tid \in Tunnels /\ job.old.tid \in Tunnels /\ 0 \in Tunnels
    BY DEF Option, Config, Tunnels
  <2>2. ASSUME NEW t \in Tunnels, NEW b \in BOOLEAN,
               job' = [job EXCEPT !.at = "port", !.new = [job.new EXCEPT !.tid = t], !.changed = b]
        PROVE  JobTyped'
    <3>1. [job.new EXCEPT !.tid = t] \in Config
      BY DEF Config
    <3> QED BY <2>2, <3>1 DEF JobTyped, Job
  <2>3. JobTyped'
    BY <1>5, <2>1, <2>2, JobEnds DEF Configure, Exists
  <2> QED BY <1>5, <2>3 DEF Configure, ServiceTyped, DaemonTyped, TunnelTyped, HistoryTyped
<1>6. CASE Port
  <2>1. JobTyped'
    BY <1>6, JobGoes, JobEnds, JobAcquires DEF Port
  <2> QED BY <1>6, <2>1 DEF Port, ServiceTyped, DaemonTyped, TunnelTyped, HistoryTyped
<1>7. CASE Save
  <2>1. JobTyped'
    BY <1>7, JobGoes, JobEnds, JobAcquires DEF Save
  <2> QED BY <1>7, <2>1 DEF Save, ServiceTyped, DaemonTyped, TunnelTyped, HistoryTyped
<1>8. CASE Restart
  <2>1. JobTyped'
    BY <1>8, JobGoes, JobEnds, JobAcquires DEF Restart
  <2> QED BY <1>8, <2>1 DEF Restart, ServiceTyped, DaemonTyped, TunnelTyped, HistoryTyped
<1>9. CASE WaitForProxy
  <2>1. JobTyped'
    BY <1>9, JobGoes, JobEnds, JobAcquires DEF WaitForProxy
  <2> QED BY <1>9, <2>1 DEF WaitForProxy, ServiceTyped, DaemonTyped, TunnelTyped, HistoryTyped
<1>10. CASE Provide
  <2>1. JobTyped' /\ TunnelTyped'
    <3>1. ASSUME NEW s \in Steps, StopsTunnel(FALSE, s) PROVE JobTyped' /\ TunnelTyped'
      BY <3>1, StopTypes
    <3> QED BY <1>10, <3>1, <1>c, JobGoes, JobAcquires DEF Provide, TunnelTyped
  <2> QED BY <1>10, <2>1 DEF Provide, ServiceTyped, DaemonTyped, HistoryTyped
<1>11. CASE Retire
  <2>1. JobTyped' /\ TunnelTyped'
    BY <1>11, <1>c, StopTypes DEF Retire
  <2> QED BY <1>11, <2>1 DEF Retire, ServiceTyped, DaemonTyped, HistoryTyped
<1>12. CASE Unserve
  <2>1. JobTyped' /\ TunnelTyped'
    BY <1>12, StopTypes DEF Unserve
  <2> QED BY <1>12, <2>1 DEF Unserve, ServiceTyped, DaemonTyped, HistoryTyped
<1>13. CASE Retunnel
  <2>1. JobTyped' /\ TunnelTyped'
    BY <1>13, StopTypes DEF Retunnel
  <2> QED BY <1>13, <2>1 DEF Retunnel, ServiceTyped, DaemonTyped, HistoryTyped
<1>14. CASE WaitForTunnel
  <2>1. JobTyped'
    BY <1>14, <1>c, JobGoes, JobEnds, JobAcquires DEF WaitForTunnel
  <2> QED BY <1>14, <2>1 DEF WaitForTunnel, ServiceTyped, DaemonTyped, TunnelTyped, HistoryTyped
<1>15. CASE Disown
  <2>1. JobTyped'
    BY <1>15, JobGoes, JobEnds, JobAcquires DEF Disown
  <2> QED BY <1>15, <2>1 DEF Disown, ServiceTyped, DaemonTyped, TunnelTyped, HistoryTyped
<1>16. CASE Own
  <2>1. JobTyped'
    BY <1>16, JobGoes, JobEnds, JobAcquires DEF Own
  <2> QED BY <1>16, <2>1 DEF Own, ServiceTyped, DaemonTyped, TunnelTyped, HistoryTyped
<1>17. CASE Integrate
  <2>1. job.new.release \in Releases
    BY DEF Config
  <2>2. JobTyped'
    BY <1>17, JobGoes, JobEnds DEF Integrate
  <2> QED BY <1>17, <2>1, <2>2 DEF Integrate, ServiceTyped, DaemonTyped, TunnelTyped, HistoryTyped
<1> QED BY <1>1, <1>2, <1>3, <1>4, <1>5, <1>6, <1>7, <1>8, <1>9, <1>10, <1>11, <1>12, <1>13, <1>14, <1>15, <1>16, <1>17
        DEF SetupOnly

LEMMA NewJobTyped ==
  ASSUME SetupTyped, NEW o \in Option PROVE NewJob(o) \in Job
<1>1. Snapshot \in Checkpoint
  BY DEF Snapshot, Checkpoint, SetupTyped, ServiceTyped, TunnelTyped
<1>2. NoConfig \in Config
  BY ServicesAssumption DEF NoConfig, Config, Releases, Tunnels
<1>3. "begin" \in Steps /\ "none" \in Steps /\ "none" \in Reasons
  BY DEF Steps, Reasons
<1> QED BY <1>1, <1>2, <1>3 DEF NewJob, Job

LEMMA MachineTypes ==
  ASSUME SetupTyped, Machine
  PROVE  SetupTyped' /\ UNCHANGED <<saved, job, tunnel, route>>
<1> USE DEF SetupTyped
<1>d. /\ daemon.born \in 0 .. MaxBoots /\ service.args \in Releases /\ daemon \in [up : BOOLEAN, born : 0 .. MaxBoots,
           release : Releases, config : Config, accepting : BOOLEAN, turn : BOOLEAN]
      /\ NoConfig \in Config /\ 0 \in Releases /\ MaxBoots \in Nat
  BY ServicesAssumption DEF NoConfig, Config, Releases, Tunnels, DaemonTyped, ServiceTyped
<1>f. UNCHANGED <<saved, job, tunnel, route, history>>
  BY DEF Machine, Serves, DaemonDies, TurnArrives, TurnEnds, Unloads
<1>t. JobTyped' /\ TunnelTyped' /\ HistoryTyped'
  BY <1>f DEF JobTyped, TunnelTyped, HistoryTyped
<1>n. [NoDaemon EXCEPT !.born = daemon.born] \in [up : BOOLEAN, born : 0 .. MaxBoots,
           release : Releases, config : Config, accepting : BOOLEAN, turn : BOOLEAN]
  BY <1>d DEF NoDaemon
<1>1. CASE Serves
  <2>1. daemon.born + 1 \in 0 .. MaxBoots
    BY <1>1, <1>d DEF Serves
  <2> QED BY <1>1, <2>1, <1>d, <1>f, <1>t DEF Serves, Boots, DaemonTyped, ServiceTyped
<1>2. CASE DaemonDies
  BY <1>2, <1>n, <1>f, <1>t DEF DaemonDies, DaemonTyped, ServiceTyped
<1>3. CASE TurnArrives
  BY <1>3, <1>d, <1>f, <1>t DEF TurnArrives, DaemonTyped, ServiceTyped
<1>4. CASE TurnEnds
  BY <1>4, <1>d, <1>f, <1>t DEF TurnEnds, DaemonTyped, ServiceTyped
<1>5. CASE Unloads
  BY <1>5, <1>n, <1>f, <1>t DEF Unloads, DaemonTyped, ServiceTyped
<1> QED BY <1>1, <1>2, <1>3, <1>4, <1>5 DEF Machine

LEMMA RestoreTypes == ASSUME SetupTyped, Restores PROVE SetupTyped'
<1> USE DEF SetupTyped
<1>c. /\ job.checkpoint.saved \in Config /\ job.checkpoint.plist \in Releases /\ job.checkpoint.served \in BOOLEAN
      /\ job.checkpoint.profile \in Profile /\ job.checkpoint.route \in Releases
  BY JobFields DEF Checkpoint
<1>1. JobTyped'
  BY JobGoes DEF Restores, Steps
<1>2. ServiceTyped'
  BY <1>c DEF Restores, ServiceTyped
<1>3. TunnelTyped'
  <2>1. tunnel.managed \in BOOLEAN /\ tunnel.runs \in Profile /\ tunnel.loaded \in BOOLEAN
    BY DEF TunnelTyped
  <2> DEFINE r == [tunnel EXCEPT !.plist = job.checkpoint.served, !.profile = job.checkpoint.profile]
  <2>2. r \in [plist : BOOLEAN, loaded : BOOLEAN, managed : BOOLEAN, profile : Profile, runs : Profile]
    BY <1>c DEF TunnelTyped
  <2>3. tunnel' = r \/ tunnel' = TunnelStarted(r)
    BY DEF Restores
  <2> HIDE DEF r
  <2> QED BY <2>2, <2>3 DEF TunnelTyped, TunnelStarted
<1>4. DaemonTyped' /\ HistoryTyped' /\ saved' \in Config /\ route' \in Releases
  BY <1>c DEF Restores, DaemonTyped, HistoryTyped
<1> QED BY <1>1, <1>2, <1>3, <1>4

LauncherTyped ==
  launcher \in [at : {"off", "broken", "starting", "staged", "moved", "upgrade", "upgrading", "ready", "quitting"},
               version : Versions, pid : 0 .. MaxLaunches]
CtlTyped == ctl \in {"idle", "available", "downloading", "installing", "up-to-date", "error"}
WorkerTyped ==
  worker \in [at : {"none", "waiting", "copy", "away", "in", "back", "launch", "relaunch", "done", "gone"},
             parent : 0 .. MaxLaunches, temp : BOOLEAN]
DiskTyped == disk \in [app : Versions, swap : Versions, next : Versions]
BundleTyped == bundle \in [dest : {"none", "stale", "whole"}, prev : BOOLEAN]
PowerTyped == power \in [platform : {"mac", "other"}, faults : Nat, deaths : Nat]

UpdateTyped == LauncherTyped /\ CtlTyped /\ WorkerTyped /\ DiskTyped /\ BundleTyped /\ PowerTyped

LEMMA UpdateTypesAreFlat == UpdateTypeOK <=> UpdateTyped
BY DEF UpdateTypeOK, UpdateTyped, LauncherTyped, CtlTyped, WorkerTyped, DiskTyped, BundleTyped, PowerTyped

LEMMA PowerKept == ASSUME PowerTyped, Well \/ Fails PROVE PowerTyped'
BY DEF PowerTyped, Well, Fails

LEMMA LauncherBecomes ==
  ASSUME LauncherTyped,
         NEW s \in {"off", "broken", "starting", "staged", "moved", "upgrade", "upgrading", "ready", "quitting"}, Becomes(s)
  PROVE  LauncherTyped'
BY DEF LauncherTyped, Becomes

LEMMA LauncherLaunched ==
  ASSUME LauncherTyped, DiskTyped, launcher.pid < MaxLaunches, launcher' = Launched PROVE LauncherTyped'
<1>1. launcher.pid + 1 \in 0 .. MaxLaunches
  BY LaunchesAssumption DEF LauncherTyped
<1> QED BY <1>1 DEF LauncherTyped, Launched, DiskTyped

UpgradeBecomes ==
  /\ launcher.at \in {"upgrade", "upgrading"} /\ (Becomes("upgrading") \/ Becomes("ready"))
  /\ UNCHANGED <<ctl, worker, disk, bundle, power>>

LauncherAction ==
  \/ LauncherStep \/ WorkerStep \/ Launch \/ BeginInstall \/ QuitRefused \/ UserQuits \/ WorkerDies \/ LauncherDies
  \/ UpgradeBecomes

LEMMA UpdateTypes == ASSUME UpdateTyped, LauncherAction PROVE UpdateTyped'
<1> USE DEF UpdateTyped
<1>v. 0 \in Versions /\ 2 \in Versions
  BY DEF Versions
<1>1. CASE FindBundle
  <2>1. LauncherTyped'
    BY <1>1, LauncherBecomes DEF FindBundle, LauncherTyped
  <2>2. PowerTyped'
    BY <1>1, PowerKept DEF FindBundle
  <2>3. BundleTyped'
    BY <1>1 DEF FindBundle, BundleTyped
  <2> QED BY <1>1, <2>1, <2>2, <2>3 DEF FindBundle, CtlTyped, WorkerTyped, DiskTyped
<1>2. CASE MoveAside
  <2>1. LauncherTyped'
    BY <1>2, LauncherBecomes DEF MoveAside, LauncherTyped
  <2>2. PowerTyped'
    BY <1>2, PowerKept DEF MoveAside
  <2>3. BundleTyped'
    <3>1. bundle' = bundle \/ bundle' = [dest |-> "none", prev |-> bundle.dest # "none"]
      BY <1>2 DEF MoveAside
    <3> DEFINE p == bundle.dest # "none"
    <3>2. p \in BOOLEAN
      OBVIOUS
    <3>3. bundle' = bundle \/ bundle' = [dest |-> "none", prev |-> p]
      BY <3>1
    <3> HIDE DEF p
    <3> QED BY <3>2, <3>3 DEF BundleTyped
  <2> QED BY <1>2, <2>1, <2>2, <2>3 DEF MoveAside, CtlTyped, WorkerTyped, DiskTyped
<1>3. CASE MoveIn
  <2>1. LauncherTyped'
    BY <1>3, LauncherBecomes DEF MoveIn, LauncherTyped
  <2>2. PowerTyped'
    BY <1>3, PowerKept DEF MoveIn
  <2>3. BundleTyped'
    <3>1. bundle.prev \in BOOLEAN
      BY DEF BundleTyped
    <3>2. \E d \in {"none", "stale", "whole"}, q \in {FALSE, bundle.prev} : bundle' = [dest |-> d, prev |-> q]
      BY <1>3 DEF MoveIn
    <3>3. PICK d \in {"none", "stale", "whole"}, q \in {FALSE, bundle.prev} : bundle' = [dest |-> d, prev |-> q]
      BY <3>2
    <3>4. q \in BOOLEAN
      BY <3>1
    <3> QED BY <3>3, <3>4, Zenon DEF BundleTyped
  <2> QED BY <1>3, <2>1, <2>2, <2>3 DEF MoveIn, CtlTyped, WorkerTyped, DiskTyped
<1>4. CASE CheckOnce
  <2>1. PowerTyped'
    BY <1>4, PowerKept DEF CheckOnce
  <2> QED BY <1>4, <2>1 DEF CheckOnce, LauncherTyped, CtlTyped, WorkerTyped, DiskTyped, BundleTyped
<1>5. CASE Download
  <2>1. PowerTyped'
    BY <1>5, PowerKept DEF Download
  <2>2. WorkerTyped'
    <3>1. launcher.pid \in 0 .. MaxLaunches
      BY DEF LauncherTyped
    <3>2. worker' = worker \/ worker' = [at |-> "waiting", parent |-> launcher.pid, temp |-> TRUE]
      BY <1>5 DEF Download
    <3>3. [at |-> "waiting", parent |-> launcher.pid, temp |-> TRUE] \in
            [at : {"none", "waiting", "copy", "away", "in", "back", "launch", "relaunch", "done", "gone"},
             parent : 0 .. MaxLaunches, temp : BOOLEAN]
      BY <3>1
    <3>4. worker' \in {worker, [at |-> "waiting", parent |-> launcher.pid, temp |-> TRUE]}
      BY <3>2
    <3> QED BY <3>3, <3>4 DEF WorkerTyped
  <2>3. LauncherTyped'
    BY <1>5 DEF Download, LauncherTyped
  <2> QED BY <1>5, <2>1, <2>2, <2>3 DEF Download, CtlTyped, DiskTyped, BundleTyped
<1>6. CASE Quits
  <2>1. LauncherTyped'
    BY <1>6, LauncherBecomes DEF Quits, LauncherTyped
  <2> QED BY <1>6, <2>1 DEF Quits, CtlTyped, WorkerTyped, DiskTyped, BundleTyped, PowerTyped
<1>7. CASE WorkerWaits
  <2>1. PowerTyped'
    BY <1>7, PowerKept DEF WorkerWaits
  <2>2. WorkerTyped'
    BY <1>7 DEF WorkerWaits, WorkerTyped
  <2> QED BY <1>7, <2>1, <2>2 DEF WorkerWaits, LauncherTyped, CtlTyped, DiskTyped, BundleTyped
<1>8. CASE WorkerCopies
  <2>1. PowerTyped'
    BY <1>8, PowerKept DEF WorkerCopies
  <2>2. WorkerTyped'
    BY <1>8 DEF WorkerCopies, WorkerTyped
  <2>3. DiskTyped'
    BY <1>8, <1>v DEF WorkerCopies, DiskTyped
  <2> QED BY <1>8, <2>1, <2>2, <2>3 DEF WorkerCopies, LauncherTyped, CtlTyped, BundleTyped
<1>9. CASE WorkerMovesAway
  <2>1. PowerTyped'
    BY <1>9, PowerKept DEF WorkerMovesAway
  <2>2. WorkerTyped'
    BY <1>9 DEF WorkerMovesAway, WorkerTyped
  <2>3. DiskTyped'
    BY <1>9, <1>v DEF WorkerMovesAway, DiskTyped
  <2> QED BY <1>9, <2>1, <2>2, <2>3 DEF WorkerMovesAway, LauncherTyped, CtlTyped, BundleTyped
<1>10. CASE WorkerMovesIn
  <2>1. PowerTyped'
    BY <1>10, PowerKept DEF WorkerMovesIn
  <2>2. WorkerTyped'
    BY <1>10 DEF WorkerMovesIn, WorkerTyped
  <2>3. DiskTyped'
    BY <1>10, <1>v DEF WorkerMovesIn, DiskTyped
  <2> QED BY <1>10, <2>1, <2>2, <2>3 DEF WorkerMovesIn, LauncherTyped, CtlTyped, BundleTyped
<1>11. CASE WorkerMovesBack
  <2>1. PowerTyped'
    BY <1>11, PowerKept DEF WorkerMovesBack
  <2>2. WorkerTyped'
    BY <1>11 DEF WorkerMovesBack, WorkerTyped
  <2>3. DiskTyped'
    BY <1>11, <1>v DEF WorkerMovesBack, DiskTyped
  <2> QED BY <1>11, <2>1, <2>2, <2>3 DEF WorkerMovesBack, LauncherTyped, CtlTyped, BundleTyped
<1>12. CASE WorkerLaunches
  <2>1. LauncherTyped'
    BY <1>12, LauncherLaunched DEF WorkerLaunches, LauncherTyped
  <2>2. WorkerTyped'
    BY <1>12 DEF WorkerLaunches, WorkerTyped
  <2> QED BY <1>12, <2>1, <2>2 DEF WorkerLaunches, CtlTyped, DiskTyped, BundleTyped, PowerTyped
<1>13. CASE Launch
  <2>1. LauncherTyped'
    BY <1>13, LauncherLaunched DEF Launch, LauncherTyped
  <2> QED BY <1>13, <2>1 DEF Launch, CtlTyped, WorkerTyped, DiskTyped, BundleTyped, PowerTyped
<1>14. CASE BeginInstall
  <2> QED BY <1>14 DEF BeginInstall, LauncherTyped, CtlTyped, WorkerTyped, DiskTyped, BundleTyped, PowerTyped
<1>15. CASE QuitRefused
  <2>1. LauncherTyped'
    BY <1>15, LauncherBecomes DEF QuitRefused, LauncherTyped
  <2>2. PowerTyped'
    BY <1>15, PowerKept DEF QuitRefused
  <2>3. WorkerTyped'
    BY <1>15 DEF QuitRefused, WorkerTyped
  <2> QED BY <1>15, <2>1, <2>2, <2>3 DEF QuitRefused, CtlTyped, DiskTyped, BundleTyped
<1>16. CASE UserQuits
  <2>1. LauncherTyped'
    BY <1>16, LauncherBecomes DEF UserQuits, LauncherTyped
  <2> QED BY <1>16, <2>1 DEF UserQuits, CtlTyped, WorkerTyped, DiskTyped, BundleTyped, PowerTyped
<1>17. CASE WorkerDies
  <2>1. WorkerTyped'
    BY <1>17 DEF WorkerDies, WorkerTyped
  <2>2. PowerTyped'
    BY <1>17 DEF WorkerDies, PowerTyped
  <2> QED BY <1>17, <2>1, <2>2 DEF WorkerDies, LauncherTyped, CtlTyped, DiskTyped, BundleTyped
<1>18. CASE LauncherDies
  <2>1. LauncherTyped'
    BY <1>18, LauncherBecomes DEF LauncherDies, LauncherTyped
  <2>2. PowerTyped'
    BY <1>18 DEF LauncherDies, PowerTyped
  <2> QED BY <1>18, <2>1, <2>2 DEF LauncherDies, CtlTyped, WorkerTyped, DiskTyped, BundleTyped
<1>19. CASE UpgradeBecomes
  <2>1. LauncherTyped'
    BY <1>19, LauncherBecomes DEF UpgradeBecomes, LauncherTyped
  <2> QED BY <1>19, <2>1 DEF UpgradeBecomes, CtlTyped, WorkerTyped, DiskTyped, BundleTyped, PowerTyped
<1> QED BY <1>1, <1>2, <1>3, <1>4, <1>5, <1>6, <1>7, <1>8, <1>9, <1>10, <1>11, <1>12, <1>13, <1>14, <1>15, <1>16, <1>17, <1>18, <1>19
        DEF LauncherAction, LauncherStep, WorkerStep

LEMMA SetupStepTypes == ASSUME SetupTyped, SetupStep PROVE SetupTyped'
<1>1. CASE SetupOnly
  BY <1>1, SetupTypes
<1>2. CASE ServiceStep /\ UNCHANGED route
  <2>1. UNCHANGED <<saved, tunnel, route>>
    BY <1>2 DEF ServiceStep, Drain, Undrain, Release, Bootout, WaitUnload, GiveBack, Start, Remove, InstallService, machine
  <2> QED BY <1>2, <2>1, ServiceTypes DEF SetupTyped, TunnelTyped
<1>3. CASE TunnelStep /\ UNCHANGED route
  <2>1. UNCHANGED <<saved, service, daemon, history, route>>
    BY <1>3 DEF TunnelStep, Connect, Disconnect, StartTunnel
  <2> QED BY <1>3, <2>1, TunnelTypes DEF SetupTyped, ServiceTyped, DaemonTyped, HistoryTyped
<1> QED BY <1>1, <1>2, <1>3 DEF SetupStep, SetupOnly

TypeInv == SetupTyped /\ UpdateTyped /\ scenario \in Scenario

\* The launcher's steps beside the setup's.
LEMMA LaunchersAre ==
  ASSUME Launchers
  PROVE  LauncherAction /\ UNCHANGED <<machine, route, budget, history, scenario>> /\ (job' = job \/ (LauncherDies /\ Died))
BY DEF Launchers, LauncherAction

LEMMA TypeStep == ASSUME TypeInv, UpdateInv, [Next]_vars PROVE TypeInv'
<1> USE DEF TypeInv
<1>j. ASSUME NEW o \in Option, job' = NewJob(o), UNCHANGED <<machine, route, history>> PROVE SetupTyped'
  BY <1>j, NewJobTyped DEF SetupTyped, machine, JobTyped, ServiceTyped, DaemonTyped, TunnelTyped, HistoryTyped
<1>u. ASSUME UNCHANGED installation PROVE UpdateTyped'
  BY <1>u DEF installation, UpdateTyped, LauncherTyped, CtlTyped, WorkerTyped, DiskTyped, BundleTyped, PowerTyped
<1>m. ASSUME UNCHANGED <<machine, route, history>>, JobTyped' PROVE SetupTyped'
  BY <1>m DEF SetupTyped, machine, ServiceTyped, DaemonTyped, TunnelTyped, HistoryTyped
<1>1. CASE SetupStep /\ UNCHANGED <<installation, scenario>>
  BY <1>1, <1>u, SetupStepTypes
<1>2. CASE Restores
  BY <1>2, <1>u, RestoreTypes DEF Restores
<1>3. CASE StartSetup
  <2>1. scenario.setups \in Seq(Option) /\ Len(scenario.setups) > 0
    BY <1>3 DEF StartSetup, Asked, Scenario
  <2>2. Head(scenario.setups) \in Option /\ Tail(scenario.setups) \in Seq(Option)
    BY <2>1
  <2>3. scenario' \in Scenario
    BY <1>3, <2>2 DEF StartSetup, Scenario
  <2> QED BY <1>3, <2>2, <2>3, <1>j, <1>u DEF StartSetup
<1>4. CASE SetupDies
  <2>1. JobTyped'
    BY <1>4 DEF SetupDies, SetupTyped, JobTyped, Job, Steps
  <2>2. daemon.born \in 0 .. MaxBoots
    BY DEF SetupTyped, DaemonTyped
  <2>3. HistoryTyped'
    BY <1>4, <2>2 DEF SetupDies, SetupTyped, HistoryTyped
  <2> QED BY <1>4, <2>1, <2>3, <1>u DEF SetupDies, SetupTyped, machine, ServiceTyped, DaemonTyped, TunnelTyped
<1>5. CASE Machine /\ UNCHANGED <<installation, scenario>>
  BY <1>5, <1>u, MachineTypes
<1>6. CASE Upgrade
  <2>1. saved.mcp \in BOOLEAN /\ launcher.version \in Releases \ {0}
    BY <1>6 DEF Upgrade, SetupTyped, Config, UpdateInv, Off, Is, UpdateTyped, LauncherTyped, Versions, Releases
  <2>2. UpgradeOption \in Option
    <3>1. NoOption \in Option
      BY DEF NoOption, Option, Releases, Tunnels
    <3> QED BY <2>1, <3>1 DEF UpgradeOption, Option
  <2>3. SetupTyped'
    <3>1. CASE job' = NewJob(UpgradeOption)
      BY <3>1, <1>6, <2>2, <1>j DEF Upgrade
    <3>2. CASE job' = job
      BY <3>2, <1>6, <1>m DEF Upgrade, SetupTyped, JobTyped
    <3> QED BY <1>6, <3>1, <3>2 DEF Upgrade
  <2>4. UpgradeBecomes
    BY <1>6 DEF Upgrade, UpgradeBecomes, Is
  <2> QED BY <1>6, <2>3, <2>4, UpdateTypes DEF Upgrade, LauncherAction
<1>7. CASE UpgradeEnds
  <2>1. UpgradeBecomes
    BY <1>7 DEF UpgradeEnds, UpgradeBecomes, Is
  <2> QED BY <1>7, <2>1, <1>m, UpdateTypes DEF UpgradeEnds, LauncherAction, SetupTyped, JobTyped
<1>8. CASE Launchers
  <2>1. JobTyped'
    <3>1. "dead" \in Steps
      BY DEF Steps
    <3> QED BY <1>8, <3>1, LaunchersAre DEF Died, SetupTyped, JobTyped, Job
  <2> QED BY <1>8, <2>1, <1>m, LaunchersAre, UpdateTypes
<1>9. CASE UNCHANGED vars
  BY <1>9, <1>u, <1>m DEF vars, SetupTyped, JobTyped
<1> QED BY <1>1, <1>2, <1>3, <1>4, <1>5, <1>6, <1>7, <1>8, <1>9 DEF Next, Step

LEMMA TypesBegin == ASSUME Init PROVE TypeInv
<1>s. scenario \in Scenario
  BY ScenariosAssumption DEF Init
<1>c. /\ scenario.config \in Config /\ scenario.loaded \in BOOLEAN /\ scenario.kept \in BOOLEAN
      /\ scenario.version \in Versions /\ scenario.dest \in {"none", "stale", "whole"}
      /\ scenario.platform \in {"mac", "other"} /\ scenario.power \in Nat /\ scenario.deaths \in Nat
  BY <1>s DEF Scenario
<1>f. /\ scenario.config.release \in Releases /\ scenario.config.mcp \in BOOLEAN
      /\ scenario.config.token \in 0 .. MaxTokens /\ 0 \in Releases
      /\ NoConfig \in Config /\ NoProfile \in Profile /\ 1 \in 0 .. MaxBoots /\ 0 \in 0 .. MaxBoots
  BY <1>c, ServicesAssumption DEF Config, NoConfig, NoProfile, Profile, Releases, Tunnels
<1>1. saved \in Config /\ route \in Releases
  BY <1>c, <1>f DEF Init, InitSetup
<1>2. ServiceTyped
  BY <1>c, <1>f DEF Init, InitSetup, ServiceTyped
<1>3. DaemonTyped
  <2>1. daemon = NoDaemon \/ daemon = Boots(1, scenario.config.release, scenario.config)
    BY DEF Init, InitSetup
  <2>2. CASE daemon = NoDaemon
    BY <2>2, <1>f DEF DaemonTyped, NoDaemon
  <2>3. CASE daemon = Boots(1, scenario.config.release, scenario.config)
    BY <2>3, <1>c, <1>f DEF DaemonTyped, Boots
  <2> QED BY <2>1, <2>2, <2>3
<1>4. TunnelTyped
  <2>1. ProfileOf(scenario.config) \in Profile
    BY <1>c, ProfileTyped
  <2> QED BY <2>1, <1>c, <1>f DEF Init, InitSetup, TunnelTyped
<1>5. HistoryTyped
  BY <1>f DEF Init, InitSetup, HistoryTyped
<1>6. JobTyped
  <2>1. NoOption \in Option
    BY DEF NoOption, Option, Releases, Tunnels
  <2>2. Snapshot \in Checkpoint
    BY <1>1, <1>2, <1>4 DEF Snapshot, Checkpoint, ServiceTyped, TunnelTyped
  <2>3. "none" \in Steps /\ "begin" \in Steps /\ "none" \in Reasons
    BY DEF Steps, Reasons
  <2>4. NewJob(NoOption) \in Job
    BY <2>1, <2>2, <2>3, <1>f DEF NewJob, Job
  <2>5. [NewJob(NoOption) EXCEPT !.at = "none"] \in Job
    BY <2>3, <2>4 DEF Job
  <2> QED BY <2>5 DEF Init, InitSetup, JobTyped
<1>7. UpdateTyped
  BY <1>c, LaunchesAssumption DEF Init, InitUpdate, UpdateTyped, LauncherTyped, CtlTyped, WorkerTyped, DiskTyped, BundleTyped,
     PowerTyped, Versions
<1> QED BY <1>s, <1>1, <1>2, <1>3, <1>4, <1>5, <1>6, <1>7 DEF TypeInv, SetupTyped

-----------------------------------------------------------------------------
(* The launcher's update.                                                  *)

LEMMA UpdateStep == ASSUME UpdateTyped, UpdateInv, LauncherAction PROVE UpdateInv'
<1>t. /\ launcher.pid \in Nat /\ worker.parent \in Nat
      /\ LauncherTyped /\ WorkerTyped /\ DiskTyped /\ BundleTyped
  BY LaunchesAssumption DEF UpdateTyped, LauncherTyped, WorkerTyped
<1> USE <1>t DEF UpdateInv, CancelledIsOver, RuntimeIsWhole, ParentAlive, Becomes, Well, Fails, Is, Off, Works, Running, Launched
<1>1. CASE FindBundle
  BY <1>1 DEF FindBundle, LauncherTyped, WorkerTyped, DiskTyped, BundleTyped
<1>2. CASE MoveAside
  BY <1>2 DEF MoveAside, LauncherTyped, WorkerTyped, DiskTyped, BundleTyped
<1>3. CASE MoveIn
  BY <1>3 DEF MoveIn, LauncherTyped, WorkerTyped, DiskTyped, BundleTyped
<1>4. CASE CheckOnce
  BY <1>4 DEF CheckOnce, LauncherTyped, WorkerTyped, DiskTyped, BundleTyped
<1>5. CASE Download
  BY <1>5 DEF Download, LauncherTyped, WorkerTyped, DiskTyped, BundleTyped
<1>6. CASE Quits
  BY <1>6 DEF Quits, LauncherTyped, WorkerTyped, DiskTyped, BundleTyped
<1>7. CASE WorkerWaits
  BY <1>7 DEF WorkerWaits, LauncherTyped, WorkerTyped, DiskTyped, BundleTyped
<1>8. CASE WorkerCopies
  BY <1>8 DEF WorkerCopies, LauncherTyped, WorkerTyped, DiskTyped, BundleTyped
<1>9. CASE WorkerMovesAway
  BY <1>9 DEF WorkerMovesAway, LauncherTyped, WorkerTyped, DiskTyped, BundleTyped
<1>10. CASE WorkerMovesIn
  BY <1>10 DEF WorkerMovesIn, LauncherTyped, WorkerTyped, DiskTyped, BundleTyped
<1>11. CASE WorkerMovesBack
  BY <1>11 DEF WorkerMovesBack, LauncherTyped, WorkerTyped, DiskTyped, BundleTyped
<1>12. CASE WorkerLaunches
  BY <1>12 DEF WorkerLaunches, LauncherTyped, WorkerTyped, DiskTyped, BundleTyped
<1>13. CASE Launch
  BY <1>13 DEF Launch, LauncherTyped, WorkerTyped, DiskTyped, BundleTyped
<1>14. CASE BeginInstall
  BY <1>14 DEF BeginInstall, LauncherTyped, WorkerTyped, DiskTyped, BundleTyped
<1>15. CASE QuitRefused
  BY <1>15 DEF QuitRefused, LauncherTyped, WorkerTyped, DiskTyped, BundleTyped
<1>16. CASE UserQuits
  BY <1>16 DEF UserQuits, LauncherTyped, WorkerTyped, DiskTyped, BundleTyped
<1>17. CASE WorkerDies
  BY <1>17 DEF WorkerDies, LauncherTyped, WorkerTyped, DiskTyped, BundleTyped
<1>18. CASE LauncherDies
  BY <1>18 DEF LauncherDies, LauncherTyped, WorkerTyped, DiskTyped, BundleTyped
<1>19. CASE UpgradeBecomes
  BY <1>19 DEF UpgradeBecomes, LauncherTyped, WorkerTyped, DiskTyped, BundleTyped
<1> QED BY <1>1, <1>2, <1>3, <1>4, <1>5, <1>6, <1>7, <1>8, <1>9, <1>10, <1>11, <1>12, <1>13, <1>14, <1>15, <1>16, <1>17, <1>18, <1>19
        DEF LauncherAction, LauncherStep, WorkerStep

-----------------------------------------------------------------------------
(* A setup's own steps.                                                     *)

\* What a step leaves of the job, but for where it stands and why it failed.
Kept ==
  /\ job'.then = job.then /\ job'.op = job.op /\ job'.using = job.using /\ job'.lease = job.lease
  /\ job'.opt = job.opt /\ job'.old = job.old /\ job'.new = job.new /\ job'.before = job.before
  /\ job'.changed = job.changed /\ job'.checkpoint = job.checkpoint

LEMMA GoesIs == ASSUME JobTyped, NEW s, Goes(s) PROVE job'.at = s /\ job'.why = job.why /\ Kept
BY DEF JobTyped, Job, Goes, Kept

LEMMA EndsIs == ASSUME JobTyped, NEW w, Ends(w) PROVE job'.at = "failed" /\ Kept
BY DEF JobTyped, Job, Ends, Kept

LEMMA CompensatesIs == ASSUME JobTyped, NEW w, Compensates(w) PROVE job'.at = "undrain" /\ Kept
BY DEF JobTyped, Job, Compensates, Kept

LEMMA AcquireIs ==
  ASSUME JobTyped, NEW o, NEW c, NEW s, Acquire(o, c, s)
  PROVE  /\ job'.at = "drain" /\ job'.op = o /\ job'.using = c /\ job'.then = s /\ job'.lease = job.lease
         /\ job'.opt = job.opt /\ job'.old = job.old /\ job'.new = job.new /\ job'.before = job.before
         /\ job'.changed = job.changed /\ job'.checkpoint = job.checkpoint /\ job'.why = job.why
BY DEF JobTyped, Job, Acquire

\* A setup that fails, or dies, where it holds no drain.
LEMMA Stops ==
  ASSUME SetupInv, Kept, job.at \notin Over, job'.at = "failed",
         job.at \notin {"undrain", "release", "bootout", "giveback"},
         UNCHANGED <<saved, service, daemon, history, launcher>>, tunnel'.loaded => UNCHANGED tunnel
  PROVE  SetupInv'
<1> USE DEF SetupInv, At, Is, Loaded, Working, Over, Toward, Draining, Early, ForLauncher, Kept
<1>1. MachineInv'
  BY DEF MachineInv
<1>2. LeaseInv'
  BY DEF LeaseInv, Obeys
<1>3. PurposeInv'
  BY DEF PurposeInv
<1>4. OwnerInv'
  BY DEF OwnerInv
<1>5. SavedInv' /\ ChangeInv' /\ GoneInv'
  BY DEF SavedInv, ChangeInv, GoneInv
<1>6. ServiceInv' /\ WantedInv' /\ TunnelInv'
  BY DEF ServiceInv, WantedInv, TunnelInv
<1> QED BY <1>1, <1>2, <1>3, <1>4, <1>5, <1>6

LEMMA LoginKeeps == ASSUME SetupTyped, SetupInv, Login, UNCHANGED launcher PROVE SetupInv'
<1> USE DEF SetupInv, At, Is, Loaded, Working, Over, Toward, Draining, Early, ForLauncher
<1>t. JobTyped
  BY DEF SetupTyped
<1>o. job.new.owner \in {"terminal", "launcher"} /\ job.old.owner \in {"terminal", "launcher"}
  BY <1>t, JobFields DEF Config
<1>q. UNCHANGED <<saved, service, daemon, tunnel, history, route>>
  BY DEF Login, machine
<1>1. CASE Goes("change")
  <2>1. job'.at = "change" /\ job'.why = job.why /\ Kept
    BY <1>1, <1>t, GoesIs
  <2>2. MachineInv' /\ LeaseInv'
    BY <1>1, <1>q, <1>o, <2>1 DEF Login, Kept, MachineInv, LeaseInv, Obeys
  <2>3. PurposeInv'
    BY <1>1, <1>q, <1>o, <2>1 DEF Login, Kept, PurposeInv
  <2>4. OwnerInv'
    BY <1>1, <1>q, <1>o, <2>1 DEF Login, Kept, OwnerInv
  <2>5. SavedInv' /\ ChangeInv'
    BY <1>1, <1>q, <1>o, <2>1 DEF Login, Kept, SavedInv, ChangeInv, Exists
  <2>6. GoneInv'
    BY <1>1, <1>q, <1>o, <2>1 DEF Login, Kept, GoneInv
  <2>7. ServiceInv'
    BY <1>1, <1>q, <1>o, <2>1 DEF Login, Kept, ServiceInv, Controlled, AskedToRestart
  <2>8. WantedInv'
    BY <1>1, <1>q, <1>o, <2>1 DEF Login, Kept, WantedInv, Creds
  <2>9. TunnelInv'
    BY <1>1, <1>q, <1>o, <2>1 DEF Login, Kept, TunnelInv, Provided, Found, KeptProfile
  <2> QED BY <2>2, <2>3, <2>4, <2>5, <2>6, <2>7, <2>8, <2>9
<1>2. CASE Ends("fault")
  BY <1>2, <1>t, <1>q, EndsIs, Stops DEF Login, Refuses
<1> QED BY <1>1, <1>2 DEF Login

LEMMA PortKeeps == ASSUME SetupTyped, SetupInv, Port, UNCHANGED launcher PROVE SetupInv'
<1> USE DEF SetupInv, At, Is, Loaded, Working, Over, Toward, Draining, Early, ForLauncher
<1>t. JobTyped
  BY DEF SetupTyped
<1>o. job.new.owner \in {"terminal", "launcher"} /\ job.old.owner \in {"terminal", "launcher"}
  BY <1>t, JobFields DEF Config
<1>q. UNCHANGED <<saved, service, daemon, tunnel, history, route>>
  BY DEF Port, machine
<1>1. CASE Goes(IF ForLauncher THEN "provide" ELSE "save")
  <2>1. job'.at = (IF ForLauncher THEN "provide" ELSE "save") /\ job'.why = job.why /\ Kept
    BY <1>1, <1>t, GoesIs
  <2>2. MachineInv' /\ LeaseInv'
    BY <1>1, <1>q, <1>o, <2>1 DEF Port, Kept, MachineInv, LeaseInv, Obeys
  <2>3. PurposeInv'
    BY <1>1, <1>q, <1>o, <2>1 DEF Port, Kept, PurposeInv
  <2>4. OwnerInv'
    BY <1>1, <1>q, <1>o, <2>1 DEF Port, Kept, OwnerInv
  <2>5. SavedInv' /\ ChangeInv'
    BY <1>1, <1>q, <1>o, <2>1 DEF Port, Kept, SavedInv, ChangeInv, Exists
  <2>6. GoneInv'
    BY <1>1, <1>q, <1>o, <2>1 DEF Port, Kept, GoneInv
  <2>7. ServiceInv'
    BY <1>1, <1>q, <1>o, <2>1 DEF Port, Kept, ServiceInv, Controlled, AskedToRestart
  <2>8. WantedInv'
    BY <1>1, <1>q, <1>o, <2>1 DEF Port, Kept, WantedInv, Creds
  <2>9. TunnelInv'
    BY <1>1, <1>q, <1>o, <2>1 DEF Port, Kept, TunnelInv, Provided, Found, KeptProfile
  <2> QED BY <2>2, <2>3, <2>4, <2>5, <2>6, <2>7, <2>8, <2>9
<1>2. CASE Ends("fault")
  BY <1>2, <1>t, <1>q, EndsIs, Stops DEF Port, Refuses
<1> QED BY <1>1, <1>2 DEF Port, ForLauncher

LEMMA WaitForTunnelKeeps == ASSUME SetupTyped, SetupInv, WaitForTunnel, UNCHANGED launcher PROVE SetupInv'
<1> USE DEF SetupInv, At, Is, Loaded, Working, Over, Toward, Draining, Early, ForLauncher
<1>t. JobTyped
  BY DEF SetupTyped
<1>o. job.new.owner \in {"terminal", "launcher"} /\ job.old.owner \in {"terminal", "launcher"}
  BY <1>t, JobFields DEF Config
<1>q. UNCHANGED <<saved, service, daemon, tunnel, history, route>>
  BY DEF WaitForTunnel, machine
<1>1. CASE tunnel.loaded /\ Goes(Commits)
  <2>1. job'.at = Commits /\ job'.why = job.why /\ Kept
    BY <1>1, <1>t, GoesIs
  <2>2. MachineInv' /\ LeaseInv'
    BY <1>1, <1>q, <1>o, <2>1 DEF WaitForTunnel, Kept, MachineInv, LeaseInv, Obeys, Commits
  <2>3. PurposeInv'
    BY <1>1, <1>q, <1>o, <2>1 DEF WaitForTunnel, Kept, PurposeInv, Commits
  <2>4. OwnerInv'
    BY <1>1, <1>q, <1>o, <2>1 DEF WaitForTunnel, Kept, OwnerInv, Commits
  <2>5. SavedInv' /\ ChangeInv'
    BY <1>1, <1>q, <1>o, <2>1 DEF WaitForTunnel, Kept, SavedInv, ChangeInv, Exists, Commits
  <2>6. GoneInv'
    BY <1>1, <1>q, <1>o, <2>1 DEF WaitForTunnel, Kept, GoneInv, Commits
  <2>7. ServiceInv'
    BY <1>1, <1>q, <1>o, <2>1 DEF WaitForTunnel, Kept, ServiceInv, Controlled, AskedToRestart, Commits
  <2>8. WantedInv'
    BY <1>1, <1>q, <1>o, <2>1 DEF WaitForTunnel, Kept, WantedInv, Creds, Commits
  <2>9. TunnelInv'
    BY <1>1, <1>q, <1>o, <2>1 DEF WaitForTunnel, Kept, TunnelInv, Provided, Found, KeptProfile, Commits, OwnerInv, WantedInv
  <2> QED BY <2>2, <2>3, <2>4, <2>5, <2>6, <2>7, <2>8, <2>9
<1>2. CASE Ends("fault")
  BY <1>2, <1>t, <1>q, EndsIs, Stops DEF WaitForTunnel, Refuses
<1> QED BY <1>1, <1>2 DEF WaitForTunnel

LEMMA WaitForProxyKeeps == ASSUME SetupTyped, SetupInv, WaitForProxy, UNCHANGED launcher PROVE SetupInv'
<1> USE DEF SetupInv, At, Is, Loaded, Working, Over, Toward, Draining, Early, ForLauncher
<1>t. JobTyped
  BY DEF SetupTyped
<1>o. job.new.owner \in {"terminal", "launcher"} /\ job.old.owner \in {"terminal", "launcher"}
  BY <1>t, JobFields DEF Config
<1>q. UNCHANGED <<saved, service, daemon, tunnel, history, route>>
  BY DEF WaitForProxy, machine
<1>1. CASE Ready /\ Goes("provide")
  <2>1. job'.at = "provide" /\ job'.why = job.why /\ Kept
    BY <1>1, <1>t, GoesIs
  <2>2. MachineInv' /\ LeaseInv'
    BY <1>1, <1>q, <1>o, <2>1 DEF WaitForProxy, Kept, MachineInv, LeaseInv, Obeys
  <2>3. PurposeInv'
    BY <1>1, <1>q, <1>o, <2>1 DEF WaitForProxy, Kept, PurposeInv
  <2>4. OwnerInv'
    BY <1>1, <1>q, <1>o, <2>1 DEF WaitForProxy, Kept, OwnerInv
  <2>5. SavedInv' /\ ChangeInv'
    BY <1>1, <1>q, <1>o, <2>1 DEF WaitForProxy, Kept, SavedInv, ChangeInv, Exists
  <2>6. GoneInv'
    BY <1>1, <1>q, <1>o, <2>1 DEF WaitForProxy, Kept, GoneInv
  <2>7. ServiceInv'
    BY <1>1, <1>q, <1>o, <2>1 DEF WaitForProxy, Kept, ServiceInv, Controlled, AskedToRestart, Ready, MachineInv, OwnerInv
  <2>8. WantedInv'
    BY <1>1, <1>q, <1>o, <2>1 DEF WaitForProxy, Kept, WantedInv, Creds
  <2>9. TunnelInv'
    BY <1>1, <1>q, <1>o, <2>1 DEF WaitForProxy, Kept, TunnelInv, Provided, Found, KeptProfile, OwnerInv
  <2> QED BY <2>2, <2>3, <2>4, <2>5, <2>6, <2>7, <2>8, <2>9
<1>2. CASE Ends("proxy")
  BY <1>2, <1>t, <1>q, EndsIs, Stops DEF WaitForProxy, Refuses
<1> QED BY <1>1, <1>2 DEF WaitForProxy

LEMMA ProbeKeeps == ASSUME SetupTyped, SetupInv, Probe, UNCHANGED launcher PROVE SetupInv'
<1> USE DEF SetupInv, At, Is, Loaded, Working, Over, Toward, Draining, Early, ForLauncher
<1>t. JobTyped
  BY DEF SetupTyped
<1>o. job.new.owner \in {"terminal", "launcher"} /\ job.old.owner \in {"terminal", "launcher"}
  BY <1>t, JobFields DEF Config
<1>q. UNCHANGED <<saved, service, daemon, tunnel, history, route>>
  BY DEF Probe, machine
<1>1. CASE Goes("change")
  <2>1. job'.at = "change" /\ job'.why = job.why /\ Kept
    BY <1>1, <1>t, GoesIs
  <2>2. MachineInv' /\ LeaseInv'
    BY <1>1, <1>q, <1>o, <2>1 DEF Probe, Kept, MachineInv, LeaseInv, Obeys
  <2>3. PurposeInv'
    BY <1>1, <1>q, <1>o, <2>1 DEF Probe, Kept, PurposeInv
  <2>4. OwnerInv'
    BY <1>1, <1>q, <1>o, <2>1 DEF Probe, Kept, OwnerInv
  <2>5. SavedInv' /\ ChangeInv'
    BY <1>1, <1>q, <1>o, <2>1 DEF Probe, Kept, SavedInv, ChangeInv, Exists
  <2>6. GoneInv'
    BY <1>1, <1>q, <1>o, <2>1 DEF Probe, Kept, GoneInv
  <2>7. ServiceInv'
    BY <1>1, <1>q, <1>o, <2>1 DEF Probe, Kept, ServiceInv, Controlled, AskedToRestart
  <2>8. WantedInv'
    BY <1>1, <1>q, <1>o, <2>1 DEF Probe, Kept, WantedInv, Creds
  <2>9. TunnelInv'
    BY <1>1, <1>q, <1>o, <2>1 DEF Probe, Kept, TunnelInv, Provided, Found, KeptProfile
  <2> QED BY <2>2, <2>3, <2>4, <2>5, <2>6, <2>7, <2>8, <2>9
<1>2. CASE Goes("login")
  <2>1. job'.at = "login" /\ job'.why = job.why /\ Kept
    BY <1>2, <1>t, GoesIs
  <2>2. MachineInv' /\ LeaseInv'
    BY <1>2, <1>q, <1>o, <2>1 DEF Probe, Kept, MachineInv, LeaseInv, Obeys
  <2>3. PurposeInv'
    BY <1>2, <1>q, <1>o, <2>1 DEF Probe, Kept, PurposeInv
  <2>4. OwnerInv'
    BY <1>2, <1>q, <1>o, <2>1 DEF Probe, Kept, OwnerInv
  <2>5. SavedInv' /\ ChangeInv'
    BY <1>2, <1>q, <1>o, <2>1 DEF Probe, Kept, SavedInv, ChangeInv, Exists
  <2>6. GoneInv'
    BY <1>2, <1>q, <1>o, <2>1 DEF Probe, Kept, GoneInv
  <2>7. ServiceInv'
    BY <1>2, <1>q, <1>o, <2>1 DEF Probe, Kept, ServiceInv, Controlled, AskedToRestart
  <2>8. WantedInv'
    BY <1>2, <1>q, <1>o, <2>1 DEF Probe, Kept, WantedInv, Creds
  <2>9. TunnelInv'
    BY <1>2, <1>q, <1>o, <2>1 DEF Probe, Kept, TunnelInv, Provided, Found, KeptProfile
  <2> QED BY <2>2, <2>3, <2>4, <2>5, <2>6, <2>7, <2>8, <2>9
<1>3. CASE Acquire("idle", job.old, "login")
  <2>1. /\ job'.at = "drain" /\ job'.op = "idle" /\ job'.using = job.old /\ job'.then = "login" /\ job'.lease = job.lease
       /\ job'.opt = job.opt /\ job'.old = job.old /\ job'.new = job.new /\ job'.before = job.before
       /\ job'.changed = job.changed /\ job'.checkpoint = job.checkpoint /\ job'.why = job.why
    BY <1>3, <1>t, AcquireIs
  <2>2. MachineInv' /\ LeaseInv'
    BY <1>3, <1>q, <1>o, <2>1 DEF Probe, MachineInv, LeaseInv, Obeys
  <2>3. PurposeInv'
    BY <1>3, <1>q, <1>o, <2>1 DEF Probe, PurposeInv
  <2>4. OwnerInv'
    BY <1>3, <1>q, <1>o, <2>1 DEF Probe, OwnerInv
  <2>5. SavedInv' /\ ChangeInv'
    BY <1>3, <1>q, <1>o, <2>1 DEF Probe, SavedInv, ChangeInv, Exists
  <2>6. GoneInv'
    BY <1>3, <1>q, <1>o, <2>1 DEF Probe, GoneInv
  <2>7. ServiceInv'
    BY <1>3, <1>q, <1>o, <2>1 DEF Probe, ServiceInv, Controlled, AskedToRestart
  <2>8. WantedInv'
    BY <1>3, <1>q, <1>o, <2>1 DEF Probe, WantedInv, Creds
  <2>9. TunnelInv'
    BY <1>3, <1>q, <1>o, <2>1 DEF Probe, TunnelInv, Provided, Found, KeptProfile
  <2> QED BY <2>2, <2>3, <2>4, <2>5, <2>6, <2>7, <2>8, <2>9
<1>4. CASE Ends("fault")
  BY <1>4, <1>t, <1>q, EndsIs, Stops DEF Probe, Refuses
<1>5. CASE Refuses
  BY <1>5, <1>t, <1>q, EndsIs, Stops DEF Probe, Refuses
<1> QED BY <1>1, <1>2, <1>3, <1>4, <1>5 DEF Probe

LEMMA ChangeKeeps == ASSUME SetupTyped, SetupInv, Change, UNCHANGED launcher PROVE SetupInv'
<1> USE DEF SetupInv, At, Is, Loaded, Working, Over, Toward, Draining, Early, ForLauncher
<1>t. JobTyped
  BY DEF SetupTyped
<1>o. job.new.owner \in {"terminal", "launcher"} /\ job.old.owner \in {"terminal", "launcher"}
  BY <1>t, JobFields DEF Config
<1>q. UNCHANGED <<saved, service, daemon, tunnel, history, route>>
  BY DEF Change, machine
<1>1. CASE Goes("configure")
  <2>1. job'.at = "configure" /\ job'.why = job.why /\ Kept
    BY <1>1, <1>t, GoesIs
  <2>2. MachineInv' /\ LeaseInv'
    BY <1>1, <1>q, <1>o, <2>1 DEF Change, Kept, MachineInv, LeaseInv, Obeys
  <2>3. PurposeInv'
    BY <1>1, <1>q, <1>o, <2>1 DEF Change, Kept, PurposeInv
  <2>4. OwnerInv'
    BY <1>1, <1>q, <1>o, <2>1 DEF Change, Kept, OwnerInv
  <2>5. SavedInv' /\ ChangeInv'
    BY <1>1, <1>q, <1>o, <2>1 DEF Change, Kept, SavedInv, ChangeInv, Exists
  <2>6. GoneInv'
    BY <1>1, <1>q, <1>o, <2>1 DEF Change, Kept, GoneInv
  <2>7. ServiceInv'
    BY <1>1, <1>q, <1>o, <2>1 DEF Change, Kept, ServiceInv, Controlled, AskedToRestart
  <2>8. WantedInv'
    BY <1>1, <1>q, <1>o, <2>1 DEF Change, Kept, WantedInv, Creds
  <2>9. TunnelInv'
    BY <1>1, <1>q, <1>o, <2>1 DEF Change, Kept, TunnelInv, Provided, Found, KeptProfile
  <2> QED BY <2>2, <2>3, <2>4, <2>5, <2>6, <2>7, <2>8, <2>9
<1>2. CASE Acquire("idle", job.old, "configure")
  <2>1. /\ job'.at = "drain" /\ job'.op = "idle" /\ job'.using = job.old /\ job'.then = "configure" /\ job'.lease = job.lease
       /\ job'.opt = job.opt /\ job'.old = job.old /\ job'.new = job.new /\ job'.before = job.before
       /\ job'.changed = job.changed /\ job'.checkpoint = job.checkpoint /\ job'.why = job.why
    BY <1>2, <1>t, AcquireIs
  <2>2. MachineInv' /\ LeaseInv'
    BY <1>2, <1>q, <1>o, <2>1 DEF Change, MachineInv, LeaseInv, Obeys
  <2>3. PurposeInv'
    BY <1>2, <1>q, <1>o, <2>1 DEF Change, PurposeInv
  <2>4. OwnerInv'
    BY <1>2, <1>q, <1>o, <2>1 DEF Change, OwnerInv
  <2>5. SavedInv' /\ ChangeInv'
    BY <1>2, <1>q, <1>o, <2>1 DEF Change, SavedInv, ChangeInv, Exists
  <2>6. GoneInv'
    BY <1>2, <1>q, <1>o, <2>1 DEF Change, GoneInv
  <2>7. ServiceInv'
    BY <1>2, <1>q, <1>o, <2>1 DEF Change, ServiceInv, Controlled, AskedToRestart
  <2>8. WantedInv'
    BY <1>2, <1>q, <1>o, <2>1 DEF Change, WantedInv, Creds
  <2>9. TunnelInv'
    BY <1>2, <1>q, <1>o, <2>1 DEF Change, TunnelInv, Provided, Found, KeptProfile
  <2> QED BY <2>2, <2>3, <2>4, <2>5, <2>6, <2>7, <2>8, <2>9
<1>3. CASE Refuses
  BY <1>3, <1>t, <1>q, EndsIs, Stops DEF Change, Refuses
<1> QED BY <1>1, <1>2, <1>3 DEF Change

LEMMA RestartKeeps == ASSUME SetupTyped, SetupInv, Restart, UNCHANGED launcher PROVE SetupInv'
<1> USE DEF SetupInv, At, Is, Loaded, Working, Over, Toward, Draining, Early, ForLauncher
<1>t. JobTyped
  BY DEF SetupTyped
<1>o. job.new.owner \in {"terminal", "launcher"} /\ job.old.owner \in {"terminal", "launcher"}
  BY <1>t, JobFields DEF Config
<1>q. UNCHANGED <<saved, service, daemon, tunnel, history, route>>
  BY DEF Restart, machine
<1>1. CASE ~AskedToRestart /\ Goes("proxy")
  <2>1. job'.at = "proxy" /\ job'.why = job.why /\ Kept
    BY <1>1, <1>t, GoesIs
  <2>2. MachineInv' /\ LeaseInv'
    BY <1>1, <1>q, <1>o, <2>1 DEF Restart, Kept, MachineInv, LeaseInv, Obeys
  <2>3. PurposeInv'
    BY <1>1, <1>q, <1>o, <2>1 DEF Restart, Kept, PurposeInv
  <2>4. OwnerInv'
    BY <1>1, <1>q, <1>o, <2>1 DEF Restart, Kept, OwnerInv
  <2>5. SavedInv' /\ ChangeInv'
    BY <1>1, <1>q, <1>o, <2>1 DEF Restart, Kept, SavedInv, ChangeInv, Exists
  <2>6. GoneInv'
    BY <1>1, <1>q, <1>o, <2>1 DEF Restart, Kept, GoneInv
  <2>7. ServiceInv'
    BY <1>1, <1>q, <1>o, <2>1 DEF Restart, Kept, ServiceInv, Controlled, AskedToRestart, OwnerInv
  <2>8. WantedInv'
    BY <1>1, <1>q, <1>o, <2>1 DEF Restart, Kept, WantedInv, Creds
  <2>9. TunnelInv'
    BY <1>1, <1>q, <1>o, <2>1 DEF Restart, Kept, TunnelInv, Provided, Found, KeptProfile
  <2> QED BY <2>2, <2>3, <2>4, <2>5, <2>6, <2>7, <2>8, <2>9
<1>2. CASE AskedToRestart /\ Acquire("restart", job.old, "proxy")
  <2>1. /\ job'.at = "drain" /\ job'.op = "restart" /\ job'.using = job.old /\ job'.then = "proxy" /\ job'.lease = job.lease
       /\ job'.opt = job.opt /\ job'.old = job.old /\ job'.new = job.new /\ job'.before = job.before
       /\ job'.changed = job.changed /\ job'.checkpoint = job.checkpoint /\ job'.why = job.why
    BY <1>2, <1>t, AcquireIs
  <2>2. MachineInv' /\ LeaseInv'
    BY <1>2, <1>q, <1>o, <2>1 DEF Restart, MachineInv, LeaseInv, Obeys
  <2>3. PurposeInv'
    BY <1>2, <1>q, <1>o, <2>1 DEF Restart, PurposeInv
  <2>4. OwnerInv'
    BY <1>2, <1>q, <1>o, <2>1 DEF Restart, OwnerInv
  <2>5. SavedInv' /\ ChangeInv'
    BY <1>2, <1>q, <1>o, <2>1 DEF Restart, SavedInv, ChangeInv, Exists
  <2>6. GoneInv'
    BY <1>2, <1>q, <1>o, <2>1 DEF Restart, GoneInv
  <2>7. ServiceInv'
    BY <1>2, <1>q, <1>o, <2>1 DEF Restart, ServiceInv, Controlled, AskedToRestart, OwnerInv
  <2>8. WantedInv'
    BY <1>2, <1>q, <1>o, <2>1 DEF Restart, WantedInv, Creds
  <2>9. TunnelInv'
    BY <1>2, <1>q, <1>o, <2>1 DEF Restart, TunnelInv, Provided, Found, KeptProfile
  <2> QED BY <2>2, <2>3, <2>4, <2>5, <2>6, <2>7, <2>8, <2>9
<1> QED BY <1>1, <1>2 DEF Restart, AskedToRestart

LEMMA DisownKeeps == ASSUME SetupTyped, SetupInv, Disown, UNCHANGED launcher PROVE SetupInv'
<1> USE DEF SetupInv, At, Is, Loaded, Working, Over, Toward, Draining, Early, ForLauncher
<1>t. JobTyped
  BY DEF SetupTyped
<1>o. job.new.owner \in {"terminal", "launcher"} /\ job.old.owner \in {"terminal", "launcher"}
  BY <1>t, JobFields DEF Config
<1>q. UNCHANGED <<saved, service, daemon, tunnel, history, route>>
  BY DEF Disown, machine
<1>1. CASE Acquire("uninstall", job.old, "own")
  <2>1. /\ job'.at = "drain" /\ job'.op = "uninstall" /\ job'.using = job.old /\ job'.then = "own" /\ job'.lease = job.lease
       /\ job'.opt = job.opt /\ job'.old = job.old /\ job'.new = job.new /\ job'.before = job.before
       /\ job'.changed = job.changed /\ job'.checkpoint = job.checkpoint /\ job'.why = job.why
    BY <1>1, <1>t, AcquireIs
  <2>2. MachineInv' /\ LeaseInv'
    BY <1>1, <1>q, <1>o, <2>1 DEF Disown, MachineInv, LeaseInv, Obeys
  <2>3. PurposeInv'
    BY <1>1, <1>q, <1>o, <2>1 DEF Disown, PurposeInv
  <2>4. OwnerInv'
    BY <1>1, <1>q, <1>o, <2>1 DEF Disown, OwnerInv
  <2>5. SavedInv' /\ ChangeInv'
    BY <1>1, <1>q, <1>o, <2>1 DEF Disown, SavedInv, ChangeInv, Exists
  <2>6. GoneInv'
    BY <1>1, <1>q, <1>o, <2>1 DEF Disown, GoneInv
  <2>7. ServiceInv'
    BY <1>1, <1>q, <1>o, <2>1 DEF Disown, ServiceInv, Controlled, AskedToRestart
  <2>8. WantedInv'
    BY <1>1, <1>q, <1>o, <2>1 DEF Disown, WantedInv, Creds
  <2>9. TunnelInv'
    BY <1>1, <1>q, <1>o, <2>1 DEF Disown, TunnelInv, Provided, Found, KeptProfile
  <2> QED BY <2>2, <2>3, <2>4, <2>5, <2>6, <2>7, <2>8, <2>9
<1> QED BY <1>1 DEF Disown

LEMMA BeginKeeps == ASSUME SetupTyped, SetupInv, Begin, UNCHANGED launcher PROVE SetupInv'
<1> USE DEF SetupInv, At, Is, Loaded, Working, Over, Toward, Draining, Early, ForLauncher
<1> DEFINE before == IF Loaded THEN "loaded" ELSE IF service.plist # 0 THEN "installed" ELSE "absent"
           unverified == ~Exists(saved) /\ (Loaded \/ (Based.owner = "launcher" /\ before # "absent"))
           unasked == Based.owner = "launcher" /\ before # "absent" /\ ~job.opt.restart
<1>t. JobTyped /\ HistoryTyped /\ saved \in Config
  BY DEF SetupTyped
<1>q. UNCHANGED <<saved, service, daemon, tunnel, route>> /\ job.at = "begin"
  BY DEF Begin, machine
<1>h. /\ history'.booted = history.booted /\ history'.resumed = history.resumed /\ history'.abandoned = history.abandoned
      /\ history'.controlled = (Controlled /\ service.loaded # "leaving")
      /\ history'.profiled = Profiled
  BY <1>t DEF Begin, HistoryTyped
<1>b. /\ Based.release = job.opt.release /\ Based.owner = (IF job.opt.launcher THEN "launcher" ELSE saved.owner)
      /\ Based.token # saved.token => ~Exists(saved) \/ job.opt.restart
  BY <1>t DEF Based, Config
<1>j. /\ job'.lease = job.lease /\ job'.checkpoint = job.checkpoint /\ job'.opt = job.opt
      /\ job'.old = saved /\ job'.new = Based /\ job'.before = before
      /\ \/ job'.at = "failed"
         \/ job'.at = "probe" /\ job'.why = job.why /\ ~unverified /\ ~unasked
  BY <1>t DEF Begin, JobTyped, Job
<1> HIDE DEF unverified, unasked
<1>1. MachineInv'
  BY <1>q DEF MachineInv
<1>2. LeaseInv'
  BY <1>q, <1>h, <1>j DEF LeaseInv, Obeys
<1>3. PurposeInv'
  BY <1>j DEF PurposeInv
<1>4. OwnerInv'
  BY <1>q, <1>b, <1>j DEF OwnerInv
<1>5. SavedInv'
  BY <1>q, <1>j DEF SavedInv
<1>6. ChangeInv'
  BY <1>b, <1>j DEF ChangeInv, Exists, unverified
<1>7. GoneInv'
  BY <1>q, <1>j DEF GoneInv
<1>8. ServiceInv'
  <2>1. service.loaded \in {"no", "yes", "leaving"}
    BY DEF SetupTyped, ServiceTyped
  <2> QED BY <1>q, <1>h, <1>j, <2>1 DEF ServiceInv, Controlled
<1>9. WantedInv'
  BY <1>q, <1>j DEF WantedInv
<1>10. TunnelInv'
  BY <1>q, <1>h, <1>j DEF TunnelInv, Profiled, Found
<1> QED BY <1>1, <1>2, <1>3, <1>4, <1>5, <1>6, <1>7, <1>8, <1>9, <1>10

LEMMA ConfigureKeeps == ASSUME SetupTyped, SetupInv, Configure, UNCHANGED launcher PROVE SetupInv'
<1> USE DEF SetupInv, At, Is, Loaded, Working, Over, Toward, Draining, Early, ForLauncher
<1>t. JobTyped
  BY DEF SetupTyped
<1>o. job.new.owner \in {"terminal", "launcher"} /\ job.old.owner \in {"terminal", "launcher"}
  BY <1>t, JobFields DEF Config
<1>q. UNCHANGED <<saved, service, daemon, tunnel, history, route>>
  BY DEF Configure, machine
<1> DEFINE tid == IF ~job.new.mcp THEN 0 ELSE IF Creds THEN job.opt.tid ELSE IF job.old.mcp THEN job.old.tid ELSE 0
           new == [job.new EXCEPT !.tid = tid]
<1>n. /\ job.at = "configure"
      /\ new.owner = job.new.owner /\ new.token = job.new.token /\ new.mcp = job.new.mcp /\ new.release = job.new.release /\ new.tid = tid
  BY <1>t, JobFields DEF Configure, Config
<1> HIDE DEF new, tid
<1>1. CASE Ends("fault")
  BY <1>1, <1>t, <1>q, EndsIs, Stops DEF Configure, Refuses
<1>2. CASE Refuses
  BY <1>2, <1>t, <1>q, EndsIs, Stops DEF Configure, Refuses
<1>3. ASSUME job' = [job EXCEPT !.at = "port", !.new = new, !.changed = (Exists(job.old) /\ job.before = "loaded" /\ job.old # new)],
            job.new.mcp => tid # 0
     PROVE  SetupInv'
  <2>1. /\ job'.at = "port" /\ job'.new = new /\ (job'.changed <=> Exists(job.old) /\ job.before = "loaded" /\ job.old # new)
       /\ job'.then = job.then /\ job'.op = job.op /\ job'.using = job.using /\ job'.lease = job.lease /\ job'.opt = job.opt
       /\ job'.old = job.old /\ job'.before = job.before /\ job'.checkpoint = job.checkpoint /\ job'.why = job.why
    BY <1>3, <1>t DEF JobTyped, Job
  <2>2. MachineInv' /\ LeaseInv'
    BY <1>3, <1>q, <1>o, <1>n, <2>1 DEF MachineInv, LeaseInv, Obeys
  <2>3. PurposeInv'
    BY <1>3, <1>q, <1>o, <1>n, <2>1 DEF PurposeInv
  <2>4. OwnerInv'
    BY <1>3, <1>q, <1>o, <1>n, <2>1 DEF OwnerInv
  <2>5. SavedInv' /\ ChangeInv'
    BY <1>3, <1>q, <1>o, <1>n, <2>1 DEF SavedInv, ChangeInv, Exists
  <2>6. GoneInv'
    BY <1>3, <1>q, <1>o, <1>n, <2>1 DEF GoneInv
  <2>7. ServiceInv'
    BY <1>3, <1>q, <1>o, <1>n, <2>1 DEF ServiceInv, Controlled, AskedToRestart
  <2>8. WantedInv'
    BY <1>3, <1>q, <1>o, <1>n, <2>1 DEF tid, WantedInv, Creds
  <2>9. TunnelInv'
    BY <1>3, <1>q, <1>o, <1>n, <2>1 DEF TunnelInv, Provided, Found, KeptProfile
  <2> QED BY <2>2, <2>3, <2>4, <2>5, <2>6, <2>7, <2>8, <2>9
<1> QED BY <1>1, <1>2, <1>3 DEF Configure, Exists, tid, new

LEMMA SaveKeeps == ASSUME SetupTyped, SetupInv, Save, UNCHANGED launcher PROVE SetupInv'
<1> USE DEF SetupInv, At, Is, Loaded, Working, Over, Toward, Draining, Early, ForLauncher
<1>t. JobTyped
  BY DEF SetupTyped
<1>o. job.new.owner \in {"terminal", "launcher"} /\ job.old.owner \in {"terminal", "launcher"}
  BY <1>t, JobFields DEF Config
<1>q. UNCHANGED <<service, daemon, tunnel, route, history>>
  BY DEF Save, machine
<1>1. CASE saved' = job.new /\ Goes("install")
  <2>1. job'.at = "install" /\ job'.why = job.why /\ Kept
    BY <1>1, <1>t, GoesIs
  <2>2. MachineInv' /\ LeaseInv'
    BY <1>1, <1>q, <1>o, <2>1 DEF Save, Kept, MachineInv, LeaseInv, Obeys, OwnerInv
  <2>3. PurposeInv'
    BY <1>1, <1>q, <1>o, <2>1 DEF Save, Kept, PurposeInv
  <2>4. OwnerInv'
    BY <1>1, <1>q, <1>o, <2>1 DEF Save, Kept, OwnerInv
  <2>5. SavedInv' /\ ChangeInv'
    BY <1>1, <1>q, <1>o, <2>1 DEF Save, Kept, SavedInv, ChangeInv, Exists
  <2>6. GoneInv'
    BY <1>1, <1>q, <1>o, <2>1 DEF Save, Kept, GoneInv
  <2>7. ServiceInv'
    <3>1. history.controlled /\ Loaded => job.before = "loaded" /\ Exists(job.old)
      BY <1>1 DEF Save, ServiceInv, ChangeInv
    <3>2. Exists(job.old) /\ job.before = "loaded" /\ job.new.token # job.old.token => AskedToRestart
      BY <1>1 DEF Save, ChangeInv, AskedToRestart
    <3>3. job.old = saved /\ ~ForLauncher
      BY <1>1 DEF Save, SavedInv, OwnerInv
    <3>4. history.controlled => Controlled' \/ AskedToRestart'
      BY <1>1, <1>q, <2>1, <3>1, <3>2, <3>3 DEF Save, Kept, ServiceInv, Controlled, AskedToRestart
    <3> QED BY <1>1, <1>q, <2>1, <3>4 DEF Save, Kept, ServiceInv
  <2>8. WantedInv'
    BY <1>1, <1>q, <1>o, <2>1 DEF Save, Kept, WantedInv, Creds
  <2>9. TunnelInv'
    BY <1>1, <1>q, <1>o, <2>1 DEF Save, Kept, TunnelInv, Provided, Found, KeptProfile
  <2> QED BY <2>2, <2>3, <2>4, <2>5, <2>6, <2>7, <2>8, <2>9
<1> QED BY <1>1 DEF Save

\* What is left of the tunnel when it has been stopped.
LEMMA StoppedIs ==
  ASSUME TunnelTyped, NEW k \in BOOLEAN, tunnel' = [TunnelStopped EXCEPT !.plist = @ /\ k]
  PROVE  /\ ~tunnel'.loaded /\ (tunnel'.plist <=> tunnel.plist /\ k)
         /\ tunnel'.profile = tunnel.profile
BY DEF TunnelTyped, TunnelStopped

LEMMA RetireKeeps == ASSUME SetupTyped, SetupInv, Retire, UNCHANGED launcher PROVE SetupInv'
<1> USE DEF SetupInv, At, Is, Loaded, Working, Over, Toward, Draining, Early, ForLauncher
<1>t. JobTyped
  BY DEF SetupTyped
<1>o. job.new.owner \in {"terminal", "launcher"} /\ job.old.owner \in {"terminal", "launcher"}
  BY <1>t, JobFields DEF Config
<1>q. UNCHANGED <<saved, service, daemon, history, route>>
  BY DEF Retire, machine
<1>1. CASE tunnel' = [TunnelStopped EXCEPT !.plist = @ /\ FALSE] /\ Goes(Commits)
  <2>1. job'.at = Commits /\ job'.why = job.why /\ Kept
    BY <1>1, <1>t, GoesIs
  <2>2. ~tunnel'.loaded /\ (tunnel'.plist <=> tunnel.plist /\ FALSE) /\ tunnel'.profile = tunnel.profile
    BY <1>1, StoppedIs DEF SetupTyped
  <2>3. MachineInv' /\ LeaseInv'
    BY <1>1, <1>q, <1>o, <2>1, <2>2 DEF Retire, Kept, MachineInv, LeaseInv, Obeys, Commits, WantedInv, OwnerInv
  <2>4. PurposeInv'
    BY <1>1, <1>q, <1>o, <2>1, <2>2 DEF Retire, Kept, PurposeInv, Commits, WantedInv, OwnerInv
  <2>5. OwnerInv'
    BY <1>1, <1>q, <1>o, <2>1, <2>2 DEF Retire, Kept, OwnerInv, Commits, WantedInv, OwnerInv
  <2>6. SavedInv' /\ ChangeInv'
    BY <1>1, <1>q, <1>o, <2>1, <2>2 DEF Retire, Kept, SavedInv, ChangeInv, Exists, Commits, WantedInv, OwnerInv
  <2>7. GoneInv'
    BY <1>1, <1>q, <1>o, <2>1, <2>2 DEF Retire, Kept, GoneInv, Commits, WantedInv, OwnerInv
  <2>8. ServiceInv'
    BY <1>1, <1>q, <1>o, <2>1, <2>2 DEF Retire, Kept, ServiceInv, Controlled, AskedToRestart, Commits, WantedInv, OwnerInv
  <2>9. WantedInv'
    BY <1>1, <1>q, <1>o, <2>1, <2>2 DEF Retire, Kept, WantedInv, Creds, Commits, WantedInv, OwnerInv
  <2>10. TunnelInv'
    BY <1>1, <1>q, <1>o, <2>1, <2>2 DEF Retire, Kept, TunnelInv, Provided, Found, KeptProfile, Commits, WantedInv, OwnerInv
  <2> QED BY <2>3, <2>4, <2>5, <2>6, <2>7, <2>8, <2>9, <2>10
<1>2. CASE Ends("fault")
  <2>1. tunnel'.loaded => UNCHANGED tunnel
    BY <1>2 DEF Retire, StopsTunnel, TunnelStopped, Goes, Ends, Acquire, SetupTyped, TunnelTyped, JobTyped, Job
  <2> QED BY <1>2, <1>t, <1>q, <2>1, EndsIs, Stops DEF Retire, Refuses
<1> QED BY <1>1, <1>2 DEF Retire, StopsTunnel

LEMMA UnserveKeeps == ASSUME SetupTyped, SetupInv, Unserve, UNCHANGED launcher PROVE SetupInv'
<1> USE DEF SetupInv, At, Is, Loaded, Working, Over, Toward, Draining, Early, ForLauncher
<1>t. JobTyped
  BY DEF SetupTyped
<1>o. job.new.owner \in {"terminal", "launcher"} /\ job.old.owner \in {"terminal", "launcher"}
  BY <1>t, JobFields DEF Config
<1>q. UNCHANGED <<saved, service, daemon, history, route>>
  BY DEF Unserve, machine
<1>1. CASE tunnel' = [TunnelStopped EXCEPT !.plist = @ /\ TRUE] /\ Goes("connect")
  <2>1. job'.at = "connect" /\ job'.why = job.why /\ Kept
    BY <1>1, <1>t, GoesIs
  <2>2. ~tunnel'.loaded /\ (tunnel'.plist <=> tunnel.plist /\ TRUE) /\ tunnel'.profile = tunnel.profile
    BY <1>1, StoppedIs DEF SetupTyped
  <2>3. MachineInv' /\ LeaseInv'
    BY <1>1, <1>q, <1>o, <2>1, <2>2 DEF Unserve, Kept, MachineInv, LeaseInv, Obeys
  <2>4. PurposeInv'
    BY <1>1, <1>q, <1>o, <2>1, <2>2 DEF Unserve, Kept, PurposeInv
  <2>5. OwnerInv'
    BY <1>1, <1>q, <1>o, <2>1, <2>2 DEF Unserve, Kept, OwnerInv
  <2>6. SavedInv' /\ ChangeInv'
    BY <1>1, <1>q, <1>o, <2>1, <2>2 DEF Unserve, Kept, SavedInv, ChangeInv, Exists, OwnerInv
  <2>7. GoneInv'
    BY <1>1, <1>q, <1>o, <2>1, <2>2 DEF Unserve, Kept, GoneInv, OwnerInv
  <2>8. ServiceInv'
    BY <1>1, <1>q, <1>o, <2>1, <2>2 DEF Unserve, Kept, ServiceInv, Controlled, AskedToRestart
  <2>9. WantedInv'
    BY <1>1, <1>q, <1>o, <2>1, <2>2 DEF Unserve, Kept, WantedInv, Creds
  <2>10. TunnelInv'
    BY <1>1, <1>q, <1>o, <2>1, <2>2 DEF Unserve, Kept, TunnelInv, Provided, Found, KeptProfile, OwnerInv
  <2> QED BY <2>3, <2>4, <2>5, <2>6, <2>7, <2>8, <2>9, <2>10
<1>2. CASE Ends("fault")
  <2>1. tunnel'.loaded => UNCHANGED tunnel
    BY <1>2 DEF Unserve, StopsTunnel, TunnelStopped, Goes, Ends, Acquire, SetupTyped, TunnelTyped, JobTyped, Job
  <2> QED BY <1>2, <1>t, <1>q, <2>1, EndsIs, Stops DEF Unserve, Refuses
<1> QED BY <1>1, <1>2 DEF Unserve, StopsTunnel

LEMMA RetunnelKeeps == ASSUME SetupTyped, SetupInv, Retunnel, UNCHANGED launcher PROVE SetupInv'
<1> USE DEF SetupInv, At, Is, Loaded, Working, Over, Toward, Draining, Early, ForLauncher
<1>t. JobTyped
  BY DEF SetupTyped
<1>o. job.new.owner \in {"terminal", "launcher"} /\ job.old.owner \in {"terminal", "launcher"}
  BY <1>t, JobFields DEF Config
<1>q. UNCHANGED <<saved, service, daemon, history, route>>
  BY DEF Retunnel, machine
<1>1. CASE tunnel' = [TunnelStopped EXCEPT !.plist = @ /\ TRUE] /\ Goes("serve")
  <2>1. job'.at = "serve" /\ job'.why = job.why /\ Kept
    BY <1>1, <1>t, GoesIs
  <2>2. ~tunnel'.loaded /\ (tunnel'.plist <=> tunnel.plist /\ TRUE) /\ tunnel'.profile = tunnel.profile
    BY <1>1, StoppedIs DEF SetupTyped
  <2>3. MachineInv' /\ LeaseInv'
    BY <1>1, <1>q, <1>o, <2>1, <2>2 DEF Retunnel, Kept, MachineInv, LeaseInv, Obeys
  <2>4. PurposeInv'
    BY <1>1, <1>q, <1>o, <2>1, <2>2 DEF Retunnel, Kept, PurposeInv
  <2>5. OwnerInv'
    BY <1>1, <1>q, <1>o, <2>1, <2>2 DEF Retunnel, Kept, OwnerInv
  <2>6. SavedInv' /\ ChangeInv'
    BY <1>1, <1>q, <1>o, <2>1, <2>2 DEF Retunnel, Kept, SavedInv, ChangeInv, Exists
  <2>7. GoneInv'
    BY <1>1, <1>q, <1>o, <2>1, <2>2 DEF Retunnel, Kept, GoneInv
  <2>8. ServiceInv'
    BY <1>1, <1>q, <1>o, <2>1, <2>2 DEF Retunnel, Kept, ServiceInv, Controlled, AskedToRestart
  <2>9. WantedInv'
    BY <1>1, <1>q, <1>o, <2>1, <2>2 DEF Retunnel, Kept, WantedInv, Creds
  <2>10. TunnelInv'
    BY <1>1, <1>q, <1>o, <2>1, <2>2 DEF Retunnel, Kept, TunnelInv, Provided, Found, KeptProfile, OwnerInv
  <2> QED BY <2>3, <2>4, <2>5, <2>6, <2>7, <2>8, <2>9, <2>10
<1>2. CASE Ends("fault")
  <2>1. tunnel'.loaded => UNCHANGED tunnel
    BY <1>2 DEF Retunnel, StopsTunnel, TunnelStopped, Goes, Ends, Acquire, SetupTyped, TunnelTyped, JobTyped, Job
  <2> QED BY <1>2, <1>t, <1>q, <2>1, EndsIs, Stops DEF Retunnel, Refuses
<1> QED BY <1>1, <1>2 DEF Retunnel, StopsTunnel

LEMMA OwnKeeps == ASSUME SetupTyped, SetupInv, Own, UNCHANGED launcher PROVE SetupInv'
<1> USE DEF SetupInv, At, Is, Loaded, Working, Over, Toward, Draining, Early, ForLauncher
<1>t. JobTyped
  BY DEF SetupTyped
<1>o. job.new.owner \in {"terminal", "launcher"} /\ job.old.owner \in {"terminal", "launcher"}
  BY <1>t, JobFields DEF Config
<1>q. UNCHANGED <<service, daemon, tunnel, route, history>>
  BY DEF Own, machine
<1>1. CASE saved' = job.new /\ Goes("integrate")
  <2>1. job'.at = "integrate" /\ job'.why = job.why /\ Kept
    BY <1>1, <1>t, GoesIs
  <2>2. MachineInv' /\ LeaseInv'
    BY <1>1, <1>q, <1>o, <2>1 DEF Own, Kept, MachineInv, LeaseInv, Obeys, OwnerInv, GoneInv
  <2>3. PurposeInv'
    BY <1>1, <1>q, <1>o, <2>1 DEF Own, Kept, PurposeInv
  <2>4. OwnerInv'
    BY <1>1, <1>q, <1>o, <2>1 DEF Own, Kept, OwnerInv, GoneInv
  <2>5. SavedInv' /\ ChangeInv'
    BY <1>1, <1>q, <1>o, <2>1 DEF Own, Kept, SavedInv, ChangeInv, Exists, OwnerInv
  <2>6. GoneInv'
    BY <1>1, <1>q, <1>o, <2>1 DEF Own, Kept, GoneInv
  <2>7. ServiceInv'
    BY <1>1, <1>q, <1>o, <2>1 DEF Own, Kept, ServiceInv, Controlled, AskedToRestart, OwnerInv, GoneInv
  <2>8. WantedInv'
    BY <1>1, <1>q, <1>o, <2>1 DEF Own, Kept, WantedInv, Creds
  <2>9. TunnelInv'
    BY <1>1, <1>q, <1>o, <2>1 DEF Own, Kept, TunnelInv, Provided, Found, KeptProfile
  <2> QED BY <2>2, <2>3, <2>4, <2>5, <2>6, <2>7, <2>8, <2>9
<1> QED BY <1>1 DEF Own

LEMMA IntegrateKeeps == ASSUME SetupTyped, SetupInv, Integrate, UNCHANGED launcher PROVE SetupInv'
<1> USE DEF SetupInv, At, Is, Loaded, Working, Over, Toward, Draining, Early, ForLauncher
<1>t. JobTyped
  BY DEF SetupTyped
<1>o. job.new.owner \in {"terminal", "launcher"} /\ job.old.owner \in {"terminal", "launcher"}
  BY <1>t, JobFields DEF Config
<1>q. UNCHANGED <<saved, service, daemon, tunnel, history>>
  BY DEF Integrate, machine
<1>1. CASE route' = job.new.release /\ Goes("done")
  <2>1. job'.at = "done" /\ job'.why = job.why /\ Kept
    BY <1>1, <1>t, GoesIs
  <2>2. MachineInv' /\ LeaseInv'
    BY <1>1, <1>q, <1>o, <2>1 DEF Integrate, Kept, MachineInv, LeaseInv, Obeys
  <2>3. PurposeInv'
    BY <1>1, <1>q, <1>o, <2>1 DEF Integrate, Kept, PurposeInv
  <2>4. OwnerInv'
    BY <1>1, <1>q, <1>o, <2>1 DEF Integrate, Kept, OwnerInv
  <2>5. SavedInv' /\ ChangeInv'
    BY <1>1, <1>q, <1>o, <2>1 DEF Integrate, Kept, SavedInv, ChangeInv, Exists
  <2>6. GoneInv'
    BY <1>1, <1>q, <1>o, <2>1 DEF Integrate, Kept, GoneInv
  <2>7. ServiceInv'
    BY <1>1, <1>q, <1>o, <2>1 DEF Integrate, Kept, ServiceInv, Controlled, AskedToRestart
  <2>8. WantedInv'
    BY <1>1, <1>q, <1>o, <2>1 DEF Integrate, Kept, WantedInv, Creds
  <2>9. TunnelInv'
    BY <1>1, <1>q, <1>o, <2>1 DEF Integrate, Kept, TunnelInv, Provided, Found, KeptProfile
  <2> QED BY <2>2, <2>3, <2>4, <2>5, <2>6, <2>7, <2>8, <2>9
<1>2. CASE Ends("fault")
  BY <1>2, <1>t, <1>q, EndsIs, Stops DEF Integrate, Refuses
<1> QED BY <1>1, <1>2 DEF Integrate

LEMMA ProvideKeeps == ASSUME SetupTyped, SetupInv, Provide, UNCHANGED launcher PROVE SetupInv'
<1> USE DEF SetupInv, At, Is, Loaded, Working, Over, Toward, Draining, Early, ForLauncher
<1>t. JobTyped
  BY DEF SetupTyped
<1>o. job.new.owner \in {"terminal", "launcher"} /\ job.old.owner \in {"terminal", "launcher"}
  BY <1>t, JobFields DEF Config
<1>q. UNCHANGED <<saved, service, daemon, history, route>>
  BY DEF Provide, machine
<1>1. CASE ~job.new.mcp /\ job.old.mcp /\ UNCHANGED tunnel /\ Goes("retire")
  <2>1. job'.at = "retire" /\ job'.why = job.why /\ Kept
    BY <1>1, <1>t, GoesIs
  <2>2. MachineInv' /\ LeaseInv'
    BY <1>1, <1>q, <1>o, <2>1 DEF Provide, Kept, MachineInv, LeaseInv, Obeys
  <2>3. PurposeInv'
    BY <1>1, <1>q, <1>o, <2>1 DEF Provide, Kept, PurposeInv
  <2>4. OwnerInv'
    BY <1>1, <1>q, <1>o, <2>1 DEF Provide, Kept, OwnerInv
  <2>5. SavedInv' /\ ChangeInv'
    BY <1>1, <1>q, <1>o, <2>1 DEF Provide, Kept, SavedInv, ChangeInv, Exists
  <2>6. GoneInv'
    BY <1>1, <1>q, <1>o, <2>1 DEF Provide, Kept, GoneInv
  <2>7. ServiceInv'
    BY <1>1, <1>q, <1>o, <2>1 DEF Provide, Kept, ServiceInv, Controlled, AskedToRestart
  <2>8. WantedInv'
    BY <1>1, <1>q, <1>o, <2>1 DEF Provide, Kept, WantedInv, Creds
  <2>9. TunnelInv'
    BY <1>1, <1>q, <1>o, <2>1 DEF Provide, Kept, TunnelInv, Provided, Found, KeptProfile
  <2> QED BY <2>2, <2>3, <2>4, <2>5, <2>6, <2>7, <2>8, <2>9
<1>2. CASE ~job.new.mcp /\ ~job.old.mcp /\ UNCHANGED tunnel /\ Goes(Commits)
  <2>1. job'.at = Commits /\ job'.why = job.why /\ Kept
    BY <1>2, <1>t, GoesIs
  <2>2. MachineInv' /\ LeaseInv'
    BY <1>2, <1>q, <1>o, <2>1 DEF Provide, Kept, MachineInv, LeaseInv, Obeys, Commits, WantedInv, OwnerInv
  <2>3. PurposeInv'
    BY <1>2, <1>q, <1>o, <2>1 DEF Provide, Kept, PurposeInv, Commits, WantedInv, OwnerInv
  <2>4. OwnerInv'
    BY <1>2, <1>q, <1>o, <2>1 DEF Provide, Kept, OwnerInv, Commits, WantedInv
  <2>5. SavedInv' /\ ChangeInv'
    BY <1>2, <1>q, <1>o, <2>1 DEF Provide, Kept, SavedInv, ChangeInv, Exists, Commits, WantedInv, OwnerInv
  <2>6. GoneInv'
    BY <1>2, <1>q, <1>o, <2>1 DEF Provide, Kept, GoneInv, Commits, WantedInv, OwnerInv
  <2>7. ServiceInv'
    BY <1>2, <1>q, <1>o, <2>1 DEF Provide, Kept, ServiceInv, Controlled, AskedToRestart, Commits, WantedInv, OwnerInv
  <2>8. WantedInv'
    BY <1>2, <1>q, <1>o, <2>1 DEF Provide, Kept, WantedInv, Creds, Commits, OwnerInv
  <2>9. TunnelInv'
    BY <1>2, <1>q, <1>o, <2>1 DEF Provide, Kept, TunnelInv, Provided, Found, KeptProfile, Commits, WantedInv, OwnerInv, ProfileOf, Refreshes, Creds
  <2> QED BY <2>2, <2>3, <2>4, <2>5, <2>6, <2>7, <2>8, <2>9
<1>3. CASE job.new.mcp /\ ForLauncher /\ tunnel' = [TunnelStopped EXCEPT !.plist = @ /\ FALSE] /\ Goes("connect")
  <2>1. job'.at = "connect" /\ job'.why = job.why /\ Kept
    BY <1>3, <1>t, GoesIs
  <2>2. ~tunnel'.loaded /\ ~tunnel'.plist /\ tunnel'.profile = tunnel.profile
    BY <1>3, StoppedIs DEF SetupTyped
  <2>3. MachineInv' /\ LeaseInv'
    BY <1>3, <1>q, <1>o, <2>1, <2>2 DEF Provide, Kept, MachineInv, LeaseInv, Obeys
  <2>4. PurposeInv'
    BY <1>3, <1>q, <1>o, <2>1, <2>2 DEF Provide, Kept, PurposeInv
  <2>5. OwnerInv'
    BY <1>3, <1>q, <1>o, <2>1, <2>2 DEF Provide, Kept, OwnerInv
  <2>6. SavedInv' /\ ChangeInv'
    BY <1>3, <1>q, <1>o, <2>1, <2>2 DEF Provide, Kept, SavedInv, ChangeInv, Exists
  <2>7. GoneInv'
    BY <1>3, <1>q, <1>o, <2>1, <2>2 DEF Provide, Kept, GoneInv
  <2>8. ServiceInv'
    BY <1>3, <1>q, <1>o, <2>1, <2>2 DEF Provide, Kept, ServiceInv, Controlled, AskedToRestart
  <2>9. WantedInv'
    BY <1>3, <1>q, <1>o, <2>1, <2>2 DEF Provide, Kept, WantedInv, Creds
  <2>10. TunnelInv'
    BY <1>3, <1>q, <1>o, <2>1, <2>2 DEF Provide, Kept, TunnelInv, Provided, Found, KeptProfile
  <2> QED BY <2>3, <2>4, <2>5, <2>6, <2>7, <2>8, <2>9, <2>10
<1>4. CASE job.new.mcp /\ ForLauncher /\ tunnel.profile.tid # 0 /\ ~Refreshes /\ ~Creds /\ tunnel' = [TunnelStopped EXCEPT !.plist = @ /\ FALSE] /\ Goes(Commits)
  <2>1. job'.at = Commits /\ job'.why = job.why /\ Kept
    BY <1>4, <1>t, GoesIs
  <2>2. ~tunnel'.loaded /\ ~tunnel'.plist /\ tunnel'.profile = tunnel.profile
    BY <1>4, StoppedIs DEF SetupTyped
  <2>3. MachineInv' /\ LeaseInv'
    BY <1>4, <1>q, <1>o, <2>1, <2>2 DEF Provide, Kept, MachineInv, LeaseInv, Obeys, Commits, WantedInv, OwnerInv
  <2>4. PurposeInv'
    BY <1>4, <1>q, <1>o, <2>1, <2>2 DEF Provide, Kept, PurposeInv, Commits, WantedInv, OwnerInv
  <2>5. OwnerInv'
    BY <1>4, <1>q, <1>o, <2>1, <2>2 DEF Provide, Kept, OwnerInv, Commits, WantedInv
  <2>6. SavedInv' /\ ChangeInv'
    BY <1>4, <1>q, <1>o, <2>1, <2>2 DEF Provide, Kept, SavedInv, ChangeInv, Exists, Commits, WantedInv, OwnerInv
  <2>7. GoneInv'
    BY <1>4, <1>q, <1>o, <2>1, <2>2 DEF Provide, Kept, GoneInv, Commits, WantedInv, OwnerInv
  <2>8. ServiceInv'
    BY <1>4, <1>q, <1>o, <2>1, <2>2 DEF Provide, Kept, ServiceInv, Controlled, AskedToRestart, Commits, WantedInv, OwnerInv
  <2>9. WantedInv'
    BY <1>4, <1>q, <1>o, <2>1, <2>2 DEF Provide, Kept, WantedInv, Creds, Commits, OwnerInv
  <2>10. TunnelInv'
    BY <1>4, <1>q, <1>o, <2>1, <2>2 DEF Provide, Kept, TunnelInv, Provided, Found, KeptProfile, Commits, WantedInv, OwnerInv, ProfileOf, Refreshes, Creds
  <2> QED BY <2>3, <2>4, <2>5, <2>6, <2>7, <2>8, <2>9, <2>10
<1>5. CASE job.new.mcp /\ ForLauncher /\ UNCHANGED tunnel /\ ~tunnel.plist /\ ~tunnel.loaded /\ Goes("connect")
  <2>1. job'.at = "connect" /\ job'.why = job.why /\ Kept
    BY <1>5, <1>t, GoesIs
  <2>2. MachineInv' /\ LeaseInv'
    BY <1>5, <1>q, <1>o, <2>1 DEF Provide, Kept, MachineInv, LeaseInv, Obeys
  <2>3. PurposeInv'
    BY <1>5, <1>q, <1>o, <2>1 DEF Provide, Kept, PurposeInv
  <2>4. OwnerInv'
    BY <1>5, <1>q, <1>o, <2>1 DEF Provide, Kept, OwnerInv
  <2>5. SavedInv' /\ ChangeInv'
    BY <1>5, <1>q, <1>o, <2>1 DEF Provide, Kept, SavedInv, ChangeInv, Exists
  <2>6. GoneInv'
    BY <1>5, <1>q, <1>o, <2>1 DEF Provide, Kept, GoneInv
  <2>7. ServiceInv'
    BY <1>5, <1>q, <1>o, <2>1 DEF Provide, Kept, ServiceInv, Controlled, AskedToRestart
  <2>8. WantedInv'
    BY <1>5, <1>q, <1>o, <2>1 DEF Provide, Kept, WantedInv, Creds
  <2>9. TunnelInv'
    BY <1>5, <1>q, <1>o, <2>1 DEF Provide, Kept, TunnelInv, Provided, Found, KeptProfile
  <2> QED BY <2>2, <2>3, <2>4, <2>5, <2>6, <2>7, <2>8, <2>9
<1>6. CASE job.new.mcp /\ ForLauncher /\ tunnel.profile.tid # 0 /\ ~Refreshes /\ ~Creds /\ UNCHANGED tunnel /\ ~tunnel.plist /\ Goes(Commits)
  <2>1. job'.at = Commits /\ job'.why = job.why /\ Kept
    BY <1>6, <1>t, GoesIs
  <2>2. MachineInv' /\ LeaseInv'
    BY <1>6, <1>q, <1>o, <2>1 DEF Provide, Kept, MachineInv, LeaseInv, Obeys, Commits, WantedInv, OwnerInv
  <2>3. PurposeInv'
    BY <1>6, <1>q, <1>o, <2>1 DEF Provide, Kept, PurposeInv, Commits, WantedInv, OwnerInv
  <2>4. OwnerInv'
    BY <1>6, <1>q, <1>o, <2>1 DEF Provide, Kept, OwnerInv, Commits, WantedInv
  <2>5. SavedInv' /\ ChangeInv'
    BY <1>6, <1>q, <1>o, <2>1 DEF Provide, Kept, SavedInv, ChangeInv, Exists, Commits, WantedInv, OwnerInv
  <2>6. GoneInv'
    BY <1>6, <1>q, <1>o, <2>1 DEF Provide, Kept, GoneInv, Commits, WantedInv, OwnerInv
  <2>7. ServiceInv'
    BY <1>6, <1>q, <1>o, <2>1 DEF Provide, Kept, ServiceInv, Controlled, AskedToRestart, Commits, WantedInv, OwnerInv
  <2>8. WantedInv'
    BY <1>6, <1>q, <1>o, <2>1 DEF Provide, Kept, WantedInv, Creds, Commits, OwnerInv
  <2>9. TunnelInv'
    BY <1>6, <1>q, <1>o, <2>1 DEF Provide, Kept, TunnelInv, Provided, Found, KeptProfile, Commits, WantedInv, OwnerInv, ProfileOf, Refreshes, Creds
  <2> QED BY <2>2, <2>3, <2>4, <2>5, <2>6, <2>7, <2>8, <2>9
<1>7. CASE job.new.mcp /\ ~ForLauncher /\ UNCHANGED tunnel /\ Acquire("idle", job.new, "unserve")
  <2>1. /\ job'.at = "drain" /\ job'.op = "idle" /\ job'.using = job.new /\ job'.then = "unserve" /\ job'.lease = job.lease
       /\ job'.opt = job.opt /\ job'.old = job.old /\ job'.new = job.new /\ job'.before = job.before
       /\ job'.changed = job.changed /\ job'.checkpoint = job.checkpoint /\ job'.why = job.why
    BY <1>7, <1>t, AcquireIs
  <2>2. MachineInv' /\ LeaseInv'
    BY <1>7, <1>q, <1>o, <2>1 DEF Provide, MachineInv, LeaseInv, Obeys
  <2>3. PurposeInv'
    BY <1>7, <1>q, <1>o, <2>1 DEF Provide, PurposeInv
  <2>4. OwnerInv'
    BY <1>7, <1>q, <1>o, <2>1 DEF Provide, OwnerInv
  <2>5. SavedInv' /\ ChangeInv'
    BY <1>7, <1>q, <1>o, <2>1 DEF Provide, SavedInv, ChangeInv, Exists
  <2>6. GoneInv'
    BY <1>7, <1>q, <1>o, <2>1 DEF Provide, GoneInv
  <2>7. ServiceInv'
    BY <1>7, <1>q, <1>o, <2>1 DEF Provide, ServiceInv, Controlled, AskedToRestart
  <2>8. WantedInv'
    BY <1>7, <1>q, <1>o, <2>1 DEF Provide, WantedInv, Creds
  <2>9. TunnelInv'
    BY <1>7, <1>q, <1>o, <2>1 DEF Provide, TunnelInv, Provided, Found, KeptProfile
  <2> QED BY <2>2, <2>3, <2>4, <2>5, <2>6, <2>7, <2>8, <2>9
<1>8. CASE job.new.mcp /\ ~ForLauncher /\ tunnel.profile.tid # 0 /\ tunnel.plist /\ UNCHANGED tunnel /\ Acquire("idle", job.new, "retunnel")
  <2>1. /\ job'.at = "drain" /\ job'.op = "idle" /\ job'.using = job.new /\ job'.then = "retunnel" /\ job'.lease = job.lease
       /\ job'.opt = job.opt /\ job'.old = job.old /\ job'.new = job.new /\ job'.before = job.before
       /\ job'.changed = job.changed /\ job'.checkpoint = job.checkpoint /\ job'.why = job.why
    BY <1>8, <1>t, AcquireIs
  <2>2. MachineInv' /\ LeaseInv'
    BY <1>8, <1>q, <1>o, <2>1 DEF Provide, MachineInv, LeaseInv, Obeys
  <2>3. PurposeInv'
    BY <1>8, <1>q, <1>o, <2>1 DEF Provide, PurposeInv
  <2>4. OwnerInv'
    BY <1>8, <1>q, <1>o, <2>1 DEF Provide, OwnerInv
  <2>5. SavedInv' /\ ChangeInv'
    BY <1>8, <1>q, <1>o, <2>1 DEF Provide, SavedInv, ChangeInv, Exists
  <2>6. GoneInv'
    BY <1>8, <1>q, <1>o, <2>1 DEF Provide, GoneInv
  <2>7. ServiceInv'
    BY <1>8, <1>q, <1>o, <2>1 DEF Provide, ServiceInv, Controlled, AskedToRestart
  <2>8. WantedInv'
    BY <1>8, <1>q, <1>o, <2>1 DEF Provide, WantedInv, Creds
  <2>9. TunnelInv'
    BY <1>8, <1>q, <1>o, <2>1 DEF Provide, TunnelInv, Provided, Found, KeptProfile
  <2> QED BY <2>2, <2>3, <2>4, <2>5, <2>6, <2>7, <2>8, <2>9
<1>9. CASE job.new.mcp /\ ~ForLauncher /\ tunnel.profile.tid # 0 /\ tunnel.plist /\ UNCHANGED tunnel /\ Goes("ready")
  <2>1. job'.at = "ready" /\ job'.why = job.why /\ Kept
    BY <1>9, <1>t, GoesIs
  <2>2. MachineInv' /\ LeaseInv'
    BY <1>9, <1>q, <1>o, <2>1 DEF Provide, Kept, MachineInv, LeaseInv, Obeys
  <2>3. PurposeInv'
    BY <1>9, <1>q, <1>o, <2>1 DEF Provide, Kept, PurposeInv
  <2>4. OwnerInv'
    BY <1>9, <1>q, <1>o, <2>1 DEF Provide, Kept, OwnerInv
  <2>5. SavedInv' /\ ChangeInv'
    BY <1>9, <1>q, <1>o, <2>1 DEF Provide, Kept, SavedInv, ChangeInv, Exists
  <2>6. GoneInv'
    BY <1>9, <1>q, <1>o, <2>1 DEF Provide, Kept, GoneInv
  <2>7. ServiceInv'
    BY <1>9, <1>q, <1>o, <2>1 DEF Provide, Kept, ServiceInv, Controlled, AskedToRestart
  <2>8. WantedInv'
    BY <1>9, <1>q, <1>o, <2>1 DEF Provide, Kept, WantedInv, Creds
  <2>9. TunnelInv'
    BY <1>9, <1>q, <1>o, <2>1 DEF Provide, Kept, TunnelInv, Provided, Found, KeptProfile
  <2> QED BY <2>2, <2>3, <2>4, <2>5, <2>6, <2>7, <2>8, <2>9
<1>10. CASE Ends("fault")
  <2>1. tunnel'.loaded => UNCHANGED tunnel
    BY <1>10 DEF Provide, StopsTunnel, TunnelStopped, Goes, Ends, Acquire, SetupTyped, TunnelTyped, JobTyped, Job
  <2> QED BY <1>10, <1>t, <1>q, <2>1, EndsIs, Stops DEF Provide, Refuses
<1> QED BY <1>1, <1>2, <1>3, <1>4, <1>5, <1>6, <1>7, <1>8, <1>9, <1>10 DEF Provide, StopsTunnel

LEMMA ConnectKeeps == ASSUME SetupTyped, SetupInv, Connect, UNCHANGED route, UNCHANGED launcher PROVE SetupInv'
<1> USE DEF SetupInv, At, Is, Loaded, Working, Over, Toward, Draining, Early, ForLauncher
<1>t. JobTyped
  BY DEF SetupTyped
<1>o. job.new.owner \in {"terminal", "launcher"} /\ job.old.owner \in {"terminal", "launcher"}
  BY <1>t, JobFields DEF Config
<1>q. UNCHANGED <<saved, service, daemon, history, route>>
  BY DEF Connect, machine
<1>1. CASE tunnel' = [tunnel EXCEPT !.profile = ProfileOf(job.new), !.managed = TRUE] /\ Goes("disconnect")
  <2>1. job'.at = "disconnect" /\ job'.why = job.why /\ Kept
    BY <1>1, <1>t, GoesIs
  <2>2. tunnel'.profile = ProfileOf(job.new) /\ tunnel'.plist = tunnel.plist /\ tunnel'.loaded = tunnel.loaded /\ tunnel'.runs = tunnel.runs
    BY <1>1 DEF SetupTyped, TunnelTyped
  <2>3. MachineInv' /\ LeaseInv'
    BY <1>1, <1>q, <1>o, <2>1, <2>2 DEF Connect, Kept, MachineInv, LeaseInv, Obeys
  <2>4. PurposeInv'
    BY <1>1, <1>q, <1>o, <2>1, <2>2 DEF Connect, Kept, PurposeInv
  <2>5. OwnerInv'
    BY <1>1, <1>q, <1>o, <2>1, <2>2 DEF Connect, Kept, OwnerInv
  <2>6. SavedInv' /\ ChangeInv'
    BY <1>1, <1>q, <1>o, <2>1, <2>2 DEF Connect, Kept, SavedInv, ChangeInv, Exists
  <2>7. GoneInv'
    BY <1>1, <1>q, <1>o, <2>1, <2>2 DEF Connect, Kept, GoneInv
  <2>8. ServiceInv'
    BY <1>1, <1>q, <1>o, <2>1, <2>2 DEF Connect, Kept, ServiceInv, Controlled, AskedToRestart
  <2>9. WantedInv'
    BY <1>1, <1>q, <1>o, <2>1, <2>2 DEF Connect, Kept, WantedInv, Creds
  <2>10. TunnelInv'
    BY <1>1, <1>q, <1>o, <2>1, <2>2 DEF Connect, Kept, TunnelInv, Provided, Found, KeptProfile
  <2> QED BY <2>3, <2>4, <2>5, <2>6, <2>7, <2>8, <2>9, <2>10
<1>2. CASE tunnel' \in {tunnel, [tunnel EXCEPT !.profile = ProfileOf(job.new), !.managed = TRUE]} /\ job' = [job EXCEPT !.at = "disconnect", !.why = "fault"]
  <2>1. job'.at = "disconnect" /\ job'.why = "fault" /\ Kept
    BY <1>2, <1>t DEF JobTyped, Job, Kept
  <2>2. tunnel'.plist = tunnel.plist /\ tunnel'.loaded = tunnel.loaded /\ tunnel'.runs = tunnel.runs
    BY <1>2 DEF SetupTyped, TunnelTyped
  <2>3. MachineInv' /\ LeaseInv'
    BY <1>2, <1>q, <1>o, <2>1, <2>2 DEF Connect, Kept, MachineInv, LeaseInv, Obeys
  <2>4. PurposeInv'
    BY <1>2, <1>q, <1>o, <2>1, <2>2 DEF Connect, Kept, PurposeInv
  <2>5. OwnerInv'
    BY <1>2, <1>q, <1>o, <2>1, <2>2 DEF Connect, Kept, OwnerInv
  <2>6. SavedInv' /\ ChangeInv'
    BY <1>2, <1>q, <1>o, <2>1, <2>2 DEF Connect, Kept, SavedInv, ChangeInv, Exists
  <2>7. GoneInv'
    BY <1>2, <1>q, <1>o, <2>1, <2>2 DEF Connect, Kept, GoneInv
  <2>8. ServiceInv'
    BY <1>2, <1>q, <1>o, <2>1, <2>2 DEF Connect, Kept, ServiceInv, Controlled, AskedToRestart
  <2>9. WantedInv'
    BY <1>2, <1>q, <1>o, <2>1, <2>2 DEF Connect, Kept, WantedInv, Creds
  <2>10. TunnelInv'
    BY <1>2, <1>q, <1>o, <2>1, <2>2 DEF Connect, Kept, TunnelInv, Provided, Found, KeptProfile
  <2> QED BY <2>3, <2>4, <2>5, <2>6, <2>7, <2>8, <2>9, <2>10
<1> QED BY <1>1, <1>2 DEF Connect

LEMMA DisconnectKeeps ==
  ASSUME SetupTyped, SetupInv, Disconnect(IF ForLauncher THEN Commits ELSE "serve"), UNCHANGED route, UNCHANGED launcher
  PROVE  SetupInv'
<1> USE DEF SetupInv, At, Is, Loaded, Working, Over, Toward, Draining, Early, ForLauncher
<1>t. JobTyped
  BY DEF SetupTyped
<1>o. job.new.owner \in {"terminal", "launcher"} /\ job.old.owner \in {"terminal", "launcher"}
  BY <1>t, JobFields DEF Config
<1>q. UNCHANGED <<saved, service, daemon, history, route>>
  BY DEF Disconnect, machine
<1>1. CASE ForLauncher /\ job.why # "fault" /\ tunnel' = [tunnel EXCEPT !.managed = FALSE] /\ Goes(Commits)
  <2>1. job'.at = Commits /\ job'.why = job.why /\ Kept
    BY <1>1, <1>t, GoesIs
  <2>2. tunnel'.profile = tunnel.profile /\ tunnel'.plist = tunnel.plist /\ tunnel'.loaded = tunnel.loaded /\ tunnel'.runs = tunnel.runs
    BY <1>1 DEF SetupTyped, TunnelTyped
  <2>3. MachineInv' /\ LeaseInv'
    BY <1>1, <1>q, <1>o, <2>1, <2>2 DEF Disconnect, Kept, MachineInv, LeaseInv, Obeys, Commits, WantedInv, OwnerInv
  <2>4. PurposeInv'
    BY <1>1, <1>q, <1>o, <2>1, <2>2 DEF Disconnect, Kept, PurposeInv, Commits, WantedInv, OwnerInv
  <2>5. OwnerInv'
    BY <1>1, <1>q, <1>o, <2>1, <2>2 DEF Disconnect, Kept, OwnerInv, Commits, WantedInv
  <2>6. SavedInv' /\ ChangeInv'
    BY <1>1, <1>q, <1>o, <2>1, <2>2 DEF Disconnect, Kept, SavedInv, ChangeInv, Exists, Commits, WantedInv, OwnerInv
  <2>7. GoneInv'
    BY <1>1, <1>q, <1>o, <2>1, <2>2 DEF Disconnect, Kept, GoneInv, Commits, WantedInv, OwnerInv
  <2>8. ServiceInv'
    BY <1>1, <1>q, <1>o, <2>1, <2>2 DEF Disconnect, Kept, ServiceInv, Controlled, AskedToRestart, Commits, WantedInv, OwnerInv
  <2>9. WantedInv'
    BY <1>1, <1>q, <1>o, <2>1, <2>2 DEF Disconnect, Kept, WantedInv, Creds, Commits, OwnerInv
  <2>10. TunnelInv'
    BY <1>1, <1>q, <1>o, <2>1, <2>2 DEF Disconnect, Kept, TunnelInv, Provided, Found, KeptProfile, Commits, WantedInv, OwnerInv, ProfileOf, Creds
  <2> QED BY <2>3, <2>4, <2>5, <2>6, <2>7, <2>8, <2>9, <2>10
<1>2. CASE ~ForLauncher /\ job.why # "fault" /\ tunnel' = [tunnel EXCEPT !.managed = FALSE] /\ Goes("serve")
  <2>1. job'.at = "serve" /\ job'.why = job.why /\ Kept
    BY <1>2, <1>t, GoesIs
  <2>2. tunnel'.profile = tunnel.profile /\ tunnel'.plist = tunnel.plist /\ tunnel'.loaded = tunnel.loaded /\ tunnel'.runs = tunnel.runs
    BY <1>2 DEF SetupTyped, TunnelTyped
  <2>3. MachineInv' /\ LeaseInv'
    BY <1>2, <1>q, <1>o, <2>1, <2>2 DEF Disconnect, Kept, MachineInv, LeaseInv, Obeys
  <2>4. PurposeInv'
    BY <1>2, <1>q, <1>o, <2>1, <2>2 DEF Disconnect, Kept, PurposeInv
  <2>5. OwnerInv'
    BY <1>2, <1>q, <1>o, <2>1, <2>2 DEF Disconnect, Kept, OwnerInv
  <2>6. SavedInv' /\ ChangeInv'
    BY <1>2, <1>q, <1>o, <2>1, <2>2 DEF Disconnect, Kept, SavedInv, ChangeInv, Exists, OwnerInv
  <2>7. GoneInv'
    BY <1>2, <1>q, <1>o, <2>1, <2>2 DEF Disconnect, Kept, GoneInv
  <2>8. ServiceInv'
    BY <1>2, <1>q, <1>o, <2>1, <2>2 DEF Disconnect, Kept, ServiceInv, Controlled, AskedToRestart
  <2>9. WantedInv'
    BY <1>2, <1>q, <1>o, <2>1, <2>2 DEF Disconnect, Kept, WantedInv, Creds
  <2>10. TunnelInv'
    BY <1>2, <1>q, <1>o, <2>1, <2>2 DEF Disconnect, Kept, TunnelInv, Provided, Found, KeptProfile, WantedInv, ProfileOf
  <2> QED BY <2>3, <2>4, <2>5, <2>6, <2>7, <2>8, <2>9, <2>10
<1>3. CASE Ends("fault")
  <2>1. tunnel'.loaded => UNCHANGED tunnel
    BY <1>3 DEF Disconnect, TunnelInv, Goes, Ends, Acquire, SetupTyped, TunnelTyped, JobTyped, Job
  <2> QED BY <1>3, <1>t, <1>q, <2>1, EndsIs, Stops DEF Disconnect, Refuses
<1> QED BY <1>1, <1>2, <1>3 DEF Disconnect

LEMMA StartTunnelKeeps == ASSUME SetupTyped, SetupInv, StartTunnel("serve", "ready"), UNCHANGED route, UNCHANGED launcher PROVE SetupInv'
<1> USE DEF SetupInv, At, Is, Loaded, Working, Over, Toward, Draining, Early, ForLauncher
<1>t. JobTyped
  BY DEF SetupTyped
<1>o. job.new.owner \in {"terminal", "launcher"} /\ job.old.owner \in {"terminal", "launcher"}
  BY <1>t, JobFields DEF Config
<1>q. UNCHANGED <<saved, service, daemon, history, route>>
  BY DEF StartTunnel, machine
<1>1. CASE tunnel' = TunnelStarted([tunnel EXCEPT !.plist = TRUE]) /\ Goes("ready")
  <2>1. job'.at = "ready" /\ job'.why = job.why /\ Kept
    BY <1>1, <1>t, GoesIs
  <2>2. tunnel'.profile = tunnel.profile /\ tunnel'.plist /\ tunnel'.loaded /\ tunnel'.runs = tunnel'.profile
    BY <1>1 DEF SetupTyped, TunnelTyped, TunnelStarted
  <2>3. MachineInv' /\ LeaseInv'
    BY <1>1, <1>q, <1>o, <2>1, <2>2 DEF StartTunnel, Kept, MachineInv, LeaseInv, Obeys
  <2>4. PurposeInv'
    BY <1>1, <1>q, <1>o, <2>1, <2>2 DEF StartTunnel, Kept, PurposeInv
  <2>5. OwnerInv'
    BY <1>1, <1>q, <1>o, <2>1, <2>2 DEF StartTunnel, Kept, OwnerInv
  <2>6. SavedInv' /\ ChangeInv'
    BY <1>1, <1>q, <1>o, <2>1, <2>2 DEF StartTunnel, Kept, SavedInv, ChangeInv, Exists
  <2>7. GoneInv'
    BY <1>1, <1>q, <1>o, <2>1, <2>2 DEF StartTunnel, Kept, GoneInv
  <2>8. ServiceInv'
    BY <1>1, <1>q, <1>o, <2>1, <2>2 DEF StartTunnel, Kept, ServiceInv, Controlled, AskedToRestart
  <2>9. WantedInv'
    BY <1>1, <1>q, <1>o, <2>1, <2>2 DEF StartTunnel, Kept, WantedInv, Creds
  <2>10. TunnelInv'
    BY <1>1, <1>q, <1>o, <2>1, <2>2 DEF StartTunnel, Kept, TunnelInv, Provided, Found, KeptProfile, OwnerInv
  <2> QED BY <2>3, <2>4, <2>5, <2>6, <2>7, <2>8, <2>9, <2>10
<1>2. CASE Ends("fault")
  <2>1. tunnel'.loaded => UNCHANGED tunnel
    BY <1>2 DEF StartTunnel, TunnelStopped, Goes, Ends, Acquire, SetupTyped, TunnelTyped, JobTyped, Job
  <2> QED BY <1>2, <1>t, <1>q, <2>1, EndsIs, Stops DEF StartTunnel, Refuses
<1> QED BY <1>1, <1>2 DEF StartTunnel

-----------------------------------------------------------------------------
(* The steps on the daemon's job.                                          *)

\* A step that ends the setup, or begins to give back what it drained.
LEMMA Halts ==
  ASSUME SetupInv, Kept, job'.at \in {"failed", "undrain", "giveback"},
         job.at \notin {"none", "done", "undone", "dead"},
         UNCHANGED <<saved, tunnel, launcher>>, MachineInv', LeaseInv'
  PROVE  SetupInv'
<1> USE DEF SetupInv, At, Is, Loaded, Working, Over, Toward, Draining, Early, ForLauncher, Kept
<1>1. PurposeInv' /\ OwnerInv'
  BY DEF PurposeInv, OwnerInv
<1>2. SavedInv' /\ ChangeInv' /\ GoneInv'
  BY DEF SavedInv, ChangeInv, GoneInv
<1>3. ServiceInv' /\ WantedInv' /\ TunnelInv'
  BY DEF ServiceInv, WantedInv, TunnelInv
<1> QED BY <1>1, <1>2, <1>3

\* What a drain and a resume leave of the daemon.
SameDaemon ==
  /\ daemon'.up = daemon.up /\ daemon'.born = daemon.born /\ daemon'.release = daemon.release
  /\ daemon'.config = daemon.config /\ daemon'.turn = daemon.turn

LEMMA DrainedIs ==
  ASSUME DaemonTyped
  PROVE  /\ daemon' = Drained => SameDaemon /\ ~daemon'.accepting
         /\ daemon' = Resumed => SameDaemon /\ daemon'.accepting
         /\ daemon' = daemon => SameDaemon /\ daemon'.accepting = daemon.accepting
BY DEF DaemonTyped, Drained, Resumed, SameDaemon

LEMMA AbandonsIs ==
  ASSUME HistoryTyped, Abandons
  PROVE  /\ history'.booted = history.booted /\ history'.resumed = history.resumed
         /\ history'.controlled = history.controlled /\ history'.profiled = history.profiled
         /\ history'.abandoned = history.abandoned \cup {daemon.born}
BY DEF HistoryTyped, Abandons

LEMMA ResumesIs ==
  ASSUME DaemonTyped, HistoryTyped, Resumes
  PROVE  /\ SameDaemon /\ daemon'.accepting
         /\ history'.booted = history.booted /\ history'.abandoned = history.abandoned
         /\ history'.controlled = history.controlled /\ history'.profiled = history.profiled
         /\ service.loaded = "leaving" => daemon.born \in history'.resumed
<1>1. SameDaemon /\ daemon'.accepting
  BY DrainedIs DEF Resumes
<1> QED BY <1>1 DEF HistoryTyped, Resumes

LEMMA DrainKeeps == ASSUME SetupTyped, SetupInv, Drain, UNCHANGED <<route, launcher>> PROVE SetupInv'
<1> USE DEF SetupInv, At, Is, Loaded, Working, Over, Toward, Draining, Early, ForLauncher
<1>t. JobTyped
  BY DEF SetupTyped
<1>o. job.new.owner \in {"terminal", "launcher"} /\ job.old.owner \in {"terminal", "launcher"}
  BY <1>t, JobFields DEF Config
<1>q. UNCHANGED <<saved, service, tunnel, history, route>>
  BY DEF Drain, machine
<1>s. saved.owner \in {"terminal", "launcher"}
  BY DEF SetupTyped, Config
<1>1. CASE ~Loaded /\ Goes(Skips) /\ UNCHANGED daemon
  <2>1. job'.at = Skips /\ job'.why = job.why /\ Kept /\ job.at = "drain"
    BY <1>1, <1>t, GoesIs DEF Drain
  <2>2. \/ job.op = "idle" /\ job.then \in {"login", "configure", "unserve", "retunnel"} /\ job'.at = job.then
        \/ job.op = "restart" /\ job.then = "proxy" /\ job'.at = "start"
        \/ job.op = "uninstall" /\ job.then = "own" /\ job'.at = "remove"
    BY <2>1 DEF Skips, PurposeInv
  <2>3. Toward' = Toward /\ Working /\ Working' /\ job.at = "drain"
    BY <2>1, <2>2 DEF Kept
  <2> HIDE DEF Toward
  <2>4. MachineInv' /\ LeaseInv'
    BY <1>1, <1>q, <2>1, <2>2, <2>3 DEF Kept, MachineInv, LeaseInv, Obeys
  <2>5. PurposeInv'
    BY <1>1, <1>q, <2>1, <2>2, <2>3 DEF Kept, PurposeInv
  <2>6. OwnerInv'
    BY <1>1, <1>q, <2>1, <2>2, <2>3 DEF Kept, OwnerInv
  <2>7. SavedInv' /\ ChangeInv'
    BY <1>1, <1>q, <2>1, <2>2, <2>3 DEF Kept, SavedInv, ChangeInv, Exists
  <2>8. GoneInv'
    BY <1>1, <1>q, <2>1, <2>2, <2>3 DEF Kept, GoneInv
  <2>9. ServiceInv'
    BY <1>1, <1>q, <2>1, <2>2, <2>3 DEF Kept, ServiceInv, Controlled, AskedToRestart
  <2>10. WantedInv'
    BY <1>1, <1>q, <2>1, <2>2, <2>3 DEF Kept, WantedInv, Creds
  <2>11. TunnelInv'
    BY <1>1, <1>q, <2>1, <2>2, <2>3 DEF Kept, TunnelInv, Provided, Found, KeptProfile
  <2> QED BY <2>4, <2>5, <2>6, <2>7, <2>8, <2>9, <2>10, <2>11
<1>2. ASSUME Loaded, Obeys, ~daemon.turn, daemon' = Drained,
            job' = [job EXCEPT !.at = IF job.op = "idle" THEN "release" ELSE "bootout", !.lease = daemon.born]
     PROVE  SetupInv'
  <2>1. /\ job'.at = (IF job.op = "idle" THEN "release" ELSE "bootout") /\ job'.lease = daemon.born
       /\ job'.then = job.then /\ job'.op = job.op /\ job'.using = job.using /\ job'.opt = job.opt
       /\ job'.old = job.old /\ job'.new = job.new /\ job'.before = job.before
       /\ job'.changed = job.changed /\ job'.checkpoint = job.checkpoint /\ job'.why = job.why
    BY <1>2, <1>t DEF JobTyped, Job
  <2>2. SameDaemon /\ ~daemon'.accepting /\ daemon.born \in Nat
    BY <1>2, DrainedIs, ServicesAssumption DEF SetupTyped, DaemonTyped
  <2>3. saved.owner = "terminal" \/ job.op = "idle"
    BY <1>s, <1>2 DEF MachineInv
  <2>4. MachineInv' /\ LeaseInv'
    BY <1>2, <1>q, <1>o, <2>1, <2>2, <2>3 DEF Drain, SameDaemon, MachineInv, LeaseInv, Obeys, PurposeInv
  <2>5. PurposeInv'
    BY <1>2, <1>q, <1>o, <2>1, <2>2, <2>3 DEF Drain, SameDaemon, PurposeInv
  <2>6. OwnerInv'
    BY <1>2, <1>q, <1>o, <2>1, <2>2, <2>3 DEF Drain, SameDaemon, OwnerInv, PurposeInv
  <2>7. SavedInv' /\ ChangeInv'
    BY <1>2, <1>q, <1>o, <2>1, <2>2, <2>3 DEF Drain, SameDaemon, SavedInv, ChangeInv, Exists, PurposeInv
  <2>8. GoneInv'
    BY <1>2, <1>q, <1>o, <2>1, <2>2, <2>3 DEF Drain, SameDaemon, GoneInv, PurposeInv
  <2>9. ServiceInv'
    BY <1>2, <1>q, <1>o, <2>1, <2>2, <2>3 DEF Drain, SameDaemon, ServiceInv, Controlled, AskedToRestart, PurposeInv
  <2>10. WantedInv'
    BY <1>2, <1>q, <1>o, <2>1, <2>2, <2>3 DEF Drain, SameDaemon, WantedInv, Creds, PurposeInv
  <2>11. TunnelInv'
    BY <1>2, <1>q, <1>o, <2>1, <2>2, <2>3 DEF Drain, SameDaemon, TunnelInv, Provided, Found, KeptProfile, PurposeInv
  <2> QED BY <2>4, <2>5, <2>6, <2>7, <2>8, <2>9, <2>10, <2>11
<1>3. CASE Compensates("busy") /\ daemon' = Drained /\ Obeys
  <2>1. job'.at = "undrain" /\ Kept
    BY <1>3, <1>t, CompensatesIs DEF Drain
  <2>2. MachineInv'
    BY <1>3, <1>q, <2>1, DrainedIs DEF Drain, MachineInv, SameDaemon, SetupTyped
  <2>3. LeaseInv'
    BY <1>3, <1>q, <2>1, DrainedIs DEF Drain, LeaseInv, Obeys, SameDaemon, Kept, SetupTyped
  <2> QED BY <1>q, <2>1, <2>2, <2>3, Halts DEF Drain
<1>4. CASE ~Obeys /\ Compensates(IF daemon.up THEN "unproven" ELSE "down") /\ UNCHANGED daemon
  <2>1. job'.at = "undrain" /\ Kept
    BY <1>4, <1>t, CompensatesIs DEF Drain
  <2>2. MachineInv'
    BY <1>4, <1>q, <2>1, DrainedIs DEF Drain, MachineInv, SameDaemon, SetupTyped
  <2>3. LeaseInv'
    BY <1>4, <1>q, <2>1, DrainedIs DEF Drain, LeaseInv, Obeys, SameDaemon, Kept, SetupTyped
  <2> QED BY <1>q, <2>1, <2>2, <2>3, Halts DEF Drain
<1>5. CASE Obeys /\ daemon' \in {daemon, Drained} /\ Compensates("fault")
  <2>1. job'.at = "undrain" /\ Kept
    BY <1>5, <1>t, CompensatesIs DEF Drain
  <2>2. MachineInv'
    BY <1>5, <1>q, <2>1, DrainedIs DEF Drain, MachineInv, SameDaemon, SetupTyped
  <2>3. LeaseInv'
    BY <1>5, <1>q, <2>1, DrainedIs DEF Drain, LeaseInv, Obeys, SameDaemon, Kept, SetupTyped
  <2> QED BY <1>q, <2>1, <2>2, <2>3, Halts DEF Drain
<1> QED BY <1>1, <1>2, <1>3, <1>4, <1>5 DEF Drain

LEMMA UndrainKeeps == ASSUME SetupTyped, SetupInv, Undrain, UNCHANGED <<route, launcher>> PROVE SetupInv'
<1> USE DEF SetupInv, At, Is, Loaded, Working, Over, Toward, Draining, Early, ForLauncher
<1>t. JobTyped
  BY DEF SetupTyped
<1>q. UNCHANGED <<saved, service, tunnel, route>>
  BY DEF Undrain, machine
<1>1. CASE Obeys /\ Resumes
  <2>1. job'.at = "failed" /\ Kept
    BY <1>1, <1>t, EndsIs DEF Undrain
  <2>2. MachineInv'
    BY <1>1, <1>q, <2>1, ResumesIs DEF Undrain, MachineInv, SameDaemon, SetupTyped
  <2>3. LeaseInv'
    BY <1>1, <1>q, <2>1, ResumesIs DEF Undrain, LeaseInv, Obeys, SameDaemon, Kept, SetupTyped
  <2> QED BY <1>q, <2>1, <2>2, <2>3, Halts DEF Undrain
<1>2. CASE ~Obeys /\ UNCHANGED <<daemon, history>>
  <2>1. job'.at = "failed" /\ Kept
    BY <1>2, <1>t, EndsIs DEF Undrain
  <2>2. MachineInv'
    BY <1>2, <1>q, <2>1, DrainedIs DEF Undrain, MachineInv, SameDaemon, SetupTyped
  <2>3. LeaseInv'
    BY <1>2, <1>q, <2>1, DrainedIs DEF Undrain, LeaseInv, Obeys, SameDaemon, Kept, SetupTyped
  <2> QED BY <1>q, <2>1, <2>2, <2>3, Halts DEF Undrain
<1>3. CASE Obeys /\ Abandons /\ UNCHANGED daemon
  <2>1. job'.at = "failed" /\ Kept
    BY <1>3, <1>t, EndsIs DEF Undrain
  <2>2. MachineInv'
    BY <1>3, <1>q, <2>1, DrainedIs, AbandonsIs DEF Undrain, MachineInv, SameDaemon, SetupTyped
  <2>3. LeaseInv'
    BY <1>3, <1>q, <2>1, DrainedIs, AbandonsIs DEF Undrain, LeaseInv, Obeys, SameDaemon, Kept, SetupTyped
  <2> QED BY <1>q, <2>1, <2>2, <2>3, Halts DEF Undrain
<1> QED BY <1>1, <1>2, <1>3 DEF Undrain

LEMMA GiveBackKeeps == ASSUME SetupTyped, SetupInv, GiveBack, UNCHANGED <<route, launcher>> PROVE SetupInv'
<1> USE DEF SetupInv, At, Is, Loaded, Working, Over, Toward, Draining, Early, ForLauncher
<1>t. JobTyped
  BY DEF SetupTyped
<1>q. UNCHANGED <<saved, service, tunnel, route>>
  BY DEF GiveBack, machine
<1>1. CASE Obeys /\ Resumes
  <2>1. job'.at = "failed" /\ Kept
    BY <1>1, <1>t, EndsIs DEF GiveBack
  <2>2. MachineInv'
    BY <1>1, <1>q, <2>1, ResumesIs DEF GiveBack, MachineInv, SameDaemon, SetupTyped
  <2>3. LeaseInv'
    BY <1>1, <1>q, <2>1, ResumesIs DEF GiveBack, LeaseInv, Obeys, SameDaemon, Kept, SetupTyped
  <2> QED BY <1>q, <2>1, <2>2, <2>3, Halts DEF GiveBack
<1>2. CASE ~Obeys /\ UNCHANGED <<daemon, history>>
  <2>1. job'.at = "failed" /\ Kept
    BY <1>2, <1>t, EndsIs DEF GiveBack
  <2>2. MachineInv'
    BY <1>2, <1>q, <2>1, DrainedIs DEF GiveBack, MachineInv, SameDaemon, SetupTyped
  <2>3. LeaseInv'
    BY <1>2, <1>q, <2>1, DrainedIs DEF GiveBack, LeaseInv, Obeys, SameDaemon, Kept, SetupTyped
  <2> QED BY <1>q, <2>1, <2>2, <2>3, Halts DEF GiveBack
<1>3. CASE Obeys /\ Abandons /\ UNCHANGED daemon
  <2>1. job'.at = "failed" /\ Kept
    BY <1>3, <1>t, EndsIs DEF GiveBack
  <2>2. MachineInv'
    BY <1>3, <1>q, <2>1, DrainedIs, AbandonsIs DEF GiveBack, MachineInv, SameDaemon, SetupTyped
  <2>3. LeaseInv'
    BY <1>3, <1>q, <2>1, DrainedIs, AbandonsIs DEF GiveBack, LeaseInv, Obeys, SameDaemon, Kept, SetupTyped
  <2> QED BY <1>q, <2>1, <2>2, <2>3, Halts DEF GiveBack
<1> QED BY <1>1, <1>2, <1>3 DEF GiveBack

LEMMA ReleaseKeeps == ASSUME SetupTyped, SetupInv, Release, UNCHANGED <<route, launcher>> PROVE SetupInv'
<1> USE DEF SetupInv, At, Is, Loaded, Working, Over, Toward, Draining, Early, ForLauncher
<1>t. JobTyped
  BY DEF SetupTyped
<1>o. job.new.owner \in {"terminal", "launcher"} /\ job.old.owner \in {"terminal", "launcher"}
  BY <1>t, JobFields DEF Config
<1>q. UNCHANGED <<saved, service, tunnel, route>>
  BY DEF Release, machine
<1>1. CASE Goes(job.then) /\ Obeys /\ Resumes
  <2>1. job'.at = job.then /\ job'.why = job.why /\ Kept
    BY <1>1, <1>t, GoesIs
  <2>2. /\ SameDaemon /\ daemon'.accepting
        /\ history'.booted = history.booted /\ history'.abandoned = history.abandoned
        /\ history'.controlled = history.controlled /\ history'.profiled = history.profiled
        /\ service.loaded = "leaving" => daemon.born \in history'.resumed
    BY <1>1, ResumesIs DEF SetupTyped
  <2>3. MachineInv' /\ LeaseInv'
    BY <1>1, <1>q, <1>o, <2>1, <2>2 DEF Release, Kept, MachineInv, LeaseInv, Obeys, SameDaemon, PurposeInv
  <2>4. PurposeInv'
    BY <1>1, <1>q, <1>o, <2>1, <2>2 DEF Release, Kept, PurposeInv, SameDaemon
  <2>5. OwnerInv'
    BY <1>1, <1>q, <1>o, <2>1, <2>2 DEF Release, Kept, OwnerInv, SameDaemon, PurposeInv
  <2>6. SavedInv' /\ ChangeInv'
    BY <1>1, <1>q, <1>o, <2>1, <2>2 DEF Release, Kept, SavedInv, ChangeInv, Exists, SameDaemon, PurposeInv
  <2>7. GoneInv'
    BY <1>1, <1>q, <1>o, <2>1, <2>2 DEF Release, Kept, GoneInv, SameDaemon, PurposeInv
  <2>8. ServiceInv'
    BY <1>1, <1>q, <1>o, <2>1, <2>2 DEF Release, Kept, ServiceInv, Controlled, AskedToRestart, SameDaemon, PurposeInv
  <2>9. WantedInv'
    BY <1>1, <1>q, <1>o, <2>1, <2>2 DEF Release, Kept, WantedInv, Creds, SameDaemon, PurposeInv
  <2>10. TunnelInv'
    BY <1>1, <1>q, <1>o, <2>1, <2>2 DEF Release, Kept, TunnelInv, Provided, Found, KeptProfile, SameDaemon, PurposeInv
  <2> QED BY <2>3, <2>4, <2>5, <2>6, <2>7, <2>8, <2>9, <2>10
<1>2. CASE Ends("down") /\ ~Obeys /\ UNCHANGED <<daemon, history>>
  <2>1. job'.at = "failed" /\ Kept
    BY <1>2, <1>t, EndsIs DEF Release
  <2>2. MachineInv'
    BY <1>2, <1>q, <2>1, DrainedIs DEF Release, MachineInv, SameDaemon, SetupTyped
  <2>3. LeaseInv'
    BY <1>2, <1>q, <2>1, DrainedIs DEF Release, LeaseInv, Obeys, SameDaemon, Kept, SetupTyped
  <2> QED BY <1>q, <2>1, <2>2, <2>3, Halts DEF Release
<1>3. CASE Ends("fault") /\ Obeys /\ Abandons /\ UNCHANGED daemon
  <2>1. job'.at = "failed" /\ Kept
    BY <1>3, <1>t, EndsIs DEF Release
  <2>2. MachineInv'
    BY <1>3, <1>q, <2>1, DrainedIs, AbandonsIs DEF Release, MachineInv, SameDaemon, SetupTyped
  <2>3. LeaseInv'
    BY <1>3, <1>q, <2>1, DrainedIs, AbandonsIs DEF Release, LeaseInv, Obeys, SameDaemon, Kept, SetupTyped
  <2> QED BY <1>q, <2>1, <2>2, <2>3, Halts DEF Release
<1> QED BY <1>1, <1>2, <1>3 DEF Release

LEMMA BootoutKeeps == ASSUME SetupTyped, SetupInv, Bootout, UNCHANGED <<route, launcher>> PROVE SetupInv'
<1> USE DEF SetupInv, At, Is, Loaded, Working, Over, Toward, Draining, Early, ForLauncher
<1>t. JobTyped
  BY DEF SetupTyped
<1>o. job.new.owner \in {"terminal", "launcher"} /\ job.old.owner \in {"terminal", "launcher"}
  BY <1>t, JobFields DEF Config
<1>q. UNCHANGED <<saved, daemon, tunnel, route>>
  BY DEF Bootout, machine
<1>1. ASSUME service' = [service EXCEPT !.loaded = "leaving"], Goes("unload"),
            history' = [history EXCEPT !.booted = job.lease]
     PROVE  SetupInv'
  <2>1. job'.at = "unload" /\ job'.why = job.why /\ Kept
    BY <1>1, <1>t, GoesIs
  <2>2. service'.loaded = "leaving" /\ service'.plist = service.plist /\ service'.args = service.args
    BY <1>1 DEF SetupTyped, ServiceTyped
  <2>3. /\ history'.booted = job.lease /\ history'.abandoned = history.abandoned
       /\ history'.controlled = history.controlled /\ history'.profiled = history.profiled
    BY <1>1 DEF SetupTyped, HistoryTyped
  <2>n. daemon.born \in Nat /\ job.lease \in Nat
    BY <1>t, JobFields, ServicesAssumption DEF SetupTyped, DaemonTyped
  <2>4. MachineInv' /\ LeaseInv'
    BY <1>1, <1>q, <1>o, <2>1, <2>2, <2>3, <2>n DEF Bootout, Kept, MachineInv, LeaseInv, Obeys, OwnerInv, PurposeInv
  <2>5. PurposeInv'
    BY <1>1, <1>q, <1>o, <2>1, <2>2, <2>3 DEF Bootout, Kept, PurposeInv, OwnerInv
  <2>6. OwnerInv'
    BY <1>1, <1>q, <1>o, <2>1, <2>2, <2>3 DEF Bootout, Kept, OwnerInv
  <2>7. SavedInv' /\ ChangeInv'
    BY <1>1, <1>q, <1>o, <2>1, <2>2, <2>3 DEF Bootout, Kept, SavedInv, ChangeInv, Exists, OwnerInv, PurposeInv
  <2>8. GoneInv'
    BY <1>1, <1>q, <1>o, <2>1, <2>2, <2>3 DEF Bootout, Kept, GoneInv, OwnerInv, PurposeInv
  <2>9. ServiceInv'
    BY <1>1, <1>q, <1>o, <2>1, <2>2, <2>3 DEF Bootout, Kept, ServiceInv, Controlled, AskedToRestart, OwnerInv, PurposeInv
  <2>10. WantedInv'
    BY <1>1, <1>q, <1>o, <2>1, <2>2, <2>3 DEF Bootout, Kept, WantedInv, Creds, OwnerInv
  <2>11. TunnelInv'
    BY <1>1, <1>q, <1>o, <2>1, <2>2, <2>3 DEF Bootout, Kept, TunnelInv, Provided, Found, KeptProfile, OwnerInv, PurposeInv
  <2> QED BY <2>4, <2>5, <2>6, <2>7, <2>8, <2>9, <2>10, <2>11
<1>2. CASE Goes("giveback") /\ UNCHANGED <<service, history>>
  <2>1. job'.at = "giveback" /\ Kept
    BY <1>2, <1>t, GoesIs DEF Bootout
  <2>2. MachineInv'
    BY <1>2, <1>q, <2>1, DrainedIs DEF Bootout, MachineInv, SameDaemon, SetupTyped
  <2>3. LeaseInv'
    BY <1>2, <1>q, <2>1, DrainedIs DEF Bootout, LeaseInv, Obeys, SameDaemon, Kept, SetupTyped
  <2> QED BY <1>q, <2>1, <2>2, <2>3, Halts DEF Bootout
<1> QED BY <1>1, <1>2 DEF Bootout

LEMMA WaitUnloadKeeps == ASSUME SetupTyped, SetupInv, WaitUnload, UNCHANGED <<route, launcher>> PROVE SetupInv'
<1> USE DEF SetupInv, At, Is, Loaded, Working, Over, Toward, Draining, Early, ForLauncher
<1>t. JobTyped
  BY DEF SetupTyped
<1>o. job.new.owner \in {"terminal", "launcher"} /\ job.old.owner \in {"terminal", "launcher"}
  BY <1>t, JobFields DEF Config
<1>q. UNCHANGED <<saved, service, daemon, tunnel, history, route>>
  BY DEF WaitUnload, machine
<1>1. CASE ~Loaded /\ job.op = "restart" /\ Goes("start")
  <2>1. job'.at = "start" /\ job'.why = job.why /\ Kept
    BY <1>1, <1>t, GoesIs
  <2>2. MachineInv' /\ LeaseInv'
    BY <1>1, <1>q, <1>o, <2>1 DEF WaitUnload, Kept, MachineInv, LeaseInv, Obeys, PurposeInv
  <2>3. PurposeInv'
    BY <1>1, <1>q, <1>o, <2>1 DEF WaitUnload, Kept, PurposeInv
  <2>4. OwnerInv'
    BY <1>1, <1>q, <1>o, <2>1 DEF WaitUnload, Kept, OwnerInv, PurposeInv
  <2>5. SavedInv' /\ ChangeInv'
    BY <1>1, <1>q, <1>o, <2>1 DEF WaitUnload, Kept, SavedInv, ChangeInv, Exists, PurposeInv
  <2>6. GoneInv'
    BY <1>1, <1>q, <1>o, <2>1 DEF WaitUnload, Kept, GoneInv, PurposeInv
  <2>7. ServiceInv'
    BY <1>1, <1>q, <1>o, <2>1 DEF WaitUnload, Kept, ServiceInv, Controlled, AskedToRestart, PurposeInv
  <2>8. WantedInv'
    BY <1>1, <1>q, <1>o, <2>1 DEF WaitUnload, Kept, WantedInv, Creds, PurposeInv
  <2>9. TunnelInv'
    BY <1>1, <1>q, <1>o, <2>1 DEF WaitUnload, Kept, TunnelInv, Provided, Found, KeptProfile, PurposeInv
  <2> QED BY <2>2, <2>3, <2>4, <2>5, <2>6, <2>7, <2>8, <2>9
<1>2. CASE ~Loaded /\ job.op # "restart" /\ Goes("remove")
  <2>1. job.op = "uninstall"
    BY <1>2, <1>t, JobFields DEF WaitUnload, PurposeInv
  <2>2. job'.at = "remove" /\ job'.why = job.why /\ Kept
    BY <1>2, <1>t, GoesIs
  <2>3. MachineInv' /\ LeaseInv'
    BY <1>2, <1>q, <1>o, <2>1, <2>2 DEF WaitUnload, Kept, MachineInv, LeaseInv, Obeys, PurposeInv
  <2>4. PurposeInv'
    BY <1>2, <1>q, <1>o, <2>1, <2>2 DEF WaitUnload, Kept, PurposeInv
  <2>5. OwnerInv'
    BY <1>2, <1>q, <1>o, <2>1, <2>2 DEF WaitUnload, Kept, OwnerInv, PurposeInv
  <2>6. SavedInv' /\ ChangeInv'
    BY <1>2, <1>q, <1>o, <2>1, <2>2 DEF WaitUnload, Kept, SavedInv, ChangeInv, Exists, PurposeInv
  <2>7. GoneInv'
    BY <1>2, <1>q, <1>o, <2>1, <2>2 DEF WaitUnload, Kept, GoneInv, PurposeInv
  <2>8. ServiceInv'
    BY <1>2, <1>q, <1>o, <2>1, <2>2 DEF WaitUnload, Kept, ServiceInv, Controlled, AskedToRestart, PurposeInv
  <2>9. WantedInv'
    BY <1>2, <1>q, <1>o, <2>1, <2>2 DEF WaitUnload, Kept, WantedInv, Creds, PurposeInv
  <2>10. TunnelInv'
    BY <1>2, <1>q, <1>o, <2>1, <2>2 DEF WaitUnload, Kept, TunnelInv, Provided, Found, KeptProfile, PurposeInv
  <2> QED BY <2>3, <2>4, <2>5, <2>6, <2>7, <2>8, <2>9, <2>10
<1>3. CASE Goes("giveback")
  <2>1. job'.at = "giveback" /\ Kept
    BY <1>3, <1>t, GoesIs DEF WaitUnload
  <2>2. MachineInv'
    BY <1>3, <1>q, <2>1, DrainedIs DEF WaitUnload, MachineInv, SameDaemon, SetupTyped
  <2>3. LeaseInv'
    BY <1>3, <1>q, <2>1, DrainedIs DEF WaitUnload, LeaseInv, Obeys, SameDaemon, Kept, SetupTyped
  <2> QED BY <1>q, <2>1, <2>2, <2>3, Halts DEF WaitUnload
<1> QED BY <1>1, <1>2, <1>3 DEF WaitUnload

LEMMA StartKeeps == ASSUME SetupTyped, SetupInv, Start, UNCHANGED <<route, launcher>> PROVE SetupInv'
<1> USE DEF SetupInv, At, Is, Loaded, Working, Over, Toward, Draining, Early, ForLauncher
<1>t. JobTyped
  BY DEF SetupTyped
<1>o. job.new.owner \in {"terminal", "launcher"} /\ job.old.owner \in {"terminal", "launcher"}
  BY <1>t, JobFields DEF Config
<1>q. UNCHANGED <<saved, daemon, tunnel, history, route>>
  BY DEF Start, machine
<1>1. CASE Bootstraps /\ Goes(job.then)
  <2>1. job.op = "restart" /\ job.then = "proxy" /\ job.at = "start"
    BY DEF Start, PurposeInv
  <2>2. job'.at = "proxy" /\ job'.why = job.why /\ Kept
    BY <1>1, <1>t, <2>1, GoesIs
  <2>3. service'.loaded = "yes" /\ service'.args = service.plist /\ service'.plist = service.plist
    BY <1>1 DEF Bootstraps, SetupTyped, ServiceTyped
  <2>4. ~daemon.up /\ ~ForLauncher /\ saved = job.new
    BY <2>1 DEF GoneInv, MachineInv, OwnerInv, SavedInv
  <2>5. MachineInv' /\ LeaseInv'
    BY <1>1, <1>q, <1>o, <2>1, <2>2, <2>3, <2>4 DEF Start, Kept, MachineInv, LeaseInv, Obeys
  <2>6. PurposeInv'
    BY <1>1, <1>q, <1>o, <2>1, <2>2, <2>3, <2>4 DEF Start, Kept, PurposeInv
  <2>7. OwnerInv'
    BY <1>1, <1>q, <1>o, <2>1, <2>2, <2>3, <2>4 DEF Start, Kept, OwnerInv
  <2>8. SavedInv' /\ ChangeInv'
    BY <1>1, <1>q, <1>o, <2>1, <2>2, <2>3, <2>4 DEF Start, Kept, SavedInv, ChangeInv, Exists
  <2>9. GoneInv'
    BY <1>1, <1>q, <1>o, <2>1, <2>2, <2>3, <2>4 DEF Start, Kept, GoneInv
  <2>10. ServiceInv'
    BY <1>1, <1>q, <1>o, <2>1, <2>2, <2>3, <2>4 DEF Start, Kept, ServiceInv, Controlled, AskedToRestart
  <2>11. WantedInv'
    BY <1>1, <1>q, <1>o, <2>1, <2>2, <2>3, <2>4 DEF Start, Kept, WantedInv, Creds
  <2>12. TunnelInv'
    BY <1>1, <1>q, <1>o, <2>1, <2>2, <2>3, <2>4 DEF Start, Kept, TunnelInv, Provided, Found, KeptProfile
  <2> QED BY <2>5, <2>6, <2>7, <2>8, <2>9, <2>10, <2>11, <2>12
<1>2. CASE Goes("giveback") /\ UNCHANGED service
  <2>1. job'.at = "giveback" /\ Kept
    BY <1>2, <1>t, GoesIs DEF Start
  <2>2. MachineInv'
    BY <1>2, <1>q, <2>1, DrainedIs DEF Start, MachineInv, SameDaemon, SetupTyped
  <2>3. LeaseInv'
    BY <1>2, <1>q, <2>1, DrainedIs DEF Start, LeaseInv, Obeys, SameDaemon, Kept, SetupTyped
  <2> QED BY <1>q, <2>1, <2>2, <2>3, Halts DEF Start
<1> QED BY <1>1, <1>2 DEF Start

LEMMA RemoveKeeps == ASSUME SetupTyped, SetupInv, Remove, UNCHANGED <<route, launcher>> PROVE SetupInv'
<1> USE DEF SetupInv, At, Is, Loaded, Working, Over, Toward, Draining, Early, ForLauncher
<1>t. JobTyped
  BY DEF SetupTyped
<1>o. job.new.owner \in {"terminal", "launcher"} /\ job.old.owner \in {"terminal", "launcher"}
  BY <1>t, JobFields DEF Config
<1>q. UNCHANGED <<saved, daemon, tunnel, history, route>>
  BY DEF Remove, machine
<1>1. CASE Goes(job.then)
  <2>1. job.op = "uninstall" /\ job.then = "own" /\ job.at = "remove"
    BY DEF Remove, PurposeInv
  <2>2. job'.at = "own" /\ job'.why = job.why /\ Kept
    BY <1>1, <1>t, <2>1, GoesIs
  <2>3. service'.loaded = service.loaded /\ service'.args = service.args /\ service'.plist = 0
    BY DEF Remove, SetupTyped, ServiceTyped
  <2>4. MachineInv' /\ LeaseInv'
    BY <1>1, <1>q, <1>o, <2>1, <2>2, <2>3 DEF Remove, Kept, MachineInv, LeaseInv, Obeys
  <2>5. PurposeInv'
    BY <1>1, <1>q, <1>o, <2>1, <2>2, <2>3 DEF Remove, Kept, PurposeInv
  <2>6. OwnerInv'
    BY <1>1, <1>q, <1>o, <2>1, <2>2, <2>3 DEF Remove, Kept, OwnerInv
  <2>7. SavedInv' /\ ChangeInv'
    BY <1>1, <1>q, <1>o, <2>1, <2>2, <2>3 DEF Remove, Kept, SavedInv, ChangeInv, Exists
  <2>8. GoneInv'
    BY <1>1, <1>q, <1>o, <2>1, <2>2, <2>3 DEF Remove, Kept, GoneInv
  <2>9. ServiceInv'
    BY <1>1, <1>q, <1>o, <2>1, <2>2, <2>3 DEF Remove, Kept, ServiceInv, Controlled, AskedToRestart
  <2>10. WantedInv'
    BY <1>1, <1>q, <1>o, <2>1, <2>2, <2>3 DEF Remove, Kept, WantedInv, Creds
  <2>11. TunnelInv'
    BY <1>1, <1>q, <1>o, <2>1, <2>2, <2>3 DEF Remove, Kept, TunnelInv, Provided, Found, KeptProfile
  <2> QED BY <2>4, <2>5, <2>6, <2>7, <2>8, <2>9, <2>10, <2>11
<1> QED BY <1>1 DEF Remove

LEMMA InstallServiceKeeps == ASSUME SetupTyped, SetupInv, InstallService, UNCHANGED <<route, launcher>> PROVE SetupInv'
<1> USE DEF SetupInv, At, Is, Loaded, Working, Over, Toward, Draining, Early, ForLauncher
<1>t. JobTyped
  BY DEF SetupTyped
<1>o. job.new.owner \in {"terminal", "launcher"} /\ job.old.owner \in {"terminal", "launcher"}
  BY <1>t, JobFields DEF Config
<1>q. UNCHANGED <<saved, daemon, tunnel, history, route>>
  BY DEF InstallService, machine
<1>1. CASE Loaded /\ service' = [service EXCEPT !.plist = job.new.release] /\ Goes("restart")
  <2>1. job'.at = "restart" /\ job'.why = job.why /\ Kept
    BY <1>1, <1>t, GoesIs
  <2>2. service'.loaded = service.loaded /\ service'.args = service.args
    BY <1>1 DEF SetupTyped, ServiceTyped
  <2>3. service.loaded \in {"no", "yes", "leaving"}
    BY DEF SetupTyped, ServiceTyped
  <2>4. MachineInv' /\ LeaseInv'
    BY <1>1, <1>q, <1>o, <2>1, <2>2, <2>3 DEF InstallService, Kept, MachineInv, LeaseInv, Obeys, OwnerInv, SavedInv
  <2>5. PurposeInv'
    BY <1>1, <1>q, <1>o, <2>1, <2>2, <2>3 DEF InstallService, Kept, PurposeInv
  <2>6. OwnerInv'
    BY <1>1, <1>q, <1>o, <2>1, <2>2, <2>3 DEF InstallService, Kept, OwnerInv
  <2>7. SavedInv' /\ ChangeInv'
    BY <1>1, <1>q, <1>o, <2>1, <2>2, <2>3 DEF InstallService, Kept, SavedInv, ChangeInv, Exists
  <2>8. GoneInv'
    BY <1>1, <1>q, <1>o, <2>1, <2>2, <2>3 DEF InstallService, Kept, GoneInv, OwnerInv, PurposeInv
  <2>9. ServiceInv'
    BY <1>1, <1>q, <1>o, <2>1, <2>2, <2>3 DEF InstallService, Kept, ServiceInv, Controlled, AskedToRestart, OwnerInv
  <2>10. WantedInv'
    BY <1>1, <1>q, <1>o, <2>1, <2>2, <2>3 DEF InstallService, Kept, WantedInv, Creds
  <2>11. TunnelInv'
    BY <1>1, <1>q, <1>o, <2>1, <2>2, <2>3 DEF InstallService, Kept, TunnelInv, Provided, Found, KeptProfile
  <2> QED BY <2>4, <2>5, <2>6, <2>7, <2>8, <2>9, <2>10, <2>11
<1>2. CASE ~Loaded /\ service' = [[service EXCEPT !.plist = job.new.release] EXCEPT !.loaded = "yes", !.args = job.new.release] /\ Goes("restart")
  <2>1. job'.at = "restart" /\ job'.why = job.why /\ Kept
    BY <1>2, <1>t, GoesIs
  <2>2. service'.loaded = "yes" /\ service'.args = job.new.release
    BY <1>2 DEF SetupTyped, ServiceTyped
  <2>3. service.loaded \in {"no", "yes", "leaving"}
    BY DEF SetupTyped, ServiceTyped
  <2>4. MachineInv' /\ LeaseInv'
    BY <1>2, <1>q, <1>o, <2>1, <2>2, <2>3 DEF InstallService, Kept, MachineInv, LeaseInv, Obeys, OwnerInv, SavedInv
  <2>5. PurposeInv'
    BY <1>2, <1>q, <1>o, <2>1, <2>2, <2>3 DEF InstallService, Kept, PurposeInv
  <2>6. OwnerInv'
    BY <1>2, <1>q, <1>o, <2>1, <2>2, <2>3 DEF InstallService, Kept, OwnerInv
  <2>7. SavedInv' /\ ChangeInv'
    BY <1>2, <1>q, <1>o, <2>1, <2>2, <2>3 DEF InstallService, Kept, SavedInv, ChangeInv, Exists
  <2>8. GoneInv'
    BY <1>2, <1>q, <1>o, <2>1, <2>2, <2>3 DEF InstallService, Kept, GoneInv, OwnerInv, PurposeInv
  <2>9. ServiceInv'
    BY <1>2, <1>q, <1>o, <2>1, <2>2, <2>3 DEF InstallService, Kept, ServiceInv, MachineInv, Controlled, AskedToRestart, OwnerInv
  <2>10. WantedInv'
    BY <1>2, <1>q, <1>o, <2>1, <2>2, <2>3 DEF InstallService, Kept, WantedInv, Creds
  <2>11. TunnelInv'
    BY <1>2, <1>q, <1>o, <2>1, <2>2, <2>3 DEF InstallService, Kept, TunnelInv, Provided, Found, KeptProfile
  <2> QED BY <2>4, <2>5, <2>6, <2>7, <2>8, <2>9, <2>10, <2>11
<1>3. CASE ~Loaded /\ service' = [service EXCEPT !.plist = job.new.release] /\ Ends("fault")
  <2>1. job'.at = "failed" /\ Kept
    BY <1>3, <1>t, EndsIs DEF InstallService
  <2>2. MachineInv'
    BY <1>3, <1>q, <2>1, DrainedIs DEF InstallService, MachineInv, SameDaemon, SetupTyped
  <2>3. LeaseInv'
    BY <1>3, <1>q, <2>1, DrainedIs DEF InstallService, LeaseInv, Obeys, SameDaemon, Kept, SetupTyped
  <2> QED BY <1>q, <2>1, <2>2, <2>3, Halts DEF InstallService
<1> QED BY <1>1, <1>2, <1>3 DEF InstallService

-----------------------------------------------------------------------------
(* What is not the setup's: the machine, the launcher, deaths and repairs. *)

LEMMA MachineKeeps == ASSUME SetupTyped, SetupInv, Machine, UNCHANGED launcher PROVE SetupInv'
<1> USE DEF SetupInv, At, Is, Loaded, Working, Over, Toward, Draining, Early, ForLauncher
<1>q. UNCHANGED <<saved, job, tunnel, route, history, launcher>>
  BY DEF Machine, Serves, DaemonDies, TurnArrives, TurnEnds, Unloads
<1>f. PurposeInv' /\ OwnerInv' /\ SavedInv' /\ ChangeInv' /\ WantedInv' /\ TunnelInv'
  <2>1. PurposeInv' /\ OwnerInv'
    BY <1>q DEF PurposeInv, OwnerInv
  <2>2. SavedInv' /\ ChangeInv'
    BY <1>q DEF SavedInv, ChangeInv
  <2>3. WantedInv' /\ TunnelInv'
    BY <1>q DEF WantedInv, TunnelInv, Provided, Found, KeptProfile, Creds
  <2> QED BY <2>1, <2>2, <2>3
<1>t. JobTyped /\ DaemonTyped /\ ServiceTyped
  BY DEF SetupTyped
<1>n. daemon.born \in Nat /\ job.lease \in Nat
  BY <1>t, JobFields, ServicesAssumption DEF DaemonTyped
<1>1. CASE Serves
  <2>1. /\ service'.loaded = service.loaded /\ service'.args = service.args /\ service'.plist = service.plist
        /\ daemon'.up /\ daemon'.born = daemon.born + 1 /\ daemon'.release = service.args /\ daemon'.config = saved
        /\ daemon'.accepting /\ ~daemon'.turn /\ service.loaded = "yes"
    BY <1>1 DEF Serves, Boots
  <2>2. MachineInv'
    BY <1>q, <2>1 DEF MachineInv
  <2>3. LeaseInv'
    BY <1>q, <1>n, <2>1 DEF LeaseInv
  <2>4. GoneInv' /\ ServiceInv'
    BY <1>q, <2>1 DEF GoneInv, ServiceInv, Controlled, AskedToRestart
  <2> QED BY <1>f, <2>2, <2>3, <2>4
<1>2. CASE DaemonDies
  <2>1. ~daemon'.up /\ daemon'.born = daemon.born /\ ~daemon'.turn /\ UNCHANGED service
    BY <1>2 DEF DaemonDies, NoDaemon
  <2>2. MachineInv'
    BY <1>q, <2>1 DEF MachineInv
  <2>3. LeaseInv'
    BY <1>q, <1>n, <2>1 DEF LeaseInv
  <2>4. GoneInv' /\ ServiceInv'
    BY <1>q, <2>1 DEF GoneInv, ServiceInv, Controlled, AskedToRestart
  <2> QED BY <1>f, <2>2, <2>3, <2>4
<1>3. CASE TurnArrives \/ TurnEnds
  <2>1. /\ daemon'.up = daemon.up /\ daemon'.born = daemon.born /\ daemon'.release = daemon.release /\ daemon'.config = daemon.config
        /\ daemon'.accepting = daemon.accepting /\ UNCHANGED service
        /\ ~daemon'.turn \/ (daemon.up /\ daemon.accepting)
    BY <1>3, <1>t DEF TurnArrives, TurnEnds, DaemonTyped
  <2>2. MachineInv'
    BY <1>q, <2>1 DEF MachineInv
  <2>3. LeaseInv'
    BY <1>q, <1>n, <2>1 DEF LeaseInv, Obeys
  <2>4. GoneInv' /\ ServiceInv'
    BY <1>q, <2>1 DEF GoneInv, ServiceInv, Controlled, AskedToRestart
  <2> QED BY <1>f, <2>2, <2>3, <2>4
<1>4. CASE Unloads
  <2>1. /\ ~daemon'.up /\ daemon'.born = daemon.born /\ ~daemon'.turn
        /\ service.loaded = "leaving" /\ service'.loaded = "no" /\ service'.plist = service.plist /\ service'.args = service.args
    BY <1>4, <1>t DEF Unloads, NoDaemon, ServiceTyped
  <2>2. MachineInv'
    BY <1>q, <2>1 DEF MachineInv
  <2>3. LeaseInv'
    BY <1>q, <1>n, <2>1 DEF LeaseInv
  <2>4. GoneInv' /\ ServiceInv'
    BY <1>q, <2>1 DEF GoneInv, ServiceInv, Controlled, AskedToRestart
  <2> QED BY <1>f, <2>2, <2>3, <2>4
<1> QED BY <1>1, <1>2, <1>3, <1>4 DEF Machine

LEMMA RestoresKeeps == ASSUME SetupTyped, SetupInv, Restores PROVE SetupInv'
<1> USE DEF SetupInv, At, Is, Loaded, Working, Over, Toward, Draining, Early, ForLauncher
<1>t. JobTyped /\ ServiceTyped
  BY DEF SetupTyped
<1>1. /\ job.at = "failed" /\ job'.at = "undone" /\ Kept /\ UNCHANGED <<daemon, history, launcher>>
      /\ saved' = job.checkpoint.saved
  BY <1>t, GoesIs DEF Restores, installation
<1>2. \/ service'.loaded = service.loaded /\ service'.args = service.args
      \/ ~Loaded /\ service'.loaded = "yes" /\ job.checkpoint.saved.owner = "terminal"
  <2>1. \/ service' = [service EXCEPT !.plist = job.checkpoint.plist]
        \/ /\ ~Loaded /\ job.checkpoint.saved.owner = "terminal"
           /\ service' = [plist |-> job.checkpoint.plist, loaded |-> "yes", args |-> job.checkpoint.plist]
    BY Zenon DEF Restores
  <2>2. CASE service' = [service EXCEPT !.plist = job.checkpoint.plist]
    BY <1>t, <2>2 DEF ServiceTyped
  <2>3. CASE /\ ~Loaded /\ job.checkpoint.saved.owner = "terminal"
             /\ service' = [plist |-> job.checkpoint.plist, loaded |-> "yes", args |-> job.checkpoint.plist]
    BY <2>3
  <2> QED BY <2>1, <2>2, <2>3
<1>3. MachineInv'
  BY <1>1, <1>2 DEF MachineInv, OwnerInv
<1>4. LeaseInv'
  BY <1>1, <1>2 DEF LeaseInv, MachineInv, Kept
<1>5. PurposeInv' /\ OwnerInv' /\ SavedInv' /\ ChangeInv' /\ GoneInv'
  <2>1. PurposeInv' /\ OwnerInv'
    BY <1>1 DEF PurposeInv, OwnerInv, Kept
  <2>2. SavedInv' /\ ChangeInv' /\ GoneInv'
    BY <1>1 DEF SavedInv, ChangeInv, GoneInv
  <2> QED BY <2>1, <2>2
<1>6. tunnel'.loaded => tunnel'.runs = tunnel'.profile \/ tunnel'.profile.tid = 0
  <2> DEFINE restored == [tunnel EXCEPT !.plist = job.checkpoint.served, !.profile = job.checkpoint.profile]
  <2>1. tunnel' = restored \/ tunnel' = TunnelStarted(restored)
    BY Zenon DEF Restores
  <2>2. CASE tunnel' = restored
    <3>1. /\ tunnel'.loaded = tunnel.loaded /\ tunnel'.runs = tunnel.runs /\ tunnel'.profile = job.checkpoint.profile
      BY <2>2 DEF SetupTyped, TunnelTyped
    <3>2. tunnel.loaded => tunnel.profile = job.checkpoint.profile
      BY <1>1 DEF TunnelInv, Restores
    <3> QED BY <3>1, <3>2 DEF TunnelInv
  <2>3. CASE tunnel' = TunnelStarted(restored)
    <3>1. tunnel'.runs = restored.profile /\ tunnel'.profile = restored.profile
      BY <2>3 DEF SetupTyped, TunnelTyped, TunnelStarted
    <3> QED BY <3>1
  <2> QED BY <2>1, <2>2, <2>3
<1>7. ServiceInv' /\ WantedInv' /\ TunnelInv'
  BY <1>1, <1>6 DEF ServiceInv, WantedInv, TunnelInv
<1> QED BY <1>7, <1>3, <1>4, <1>5, <1>6

\* A new setup: all that is known of the one before is what it left on the machine.
LEMMA NewJobKeeps ==
  ASSUME SetupTyped, SetupInv, Idle, NEW o \in Option, job' = NewJob(o), UNCHANGED <<machine, route, history>>,
         Is("upgrading")' => saved.owner = "launcher" /\ o.launcher
  PROVE  SetupInv'
<1> USE DEF SetupInv, At, Is, Loaded, Working, Over, Toward, Draining, Early, ForLauncher
<1>t. daemon.born \in Nat
  BY ServicesAssumption DEF SetupTyped, DaemonTyped
<1>q. UNCHANGED <<saved, service, daemon, tunnel, route, history>> /\ job.at \in {"none", "done", "failed", "undone", "dead"}
  BY DEF machine, Idle
<1>1. /\ job'.at = "begin" /\ job'.lease = 0 /\ job'.opt = o /\ job'.why = "none"
      /\ job'.checkpoint.saved = saved /\ job'.checkpoint.served = tunnel.plist /\ job'.checkpoint.profile = tunnel.profile
  BY DEF NewJob, Snapshot
<1>2. MachineInv' /\ LeaseInv'
  BY <1>q, <1>1, <1>t DEF MachineInv, LeaseInv
<1>3. PurposeInv' /\ OwnerInv'
  BY <1>q, <1>1 DEF PurposeInv, OwnerInv
<1>4. SavedInv' /\ ChangeInv' /\ GoneInv'
  BY <1>q, <1>1 DEF SavedInv, ChangeInv, GoneInv
<1>5. ServiceInv' /\ WantedInv' /\ TunnelInv'
  BY <1>q, <1>1 DEF ServiceInv, WantedInv, TunnelInv, Found
<1> QED BY <1>2, <1>3, <1>4, <1>5

\* A setup that dies, alone or with its launcher: what it drained is abandoned.
LEMMA DeadKeeps ==
  ASSUME SetupTyped, SetupInv, job' = [job EXCEPT !.at = "dead"], UNCHANGED <<machine, route>>,
         history'.booted = history.booted, history'.resumed = history.resumed, history.abandoned \subseteq history'.abandoned,
         daemon.up /\ ~daemon.accepting => daemon.born \in history'.abandoned, ~Is("upgrading")'
  PROVE  SetupInv'
<1> USE DEF SetupInv, At, Is, Loaded, Working, Over, Toward, Draining, Early, ForLauncher
<1>q. UNCHANGED <<saved, service, daemon, tunnel, route>>
  BY DEF machine
<1>1. job'.at = "dead" /\ Kept
  BY DEF SetupTyped, JobTyped, Job, Kept
<1>2. MachineInv' /\ LeaseInv'
  BY <1>q, <1>1 DEF MachineInv, LeaseInv, Kept
<1>3. PurposeInv' /\ OwnerInv'
  BY <1>q, <1>1 DEF PurposeInv, OwnerInv, Kept
<1>4. SavedInv' /\ ChangeInv' /\ GoneInv'
  BY <1>1 DEF SavedInv, ChangeInv, GoneInv
<1>5. ServiceInv' /\ WantedInv' /\ TunnelInv'
  BY <1>q, <1>1 DEF ServiceInv, WantedInv, TunnelInv
<1> QED BY <1>2, <1>3, <1>4, <1>5

\* The launcher alone moves: it upgrades only through Upgrade.
LEMMA LauncherKeeps ==
  ASSUME SetupInv, UNCHANGED <<machine, route, job, history>>, Is("upgrading")' => Is("upgrading") PROVE SetupInv'
<1> USE DEF SetupInv, At, Is, Loaded, Working, Over, Toward, Draining, Early, ForLauncher
<1>q. UNCHANGED <<saved, service, daemon, tunnel, route, job, history>>
  BY DEF machine
<1>1. MachineInv' /\ LeaseInv'
  BY <1>q DEF MachineInv, LeaseInv, Obeys
<1>2. PurposeInv' /\ OwnerInv'
  BY <1>q DEF PurposeInv, OwnerInv
<1>3. SavedInv' /\ ChangeInv' /\ GoneInv'
  BY <1>q DEF SavedInv, ChangeInv, GoneInv
<1>4. ServiceInv' /\ WantedInv' /\ TunnelInv'
  <2>1. ServiceInv'
    BY <1>q DEF ServiceInv, Controlled, AskedToRestart
  <2>2. WantedInv' /\ TunnelInv'
    BY <1>q DEF WantedInv, TunnelInv, Provided, Found, KeptProfile, Creds
  <2> QED BY <2>1, <2>2
<1> QED BY <1>1, <1>2, <1>3, <1>4

LEMMA UpgradingOnly ==
  ASSUME LauncherTyped,
         \/ LauncherStep \/ WorkerStep \/ Launch \/ BeginInstall \/ QuitRefused \/ UserQuits \/ WorkerDies \/ LauncherDies
  PROVE  Is("upgrading")' => Is("upgrading")
<1> USE DEF Is, Becomes, LauncherTyped
<1>1. CASE LauncherStep
  BY <1>1 DEF LauncherStep, FindBundle, MoveAside, MoveIn, CheckOnce, Download, Quits
<1>2. CASE WorkerStep
  BY <1>2 DEF WorkerStep, WorkerWaits, WorkerCopies, WorkerMovesAway, WorkerMovesIn, WorkerMovesBack, WorkerLaunches, Launched
<1>3. CASE Launch \/ BeginInstall \/ QuitRefused \/ UserQuits \/ WorkerDies \/ LauncherDies
  BY <1>3 DEF Launch, BeginInstall, QuitRefused, UserQuits, WorkerDies, LauncherDies, Launched
<1> QED BY <1>1, <1>2, <1>3

-----------------------------------------------------------------------------
(* The invariant begins, and every step keeps it.                          *)

LEMMA SetupStepKeeps ==
  ASSUME SetupTyped, SetupInv, SetupStep, UNCHANGED launcher PROVE SetupInv'
<1>1. CASE Begin \/ Probe \/ Login \/ Change \/ Configure \/ Port \/ Save \/ Restart \/ WaitForProxy
  BY <1>1, BeginKeeps, ProbeKeeps, LoginKeeps, ChangeKeeps, ConfigureKeeps, PortKeeps, SaveKeeps, RestartKeeps, WaitForProxyKeeps
<1>2. CASE Provide \/ Retire \/ Unserve \/ Retunnel \/ WaitForTunnel \/ Disown \/ Own \/ Integrate
  BY <1>2, ProvideKeeps, RetireKeeps, UnserveKeeps, RetunnelKeeps, WaitForTunnelKeeps, DisownKeeps, OwnKeeps, IntegrateKeeps
<1>3. CASE ServiceStep /\ UNCHANGED route
  BY <1>3, DrainKeeps, UndrainKeeps, ReleaseKeeps, BootoutKeeps, WaitUnloadKeeps, GiveBackKeeps, StartKeeps, RemoveKeeps,
     InstallServiceKeeps DEF ServiceStep
<1>4. CASE TunnelStep /\ UNCHANGED route
  BY <1>4, ConnectKeeps, DisconnectKeeps, StartTunnelKeeps DEF TunnelStep, ForLauncher
<1> QED BY <1>1, <1>2, <1>3, <1>4 DEF SetupStep

InstallationInv == TypeInv /\ UpdateInv /\ SetupInv

LEMMA InvBegins == ASSUME Init PROVE InstallationInv
<1>1. TypeInv
  BY TypesBegin
<1>s. scenario.loaded => scenario.config.owner = "terminal"
  BY ScenariosAssumption DEF Init
<1>v. scenario.version # 0
  BY ScenariosAssumption DEF Init, Scenario
<1>2. UpdateInv
  BY <1>v DEF Init, InitUpdate, UpdateInv, Off, Is, CancelledIsOver, RuntimeIsWhole, Works, Running
<1>j. /\ job.at = "none" /\ job.lease = 0 /\ job.checkpoint.saved = saved
  BY DEF Init, InitSetup, NewJob, Snapshot
<1>d. /\ daemon.born \in Nat /\ ~daemon.turn
      /\ daemon.up => daemon.accepting /\ daemon.release = service.args /\ Loaded
      /\ saved.owner = "launcher" => ~Loaded
      /\ service.loaded # "leaving"
  BY <1>s, ServicesAssumption DEF Init, InitSetup, NoDaemon, Boots, Loaded
<1>3. SetupInv
  <2> USE DEF At, Is, Working, Over, Toward, Draining, Early, ForLauncher
  <2>1. MachineInv /\ LeaseInv /\ PurposeInv
    BY <1>j, <1>d DEF MachineInv, LeaseInv, PurposeInv
  <2>2. OwnerInv /\ SavedInv /\ ChangeInv /\ GoneInv
    <3>1. ~Is("upgrading")
      BY DEF Init, InitUpdate
    <3>2. OwnerInv
      BY <1>j, <3>1 DEF OwnerInv
    <3> QED BY <1>j, <3>2 DEF SavedInv, ChangeInv, GoneInv
  <2>3. tunnel.loaded => tunnel.runs = tunnel.profile \/ tunnel.profile.tid = 0
    BY DEF Init, InitSetup, NoProfile
  <2>4. ServiceInv /\ WantedInv /\ TunnelInv
    BY <1>j, <2>3 DEF ServiceInv, WantedInv, TunnelInv
  <2> QED BY <2>1, <2>2, <2>4 DEF SetupInv
<1> QED BY <1>1, <1>2, <1>3 DEF InstallationInv

LEMMA InvKept == ASSUME InstallationInv, [Next]_vars PROVE InstallationInv'
<1> USE DEF InstallationInv
<1>t. TypeInv'
  BY TypeStep
<1>a. SetupTyped /\ UpdateTyped /\ LauncherTyped /\ JobTyped
  BY DEF TypeInv, SetupTyped, UpdateTyped
<1>u. ASSUME UNCHANGED installation PROVE UpdateInv'
  BY <1>u DEF installation, UpdateInv, Off, CancelledIsOver, RuntimeIsWhole, ParentAlive, Works, Running, Is
<1>l. ASSUME UNCHANGED installation PROVE UNCHANGED launcher /\ (Is("upgrading")' => Is("upgrading"))
  BY <1>l DEF installation, Is
<1>1. CASE SetupStep /\ UNCHANGED <<installation, scenario>>
  BY <1>1, <1>t, <1>a, <1>u, <1>l, SetupStepKeeps
<1>2. CASE Restores
  BY <1>2, <1>t, <1>a, <1>u, RestoresKeeps DEF Restores
<1>3. CASE StartSetup
  <2>1. Head(scenario.setups) \in Option
    <3>1. scenario.setups \in Seq(Option) /\ Len(scenario.setups) > 0
      BY <1>3 DEF TypeInv, StartSetup, Asked, Scenario
    <3> QED BY <3>1
  <2>2. ~Is("upgrading")'
    BY <1>3 DEF StartSetup, installation, Off, Is
  <2>3. SetupInv'
    BY <1>3, <1>a, <2>1, <2>2, NewJobKeeps DEF StartSetup
  <2> QED BY <1>3, <1>t, <1>u, <2>3 DEF StartSetup
<1>4. CASE SetupDies
  <2>1. /\ history'.booted = history.booted /\ history'.resumed = history.resumed
        /\ history'.abandoned = IF daemon.accepting THEN history.abandoned ELSE history.abandoned \cup {daemon.born}
    BY <1>4, <1>a DEF SetupDies, SetupTyped, HistoryTyped
  <2>2. ~Is("upgrading")'
    BY <1>4 DEF SetupDies, installation, Off, Is
  <2>3. SetupInv'
    BY <1>4, <1>a, <2>1, <2>2, DeadKeeps DEF SetupDies
  <2> QED BY <1>4, <1>t, <1>u, <2>3 DEF SetupDies
<1>5. CASE Machine /\ UNCHANGED <<installation, scenario>>
  BY <1>5, <1>t, <1>a, <1>u, <1>l, MachineKeeps
<1>6. CASE Upgrade
  <2>1. LauncherAction
    BY <1>6 DEF Upgrade, UpgradeBecomes, Is, LauncherAction
  <2>2. CASE saved.owner = "launcher" /\ job' = NewJob(UpgradeOption)
    <3>1. UpgradeOption \in Option /\ UpgradeOption.launcher
      <4>1. saved.mcp \in BOOLEAN /\ launcher.version \in Releases \ {0}
        BY <1>6, <1>a DEF Upgrade, SetupTyped, Config, UpdateInv, Off, Is, LauncherTyped, Versions, Releases
      <4>2. NoOption \in Option
        BY DEF NoOption, Option, Releases, Tunnels
      <4>3. UpgradeOption \in Option
        BY <4>1, <4>2 DEF UpgradeOption, Option
      <4> QED BY <4>2, <4>3 DEF UpgradeOption, Option
    <3> QED BY <1>6, <1>t, <1>a, <2>1, <2>2, <3>1, UpdateStep, NewJobKeeps DEF Upgrade
  <2>3. CASE Becomes("ready") /\ UNCHANGED job
    <3>1. ~Is("upgrading")'
      BY <2>3, <1>a DEF Becomes, Is, LauncherTyped
    <3> QED BY <1>6, <1>t, <1>a, <2>1, <2>3, <3>1, UpdateStep, LauncherKeeps DEF Upgrade
  <2> QED BY <1>6, <2>2, <2>3 DEF Upgrade
<1>7. CASE UpgradeEnds
  <2>1. LauncherAction
    BY <1>7 DEF UpgradeEnds, UpgradeBecomes, Is, LauncherAction
  <2>2. ~Is("upgrading")'
    BY <1>7, <1>a DEF UpgradeEnds, Becomes, Is, LauncherTyped
  <2> QED BY <1>7, <1>t, <1>a, <2>1, <2>2, UpdateStep, LauncherKeeps DEF UpgradeEnds
<1>8. CASE Launchers
  <2>1. UpdateInv'
    BY <1>8, <1>a, LaunchersAre, UpdateStep
  <2>2. CASE UNCHANGED job
    <3>1. Is("upgrading")' => Is("upgrading")
      BY <1>8, <1>a, UpgradingOnly DEF Launchers
    <3> QED BY <1>8, <1>t, <2>1, <2>2, <3>1, LauncherKeeps, LaunchersAre
  <2>3. CASE LauncherDies /\ job' = [job EXCEPT !.at = "dead"] /\ Is("upgrading")
    <3>1. ~Is("upgrading")' /\ UNCHANGED <<machine, route, history>>
      BY <1>8, <2>3, <1>a, LaunchersAre DEF LauncherDies, Becomes, Is, LauncherTyped
    <3>2. ~daemon.up
      BY <2>3 DEF SetupInv, OwnerInv, MachineInv
    <3> QED BY <1>8, <1>t, <1>a, <2>1, <2>3, <3>1, <3>2, DeadKeeps
  <2> QED BY <1>8, <2>2, <2>3, LaunchersAre DEF Died
<1>9. CASE UNCHANGED vars
  BY <1>9, <1>t, <1>u, <1>l, LauncherKeeps DEF vars
<1> QED BY <1>1, <1>2, <1>3, <1>4, <1>5, <1>6, <1>7, <1>8, <1>9 DEF Next, Step

LEMMA InvHolds == Spec => []InstallationInv
<1>1. Init => InstallationInv
  BY InvBegins
<1>2. InstallationInv /\ [Next]_vars => InstallationInv'
  BY InvKept
<1> QED BY <1>1, <1>2, PTL DEF Spec

-----------------------------------------------------------------------------
(* The theorems.                                                           *)

\* Every variable of the setup, the jobs it works on, and the update keeps its type, the bounds on
\* boots and tokens included (setup.ts, service.ts, tunnel.ts, update.cjs).
THEOREM InstallationTypeCorrect == Spec => []TypeOK
<1>1. InstallationInv => TypeOK
  BY TypesAreFlat, UpdateTypesAreFlat DEF InstallationInv, TypeInv, TypeOK
<1> QED BY <1>1, InvHolds, PTL

\* However many setups run one after the other, whatever fails, dies or is restored, and whenever
\* the daemon crashes: a daemon that launchd stops for a setup has no turn, unless it started after
\* the drain or was resumed while launchd stopped it (NoTurnIsCut), and a daemon that refuses turns is
\* one a live setup will resume or boot out, or a resume of it was lost (negotiateDrain,
\* releaseDrainAfterFailure, restartService, uninstallService).
THEOREM SetupsAreSafe == Spec => []SetupIsSafe
<1>1. InstallationInv => SetupIsSafe
  <2>1. InstallationInv => NoTurnIsCut
    BY DEF InstallationInv, SetupInv, MachineInv, LeaseInv, NoTurnIsCut
  <2>2. InstallationInv => DrainsEnd
    BY DEF InstallationInv, SetupInv, LeaseInv, DrainsEnd, At
  <2> QED BY <2>1, <2>2 DEF SetupIsSafe
<1> QED BY <1>1, InvHolds, PTL

\* A setup that reports success has left what config.json says: for a terminal the daemon of that
\* release, loaded and obeying the saved token; for the launcher no launchd job at all; and a tunnel
\* where one is asked for, a terminal's running with its native profile, which is the one of
\* config.json or, where a terminal had its tunnel served already, the one it had (setup.ts: setup).
THEOREM SetupsServe == Spec => []SetupIsServed
<1>1. InstallationInv => SetupIsServed
  <2> SUFFICES ASSUME InstallationInv, At("done"), history.controlled
               PROVE  /\ saved = job.new /\ route = saved.release
                      /\ IF saved.owner = "launcher" THEN ~Loaded /\ service.plist = 0 /\ (saved.mcp => ~tunnel.plist)
                         ELSE Loaded /\ service.args = saved.release /\ Controlled
                      /\ saved.mcp =>
                           /\ tunnel.profile.tid # 0
                           /\ tunnel.profile = ProfileOf(saved) \/ ProfileIsKept \/ (saved.owner = "launcher" /\ ~history.profiled)
                           /\ saved.owner = "terminal" => tunnel.plist /\ tunnel.loaded /\ tunnel.runs = tunnel.profile
                      /\ ~saved.mcp /\ job.old.mcp => ~tunnel.loaded /\ ~tunnel.plist
    BY DEF SetupIsServed
  <2> USE DEF InstallationInv, SetupInv, At, Toward, Draining, ForLauncher
  <2>1. saved = job.new /\ route = saved.release
    BY DEF SavedInv
  <2>2. saved.owner = "launcher" => ~Loaded /\ service.plist = 0
    BY <2>1 DEF GoneInv
  <2>3. saved.owner # "launcher" => Loaded /\ service.args = saved.release /\ Controlled
    BY <2>1 DEF ServiceInv, Loaded
  <2>4. Provided
    BY DEF TunnelInv
  <2>5. saved.owner \in {"terminal", "launcher"}
    BY DEF TypeInv, SetupTyped, Config
  <2> QED BY <2>1, <2>2, <2>3, <2>4, <2>5 DEF Provided, KeptProfile, ProfileIsKept
<1> QED BY <1>1, InvHolds, PTL

\* However often the launcher, the worker and the renames fail: an application is left in its place
\* or moved aside, no worker touches it while the launcher that asked runs, a worker waits only
\* for a launcher that is quitting, and a launcher that started has its runtime (update.cjs,
\* update-worker.cjs, runtime-install.cjs).
THEOREM UpdatesKeep == Spec => [](ApplicationIsKept /\ CancelledIsOver /\ RuntimeIsWhole)
<1>1. InstallationInv => ApplicationIsKept /\ CancelledIsOver /\ RuntimeIsWhole
  BY DEF InstallationInv, UpdateInv, ApplicationIsKept
<1> QED BY <1>1, InvHolds, PTL
==============================================================================
