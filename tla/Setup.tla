-------------------------------- MODULE Setup --------------------------------
(***************************************************************************)
(* setup (setup.ts): the program that brings config.json, the daemon's and *)
(* the tunnel's jobs, the tunnel's native profile and the Codex            *)
(* integration to one configuration.  A terminal install runs the daemon   *)
(* under launchd and saves its configuration first; the launcher saves     *)
(* last and takes the launchd jobs away.                                   *)
(***************************************************************************)
EXTENDS Services

VARIABLE route   \* the release the Codex integration was last installed by

Option == [release : Releases \ {0}, mcp : BOOLEAN, tid : Tunnels, launcher : BOOLEAN, restart : BOOLEAN, login : BOOLEAN]
NoOption == [release |-> 1, mcp |-> FALSE, tid |-> 0, launcher |-> FALSE, restart |-> FALSE, login |-> FALSE]

Steps == {"none", "begin", "probe", "login", "change", "configure", "port", "save", "install", "restart", "proxy",
          "retire", "provide", "unserve", "connect", "disconnect", "serve", "retunnel", "ready", "disown", "own",
          "integrate", "drain", "undrain", "release", "bootout", "unload", "giveback", "start", "remove",
          "done", "failed", "undone", "dead"}
Over == {"none", "done", "failed", "undone", "dead"}
Reasons == {"none", "fault", "busy", "unproven", "down", "refused", "proxy"}

\* captureSetupCheckpoint, of what the launcher restores when its setup fails
Checkpoint == [saved : Config, plist : Releases, served : BOOLEAN, profile : Profile, route : Releases]
Snapshot == [saved |-> saved, plist |-> service.plist, served |-> tunnel.plist, profile |-> tunnel.profile, route |-> route]

Job == [at : Steps, then : Steps, op : {"idle", "restart", "uninstall"}, using : Config, lease : Nat, opt : Option,
        old : Config, new : Config, before : {"absent", "installed", "loaded"}, changed : BOOLEAN, why : Reasons,
        checkpoint : Checkpoint]
NewJob(o) ==
  [at |-> "begin", then |-> "none", op |-> "idle", using |-> NoConfig, lease |-> 0, opt |-> o, old |-> NoConfig,
   new |-> NoConfig, before |-> "absent", changed |-> FALSE, why |-> "none", checkpoint |-> Snapshot]

\* kept: the native profile is still there
InitSetup(c, loaded, kept) ==
  /\ saved = c
  /\ service = [plist |-> IF loaded THEN c.release ELSE 0, loaded |-> IF loaded THEN "yes" ELSE "no",
                args |-> IF loaded THEN c.release ELSE 0]
  /\ daemon = IF loaded THEN Boots(1, c.release, c) ELSE NoDaemon
  /\ tunnel = [plist |-> loaded /\ c.mcp, loaded |-> loaded /\ c.mcp, managed |-> FALSE,
               profile |-> IF c.mcp /\ kept THEN ProfileOf(c) ELSE NoProfile,
               runs |-> IF loaded /\ c.mcp THEN ProfileOf(c) ELSE NoProfile]
  /\ route = c.release
  /\ job = [NewJob(NoOption) EXCEPT !.at = "none"]
  /\ history = [booted |-> 0, resumed |-> {}, abandoned |-> {}, tokens |-> c.token, controlled |-> TRUE, profiled |-> TRUE]

\* the daemon that runs obeys the token that is saved
Controlled == Loaded /\ daemon.up => daemon.config.token = saved.token

\* the native profile, if there is one, is the one of the configuration that is saved
Profiled == tunnel.profile.tid # 0 => tunnel.profile = ProfileOf(saved)

Exists(c) == c.release # 0
Creds == job.opt.tid # 0

Refreshes == job.old.mcp /\ job.new.mcp /\ job.old.release # job.new.release   \* tunnelWorkerRuntimeChanged
Refuses == Ends("refused")

\* baseConfig, and the token of a setup that may restart the daemon
Based ==
  LET fresh == ~Exists(saved) \/ job.opt.restart IN
  [saved EXCEPT !.release = job.opt.release, !.mcp = job.opt.mcp,
                !.owner = IF job.opt.launcher THEN "launcher" ELSE @,
                !.token = IF fresh THEN history.tokens + 1 ELSE @]

\* loadExistingConfig, preflight, and the guards on what launchd runs already
Begin ==
  LET before == IF Loaded THEN "loaded" ELSE IF service.plist # 0 THEN "installed" ELSE "absent"
      jobs == [job EXCEPT !.old = saved, !.new = Based, !.before = before]
      unverified == ~Exists(saved) /\ (Loaded \/ (Based.owner = "launcher" /\ before # "absent"))
      unasked == Based.owner = "launcher" /\ before # "absent" /\ ~job.opt.restart IN
  /\ At("begin") /\ history.tokens < MaxTokens
  /\ history' = [history EXCEPT !.tokens = IF @ < Based.token THEN Based.token ELSE @,
                               !.controlled = Controlled /\ service.loaded # "leaving", !.profiled = Profiled]
  /\ job' = IF unverified \/ unasked THEN [jobs EXCEPT !.at = "failed", !.why = "refused"] ELSE [jobs EXCEPT !.at = "probe"]
  /\ UNCHANGED <<machine, route, budget>>

\* The account's capabilities: the launcher's browser, or a login of its own.
Probe ==
  /\ At("probe")
  /\ IF ~job.opt.login THEN \/ Goes("change") /\ Sound
                            \/ Ends("fault") /\ Faulty
     ELSE /\ Sound
          /\ IF job.new.owner = "launcher" \/ (job.before = "loaded" /\ ~job.opt.restart) THEN Refuses
             ELSE IF job.before = "loaded" THEN Acquire("idle", job.old, "login") ELSE Goes("login")
  /\ UNCHANGED <<machine, route, history>>

Login ==
  /\ At("login")
  /\ \/ Goes("change") /\ Sound
     \/ Ends("fault") /\ Faulty
  /\ UNCHANGED <<machine, route, history>>

Preliminary == Exists(job.old) /\ (job.old # job.new \/ Creds \/ job.opt.login)
Change ==
  /\ At("change")
  /\ IF job.before = "loaded" /\ Preliminary
     THEN IF job.opt.restart THEN Acquire("idle", job.old, "configure") ELSE Refuses
     ELSE Goes("configure")
  /\ UNCHANGED <<machine, route, history, budget>>

\* configureTunnel, and whether the running daemon must change
Configure ==
  LET tid == IF ~job.new.mcp THEN 0 ELSE IF Creds THEN job.opt.tid ELSE IF job.old.mcp THEN job.old.tid ELSE 0
      new == [job.new EXCEPT !.tid = tid]
      changed == Exists(job.old) /\ job.before = "loaded" /\ job.old # new IN
  /\ At("configure")
  /\ \/ job.new.mcp /\ tid = 0 /\ Refuses /\ Sound
     \/ job.new.mcp /\ tid # 0 /\ Ends("fault") /\ Faulty
     \/ /\ job.new.mcp => tid # 0
        /\ job' = [job EXCEPT !.at = "port", !.new = new, !.changed = changed] /\ Sound
  /\ UNCHANGED <<machine, route, history>>

\* assertPortAvailable
Port ==
  /\ At("port")
  /\ \/ Goes(IF job.new.owner = "launcher" THEN "provide" ELSE "save") /\ Sound
     \/ job.before # "loaded" /\ Ends("fault") /\ Faulty
  /\ UNCHANGED <<machine, route, history>>

Save ==
  /\ At("save")
  /\ saved' = job.new /\ Goes("install")
  /\ UNCHANGED <<service, daemon, tunnel, route, budget, history>>

\* Mutant: a daemon that is loaded is left as it is.
RestartSkipped ==
  /\ At("restart") /\ Goes("proxy")
  /\ UNCHANGED <<machine, route, budget, history>>

\* restartService shows the token of the configuration before this setup.
Restart ==
  /\ At("restart")
  /\ IF job.changed /\ job.opt.restart THEN Acquire("restart", job.old, "proxy") ELSE Goes("proxy")
  /\ UNCHANGED <<machine, route, budget, history>>

Ready == daemon.up /\ daemon.accepting /\ daemon.release = job.new.release /\ daemon.config.mcp = job.new.mcp
WaitForProxy ==
  /\ At("proxy")
  /\ \/ Ready /\ Goes("provide")
     \/ ~Ready /\ Ends("proxy")
  /\ UNCHANGED <<machine, route, budget, history>>

Commits == IF job.new.owner = "terminal" THEN "integrate" ELSE IF job.before = "absent" THEN "own" ELSE "disown"

\* A tunnel that is needed no more goes; the one that is needed is made, or left.
Provide ==
  LET launcher == job.new.owner = "launcher"
      missing == tunnel.profile.tid = 0
      served == tunnel.plist \/ tunnel.loaded IN
  /\ At("provide")
  /\ IF ~job.new.mcp THEN IF job.old.mcp THEN Goes("retire") /\ UNCHANGED <<tunnel, budget>>
                          ELSE Goes(Commits) /\ UNCHANGED <<tunnel, budget>>
     ELSE IF launcher THEN LET then == IF missing \/ Refreshes \/ Creds THEN "connect" ELSE Commits IN
                           IF served THEN StopsTunnel(FALSE, then) ELSE Goes(then) /\ UNCHANGED <<tunnel, budget>>
     ELSE /\ UNCHANGED <<tunnel, budget>>
          /\ IF ~tunnel.plist \/ ~tunnel.loaded \/ missing THEN Acquire("idle", job.new, "unserve")
             ELSE IF Refreshes THEN Acquire("idle", job.new, "retunnel") ELSE Goes("ready")
  /\ UNCHANGED <<saved, service, daemon, route, history>>

Retire ==
  /\ At("retire") /\ StopsTunnel(FALSE, Commits)
  /\ UNCHANGED <<saved, service, daemon, route, history>>

Unserve ==
  /\ At("unserve") /\ StopsTunnel(TRUE, "connect")
  /\ UNCHANGED <<saved, service, daemon, route, history>>

Retunnel ==
  /\ At("retunnel") /\ StopsTunnel(TRUE, "serve")
  /\ UNCHANGED <<saved, service, daemon, route, history>>

WaitForTunnel ==
  /\ At("ready")
  /\ \/ tunnel.loaded /\ Goes(Commits) /\ Sound
     \/ Ends("fault") /\ Faulty
  /\ UNCHANGED <<machine, route, history>>

\* The launcher takes over: the daemon's job goes, then the configuration is its own.
Disown ==
  /\ At("disown") /\ Acquire("uninstall", job.old, "own")
  /\ UNCHANGED <<machine, route, budget, history>>

Own ==
  /\ At("own")
  /\ saved' = job.new /\ Goes("integrate")
  /\ UNCHANGED <<service, daemon, tunnel, route, budget, history>>

\* installCodexIntegration is all or nothing (IntegrationJournal).
Integrate ==
  /\ At("integrate")
  /\ \/ route' = job.new.release /\ Goes("done") /\ Sound
     \/ UNCHANGED route /\ Ends("fault") /\ Faulty
  /\ UNCHANGED <<machine, history>>

TunnelStep ==
  \/ Connect
  \/ Disconnect(IF job.new.owner = "launcher" THEN Commits ELSE "serve")
  \/ StartTunnel("serve", "ready")

SetupStep ==
  \/ Begin \/ Probe \/ Login \/ Change \/ Configure \/ Port \/ Save \/ Restart \/ WaitForProxy
  \/ Provide \/ Retire \/ Unserve \/ Retunnel \/ WaitForTunnel \/ Disown \/ Own \/ Integrate
  \/ (ServiceStep \/ TunnelStep) /\ UNCHANGED route

Machine == (Serves \/ DaemonDies \/ TurnArrives \/ TurnEnds \/ Unloads) /\ UNCHANGED route

SetupTypeOK ==
  /\ saved \in Config /\ job \in Job /\ route \in Releases
  /\ service \in [plist : Releases, loaded : {"no", "yes", "leaving"}, args : Releases]
  /\ daemon \in [up : BOOLEAN, born : 0 .. MaxBoots, release : Releases, config : Config, accepting : BOOLEAN, turn : BOOLEAN]
  /\ tunnel \in [plist : BOOLEAN, loaded : BOOLEAN, managed : BOOLEAN, profile : Profile, runs : Profile]
  /\ history \in [booted : Nat, resumed : SUBSET (0 .. MaxBoots), abandoned : SUBSET (0 .. MaxBoots),
                tokens : 0 .. MaxTokens, controlled : BOOLEAN, profiled : BOOLEAN]

-----------------------------------------------------------------------------
(* What a setup promises.                                                  *)

\* A daemon that launchd stops for a setup has no turn: it was drained, and found idle, before it was
\* booted out (negotiateDrain, restartService, uninstallService).  There are two exceptions.  Nothing
\* looks at the daemon again between the drain and the bootout: one that died there may be up again,
\* and at work.  And one that launchd was too slow to stop is given its drain back: it takes turns
\* until launchd has stopped it.
NoTurnIsCut ==
  service.loaded = "leaving" /\ daemon.turn => daemon.born > history.booted \/ daemon.born \in history.resumed

\* The daemon that drains is drained by a setup that will resume it or boot it out, unless a resume
\* was lost (releaseDrainAfterFailure tells of it) or the setup died.
DrainsEnd ==
  daemon.up /\ ~daemon.accepting =>
    job.at \in {"undrain", "release", "bootout", "unload", "giveback"} \/ service.loaded = "leaving"
      \/ daemon.born \in history.abandoned

\* What a setup may do to the daemon's turns while it works.
SetupIsSafe == NoTurnIsCut /\ DrainsEnd

\* A tunnel that a terminal's setup finds served goes on with the profile it has, however the tunnel id,
\* the key or the release changes: it is at most started again.
ProfileIsKept == saved.owner = "terminal" /\ job.checkpoint.served /\ tunnel.profile = job.checkpoint.profile

\* A setup that says it is done: what runs is what config.json says, and the daemon obeys it; the tunnel
\* of a terminal runs with the native profile, and the profile is the one of config.json, or the one
\* the setup found (ProfileIsKept, hazards).  What
\* an earlier setup that failed or died half way left behind is not found out (hazards): a daemon
\* with a token that is not saved, a job that launchd still unloads, and, for the launcher, a native profile
\* of another configuration.
SetupIsServed ==
  At("done") /\ history.controlled =>
    /\ saved = job.new /\ route = saved.release
    /\ IF saved.owner = "launcher" THEN ~Loaded /\ service.plist = 0 /\ (saved.mcp => ~tunnel.plist)
       ELSE Loaded /\ service.args = saved.release /\ Controlled
    /\ saved.mcp => /\ tunnel.profile.tid # 0
                    /\ tunnel.profile = ProfileOf(saved) \/ ProfileIsKept \/ (saved.owner = "launcher" /\ ~history.profiled)
                    /\ saved.owner = "terminal" => tunnel.plist /\ tunnel.loaded /\ tunnel.runs = tunnel.profile
    /\ ~saved.mcp /\ job.old.mcp => ~tunnel.loaded /\ ~tunnel.plist

=============================================================================
