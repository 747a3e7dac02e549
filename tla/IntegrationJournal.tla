-------------------------- MODULE IntegrationJournal --------------------------
(***************************************************************************)
(* How AsterBridge switches Codex's config.toml to its own route and back  *)
(* (src/src/codex-integration*.ts).  An operation rewrites several files,  *)
(* each atomically, one after the other: the recovery journal (intent),    *)
(* the model catalog, the config, the primary journal (commit), the models *)
(* cache.  A write may fail, and then every file is restored in reverse    *)
(* order; the process may stop between any two writes.  The next           *)
(* operation's readJournal has to make sense of what is on the disk.       *)
(*                                                                         *)
(* The config is what it assigns to the keys AsterBridge manages: `url`    *)
(* stands for openai_base_url with the feature flag and the interrupt hook *)
(* that are written and verified with it, `managed` says whether           *)
(* model_catalog_json is the managed one.  Journals have today's version   *)
(* 10; the migrations from older ones are left out.                        *)
(***************************************************************************)
EXTENDS Sequences, Naturals

CONSTANTS Baselines,   \* routings a user may have
          Routed,      \* those of them that set openai_base_url
          Empty,       \* the routing of an empty config
          Cataloged,   \* those that name a model catalog of the user's
          Routes,      \* routes of AsterBridge, one per configured port
          Catalogs,    \* contents of the model catalog, named by their sha256
          CrashIn,     \* operations during which the process may stop
          MaxCrashes, MaxFaults, MaxEdits,  \* bounds on what may go wrong
          Missing      \* no such file

ASSUME JournalAssumption ==
    /\ Routed \subseteq Baselines /\ Cataloged \subseteq Baselines
    /\ Empty \in Baselines \ (Routed \cup Cataloged)
    /\ Baselines \cap Routes = {}
    /\ {MaxCrashes, MaxFaults, MaxEdits} \subseteq Nat

VARIABLES
  disk,      \* the files
  op,        \* the operation that runs
  own,       \* history: the user's own config, as it was or was last edited
  clean,     \* history: no stop and no edit since an operation completed
  stopped,   \* history: operations in which the process stopped
  unrestored, \* history: a rollback could not restore a file, which it reports
  crashes, faults, edits

vars == <<disk, op, own, clean, stopped, unrestored, crashes, faults, edits>>

Idle == [name |-> "idle"]   \* no operation runs

Text(url, managed) == [url |-> url, managed |-> managed]

Configs  == [url : Baselines \cup Routes, managed : BOOLEAN]
Journals == [active : BOOLEAN, route : Routes, previous : Configs, catalog : Catalogs]

ASSUME MissingAssumption == Missing \notin Configs \cup Journals \cup Catalogs

Disk == [config   : Configs \cup {Missing},
         catalog  : Catalogs \cup {Missing},
         primary  : Journals \cup {Missing},
         recovery : Journals \cup {Missing},
         cache    : BOOLEAN]

Init ==
  /\ \E b \in Baselines : own = Text(b, FALSE)
  /\ disk \in {[config |-> c, catalog |-> Missing, primary |-> Missing,
                recovery |-> Missing, cache |-> TRUE] :
                c \in {own} \cup (IF own.url = Empty THEN {Missing} ELSE {})}
  /\ op = Idle
  /\ clean = TRUE /\ stopped = {} /\ unrestored = FALSE
  /\ crashes = 0 /\ faults = 0 /\ edits = 0

-----------------------------------------------------------------------------
(* Reading the journals.                                                    *)

Installed(j) == disk.config = Text(j.route, TRUE)   \* verifyInstalledRoute
Restored(j)  == disk.config = j.previous            \* verifyRestoredRoute
CatalogOf(j) == disk.catalog = j.catalog            \* verifyManagedCatalog

\* Mutant: the catalog is not compared.
MatchesRoute(j) == IF j.active THEN Installed(j) ELSE Restored(j)

\* verifyManagedJournalState, journalMatchesConfig
Matches(j) == IF j.active THEN Installed(j) /\ CatalogOf(j) ELSE Restored(j)

\* The journals readJournal may return when the copies differ: the primary if
\* there is no recovery copy, the recovery copy alone if it matches the config,
\* and of two copies the only one that matches.  It throws if there is none.
Selected ==
  LET copies == {disk.primary, disk.recovery} \ {Missing}
      matching == {j \in copies : Matches(j)}
  IN IF disk.recovery = Missing THEN copies
     ELSE IF \A j, k \in matching : j = k THEN matching ELSE {}

Agreed == disk.primary = disk.recovery

Resolved == Agreed \/ Selected # {}

\* readJournal writes the journal it selected to both paths.  One of the two
\* writes changes nothing, so the repair is one step; a stop before it leaves
\* the disk as it was.
Reconcile ==
  /\ op = Idle /\ ~Agreed
  /\ \E j \in Selected : disk' = [disk EXCEPT !.primary = j, !.recovery = j]
  /\ UNCHANGED <<op, own, clean, stopped, unrestored, crashes, faults, edits>>

-----------------------------------------------------------------------------
(* Operations.  Each begins with readJournal, hence with journals that agree.*)

W(file, data) == [file |-> file, data |-> data]

Begin(name, writes) ==
  /\ op' = [name |-> name, writes |-> writes, before |-> disk, at |-> 1, undo |-> FALSE]
  /\ UNCHANGED <<disk, own, clean, stopped, unrestored, crashes, faults, edits>>

\* Mutant: the intent is recorded after the config was switched.
IntentLast(j, catalog, config) ==
  catalog \o config \o <<W("recovery", j), W("primary", j), W("cache", FALSE)>>

\* writeIntegrationState
StateWrites(j, catalog, config) ==
  <<W("recovery", j)>> \o catalog \o config \o <<W("primary", j), W("cache", FALSE)>>

Ready == op = Idle /\ Agreed

\* The config of the user that install starts from, or none if it refuses:
\* without a journal the present one; with a journal that matches, the one the
\* journal restores; otherwise, on request, what the user has made of it.
CurrentText == IF disk.config = Missing THEN Text(Empty, FALSE) ELSE disk.config

ReplacementBaseline(j) ==
  IF disk.config = Missing \/ ~j.active THEN {CurrentText}
  ELSE IF CatalogOf(j) /\ disk.config.managed
    THEN {Text(IF disk.config.url = j.route THEN j.previous.url ELSE disk.config.url,
               j.previous.managed)}
    ELSE {}

InstallBaseline(replace) ==
  LET j == disk.primary IN
  IF j = Missing
    THEN IF CurrentText.url \in Baselines \ Routed \/ replace THEN {CurrentText} ELSE {}
  ELSE IF disk.config # Missing /\ Matches(j) THEN {j.previous}
  ELSE IF replace THEN ReplacementBaseline(j) ELSE {}

\* buildManagedCodexModelCatalog finds a source: the user's own catalog, the
\* models cache, the managed catalog if it is the one the journal knows, or,
\* where there is none, the one bundled with Codex.
CatalogSource(b) ==
  (b.url \notin Cataloged /\ ~disk.cache /\ Missing \notin {disk.primary, disk.catalog})
    => CatalogOf(disk.primary)

Install(r, c, replace) ==
  /\ Ready
  /\ \E b \in InstallBaseline(replace) :
       /\ CatalogSource(b)
       /\ LET j == [active |-> TRUE, route |-> r, previous |-> b, catalog |-> c]
          IN Begin("install", StateWrites(j, <<W("catalog", c)>>, <<W("config", Text(r, TRUE))>>))

Deactivate ==
  /\ Ready /\ disk.primary # Missing /\ disk.config # Missing
  /\ LET j == disk.primary
         disconnected == [j EXCEPT !.active = FALSE]
     IN /\ j.active /\ Installed(j)
        /\ Begin("deactivate", StateWrites(disconnected, <<>>, <<W("config", j.previous)>>))

\* Mutant: the journal takes the refreshed catalog where there is none.
RefreshedCatalog(j, c) == c

ConnectedCatalog(j, c) == IF c = Missing THEN j.catalog ELSE c

\* activateCodexIntegration of an inactive integration; with a configuration
\* (c is a catalog) it refreshes the catalog on the way.
Activate(c) ==
  /\ Ready /\ disk.primary # Missing /\ disk.config # Missing
  /\ LET j == disk.primary
         connected == [j EXCEPT !.active = TRUE, !.catalog = ConnectedCatalog(j, c)]
     IN /\ ~j.active /\ Restored(j) /\ CatalogOf(j)
        /\ Begin("activate",
                 StateWrites(connected,
                             IF c = Missing THEN <<>> ELSE <<W("catalog", c)>>,
                             <<W("config", Text(j.route, TRUE))>>))

\* ... of an active one: refreshActiveManagedCatalog.
Refresh(c) ==
  /\ Ready /\ disk.primary # Missing /\ disk.config # Missing
  /\ LET j == disk.primary
     IN /\ j.active /\ Matches(j)
        /\ c # j.catalog \/ disk.cache
        /\ Begin("refresh",
                 StateWrites([j EXCEPT !.catalog = c],
                             IF c = j.catalog THEN <<>> ELSE <<W("catalog", c)>>, <<>>))

Uninstall ==
  /\ Ready /\ disk.primary # Missing /\ disk.config # Missing
  /\ LET j == disk.primary
     IN /\ IF j.active THEN Installed(j) ELSE Restored(j)
        /\ disk.catalog = Missing \/ CatalogOf(j)
        /\ Begin("uninstall", <<W("config", j.previous), W("catalog", Missing), W("cache", FALSE),
                                W("primary", Missing), W("recovery", Missing)>>)

-----------------------------------------------------------------------------
(* The writes of an operation.                                              *)

Current == op.writes[op.at]

Write ==
  /\ op # Idle /\ ~op.undo
  /\ disk' = [disk EXCEPT ![Current.file] = Current.data]
  /\ IF op.at = Len(op.writes)
       THEN op' = Idle /\ clean' = TRUE
       ELSE op' = [op EXCEPT !.at = @ + 1] /\ UNCHANGED clean
  /\ UNCHANGED <<own, stopped, unrestored, crashes, faults, edits>>

UndoneData == op.before[Current.file]

\* A write throws; the rollback restores every file, the last one first.
WriteFails ==
  /\ op # Idle /\ ~op.undo /\ faults < MaxFaults
  /\ op' = [op EXCEPT !.undo = TRUE, !.at = Len(op.writes)]
  /\ faults' = faults + 1
  /\ UNCHANGED <<disk, own, clean, stopped, unrestored, crashes, edits>>

\* One restore, which may fail and is then passed over.
Undo ==
  /\ op # Idle /\ op.undo
  /\ \/ disk' = [disk EXCEPT ![Current.file] = UndoneData] /\ UNCHANGED <<faults, unrestored>>
     \/ faults < MaxFaults /\ faults' = faults + 1 /\ unrestored' = TRUE /\ UNCHANGED disk
  /\ op' = IF op.at = 1 THEN Idle ELSE [op EXCEPT !.at = @ - 1]
  /\ UNCHANGED <<own, clean, stopped, crashes, edits>>

Crash ==
  /\ op # Idle /\ op.name \in CrashIn /\ crashes < MaxCrashes
  /\ op' = Idle /\ clean' = FALSE /\ crashes' = crashes + 1
  /\ stopped' = stopped \cup {op.name}
  /\ UNCHANGED <<disk, own, unrestored, faults, edits>>

\* Between operations: the user edits or removes the config, Codex rebuilds
\* its models cache.
UserEdits ==
  /\ op = Idle /\ edits < MaxEdits
  /\ \/ \E b \in Baselines, managed \in {FALSE} \cup {CurrentText.managed} :
          /\ disk' = [disk EXCEPT !.config = Text(b, managed)]
          /\ own' = Text(b, FALSE)
     \/ disk' = [disk EXCEPT !.config = Missing] /\ own' = Text(Empty, FALSE)
  /\ edits' = edits + 1 /\ clean' = FALSE
  /\ UNCHANGED <<op, stopped, unrestored, crashes, faults>>

CodexCachesModels ==
  /\ op = Idle /\ ~disk.cache
  /\ disk' = [disk EXCEPT !.cache = TRUE]
  /\ UNCHANGED <<op, own, clean, stopped, unrestored, crashes, faults, edits>>

Next ==
  \/ Reconcile
  \/ \E r \in Routes, c \in Catalogs, replace \in BOOLEAN : Install(r, c, replace)
  \/ Deactivate
  \/ \E c \in Catalogs \cup {Missing} : Activate(c)
  \/ \E c \in Catalogs : Refresh(c)
  \/ Uninstall
  \/ Write \/ WriteFails \/ Undo \/ Crash
  \/ UserEdits \/ CodexCachesModels

Spec == Init /\ [][Next]_vars

-----------------------------------------------------------------------------
TypeOK ==
  /\ disk \in Disk
  /\ op = Idle \/ /\ op.name \in {"install", "deactivate", "activate", "refresh", "uninstall"}
                  /\ op.before \in Disk
                  /\ op.at \in 1..Len(op.writes)
                  /\ op.undo \in BOOLEAN
  /\ own \in Configs
  /\ clean \in BOOLEAN /\ stopped \subseteq CrashIn /\ unrestored \in BOOLEAN
  /\ crashes \in 0..MaxCrashes /\ faults \in 0..MaxFaults /\ edits \in 0..MaxEdits

\* The user's routing is never lost: the config has it, or AsterBridge's route
\* is in the config and a journal on the disk remembers it, at every moment of
\* every operation, rollback, stop and repair (the order of the writes in
\* writeIntegrationState and uninstallCodexIntegration), unless a rollback could
\* not restore a file.
UserConfigKept ==
  disk.config # Missing /\ ~unrestored =>
    /\ disk.config.url \in Baselines /\ ~disk.config.managed => disk.config = own
    /\ disk.config.url \in Routes =>
         \E j \in {disk.primary, disk.recovery} \ {Missing} : j.previous = own

\* Operations are all or nothing, also when a write fails: with no stop and no
\* edit in between, the disk holds a whole installation or none.
AllOrNothing ==
  op = Idle /\ clean /\ ~unrestored =>
    /\ Agreed
    /\ IF disk.primary = Missing
         THEN disk.catalog = Missing /\ disk.config \in {own, Missing}
         ELSE disk.config # Missing /\ Matches(disk.primary) /\ CatalogOf(disk.primary)

\* "If the process stops between those writes, the physical config
\* unambiguously selects the completed state" (codex-integration-shared.ts:311).
StopResolves == op = Idle => Resolved

\* ... and what it selects is a whole installation: inspect reports no error
\* (the test "reconciles either side of a crash ..."), which a stop while
\* connecting with a new catalog does not leave.
StopLeavesNoError ==
  op = Idle => /\ Resolved
               /\ \A j \in (IF Agreed THEN {disk.primary} \ {Missing} ELSE Selected) :
                    Matches(j) /\ CatalogOf(j)

\* No edit, and no rollback that left a file behind.
Undisturbed == op = Idle /\ edits = 0 /\ ~unrestored

\* Stops while connecting, disconnecting and refreshing always resolve.
SwitchResolves ==
  Undisturbed /\ stopped \subseteq {"activate", "deactivate", "refresh"} => Resolved

\* Stops while disconnecting and refreshing leave a whole installation.
DisconnectLeavesNoError ==
  Undisturbed /\ stopped \subseteq {"deactivate", "refresh"} => StopLeavesNoError

\* After such stops AsterBridge can be set up anew, at the latest when Codex
\* has rebuilt its models cache.
SetupRepairs ==
  Undisturbed /\ stopped \subseteq {"activate", "deactivate", "refresh"} /\ Agreed /\ disk.cache
    => \E b \in InstallBaseline(TRUE) : CatalogSource(b)

\* No operation, failure or stop costs the user anything: the routing is
\* kept through every write, and an operation that ends did all or nothing.
NothingIsLost == UserConfigKept /\ AllOrNothing

\* What a stop while switching leaves is understood and can be repaired.
SwitchRecovers == SwitchResolves /\ DisconnectLeavesNoError /\ SetupRepairs
=============================================================================
