------------------------------ MODULE TurnTabs ------------------------------
(***************************************************************************)
(* The browser tabs of the launcher and the turns that lease them:         *)
(* BrowserHost in src/launcher/electron/browser-host.cjs, the control      *)
(* server in front of it, and the calls of a browser helper (runExclusive  *)
(* in browser-worker.ts) and of the daemon that owns the helper.           *)
(*                                                                         *)
(* A call is a message that is handled some time after it was sent; its    *)
(* caller may have given up by then.  Calls are handled in the order they  *)
(* were sent in: all callers are on the launcher's machine.  A trace       *)
(* always comes with the same conversation and tools, so beginTurn's       *)
(* checks of a tab's metadata cannot fail here.                            *)
(***************************************************************************)
EXTENDS Naturals, Sequences, FiniteSets, SequencesExt

CONSTANTS Turns,          \* trace ids
          Helpers,        \* pids of browser helpers
          Keys, NoKey,
          KeyOf,          \* conversationKey of a turn
          Scenarios,      \* bound: the configured host, how many tabs it may have, the
                          \* helpers (all but one may die), how often a trace is run, how
                          \* often a cancellation fails and how much happens to the home page
          MaxTabs         \* bound for MAX_BROWSER_TABS

ASSUME TabsAssumption ==
  /\ NoKey \notin Keys /\ KeyOf \in [Turns -> Keys \cup {NoKey}]
  /\ MaxTabs \in Nat \ {0}
  /\ Scenarios \subseteq [host : {"launcher", "roxybrowser"}, room : 1 .. MaxTabs,
       helpers : SUBSET Helpers, attempts : [Turns -> Nat], refusals : Nat, home : Nat]

VARIABLES
  tabs,           \* turnTabs, in order of insertion
  retained,       \* ids of the "ready" tabs, the longest unused first
  closedTurnOwners, userCancelledTurnOwners,   \* trace -> pid, or NoHelper
  cancellations,  \* expiryCancellation of the tabs: what it was started for
  failures,
  external,       \* externalTurns: trace -> pid, or NoHelper
  previews,       \* roxyPreviews
  actions,        \* pendingActions
  manualOperation,
  scenario,
  alive,          \* helpers that run
  turn,           \* of a trace: [stage, helper, attempts]
  wire,           \* calls on their way: [type, trace, helper, from, status]
  heard,          \* what the last attempt's end was told
  closedByUser,   \* history: attempts whose running tab the user closed
  abandoned       \* history: conversations with a turn that failed in the daemon alone

NoHelper == "nobody"
tabVars  == <<tabs, retained, closedTurnOwners, userCancelledTurnOwners>>
leaseVars == <<cancellations, failures>>
externalVars == <<external, previews, actions>>
client   == <<alive, turn, heard>>
history  == <<closedByUser, abandoned>>
fixed    == <<manualOperation, scenario>>
tabsVars == <<tabVars, leaseVars, externalVars, client, wire, history, fixed>>

Status  == {"completed", "failed"}   \* "aborted" is handled as "failed" is
Stages  == {"idle", "starting", "leased", "ending", "over"}
Live(t) == turn[t].stage \in {"starting", "leased", "ending"}

Ids == 1 .. (2 * MaxTabs)
Tab == [id : Ids, trace : Turns, helper : Helpers, status : {"running", "ready", "error"},
        booted : BOOLEAN, lapsed : BOOLEAN, attempt : Nat]   \* attempt: history
Message == [type : {"start", "end"}, trace : Turns, helper : Helpers,
            attempt : Nat,
            status : Status \cup {"fresh", "resume"}]   \* resume: requireRetainedConversation

InitTabs ==
  /\ tabs = <<>> /\ retained = <<>> /\ cancellations = {} /\ failures = 0
  /\ closedTurnOwners = [t \in Turns |-> NoHelper]
  /\ userCancelledTurnOwners = [t \in Turns |-> NoHelper]
  /\ external = [t \in Turns |-> NoHelper] /\ previews = {} /\ actions = {}
  /\ manualOperation = "none" /\ scenario \in Scenarios /\ alive = scenario.helpers
  /\ turn = [t \in Turns |-> [stage |-> "idle", helper |-> NoHelper, attempts |-> 0]]
  /\ wire = <<>> /\ heard = [t \in Turns |-> "nothing"]
  /\ closedByUser = {} /\ abandoned = {}

-----------------------------------------------------------------------------
(* The callers.                                                            *)

\* attempt 0: the daemon calls for a helper that died
Call(type, t, h, attempt, status) ==
  [type |-> type, trace |-> t, helper |-> h, attempt |-> attempt, status |-> status]
Waits(m, stage) == turn[m.trace].stage = stage /\ turn[m.trace].attempts = m.attempt
Moves(t, stage) == turn' = [turn EXCEPT ![t].stage = stage]

\* Turns of one conversation are queued by the worker until the one before has its result.
ConversationFree(t) ==
  KeyOf[t] = NoKey \/ scenario.host # "launcher" \/ \A u \in Turns \ {t} : KeyOf[u] = KeyOf[t] =>
    ~Live(u) \/ u \in abandoned

\* A helper starts an attempt of a turn; the daemon keeps one helper at a time.
Start(t, h, resume) ==
  /\ resume => KeyOf[t] # NoKey /\ \E u \in Turns \ {t} : KeyOf[u] = KeyOf[t] /\ turn[u].stage = "over"
  /\ h \in alive /\ ~Live(t) /\ turn[t].attempts < scenario.attempts[t] /\ ConversationFree(t)
  /\ \A u \in Turns : Live(u) => turn[u].helper = h
  /\ t \notin abandoned   \* bound: such a turn is not tried again
  /\ turn' = [turn EXCEPT ![t] = [stage |-> "starting", helper |-> h, attempts |-> @.attempts + 1]]
  /\ heard' = [heard EXCEPT ![t] = "nothing"]
  /\ wire' = Append(wire, Call("start", t, h, turn[t].attempts + 1, IF resume THEN "resume" ELSE "fresh"))
  /\ UNCHANGED <<tabVars, leaseVars, externalVars, alive, history, fixed>>

\* The browser run is over: terminal status, then the finally block.
Finish(t, status) ==
  /\ turn[t].stage = "leased" /\ Moves(t, "ending")
  /\ wire' = Append(wire, Call("end", t, turn[t].helper, turn[t].attempts, status))
  /\ UNCHANGED <<tabVars, leaseVars, externalVars, alive, heard, history, fixed>>

\* A call that is not answered in time (or, for a start, whose prompt cannot be prepared).
GivesUp(t) ==
  /\ turn[t].stage \in {"starting", "ending"} /\ Moves(t, "over")
  /\ UNCHANGED <<tabVars, leaseVars, externalVars, alive, heard, wire, history, fixed>>

\* abortWithLocalFailure: the daemon has rejected the turn, the helper does not know yet.
Abandon(t) ==
  /\ turn[t].stage \in {"leased", "ending"} /\ t \notin abandoned /\ KeyOf[t] # NoKey
  /\ abandoned' = abandoned \cup {t}
  /\ UNCHANGED <<tabVars, leaseVars, externalVars, client, wire, closedByUser, fixed>>

\* handleExit: the helper died; the daemon rejects its turns and ends them in its place.  When
\* the daemon died with it, nobody does.
HelperDies(h, survived) ==
  LET lost == {t \in Turns : Live(t) /\ turn[t].helper = h}
  IN /\ h \in alive /\ Cardinality(alive) > 1 /\ alive' = alive \ {h}
     /\ turn' = [t \in Turns |-> IF t \in lost THEN [turn[t] EXCEPT !.stage = "over"] ELSE turn[t]]
     /\ wire' = wire \o SetToSeq({Call("end", t, h, 0, "failed") : t \in {u \in lost : survived}})
     /\ UNCHANGED <<tabVars, leaseVars, externalVars, heard, history, fixed>>

-----------------------------------------------------------------------------
(* The tabs.                                                               *)

First(Test(_)) == SelectInSeq(tabs, Test)
TabOf(t)       == First(LAMBDA tab : tab.trace = t)
TabWithId(id)  == First(LAMBDA tab : tab.id = id)
activeTraces   == {tab.trace : tab \in {x \in ToSet(tabs) : x.status = "running"}}
Matches(t)     == {tab \in ToSet(tabs) : tab.status = "ready" /\ KeyOf[tab.trace] = KeyOf[t]}
FreshId        == CHOOSE id \in Ids :
                    /\ \A tab \in ToSet(tabs) : tab.id # id
                    /\ \A c \in cancellations : c.id # id

\* Nobody works on the page of a running tab: its attempt was never told of it, or is over.
Silent(i) == LET at == turn[tabs[i].trace] IN
  tabs[i].status = "running" /\ ~(at.stage = "leased" /\ at.attempts = tabs[i].attempt)

Forget(s, x) == SelectSeq(s, LAMBDA y : y # x)

\* removeTurnTab(tab, abortRunning), of the tab at place i
RemoveTurnTab(i, abortRunning) ==
  /\ tabs' = RemoveAt(tabs, i)
  /\ retained' = Forget(retained, tabs[i].id)
  /\ closedTurnOwners' =
       IF abortRunning /\ tabs[i].status = "running"
       THEN [closedTurnOwners EXCEPT ![tabs[i].trace] = tabs[i].helper] ELSE closedTurnOwners

NewTab(m) == [id |-> FreshId, trace |-> m.trace, helper |-> m.helper, attempt |-> m.attempt, status |-> "running",
                 booted |-> FALSE, lapsed |-> FALSE]

\* createTurnTab, after evictOldestRetainedTurnTab when there are MAX_BROWSER_TABS
MayCreate == Len(tabs) < scenario.room \/ retained # <<>>
\* Mutant: a full browser takes one more tab instead of evicting a retained one.
EvictsNothing(m) == tabs' = Append(tabs, NewTab(m)) /\ UNCHANGED retained
CreateTurnTab(m) ==
  IF Len(tabs) < scenario.room
  THEN tabs' = Append(tabs, NewTab(m)) /\ UNCHANGED retained
  ELSE /\ tabs' = Append(RemoveAt(tabs, TabWithId(Head(retained))), NewTab(m))
       /\ retained' = Tail(retained)

MayTakeOver(i, h) == tabs[i].helper = h \/ tabs[i].helper \notin alive
Reuse(i, m) ==
  /\ tabs' = [tabs EXCEPT ![i] = [@ EXCEPT !.trace = m.trace, !.helper = m.helper, !.attempt = m.attempt, !.status = "running",
               !.lapsed = FALSE, !.booted = (tabs[i].status = "ready") /\ @]]
  /\ retained' = Forget(retained, tabs[i].id)

\* What a start does to its caller, if that still waits.
Hears(m, stage) == IF Waits(m, "starting") THEN Moves(m.trace, stage) ELSE UNCHANGED turn

\* beginTurn: an error leaves the host as it was and ends the attempt.
BeginTurn(m) ==
  LET t == m.trace
      h == m.helper
      same  == TabOf(t)
      exact == First(LAMBDA tab : tab \in Matches(t))
      existing == IF same # 0 /\ tabs[same].status = "running" THEN same
                  ELSE IF KeyOf[t] # NoKey THEN exact ELSE 0
  IN IF \/ manualOperation # "none"
        \/ userCancelledTurnOwners[t] # NoHelper
        \/ KeyOf[t] # NoKey /\ Cardinality(Matches(t)) > 1
        \/ existing # 0 /\ tabs[existing].status = "running" /\ ~MayTakeOver(existing, h)
        \/ existing = 0 /\ (m.status = "resume" \/ ~MayCreate)
     THEN UNCHANGED <<tabs, retained>> /\ Hears(m, "over")
     ELSE Hears(m, "leased") /\ IF existing # 0 THEN Reuse(existing, m) ELSE CreateTurnTab(m)

\* What the answer to an end does to its caller.
Told(m, answer) ==
  IF Waits(m, "ending") THEN heard' = [heard EXCEPT ![m.trace] = answer] /\ Moves(m.trace, "over")
  ELSE UNCHANGED <<heard, turn>>

CancelledByUser(m) == userCancelledTurnOwners[m.trace] = m.helper

\* endTurn
EndTurn(m) ==
  LET t == m.trace
      h == m.helper
      i == TabOf(t)
  IN CASE i = 0 /\ closedTurnOwners[t] = h ->
            /\ closedTurnOwners' = [closedTurnOwners EXCEPT ![t] = NoHelper]
            /\ userCancelledTurnOwners' = [userCancelledTurnOwners EXCEPT ![t] = NoHelper]
            /\ Told(m, IF CancelledByUser(m) THEN "cancelled" ELSE "released")
            /\ UNCHANGED <<tabs, retained>>
       [] IF i = 0 THEN closedTurnOwners[t] # h ELSE tabs[i].helper # h ->
            Told(m, "mismatch") /\ UNCHANGED tabVars
       [] i # 0 /\ tabs[i].helper = h /\ m.status = "completed" /\ KeyOf[t] # NoKey ->
            /\ tabs' = [tabs EXCEPT ![i].status = "ready", ![i].lapsed = FALSE]
            /\ retained' = Append(Forget(retained, tabs[i].id), tabs[i].id)
            /\ Told(m, IF CancelledByUser(m) THEN "cancelled" ELSE "released")
            /\ UNCHANGED <<closedTurnOwners, userCancelledTurnOwners>>
       [] OTHER ->
            /\ RemoveTurnTab(i, FALSE)
            /\ Told(m, "released")
            /\ UNCHANGED userCancelledTurnOwners
\* handle: "start" and "end" of the control server
HandleStart(m) ==
  IF scenario.host = "launcher"
  THEN BeginTurn(m) /\ UNCHANGED <<externalVars, heard, closedTurnOwners, userCancelledTurnOwners>>
  ELSE /\ external' = [external EXCEPT ![m.trace] = m.helper]
       /\ previews' = previews \cup {m.trace}
       /\ Hears(m, "leased")
       /\ UNCHANGED <<actions, heard, tabVars>>
EndExternal(m) ==
  LET t == m.trace
      mine == external[t] = m.helper
  IN /\ external' = IF mine THEN [external EXCEPT ![t] = NoHelper] ELSE external
     /\ actions' = IF mine THEN actions \ {t} ELSE actions
     /\ previews' = IF mine THEN previews \ {t} ELSE previews
     /\ Told(m, IF mine THEN "released" ELSE "mismatch")
     /\ UNCHANGED tabVars
HandleEnd(m) ==
  IF external[m.trace] # NoHelper THEN EndExternal(m)
  ELSE EndTurn(m) /\ UNCHANGED externalVars
Handle ==
  /\ wire # <<>> /\ wire' = Tail(wire)
  /\ IF Head(wire).type = "start" THEN HandleStart(Head(wire)) ELSE HandleEnd(Head(wire))
  /\ UNCHANGED <<leaseVars, alive, history, fixed>>

\* The heartbeat of an external turn fetches a pending action.
HeartbeatExternal(t) ==
  /\ external[t] = turn[t].helper /\ actions' = actions \ {t}
  /\ UNCHANGED <<tabs, external, previews>>
HeartbeatTurn(t) ==
  LET i == TabOf(t)
  IN /\ external[t] = NoHelper /\ i # 0 /\ tabs[i].helper = turn[t].helper
     /\ tabs[i].status = "running" /\ tabs[i].booted
     /\ tabs' = [tabs EXCEPT ![i].lapsed = FALSE] /\ UNCHANGED externalVars
\* sendHeartbeat, of an attempt that has its lease
Heartbeat(t) ==
  /\ turn[t].stage = "leased" /\ (HeartbeatExternal(t) \/ HeartbeatTurn(t))
  /\ UNCHANGED <<retained, closedTurnOwners, userCancelledTurnOwners, leaseVars, client, wire,
                 history, fixed>>

\* requestRoxyAction, on one of the active previews
RequestRoxyAction(t) ==
  /\ t \in previews /\ external[t] # NoHelper /\ actions' = actions \cup {t}
  /\ UNCHANGED <<tabVars, leaseVars, external, previews, client, wire, history, fixed>>

-----------------------------------------------------------------------------
(* What happens to a tab by itself.                                        *)

TabStep == UNCHANGED <<leaseVars, externalVars, client, wire, abandoned, fixed>>

\* bindTurnContents: the page is ChatGPT; its surface cannot be marked; it fails or dies
PageLoads(i) ==
  /\ tabs[i].status = "running" /\ ~tabs[i].booted
  /\ ~Silent(i)
  /\ tabs' = [tabs EXCEPT ![i].booted = TRUE, ![i].lapsed = FALSE]
  /\ UNCHANGED <<retained, closedTurnOwners, userCancelledTurnOwners, closedByUser>> /\ TabStep
MarkingFails(i) ==
  /\ tabs[i].status = "running" /\ tabs[i].booted
  /\ tabs' = [tabs EXCEPT ![i].status = "error"]
  /\ UNCHANGED <<retained, closedTurnOwners, userCancelledTurnOwners, closedByUser>> /\ TabStep
PageDies(i) ==
  RemoveTurnTab(i, TRUE) /\ UNCHANGED <<userCancelledTurnOwners, closedByUser>> /\ TabStep

\* closeTab
CloseTab(i) ==
  LET t == tabs[i].trace running == tabs[i].status = "running"
  IN /\ RemoveTurnTab(i, TRUE)
     /\ userCancelledTurnOwners' =
          IF running THEN [userCancelledTurnOwners EXCEPT ![t] = tabs[i].helper] ELSE userCancelledTurnOwners
     /\ closedByUser' =
          IF running THEN closedByUser \cup {<<t, tabs[i].attempt>>} ELSE closedByUser
     /\ TabStep

\* releaseRetainedConversation
ReleaseRetained(k) ==
  LET gone == {tab.id : tab \in {x \in ToSet(tabs) : x.status = "ready" /\ KeyOf[x.trace] = k}}
  IN /\ gone # {}
     /\ tabs' = SelectSeq(tabs, LAMBDA tab : tab.id \notin gone)
     /\ retained' = SelectSeq(retained, LAMBDA id : id \notin gone)
     /\ UNCHANGED <<closedTurnOwners, userCancelledTurnOwners, closedByUser>> /\ TabStep

\* Time: a retained page outlives its TTL; a page is not ChatGPT by its deadline, or its
\* heartbeats stay out.
Retires(i) == tabs[i].status = "ready" /\ RemoveTurnTab(i, FALSE)
              /\ UNCHANGED <<userCancelledTurnOwners, closedByUser>> /\ TabStep
Lapses(i) ==
  /\ tabs[i].status = "running" /\ ~tabs[i].lapsed
  /\ tabs' = [tabs EXCEPT ![i].lapsed = TRUE]
  /\ UNCHANGED <<retained, closedTurnOwners, userCancelledTurnOwners, closedByUser>> /\ TabStep

\* Mutant: only the heartbeat counts, not the bootstrap deadline.
HeartbeatExpired(i) == tabs[i].status = "running" /\ tabs[i].lapsed /\ tabs[i].booted
\* reapExpiredTurnTabs: one cancellation at a time for an expired running tab, then its answer
Expired(i) == tabs[i].status = "running" /\ tabs[i].lapsed
Reap(i) ==
  /\ Expired(i)
  /\ \A c \in cancellations : c.id # tabs[i].id
  /\ cancellations' = cancellations \cup
       {[id |-> tabs[i].id, trace |-> tabs[i].trace, helper |-> tabs[i].helper]}
  /\ UNCHANGED <<tabVars, failures, externalVars, client, wire, history, fixed>>
\* Mutant: an answered cancellation removes whatever runs in the tab by then.
AnyRunning(i, c) == tabs[i].status = "running"
StillExpired(i, c) ==
  tabs[i].trace = c.trace /\ tabs[i].helper = c.helper /\ tabs[i].status = "running"
Reaped(c) ==
  LET i == TabWithId(c.id)
  IN /\ cancellations' = cancellations \ {c}
     /\ IF i # 0 /\ StillExpired(i, c) THEN RemoveTurnTab(i, TRUE)
        ELSE UNCHANGED <<tabs, retained, closedTurnOwners>>
     /\ UNCHANGED <<userCancelledTurnOwners, failures, externalVars, client, wire, history, fixed>>
CancellationFails(c) ==
  /\ failures < scenario.refusals /\ failures' = failures + 1 /\ cancellations' = cancellations \ {c}
  /\ UNCHANGED <<tabVars, externalVars, client, wire, history, fixed>>

CallerStep == \E t \in Turns :
  \/ \E h \in Helpers, resume \in BOOLEAN : Start(t, h, resume)
  \/ \E status \in Status : Finish(t, status)
  \/ GivesUp(t) \/ Abandon(t) \/ Heartbeat(t) \/ RequestRoxyAction(t)
HelperStep == \E h \in Helpers, survived \in BOOLEAN : HelperDies(h, survived)
PageStep   == \E i \in DOMAIN tabs : PageLoads(i) \/ MarkingFails(i) \/ PageDies(i) \/ CloseTab(i)
ClockStep  == \E i \in DOMAIN tabs : Retires(i) \/ Lapses(i) \/ Reap(i)
ReapStep   == \E c \in cancellations : Reaped(c) \/ CancellationFails(c)
ReleaseStep == \E k \in Keys : ReleaseRetained(k)
TabsNext   == CallerStep \/ HelperStep \/ Handle \/ PageStep \/ ClockStep \/ ReapStep \/ ReleaseStep
=============================================================================
