---------------------------- MODULE TurnSessions ----------------------------
(***************************************************************************)
(* The registry of browser turns: ChatGptTurnSessions in                   *)
(* src/src/adapters/chatgpt-web/turn-execution.ts, and the way a Responses *)
(* request goes through it in index.ts.                                    *)
(*                                                                         *)
(* A request creates at most one session, so a session bears the name of   *)
(* the request that created it.  A session is active until its browser     *)
(* run has a logical result; the run is physically over some time later.   *)
(* Runs of one retained conversation are queued by the browser worker.     *)
(***************************************************************************)
EXTENDS Naturals, Sequences, FiniteSets, Functions, SequencesExt

CONSTANTS Requests,
          Scenarios,      \* bound: the requests that come, and how many controls: cancellations,
                          \* retirements and expiries from outside
          Keys, Threads, Conversations, NoConversation, NoKey,
          KeyOf,          \* the execution key of a request
          SourceOf,       \* the key a compaction request retires first, or NoKey
          ThreadOf,       \* of a key
          TurnOf,         \* of a key: a native turn id; here its age
          ConversationOf, \* of a key
          MaxActive,      \* MAX_CHATGPT_BROWSER_TABS
          MaxEntries,     \* maxEntries
          MaxTombstones   \* Math.max(maxEntries * 4, 256)

ASSUME SessionsAssumption ==
  /\ Scenarios \subseteq [asks : SUBSET Requests, controls : Nat]
  /\ NoConversation \notin Conversations /\ NoKey \notin Keys
  /\ KeyOf \in [Requests -> Keys] /\ SourceOf \in [Requests -> Keys \cup {NoKey}]
  /\ ThreadOf \in [Keys -> Threads] /\ TurnOf \in [Keys -> Nat]
  /\ ConversationOf \in [Keys -> Conversations \cup {NoConversation}]
  /\ MaxActive \in Nat /\ MaxEntries \in Nat
  /\ MaxTombstones \in Nat /\ MaxTombstones >= MaxEntries

VARIABLES
  entries,            \* execution key -> session
  conversationHeads,  \* conversation -> session
  threadHeads,        \* thread -> session
  explicitTombstones, \* keys in order of insertion
  supersededTombstones,
  cleanups,           \* awaited settlements and what they release: [owner, after, releases]
  phase,              \* of a session: unborn, active, refused by the worker, final, failed
  over,               \* sessions whose run is physically over
  cancelled,          \* active sessions whose runtime was told to stop
  attached,           \* sessions that still own their conversation
  queue,              \* conversationTails: the unsettled runs of a conversation
  page,               \* conversations with a retained page
  stage,              \* where a request is
  mine,               \* the session a running request works on (NoSession: none)
  controls            \* bound: how many outside operations may still come

registry == <<entries, conversationHeads, threadHeads, explicitTombstones, supersededTombstones>>
browser  == <<phase, over, queue, page>>
vars == <<registry, cleanups, browser, cancelled, attached, stage, mine, controls>>

NoSession == "no session"
ASSUME NoSessionAssumption == NoSession \notin Requests
IsActive(s) == phase[s] \in {"active", "refused"}
SessionConversation(s) == ConversationOf[KeyOf[s]]

Tombstoned(k) == k \in Range(explicitTombstones) \cup Range(supersededTombstones)

Init ==
  /\ entries = <<>> /\ conversationHeads = <<>> /\ threadHeads = <<>>
  /\ explicitTombstones = <<>> /\ supersededTombstones = <<>>
  /\ cleanups = {}
  /\ phase = [s \in Requests |-> "unborn"]
  /\ over = {} /\ cancelled = {} /\ attached = {} /\ page = {}
  /\ queue = [c \in Conversations |-> <<>>]
  /\ \E s \in Scenarios : /\ stage = [r \in Requests |-> IF r \in s.asks THEN "new" ELSE "done"]
                          /\ controls = s.controls
  /\ mine = [r \in Requests |-> NoSession]

-----------------------------------------------------------------------------
\* A JavaScript Map keeps the place of a key that is set again; the oldest go
\* when there are too many.
Buried(tombstones, ks) ==
  LET all == tombstones \o SetToSeq(ks \ Range(tombstones))
      excess == IF Len(all) > MaxTombstones THEN Len(all) - MaxTombstones ELSE 0
  IN  SubSeq(all, excess + 1, Len(all))

SessionsAt(ks) == {entries[k] : k \in ks}

\* Map.set, and the removal of what is gone
With(f, x, s) == [y \in DOMAIN f \cup {x} |-> IF y = x THEN s ELSE f[y]]
Without(f, gone) == RestrictValues(f, LAMBDA s : s \notin gone)

\* forgetConversationHead of every session under ks: the conversations whose
\* page somebody now has to release.
HeadedBy(sessions) == {c \in DOMAIN conversationHeads : conversationHeads[c] \in sessions}

\* To cancel a run that has its result changes nothing.
Cancel(sessions) == cancelled' = cancelled \cup {s \in sessions : IsActive(s)}

\* Take the sessions under ks out of the registry and cancel them.
Retire(ks) ==
  /\ entries' = Restrict(entries, DOMAIN entries \ ks)
  /\ threadHeads' = Without(threadHeads, SessionsAt(ks))
  /\ conversationHeads' = Without(conversationHeads, SessionsAt(ks))
  /\ Cancel(SessionsAt(ks))

Background == <<"nobody">>

\* What the caller then awaits: the runs, and then the releases.  If nobody
\* awaits it, only the releases matter.
Cleanup(owner, ks) ==
  IF ks = {} \/ (owner = Background /\ HeadedBy(SessionsAt(ks)) = {}) THEN {}
  ELSE {[owner |-> owner, after |-> SessionsAt(ks), releases |-> HeadedBy(SessionsAt(ks))]}

Awaits(owner) == \E d \in cleanups : d.owner = owner
ByRequest(r) == <<"request", r>>
ByKey(k) == <<"key", k>>                    \* retirements
ByConversation(c) == <<"conversation", c>>  \* conversationRetirements

\* Mutant: the session is cancelled when its run is over.
WaitsFirst(k) ==
  IF ~Awaits(ByKey(k)) /\ k \in DOMAIN entries
  THEN /\ entries' = Restrict(entries, DOMAIN entries \ {k})
       /\ threadHeads' = Without(threadHeads, {entries[k]})
       /\ conversationHeads' = Without(conversationHeads, {entries[k]})
       /\ cleanups' = cleanups \cup Cleanup(ByKey(k), {k})
       /\ UNCHANGED cancelled
  ELSE UNCHANGED <<entries, threadHeads, conversationHeads, cancelled, cleanups>>

\* retireAndWait: one retirement per key, joined by whoever comes meanwhile.
RetireAndWait(k) ==
  IF ~Awaits(ByKey(k)) /\ k \in DOMAIN entries
  THEN Retire({k}) /\ cleanups' = cleanups \cup Cleanup(ByKey(k), {k})
  ELSE UNCHANGED <<entries, threadHeads, conversationHeads, cancelled, cleanups>>

-----------------------------------------------------------------------------
(* A request's way to its session, index.ts. *)
Goes(r, from, to) == stage[r] = from /\ stage' = [stage EXCEPT ![r] = to]
tombstones == <<explicitTombstones, supersededTombstones>>

\* A compaction without a retained page retires the response it replaces.
RetireSource(r) ==
  /\ Goes(r, "new", "retiring")
  /\ SourceOf[r] # NoKey
  /\ RetireAndWait(SourceOf[r])
  /\ UNCHANGED <<tombstones, browser, attached, mine, controls>>

Superseded(k) ==
  {j \in DOMAIN entries :
     /\ IsActive(entries[j])
     /\ ThreadOf[KeyOf[entries[j]]] = ThreadOf[k]
     /\ TurnOf[KeyOf[entries[j]]] # TurnOf[k]}

Arrives(r) ==
  \/ stage[r] = "new" /\ SourceOf[r] = NoKey
  \/ stage[r] = "retiring" /\ ~Awaits(ByKey(SourceOf[r]))

\* preemptSupersededThread, up to its first await.
Preempt(r) ==
  LET matches == Superseded(KeyOf[r]) IN
  /\ Arrives(r)
  /\ stage' = [stage EXCEPT ![r] = "preempting"]
  /\ supersededTombstones' = Buried(supersededTombstones, matches)
  /\ Retire(matches)
  /\ cleanups' = cleanups \cup Cleanup(ByRequest(r), matches)
  /\ UNCHANGED <<explicitTombstones, browser, attached, mine, controls>>

\* preemptSupersededThread's awaits and waitForRetirement are over, and
\* getOrCreate comes next: it finds what the steps before left.
Creates(r) ==
  /\ stage[r] = "preempting"
  /\ ~Awaits(ByRequest(r)) /\ ~Awaits(ByKey(KeyOf[r]))

-----------------------------------------------------------------------------
(* getOrCreate *)
Full ==
  \/ Cardinality({k \in DOMAIN entries : IsActive(entries[k])}) >= MaxActive
  \/ Cardinality(DOMAIN entries) >= MaxEntries

Refuse(r) ==
  /\ Creates(r)
  /\ stage' = [stage EXCEPT ![r] = "refused"]
  /\ \/ Tombstoned(KeyOf[r])
     \/ KeyOf[r] \notin DOMAIN entries /\ Full
  /\ UNCHANGED <<registry, cleanups, browser, cancelled, attached, mine, controls>>

Join(r) ==
  /\ Creates(r)
  /\ stage' = [stage EXCEPT ![r] = "running"]
  /\ ~Tombstoned(KeyOf[r]) /\ KeyOf[r] \in DOMAIN entries
  /\ mine' = [mine EXCEPT ![r] = entries[KeyOf[r]]]
  /\ UNCHANGED <<registry, cleanups, browser, cancelled, attached, controls>>

\* activeRuns: the worker refuses a run whose trace, a hash of the key, is
\* still in use.
TraceInUse(k) == \E s \in Requests : KeyOf[s] = k /\ phase[s] = "active"

\* startRuntime gives the run to the worker, which refuses it or lets it wait for
\* the runs of its conversation.
StartRuntime(r) ==
  LET k == KeyOf[r]  own == ConversationOf[k] IN
  /\ phase' = [phase EXCEPT ![r] = IF TraceInUse(k) THEN "refused" ELSE "active"]
  /\ attached' = IF own = NoConversation THEN attached ELSE attached \cup {r}
  /\ queue' = IF own = NoConversation \/ TraceInUse(k) THEN queue ELSE [queue EXCEPT ![own] = Append(@, r)]

Start(r) ==
  LET k == KeyOf[r]  own == ConversationOf[k] IN
  /\ Creates(r)
  /\ stage' = [stage EXCEPT ![r] = "running"]
  /\ ~Tombstoned(k) /\ k \notin DOMAIN entries /\ ~Full
  /\ StartRuntime(r)
  /\ mine' = [mine EXCEPT ![r] = r]
  /\ entries' = With(entries, k, r)
  /\ threadHeads' = With(threadHeads, ThreadOf[k], r)
  /\ conversationHeads' = IF own = NoConversation THEN conversationHeads ELSE With(conversationHeads, own, r)
  /\ UNCHANGED <<tombstones, cleanups, over, page, cancelled, controls>>

-----------------------------------------------------------------------------
(* The browser worker, as far as the registry sees it: runOwned. *)
MaySettle(s) ==
  /\ phase[s] = "active"
  /\ SessionConversation(s) # NoConversation => s = Head(queue[SessionConversation(s)])

\* Mutant: a settled run stays in the queue.
StaysQueued(s) == queue

Dequeued(s) ==
  [c \in Conversations |-> IF c = SessionConversation(s) THEN Tail(queue[c]) ELSE queue[c]]

\* A finished turn leaves its page to the conversation.
SettleFinal(s) ==
  /\ MaySettle(s)
  /\ phase' = [phase EXCEPT ![s] = "final"]
  /\ queue' = Dequeued(s)
  /\ page' = page \cup ({SessionConversation(s)} \ {NoConversation})
  /\ cancelled' = cancelled \ {s}
  /\ UNCHANGED <<registry, cleanups, over, attached, stage, mine, controls>>

\* A failed one closes it, if it got as far as taking it.
SettleFailed(s) ==
  /\ MaySettle(s)
  /\ phase' = [phase EXCEPT ![s] = "failed"]
  /\ queue' = Dequeued(s)
  /\ page' \in {page, page \ {SessionConversation(s)}}
  /\ cancelled' = cancelled \ {s}
  /\ UNCHANGED <<registry, cleanups, over, attached, stage, mine, controls>>

SettleRefused(s) ==
  /\ phase[s] = "refused"
  /\ phase' = [phase EXCEPT ![s] = "failed"]
  /\ over' = over \cup {s}
  /\ cancelled' = cancelled \ {s}
  /\ UNCHANGED <<registry, cleanups, queue, page, attached, stage, mine, controls>>

PhysicallyOver(s) ==
  /\ phase[s] \in {"final", "failed"} /\ s \notin over
  /\ over' = over \cup {s}
  /\ UNCHANGED <<registry, cleanups, phase, queue, page, cancelled, attached, stage, mine, controls>>

\* releaseRetainedConversation waits for every run of the conversation.
Release(d, c) ==
  /\ d.after \subseteq over /\ c \in d.releases /\ queue[c] = <<>>
  /\ page' = page \ {c}
  /\ cleanups' = (cleanups \ {d}) \cup
       (IF d.releases = {c} THEN {} ELSE {[d EXCEPT !.releases = @ \ {c}]})
  /\ UNCHANGED <<registry, phase, over, queue, cancelled, attached, stage, mine, controls>>

CleanupEnds(d) ==
  /\ d.after \subseteq over /\ d.releases = {}
  /\ cleanups' = cleanups \ {d}
  /\ UNCHANGED <<registry, browser, cancelled, attached, stage, mine, controls>>

-----------------------------------------------------------------------------
(* How a request on a session ends, index.ts. *)

Leaves(r) == Goes(r, "running", "done") /\ mine' = [mine EXCEPT ![r] = NoSession]

\* Codex got a tool batch, or the final text.
Answered(r) ==
  /\ Leaves(r)
  /\ phase[mine[r]] \in {"active", "final"}
  /\ UNCHANGED <<registry, cleanups, browser, cancelled, attached, controls>>

\* A failure that a retry would meet again stays in the registry for replay.
FailForGood(r) ==
  /\ Leaves(r)
  /\ phase[mine[r]] # "final"
  /\ Cancel({mine[r]})
  /\ UNCHANGED <<registry, cleanups, browser, attached, controls>>

\* Mutant: whatever session the key has now.
HasSession(r) == KeyOf[r] \in DOMAIN entries

\* retire: only the session the request worked on, not a later one of its key.
StillMine(r) == KeyOf[r] \in DOMAIN entries /\ entries[KeyOf[r]] = mine[r]

\* Any other failure, the client's departure included, retires the session.
Fail(r) ==
  /\ Leaves(r)
  /\ IF StillMine(r)
     THEN Retire({KeyOf[r]}) /\ cleanups' = cleanups \cup Cleanup(Background, {KeyOf[r]})
     ELSE UNCHANGED <<entries, threadHeads, conversationHeads, cancelled, cleanups>>
  /\ UNCHANGED <<tombstones, browser, attached, controls>>

-----------------------------------------------------------------------------
(* What comes from outside: the launcher, Codex's interrupt hook, a closed  *)
(* subagent, a compaction, and time.                                        *)
Control == controls > 0 /\ controls' = controls - 1

CancelExplicitly(ks) ==
  /\ ks # {} /\ Control
  /\ explicitTombstones' = Buried(explicitTombstones, ks)
  /\ Retire(ks)
  /\ UNCHANGED <<supersededTombstones, browser, attached, stage, mine>>

\* Settled sessions of the turn included.
CancelNativeTurn(k) ==
  LET matches == {j \in DOMAIN entries : LET own == KeyOf[entries[j]] IN
                    ThreadOf[own] = ThreadOf[k] /\ TurnOf[own] = TurnOf[k]}
  IN  /\ CancelExplicitly(matches)
      /\ cleanups' = cleanups \cup Cleanup(Background, matches)

CancelTrace(k) ==
  LET matches == {j \in DOMAIN entries : IsActive(entries[j]) /\ KeyOf[entries[j]] = k}
  IN  /\ CancelExplicitly(matches)
      /\ cleanups' = cleanups \cup Cleanup(Background, matches)

\* Each head's page goes when that head's run is over.
CancelAllExplicitly ==
  /\ CancelExplicitly(DOMAIN entries)
  /\ cleanups' = cleanups \cup
       {[owner |-> Background, after |-> {conversationHeads[c]}, releases |-> {c}]
          : c \in DOMAIN conversationHeads}

\* closeConversationAndWait: kept is the set of at most one final session that
\* survives under the key "at", for Codex to fetch after its compaction.
CloseConversation(c, kept, at) ==
  LET matches == {k \in DOMAIN entries : entries[k] \in attached
                                         /\ SessionConversation(entries[k]) = c}
      sessions == SessionsAt(matches)
      stay == Restrict(entries, DOMAIN entries \ matches)
  IN
  /\ ~Awaits(ByConversation(c)) /\ matches # {}
  /\ \A s \in kept : s \in sessions /\ phase[s] = "final"
                     /\ (at \in DOMAIN entries => entries[at] = s)
  /\ Control
  /\ conversationHeads' = Restrict(conversationHeads, DOMAIN conversationHeads \ {c})
  /\ threadHeads' = Without(threadHeads, sessions)
  /\ entries' = IF kept = {} THEN stay ELSE With(stay, at, CHOOSE s \in kept : TRUE)
  /\ Cancel(sessions)
  /\ attached' = attached \ sessions
  /\ cleanups' = cleanups \cup {[owner |-> ByConversation(c), after |-> sessions, releases |-> {c}]}
  /\ UNCHANGED <<tombstones, browser, stage, mine>>

RetireConversation(c) == CloseConversation(c, {}, NoKey)

\* The key of a compacted turn's response is a key of the same native turn.
RetireConversationPreserving(c) ==
  \E s \in Requests, k \in Keys :
    /\ ThreadOf[k] = ThreadOf[KeyOf[s]] /\ TurnOf[k] = TurnOf[KeyOf[s]]
    /\ CloseConversation(c, {s}, k)

\* A closed subagent's thread, by its head.
RetireThread(t) ==
  /\ t \in DOMAIN threadHeads
  /\ \/ /\ threadHeads[t] \in attached
        /\ RetireConversation(SessionConversation(threadHeads[t]))
     \/ /\ threadHeads[t] \notin attached
        /\ Control
        /\ \E k \in DOMAIN entries : entries[k] = threadHeads[t] /\ RetireAndWait(k)
        /\ UNCHANGED <<tombstones, browser, attached, stage, mine>>

\* prune, at the head of every operation and of every look at the health page:
\* a settled session nobody used for the TTL.
Prune(k) ==
  /\ Control
  /\ ~IsActive(entries[k])
  /\ Retire({k})
  /\ cleanups' = cleanups \cup Cleanup(Background, {k})
  /\ UNCHANGED <<tombstones, browser, attached, stage, mine>>

-----------------------------------------------------------------------------
Continues(r) ==
  \/ Preempt(r) \/ Refuse(r) \/ Join(r) \/ Start(r)

Ends(r) == Answered(r) \/ FailForGood(r) \/ Fail(r)

Settles(s) == SettleFinal(s) \/ SettleFailed(s) \/ SettleRefused(s)

Cleans == \E d \in cleanups : CleanupEnds(d) \/ \E c \in Conversations : Release(d, c)

Controls ==
  \/ \E k \in Keys : CancelNativeTurn(k) \/ CancelTrace(k)
  \/ CancelAllExplicitly
  \/ \E c \in Conversations : RetireConversation(c) \/ RetireConversationPreserving(c)
  \/ \E t \in Threads : RetireThread(t)

Next ==
  \/ \E r \in Requests : \/ RetireSource(r) \/ Continues(r) \/ Ends(r)
                         \/ Settles(r) \/ PhysicallyOver(r)
  \/ Cleans \/ Controls
  \/ \E k \in DOMAIN entries : Prune(k)

Spec == Init /\ [][Next]_vars

\* The event loop goes on, and a run that was cancelled or refused settles and
\* is cleaned up.  A live turn has no deadline unless turnTimeoutMs is set: it
\* may work, or hang, for ever.
Stops(s) == (s \in cancelled \/ phase[s] = "refused") /\ Settles(s)

Fairness ==
  /\ \A r \in Requests : WF_vars(stage[r] # "new" /\ Continues(r)) /\ WF_vars(Stops(r) \/ PhysicallyOver(r))
  /\ WF_vars(Cleans)

FairSpec == Spec /\ Fairness

-----------------------------------------------------------------------------
PartialFunctions(D, R) == UNION {[S -> R] : S \in SUBSET D}

Owners == {Background} \cup {ByRequest(r) : r \in Requests} \cup {ByKey(k) : k \in Keys}
            \cup {ByConversation(c) : c \in Conversations}

\* The maps hold sessions, and a conversation's queue its unsettled runs.
TypeOK ==
  /\ entries \in PartialFunctions(Keys, Requests)
  /\ conversationHeads \in PartialFunctions(Conversations, Requests)
  /\ threadHeads \in PartialFunctions(Threads, Requests)
  /\ explicitTombstones \in Seq(Keys) /\ supersededTombstones \in Seq(Keys)
  /\ cleanups \subseteq [owner : Owners, after : SUBSET Requests, releases : SUBSET Conversations]
  /\ phase \in [Requests -> {"unborn", "active", "refused", "final", "failed"}]
  /\ over \subseteq {s \in Requests : phase[s] \in {"final", "failed"}}
  /\ cancelled \subseteq {s \in Requests : IsActive(s)} /\ attached \subseteq Requests
  /\ page \subseteq Conversations
  /\ \A c \in Conversations :
       Range(queue[c]) = {s \in Requests : SessionConversation(s) = c /\ phase[s] = "active"}
  /\ stage \in [Requests -> {"new", "retiring", "preempting", "running", "done", "refused"}]
  /\ mine \in [Requests -> Requests \cup {NoSession}]
  /\ \A r \in Requests : mine[r] # NoSession <=> stage[r] = "running"
  /\ controls \in Nat

\* No map outgrows its bound, whatever is refused, moved or taken back.
Limits ==
  /\ Cardinality({k \in DOMAIN entries : IsActive(entries[k])}) <= MaxActive
  /\ Cardinality(DOMAIN entries) <= MaxEntries
  /\ Len(explicitTombstones) <= MaxTombstones /\ Len(supersededTombstones) <= MaxTombstones

\* A turn that was cancelled or superseded is not running again, whoever
\* retries it and wherever the retry was when the tombstone was put.
DeadStaysDead ==
  \A s \in Requests :
    IsActive(s) /\ KeyOf[s] \in Range(explicitTombstones) \cup Range(supersededTombstones)
      => s \in cancelled

\* A browser turn nobody can reach any more was told to stop.
NoOrphanRun == \A s \in Requests : IsActive(s) => s \in cancelled \cup Range(entries)

\* A request that ends takes nothing away but the session it worked on, not
\* even a later session of its own key.
EndsOnlyItsOwn ==
  \A r \in Requests : Ends(r) =>
    (Range(entries) \ Range(entries')) \cup (cancelled' \ cancelled) \subseteq {mine[r]}

Live(s) == IsActive(s) /\ s \in Range(entries)

\* A request on its way waits for nothing that does not come, except for the
\* end of a live turn of its thread, whose page has to be released first.
InLimbo(r) ==
  /\ stage[r] \in {"retiring", "preempting"}
  /\ ~\E s \in Requests : Live(s) /\ ThreadOf[KeyOf[s]] = ThreadOf[KeyOf[r]]

\* A page whose conversation lost its head does not stay open: it is closed,
\* or finds a new owner, or a live turn holds it.
Abandoned(c) ==
  /\ c \in page /\ c \notin DOMAIN conversationHeads
  /\ ~\E s \in Requests : Live(s) /\ SessionConversation(s) = c

\* The registry speaks the truth: what it gave up is over or told to stop,
\* what it still has is what its requests left it, and it never overflows.
RegistryIsTrue == [][Limits' /\ DeadStaysDead' /\ NoOrphanRun' /\ EndsOnlyItsOwn]_vars

\* Nobody waits for a turn, and no page for an owner, that does not come.
NobodyIsStuck ==
  []<>(/\ \A r \in Requests : ~InLimbo(r)
       /\ \A c \in Conversations : ~Abandoned(c))
=============================================================================
