------------------------------ MODULE TurnBroker ------------------------------
(***************************************************************************)
(* The turn broker of src/src/adapters/chatgpt-web/turn-broker.ts: the     *)
(* registry through which ChatGPT's MCP calls reach the Codex turn that    *)
(* executes them.  Its handlers run to completion on one JavaScript        *)
(* thread, so each is one action; what interleaves is the order in which   *)
(* the MCP server, the adapter (the turn's owner), the browser, timers and *)
(* deadlines reach it.                                                     *)
(*                                                                         *)
(* A turn stands for its token, its channel and its binding id, which are  *)
(* created together and never reused.  The order of the calls inside one   *)
(* batch, the environment and the payloads are left out; the histories of  *)
(* retired handles only choose the wording of an error.                    *)
(***************************************************************************)
EXTENDS SequencesExt

CONSTANTS Turns,       \* turns, each registered at most once
          External,    \* turns registered over the socket (owner_register)
          Calls,       \* invocation ids, each issued at most once
          Activities,  \* local activity ids, each issued at most once
          Sessions,    \* OpenAI MCP session keys
          Observers,   \* pending nextToolBatch calls of the turns' owners
          Expiring,    \* turns and activities whose deadline may pass
          MaxLosses,   \* bound: how often an owner loses a batch it received
          NoTurn, NoSession, UnknownHandle

ASSUME BrokerAssumption ==
    /\ External \subseteq Turns
    /\ Expiring \subseteq Turns \cup Activities
    /\ NoTurn \notin Turns
    /\ IsFiniteSet(Calls) /\ IsFiniteSet(Activities)
    /\ Turns \cap Activities = {}
    /\ MaxLosses \in Nat
    /\ NoTurn \notin Turns /\ NoSession \notin Sessions
    /\ UnknownHandle \notin Turns

VARIABLES
  phase,      \* per turn: the life of its token in `channels`
  pending,    \* turns that wait for their first claim
  bindings,   \* turns with a binding id in the `bindings` map
  sessionOf,  \* the `sessionBindings` map
  channel,    \* per turn: its TurnChannel
  accepting,  \* acceptingExternalOwners
  closed,     \* close() has run
  lapsed      \* turns and activities whose expiresAt is in the past

brokerVars == <<phase, pending, bindings, sessionOf, channel, accepting, closed, lapsed>>

VARIABLES
  outcome,    \* MCP side: what the promise of each invoke came to
  turnOf,     \* MCP side: the turn each call was issued in
  working,    \* MCP side: the turn an activity's work is still running for
  begun,      \* MCP side: activities that were begun
  granted,    \* MCP side: the live bindings each session was given
  inHand,     \* owner side: calls it received and has not answered or lost
  gone,       \* owner side: parked observers whose remote client went away
  losses,     \* owner side: batches lost so far
  fence       \* browser side: the revision beginCompletionFence returned

clientVars == <<outcome, turnOf, working, begun, granted, inHand, gone, losses, fence>>

\* History: turns in which a call or an activity began, ended or expired
\* since the browser observed its completion candidate.
VARIABLE disturbed

vars == <<brokerVars, clientVars, disturbed>>

NoRevision == -1

Live == {t \in Turns : phase[t] = "live"}

Channel == [sessionKeys : SUBSET Sessions,
            open        : SUBSET Calls,        \* invocations
            queued      : SUBSET Calls,        \* queuedCallIds
            delivered   : SUBSET Calls,        \* deliveredCallIds
            activities  : SUBSET Activities,   \* localActivities
            waiters     : Seq(Observers),
            timer       : BOOLEAN,             \* batchTimer is armed
            compaction  : BOOLEAN,             \* compactionRequested
            intercepts  : Nat,                 \* compactionDeliveryCount
            revision    : Nat,                 \* activityRevision
            committed   : BOOLEAN,             \* completionCommitted
            committedAt : Nat \cup {NoRevision}]

EmptyChannel == [sessionKeys |-> {}, open |-> {}, queued |-> {}, delivered |-> {},
                 activities |-> {}, waiters |-> <<>>, timer |-> FALSE,
                 compaction |-> FALSE, intercepts |-> 0, revision |-> 0,
                 committed |-> FALSE, committedAt |-> NoRevision]

SetChannel(t, r) == channel' = [channel EXCEPT ![t] = r]

Quiescent(t) == channel[t].open = {} /\ channel[t].activities = {}

\* Mutant: a handler forgets that the turn was compacted.
AcceptsCompacted(t) == ~channel[t].committed

\* The turn still takes calls and local activities.
Accepts(t) == ~channel[t].compaction /\ ~channel[t].committed

Parked == UNION {ToSet(channel[t].waiters) : t \in Turns}

ExpiredActivities(t) == channel[t].activities \cap lapsed

\* Every handler except revoke, the batch timer and the drain switch first
\* drops what has expired.  Dropping is an action of its own (Prune); a
\* handler that prunes is enabled once nothing is left to drop, which is the
\* state it works on.
Pruned == /\ Live \cap lapsed = {}
          /\ \A t \in Live : ExpiredActivities(t) = {}

Init ==
  /\ phase = [t \in Turns |-> "new"]
  /\ pending = {} /\ bindings = {}
  /\ sessionOf = [s \in Sessions |-> NoTurn]
  /\ channel = [t \in Turns |-> EmptyChannel]
  /\ accepting = TRUE /\ closed = FALSE
  /\ lapsed = {}
  /\ outcome = [c \in Calls |-> "unused"]
  /\ turnOf = [c \in Calls |-> NoTurn]
  /\ working = [a \in Activities |-> NoTurn]
  /\ begun = {}
  /\ granted = [s \in Sessions |-> {}]
  /\ inHand = [t \in Turns |-> {}]
  /\ gone = {} /\ losses = 0
  /\ fence = [t \in Turns |-> NoRevision]
  /\ disturbed = {}

-----------------------------------------------------------------------------
(* Registration.  register() awaits the listening socket and only then      *)
(* prunes, checks the drain switch and creates the channel.                 *)

RegisterCall(t) ==
  /\ phase[t] = "new" /\ ~closed
  /\ phase' = [phase EXCEPT ![t] = "starting"]
  /\ UNCHANGED <<pending, bindings, sessionOf, channel, accepting, closed, lapsed,
                 clientVars, disturbed>>

Refuses(t) == t \in External /\ ~accepting

RegisterResume(t) ==
  /\ Pruned /\ phase[t] = "starting"
  /\ IF Refuses(t)
       THEN phase' = [phase EXCEPT ![t] = "refused"] /\ UNCHANGED pending
       ELSE /\ phase' = [phase EXCEPT ![t] = "live"]
            /\ pending' = pending \cup {t}
  /\ UNCHANGED <<bindings, sessionOf, channel, accepting, closed, lapsed,
                 clientVars, disturbed>>

\* A session loses its mapping with the turn that lists it.
SessionWithout(s, S) ==
  IF \E t \in S : sessionOf[s] = t /\ s \in channel[t].sessionKeys THEN NoTurn ELSE sessionOf[s]

\* The maps and promises that lose the turns in S; every caller adds what
\* becomes of their channels.
Drop(S) ==
  /\ phase' = [t \in Turns |-> IF t \in S THEN "over" ELSE phase[t]]
  /\ pending' = pending \ S
  /\ bindings' = bindings \ S
  /\ sessionOf' = [s \in Sessions |-> SessionWithout(s, S)]
  /\ outcome' = [c \in Calls |->
        IF \E t \in S : c \in channel[t].open THEN "rejected" ELSE outcome[c]]
  /\ granted' = [s \in Sessions |-> granted[s] \ S]
  /\ inHand' = [t \in Turns |-> IF t \in S THEN {} ELSE inHand[t]]
  /\ gone' = gone \ UNION {ToSet(channel[t].waiters) : t \in S}
  /\ fence' = [t \in Turns |-> IF t \in S THEN NoRevision ELSE fence[t]]

\* Revoke(S): revoke, owner_revoke and release (S a singleton),
\* revokeTrace (the turns of a trace) and revokeExternalOwners.
Revoke(S) ==
  /\ S # {} /\ S \subseteq Live
  /\ Drop(S)
  /\ channel' = [t \in Turns |-> IF t \in S THEN EmptyChannel ELSE channel[t]]
  /\ disturbed' = disturbed \ S
  /\ UNCHANGED <<accepting, closed, lapsed, turnOf, working, begun, losses>>

RevokeTurn(t)        == Revoke({t})
RevokeTrace(S)       == Revoke(S)
RevokeExternalOwners == Revoke(Live \cap External)

Close ==
  /\ ~closed
  /\ closed' = TRUE
  /\ Drop(Live)
  /\ channel' = [t \in Turns |-> IF t \in Live THEN EmptyChannel ELSE channel[t]]
  /\ disturbed' = disturbed \ Live
  /\ UNCHANGED <<accepting, lapsed, turnOf, working, begun, losses>>

SetExternalOwnersAccepted(b) ==
  /\ accepting # b
  /\ accepting' = b
  /\ UNCHANGED <<phase, pending, bindings, sessionOf, channel, closed, lapsed,
                 clientVars, disturbed>>

\* The clock passes a deadline ...
Lapse(x) ==
  /\ x \in Expiring \ lapsed
  /\ x \in Live \/ \E t \in Live : x \in channel[t].activities
  /\ lapsed' = lapsed \cup {x}
  /\ UNCHANGED <<phase, pending, bindings, sessionOf, channel, accepting, closed,
                 clientVars, disturbed>>

\* ... and the next handler notices: overdue activities end with a revision
\* each, overdue turns are revoked.
Prune ==
  /\ ~Pruned
  /\ LET overdue == Live \cap lapsed IN
     /\ Drop(overdue)
     /\ channel' = [t \in Turns |->
          IF t \in overdue THEN EmptyChannel
          ELSE IF t \in Live
            THEN [channel[t] EXCEPT !.activities = @ \ lapsed,
                                    !.revision = @ + Cardinality(ExpiredActivities(t))]
            ELSE channel[t]]
     /\ disturbed' = (disturbed \cup {t \in Live : ExpiredActivities(t) # {}}) \ overdue
  /\ UNCHANGED <<accepting, closed, lapsed, turnOf, working, begun, losses>>

-----------------------------------------------------------------------------
(* MCP side.                                                                *)

\* The turn a claim with handle h and session s resolves to: the handle's
\* own turn, else the turn the session is mapped to, else the only turn that
\* still waits for its first claim.
Resolves(h, s, t) ==
  \/ h = t /\ t \in Live
  \/ /\ h \notin Live /\ s # NoSession
     /\ IF sessionOf[s] \in Live THEN t = sessionOf[s] ELSE pending \cap Live = {t}

\* Mutant: the session's earlier mapping is overwritten.
SessionAlwaysFree(h, s, t) == TRUE

\* A session mapped to another turn refuses the claim, unless the lookup has
\* just dropped a mapping to a dead turn.
SessionFree(h, s, t) ==
  s # NoSession => \/ sessionOf[s] \in {NoTurn, t}
                   \/ h \notin Live /\ sessionOf[s] \notin Live

Claim(h, s, t) ==
  /\ Pruned /\ Resolves(h, s, t) /\ SessionFree(h, s, t)
  /\ IF s = NoSession THEN UNCHANGED <<sessionOf, channel, granted>>
     ELSE /\ sessionOf' = [sessionOf EXCEPT ![s] = t]
          /\ SetChannel(t, [channel[t] EXCEPT !.sessionKeys = @ \cup {s}])
          /\ granted' = [granted EXCEPT ![s] = @ \cup {t}]
  /\ pending' = pending \ {t}
  /\ bindings' = bindings \cup {t}
  /\ UNCHANGED <<phase, accepting, closed, lapsed, outcome, turnOf, working, begun,
                 inHand, gone, losses, fence, disturbed>>

\* Mutant: only a timer that runs already is kept.
KeepsTimer(t) == channel[t].timer

\* scheduleToolWaiters, called with a queue that is not empty.
ArmsTimer(t) == channel[t].timer \/ channel[t].waiters # <<>>

\* invoke: the call joins the queue, and a parked observer arms the timer.
Invoke(c, t) ==
  /\ Pruned /\ t \in bindings /\ outcome[c] = "unused"
  /\ Accepts(t)
  /\ outcome' = [outcome EXCEPT ![c] = "open"]
  /\ turnOf' = [turnOf EXCEPT ![c] = t]
  /\ SetChannel(t, [channel[t] EXCEPT !.open = @ \cup {c},
                                      !.queued = @ \cup {c},
                                      !.revision = @ + 1,
                                      !.timer = ArmsTimer(t)])
  /\ disturbed' = disturbed \cup {t}
  /\ UNCHANGED <<phase, pending, bindings, sessionOf, accepting, closed, lapsed,
                 working, begun, granted, inHand, gone, losses, fence>>

\* Mutant: an intercepted call is counted backwards.
CountedDown(t) == [channel[t] EXCEPT !.intercepts = @ - 1]

Intercepted(t) == [channel[t] EXCEPT !.intercepts = @ + 1]

\* invoke after requestCompaction: answered at once with the control result.
InvokeIntercepted(c, t) ==
  /\ Pruned /\ t \in bindings /\ outcome[c] = "unused"
  /\ channel[t].compaction
  /\ outcome' = [outcome EXCEPT ![c] = "compaction"]
  /\ turnOf' = [turnOf EXCEPT ![c] = t]
  /\ SetChannel(t, Intercepted(t))
  /\ UNCHANGED <<phase, pending, bindings, sessionOf, accepting, closed, lapsed,
                 working, begun, granted, inHand, gone, losses, fence, disturbed>>

ActivityBegin(a, t) ==
  /\ Pruned /\ t \in bindings /\ a \notin begun
  /\ Accepts(t)
  /\ begun' = begun \cup {a}
  /\ working' = [working EXCEPT ![a] = t]
  /\ SetChannel(t, [channel[t] EXCEPT !.activities = @ \cup {a},
                                      !.revision = @ + 1])
  /\ disturbed' = disturbed \cup {t}
  /\ UNCHANGED <<phase, pending, bindings, sessionOf, accepting, closed, lapsed,
                 outcome, turnOf, granted, inHand, gone, losses, fence>>

\* The work is done and reports activity_end; the broker refuses the report
\* when the binding or the activity is gone.
ActivityEnd(a, t) ==
  /\ Pruned /\ working[a] = t
  /\ working' = [working EXCEPT ![a] = NoTurn]
  /\ IF t \in bindings /\ a \in channel[t].activities
       THEN /\ SetChannel(t, [channel[t] EXCEPT !.activities = @ \ {a},
                                                !.revision = @ + 1])
            /\ disturbed' = disturbed \cup {t}
       ELSE UNCHANGED <<channel, disturbed>>
  /\ UNCHANGED <<phase, pending, bindings, sessionOf, accepting, closed, lapsed,
                 outcome, turnOf, begun, granted, inHand, gone, losses, fence>>

-----------------------------------------------------------------------------
(* Owner side.                                                              *)

\* Mutant: a batch is taken without being remembered as delivered.
TakeForgotten(t) == [channel[t] EXCEPT !.queued = {}]

\* takeQueued
Take(t) == [channel[t] EXCEPT !.delivered = @ \cup (channel[t].queued \cap channel[t].open),
                              !.queued = {}]

\* nextToolBatch: the batch Codex has not answered is replayed; else the
\* queue is taken; else the observer parks.
NextToolBatch(t, o) ==
  /\ Pruned /\ t \in Live /\ ~channel[t].compaction /\ o \notin Parked
  /\ LET again == channel[t].delivered \cap channel[t].open
         ready == channel[t].queued \cap channel[t].open
     IN \/ /\ again # {}
           /\ inHand' = [inHand EXCEPT ![t] = @ \cup again]
           /\ UNCHANGED channel
        \/ /\ again = {} /\ ready # {}
           /\ SetChannel(t, Take(t))
           /\ inHand' = [inHand EXCEPT ![t] = @ \cup ready]
        \/ /\ again = {} /\ ready = {}
           /\ SetChannel(t, [Take(t) EXCEPT !.waiters = Append(@, o)])
           /\ UNCHANGED inHand
  /\ UNCHANGED <<phase, pending, bindings, sessionOf, accepting, closed, lapsed,
                 outcome, turnOf, working, begun, granted, gone, losses, fence, disturbed>>

\* An in-process observer's abort signal removes it; owner_next passes no
\* signal, so a remote one stays parked after its client has gone.
AbortWait(t, i) ==
  /\ i \in DOMAIN channel[t].waiters
  /\ IF t \in External
       THEN /\ channel[t].waiters[i] \notin gone
            /\ gone' = gone \cup {channel[t].waiters[i]}
            /\ UNCHANGED channel
       ELSE /\ SetChannel(t, [channel[t] EXCEPT !.waiters = RemoveAt(@, i)])
            /\ UNCHANGED gone
  /\ UNCHANGED <<phase, pending, bindings, sessionOf, accepting, closed, lapsed,
                 outcome, turnOf, working, begun, granted, inHand, losses, fence, disturbed>>

\* The batch timer, 15 ms after the first call that found a parked observer:
\* the first observer gets the queue, the others are rejected.
BatchTimer(t) ==
  /\ channel[t].timer
  /\ LET w == channel[t].waiters
         ready == channel[t].queued \cap channel[t].open
     IN IF channel[t].queued = {} \/ w = <<>>
          THEN /\ SetChannel(t, [channel[t] EXCEPT !.timer = FALSE])
               /\ UNCHANGED <<inHand, gone>>
          ELSE /\ SetChannel(t, [Take(t) EXCEPT !.timer = FALSE,
                                                !.waiters = <<>>])
               /\ inHand' = IF Head(w) \in gone THEN inHand
                            ELSE [inHand EXCEPT ![t] = @ \cup ready]
               /\ gone' = gone \ ToSet(w)
  /\ UNCHANGED <<phase, pending, bindings, sessionOf, accepting, closed, lapsed,
                 outcome, turnOf, working, begun, granted, losses, fence, disturbed>>

\* The Responses stream that carried a batch breaks before Codex used it.
LoseBatch(t) ==
  /\ inHand[t] # {} /\ losses < MaxLosses
  /\ losses' = losses + 1
  /\ inHand' = [inHand EXCEPT ![t] = {}]
  /\ UNCHANGED <<brokerVars, outcome, turnOf, working, begun, granted, gone, fence, disturbed>>

CompleteTool(t, c) ==
  /\ Pruned /\ t \in Live /\ c \in inHand[t]
  /\ c \in channel[t].open /\ c \in channel[t].delivered
  /\ outcome' = [outcome EXCEPT ![c] = "result"]
  /\ SetChannel(t, [channel[t] EXCEPT !.open = @ \ {c},
                                      !.delivered = @ \ {c},
                                      !.revision = @ + 1])
  /\ inHand' = [inHand EXCEPT ![t] = @ \ {c}]
  /\ disturbed' = disturbed \cup {t}
  /\ UNCHANGED <<phase, pending, bindings, sessionOf, accepting, closed, lapsed,
                 turnOf, working, begun, granted, gone, losses, fence>>

\* Mutant: calls Codex already runs are answered by the compaction, too.
TakesAll(t) == channel[t].open

TakenBack(t) == channel[t].queued \cap channel[t].open

\* requestCompaction takes the undelivered calls back.
RequestCompaction(t) ==
  /\ Pruned /\ t \in Live /\ ~channel[t].compaction
  /\ LET taken == TakenBack(t) IN
     /\ outcome' = [c \in Calls |-> IF c \in taken THEN "compaction" ELSE outcome[c]]
     /\ SetChannel(t, [channel[t] EXCEPT !.compaction = TRUE,
                                         !.timer = FALSE,
                                         !.queued = {},
                                         !.open = @ \ taken,
                                         !.intercepts = @ + Cardinality(taken)])
  /\ UNCHANGED <<phase, pending, bindings, sessionOf, accepting, closed, lapsed,
                 turnOf, working, begun, granted, inHand, gone, losses, fence, disturbed>>

-----------------------------------------------------------------------------
(* Browser side: the completion fence.                                      *)

\* Mutant: quiescence now is taken for quiescence since the observation.
CandidateQuiet(t) == Quiescent(t)

CandidateStands(t) == channel[t].revision = fence[t] /\ Quiescent(t)

BeginCompletionFence(t) ==
  /\ Pruned /\ t \in Live
  /\ IF channel[t].committed
       THEN fence' = [fence EXCEPT ![t] = channel[t].committedAt] /\ UNCHANGED disturbed
       ELSE /\ Quiescent(t)
            /\ fence' = [fence EXCEPT ![t] = channel[t].revision]
            /\ disturbed' = disturbed \ {t}
  /\ UNCHANGED <<brokerVars, outcome, turnOf, working, begun, granted, inHand, gone, losses>>

CommitCompletionFence(t) ==
  /\ Pruned /\ t \in Live /\ fence[t] # NoRevision /\ ~channel[t].committed
  /\ IF CandidateStands(t)
       THEN /\ SetChannel(t, [channel[t] EXCEPT !.committed = TRUE,
                                                !.committedAt = fence[t]])
            /\ UNCHANGED fence
       ELSE /\ fence' = [fence EXCEPT ![t] = NoRevision]
            /\ UNCHANGED channel
  /\ UNCHANGED <<phase, pending, bindings, sessionOf, accepting, closed, lapsed,
                 outcome, turnOf, working, begun, granted, inHand, gone, losses, disturbed>>

-----------------------------------------------------------------------------
Register   == \E t \in Turns : RegisterCall(t) \/ RegisterResume(t)
Revocation == \/ \E t \in Turns : RevokeTurn(t)
              \/ \E S \in SUBSET Turns : RevokeTrace(S)
              \/ RevokeExternalOwners
              \/ Close
Switch     == \E b \in BOOLEAN : SetExternalOwnersAccepted(b)
Time       == (\E x \in Expiring : Lapse(x)) \/ Prune
Mcp        == \/ \E h \in Turns \cup {UnknownHandle}, s \in Sessions \cup {NoSession},
                    t \in Turns : Claim(h, s, t)
              \/ \E c \in Calls, t \in Turns : Invoke(c, t) \/ InvokeIntercepted(c, t)
              \/ \E a \in Activities, t \in Turns : ActivityBegin(a, t) \/ ActivityEnd(a, t)
Owner      == \/ \E t \in Turns, o \in Observers : NextToolBatch(t, o)
              \/ \E t \in Turns : \E i \in DOMAIN channel[t].waiters : AbortWait(t, i)
              \/ \E t \in Turns : BatchTimer(t) \/ LoseBatch(t) \/ RequestCompaction(t)
              \/ \E t \in Turns, c \in Calls : CompleteTool(t, c)
Browser    == \E t \in Turns : BeginCompletionFence(t) \/ CommitCompletionFence(t)

Next == Register \/ Revocation \/ Switch \/ Time \/ Mcp \/ Owner \/ Browser

Spec == Init /\ [][Next]_vars

\* Fairness.  The batch timer fires (setTimeout).  The owner's round loop
\* calls nextToolBatch again after every batch and every broken stream, and
\* Codex answers the calls it holds; each of these calls prunes first.
\* Nothing is assumed of ChatGPT, of revocations or of the browser.
Fairness == \A t \in Turns :
              /\ WF_vars(BatchTimer(t))
              /\ WF_vars(\E o \in Observers : NextToolBatch(t, o))
              /\ \A c \in Calls : WF_vars(CompleteTool(t, c))

FairSpec == Spec /\ Fairness /\ WF_vars(Prune)

-----------------------------------------------------------------------------
(* What the broker owes its clients.                                        *)

TypeOK ==
  /\ phase \in [Turns -> {"new", "starting", "refused", "live", "over"}]
  /\ pending \subseteq Turns /\ bindings \subseteq Turns
  /\ sessionOf \in [Sessions -> Turns \cup {NoTurn}]
  /\ channel \in [Turns -> Channel]
  /\ accepting \in BOOLEAN /\ closed \in BOOLEAN
  /\ lapsed \subseteq Turns \cup Activities
  /\ outcome \in [Calls -> {"unused", "open", "result", "compaction", "rejected"}]
  /\ turnOf \in [Calls -> Turns \cup {NoTurn}]
  /\ working \in [Activities -> Turns \cup {NoTurn}]
  /\ begun \subseteq Activities
  /\ granted \in [Sessions -> SUBSET Turns]
  /\ inHand \in [Turns -> SUBSET Calls]
  /\ gone \subseteq Observers
  /\ losses \in 0..MaxLosses
  /\ fence \in [Turns -> Nat \cup {NoRevision}]
  /\ disturbed \subseteq Turns

\* No call is lost: every MCP call that waits for an answer is, in a live
\* turn, either queued for Codex or delivered to it and replayable, never
\* both and never neither, whatever batches, timers, compactions, expiries
\* and revocations came between (takeQueued, rejectChannel, requestCompaction).
NoLostCall ==
  /\ \A t \in Turns : /\ channel[t].open = channel[t].queued \cup channel[t].delivered
                      /\ channel[t].queued \cap channel[t].delivered = {}
  /\ \A c \in Calls : outcome[c] = "open" =>
        \E t \in Live : t = turnOf[c] /\ c \in channel[t].open
  /\ \A t \in Turns : \A c \in channel[t].open : outcome[c] = "open" /\ turnOf[c] = t

\* No lost wakeup: while calls are queued and an observer is parked, the
\* batch timer is armed.  scheduleToolWaiters runs only when a call is
\* queued, so an observer that parked beside a queue would never be woken.
NoLostWakeup ==
  \A t \in Turns : channel[t].queued # {} /\ channel[t].waiters # <<>> => channel[t].timer

\* Once the browser's completion is committed the turn stays quiet: no call
\* waits and no local activity runs (invoke and activity_begin refuse).
CommittedIsQuiet == \A t \in Turns : channel[t].committed => Quiescent(t)

\* What the broker owes the calls it took: each is kept where its answer or
\* its delivery will find it, a queue never sleeps beside a parked observer,
\* and a completion never overtakes one.
CallsAreKept == NoLostCall /\ NoLostWakeup /\ CommittedIsQuiet

\* The completion fence: a candidate is committed only if no call and no
\* activity began, ended or expired since the browser observed it, although
\* the turn may be quiescent at both ends ("cannot commit if broker activity
\* changed after the candidate was observed", CHANGELOG.md:125).
CommitsUndisturbed ==
  \A t \in Turns : ~channel[t].committed /\ channel'[t].committed => t \notin disturbed

\* One MCP session never holds the bindings of two live turns, whichever of
\* exact tokens, mutated tokens and the only-pending rule its claims used.
SessionIsolation == \A s \in Sessions : \A t, u \in granted[s] : t = u

\* A mapped session leads to a live turn that was claimed and that will
\* unmap it: a mapping that outlived its turn would bar the session from
\* every later turn ("already bound to another active Codex turn").
SessionRouting ==
  \A s \in Sessions : sessionOf[s] # NoTurn =>
    /\ sessionOf[s] \in bindings
    /\ s \in channel[sessionOf[s]].sessionKeys

\* Drain is stable: while external owners are not accepted, none appears,
\* also not one whose register call was awaiting the socket when the switch
\* was thrown.
DrainIsStable ==
  ~accepting => {t \in Live : t \in External}' \subseteq Live

\* compactionDeliveryCount is what tells the compaction whether the browser
\* saw a compaction result: for a live turn it is the number of calls that
\* were answered with it, taken back or intercepted.
InterceptsCounted ==
  \A t \in Live : channel[t].intercepts =
    Cardinality({c \in Calls : turnOf[c] = t /\ outcome[c] = "compaction"})

\* After requestCompaction Codex is handed no further call of that turn
\* (neither by the timer, nor by an observer parked before it).
CompactionStopsDelivery ==
  \A t \in Turns : channel[t].compaction =>
    channel'[t].delivered \subseteq channel[t].delivered

\* A local activity fences completion while its work runs, at least until its
\* TTL has passed (mcp-server.ts:314-318; prune drops it then, running or not).
LiveActivityFencesCompletion ==
  \A a \in Activities \ lapsed : \A t \in Live : working[a] = t => ~channel[t].committed

\* The fence as a whole: no completion is committed under running work, nor
\* over activity that came after the browser observed its candidate.
CompletionIsFenced == [][LiveActivityFencesCompletion' /\ CommitsUndisturbed]_vars

\* A compaction takes the turn over: it knows of every call the browser saw
\* answered with it, and Codex receives no call after it.
CompactionTakesOver == [][InterceptsCounted' /\ CompactionStopsDelivery]_vars

\* MCP sessions and turns are kept apart: a session serves one live turn, a
\* mapping ends with its turn, and no turn enters through a closed door.
SessionsAreApart == [][SessionIsolation' /\ SessionRouting' /\ DrainIsStable]_vars

\* The broker implements the service: a call is answered at most once, by
\* Codex only after Codex received it, by compaction only before, and never
\* accepted or left unsettled in a committed or revoked turn.
CallStatus == [c \in Calls |->
  IF outcome[c] # "open" THEN outcome[c]
  ELSE IF \E t \in Turns : c \in channel[t].delivered THEN "delivered" ELSE "queued"]

Sealed == {t \in Turns : phase[t] = "over" \/ channel[t].committed}

Service == INSTANCE ToolCallService WITH status <- CallStatus, sealed <- Sealed

ImplementsService == Service!Spec

\* Every call is settled in the end, or compaction took the turn over: a
\* call delivered just before requestCompaction has only the turn's end left.
EveryCallSettles ==
  \A c \in Calls : outcome[c] = "open" ~>
    \/ outcome[c] # "open"
    \/ \E t \in Turns : t = turnOf[c] /\ channel[t].compaction
=============================================================================
