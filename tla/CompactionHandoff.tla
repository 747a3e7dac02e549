-------------------------- MODULE CompactionHandoff --------------------------
(***************************************************************************)
(* One compaction of one retained ChatGPT conversation:                    *)
(* src/src/adapters/chatgpt-web/compaction-handoff.ts and its caller in    *)
(* index.ts.  Requests for the same compaction join one run.  A run lets   *)
(* the conversation's source turn finish, asks the retained page for a     *)
(* summary through a one-shot transaction, retires the conversation, and,  *)
(* if the page is gone, falls back to a fresh page.                        *)
(*                                                                         *)
(* A run carries the name of the request that started it, and its          *)
(* transaction too.  Between two steps of a run lies an await; what        *)
(* follows an awaited event without another await is part of its action.   *)
(* The transaction's own TTL (TimesOut) cannot be first: the run's         *)
(* deadline has the same length, is armed earlier, and ends the            *)
(* transaction through the waiter's signal.                                *)
(***************************************************************************)
EXTENDS CompactionTransactions

CONSTANTS Requests,     \* HTTP compaction requests with the same execution key;
                        \* other transactions belong to other conversations
          SourceStates, \* what the conversation's head may be at the start
          PageMayBeGone \* the retained page may have been closed meanwhile

ASSUME HandoffAssumption ==
    /\ Requests \subseteq Transactions
    /\ SourceStates \subseteq {"absent", "running", "over"}
    /\ PageMayBeGone \in BOOLEAN

NoRun == "no run"
ASSUME NoRunAssumption == NoRun \notin Requests

VARIABLES
  runOf,      \* the run a request joined
  cached,     \* structuredCompactionRuns: the run under the key
  active,     \* runs that own the key (CachedCompactionRun.active)
  pc,         \* where a run is
  verdict,    \* what it will answer when what it awaits is over
  left,       \* requests whose client is gone (incoming.abortSignal)
  cancelled,  \* runs aborted by cancelStructuredCompactionTrace
  expired,    \* runs whose operation deadline passed
  opening,    \* runs with a beginCompactionTransaction in flight
  spoiled     \* runs that failed after the summary: release or marker

runVars == <<runOf, cached, active, pc, verdict, left, cancelled, expired, opening, spoiled>>

VARIABLES
  source,     \* the source turn: absent, running, ended (logically), over
  sourceStop, \* it was cancelled
  retired,    \* the conversation was taken out of the session registry
  released,   \* its page was released
  page,       \* per run: the handoff's turn on the retained page
  fresh,      \* per run: the fallback's turn on a fresh page
  stop        \* turns whose abort signal fired: <<run, "page" or "fresh">>

browserVars == <<source, sourceStop, retired, released, page, fresh, stop>>

vars == <<storeVars, runVars, browserVars>>

Ends == {"none", "running", "ended", "over"}

TypeOK ==
  /\ StoreTypeOK
  /\ runOf \in [Requests -> Requests \cup {NoRun}] /\ cached \in Requests \cup {NoRun}
  /\ pc \in [Requests -> {"none", "start", "settling", "settled", "opening", "waiting",
                          "accepted", "closing", "retiring", "fallback", "done"}]
  /\ verdict \in [Requests -> {"none", "summary", "error", "unavailable"}]
  /\ \A S \in {active, left, cancelled, expired, opening, spoiled} : S \subseteq Requests
  /\ source \in {"absent", "running", "ended", "over"}
  /\ {sourceStop, retired, released} \subseteq BOOLEAN
  /\ page \in [Requests -> Ends] /\ fresh \in [Requests -> Ends]
  /\ stop \subseteq Requests \X {"page", "fresh"}

Init ==
  /\ StoreInit
  /\ runOf = [q \in Requests |-> NoRun] /\ cached = NoRun
  /\ pc = [q \in Requests |-> "none"] /\ verdict = [q \in Requests |-> "none"]
  /\ active = {} /\ left = {} /\ cancelled = {} /\ expired = {}
  /\ opening = {} /\ spoiled = {}
  /\ source \in SourceStates
  /\ sourceStop = FALSE /\ retired = FALSE /\ released = FALSE
  /\ page = [q \in Requests |-> "none"] /\ fresh = [q \in Requests |-> "none"]
  /\ stop = {}

Goes(r, where, what) == pc' = [pc EXCEPT ![r] = where] /\ verdict' = [verdict EXCEPT ![r] = what]

\* The signal of a run: its starter's client is gone, or it was cancelled.
Aborted(r) == r \in left \/ r \in cancelled

\* Mutant: the handoff has no deadline.
AbortedOnly(r) == Aborted(r)

\* The signal of its handoff, which has a deadline as well.
Interrupted(r) == Aborted(r) \/ r \in expired

-----------------------------------------------------------------------------
(* Requests and the cache of runs.                                          *)

\* An inactive run may have outlived its TTL (30 minutes) when it is looked up.
Found == {cached} \cup (IF cached \in active THEN {} ELSE {NoRun})

Request(q) ==
  /\ runOf[q] = NoRun
  /\ \E r \in Found :
       IF r # NoRun
         THEN runOf' = [runOf EXCEPT ![q] = r] /\ UNCHANGED <<cached, active, pc, verdict>>
         ELSE /\ runOf' = [runOf EXCEPT ![q] = q]
              /\ cached' = q
              /\ active' = active \cup {q}
              /\ Goes(q, "start", "none")
  /\ UNCHANGED <<storeVars, browserVars, left, cancelled, expired, opening, spoiled>>

\* Codex closes the request before it is answered.
ClientLeaves(q) ==
  /\ runOf[q] # NoRun /\ pc[runOf[q]] # "done"
  /\ q \notin left
  /\ left' = left \cup {q}
  /\ UNCHANGED <<storeVars, browserVars, runOf, cached, active, pc, verdict, cancelled,
                 expired, opening, spoiled>>

\* The launcher cancels the trace of the handoff, or of its fallback.
CancelTrace ==
  /\ active \ cancelled # {}
  /\ cancelled' = cancelled \cup active
  /\ UNCHANGED <<storeVars, browserVars, runOf, cached, active, pc, verdict, left,
                 expired, opening, spoiled>>

\* Mutant: a run gives its key up as soon as it has answered.
Answered(r) == pc[r] = "done"

\* The run has answered and every page it registered is physically over.
Settled(r) == pc[r] = "done" /\ {page[r], fresh[r]} \subseteq {"none", "over"}

RunSettles(r) ==
  /\ r \in active /\ Settled(r)
  /\ active' = active \ {r}
  /\ cached' = IF verdict[r] # "summary" /\ cached = r THEN NoRun ELSE cached
  /\ UNCHANGED <<storeVars, browserVars, runOf, pc, verdict, left, cancelled, expired,
                 opening, spoiled>>

-----------------------------------------------------------------------------
(* The source turn and the retirement of the conversation.                  *)

\* retireConversationAndWait takes the session out and cancels it at once.
Retires(r, what) ==
  /\ Goes(r, "retiring", what)
  /\ retired' = TRUE
  /\ sourceStop' = (sourceStop \/ source = "running")

FallsBack(r) ==
  /\ Goes(r, "fallback", "none")
  /\ fresh' = [fresh EXCEPT ![r] = "running"]

\* runRetainedCompaction looks for the head of the conversation.
Start(r) ==
  /\ pc[r] = "start"
  /\ \/ /\ retired \/ source = "absent"
        /\ FallsBack(r)
        /\ UNCHANGED <<sourceStop, retired>>
     \/ /\ ~retired /\ source = "running"
        /\ \/ ~Aborted(r) /\ Goes(r, "settling", "none") /\ UNCHANGED <<sourceStop, retired>>
           \* cancelled already, or Codex sent too few tool results
           \/ Retires(r, "error")
        /\ UNCHANGED fresh
     \/ /\ ~retired /\ source \in {"ended", "over"}
        /\ Goes(r, "settled", "none")
        /\ UNCHANGED <<sourceStop, retired, fresh>>
  /\ UNCHANGED <<storeVars, runOf, cached, active, left, cancelled, expired, opening, spoiled,
                 source, released, page, stop>>

\* settleActiveCompactionSource awaits the source's answer, then its cleanup.
SourceAnswered(r) ==
  /\ pc[r] = "settling" /\ ~Aborted(r)
  /\ \/ source = "over" /\ Goes(r, "settled", "none") /\ UNCHANGED <<sourceStop, retired>>
     \/ source # "running" /\ Retires(r, "error")   \* the source turn failed
  /\ UNCHANGED <<storeVars, runOf, cached, active, left, cancelled, expired, opening, spoiled,
                 source, released, page, fresh, stop>>

SettlingAborted(r) ==
  /\ pc[r] = "settling" /\ Aborted(r)
  /\ Retires(r, "error")
  /\ UNCHANGED <<storeVars, runOf, cached, active, left, cancelled, expired, opening, spoiled,
                 source, released, page, fresh, stop>>

\* releaseRetainedConversation waits for the turns on the page.
PageFree(r) == page[r] # "running"

\* The conversation's sessions are physically over and its page is released,
\* or releasing it failed.
Retired(r) ==
  /\ pc[r] = "retiring"
  /\ source \in {"absent", "over"} /\ PageFree(r)
  /\ \/ /\ verdict[r] = "unavailable"
        /\ released' = TRUE
        /\ FallsBack(r)
        /\ UNCHANGED spoiled
     \/ /\ verdict[r] # "unavailable"
        /\ released' = TRUE
        /\ Goes(r, "done", verdict[r])
        /\ UNCHANGED <<fresh, spoiled>>
     \/ /\ verdict[r] = "summary"
        /\ Goes(r, "done", "error")
        /\ spoiled' = spoiled \cup {r}
        /\ UNCHANGED <<fresh, released>>
  /\ UNCHANGED <<storeVars, runOf, cached, active, left, cancelled, expired, opening,
                 source, sourceStop, retired, page, stop>>

-----------------------------------------------------------------------------
(* The handoff on the retained page (requestRetainedCompactionHandoff).     *)

\* The deadline is armed and a transaction is asked for.
OpenHandoff(r) ==
  /\ pc[r] = "settled"
  /\ opening' = opening \cup {r}
  /\ IF Aborted(r) THEN Retires(r, "error")
                   ELSE Goes(r, "opening", "none") /\ UNCHANGED <<sourceStop, retired>>
  /\ UNCHANGED <<storeVars, runOf, cached, active, left, cancelled, expired, spoiled,
                 source, released, page, fresh, stop>>

Expire(r) ==
  /\ pc[r] \in {"opening", "waiting", "accepted", "closing"} /\ r \notin expired
  /\ expired' = expired \cup {r}
  /\ UNCHANGED <<storeVars, browserVars, runOf, cached, active, pc, verdict, left, cancelled,
                 opening, spoiled>>

\* A transaction that comes after the signal is begun and aborted at once.
DropsLate(r) ==
  /\ begun' = begun \cup {r}
  /\ withdrawn' = withdrawn \cup {r}
  /\ UNCHANGED <<store, timers, submitted, waiter>>

\* The transaction arrives: late, or in time to start the page and to wait.
TransactionArrives(r) ==
  /\ r \in opening
  /\ opening' = opening \ {r}
  /\ \/ /\ Interrupted(r)
        /\ DropsLate(r)
        /\ UNCHANGED <<pc, verdict, page>>
     \/ /\ ~Interrupted(r) /\ pc[r] = "opening"
        /\ begun' = begun \cup {r} /\ store' = store \cup {r} /\ timers' = timers \cup {r}
        /\ waiter' = [waiter EXCEPT ![r] = "parked"]
        /\ Goes(r, "waiting", "none")
        /\ page' = [page EXCEPT ![r] = "running"]
        /\ UNCHANGED <<submitted, withdrawn>>
  /\ UNCHANGED <<runOf, cached, active, left, cancelled, expired, spoiled,
                 source, sourceStop, retired, released, fresh, stop>>

\* The broker's socket does not come up.
OpeningFails(r) ==
  /\ r \in opening
  /\ opening' = opening \ {r}
  /\ IF pc[r] = "opening" /\ ~Interrupted(r)
       THEN Retires(r, "error")
       ELSE UNCHANGED <<pc, verdict, sourceStop, retired>>
  /\ UNCHANGED <<storeVars, runOf, cached, active, left, cancelled, expired, spoiled,
                 source, released, page, fresh, stop>>

\* ChatGPT submits.  The waiter hears it and the page is told to stop.
SubmitSummary(r) ==
  /\ pc[r] = "waiting" /\ ~Interrupted(r)
  /\ Submit(r)
  /\ Goes(r, "accepted", "summary")
  /\ stop' = stop \cup {<<r, "page">>}
  /\ UNCHANGED <<runOf, cached, active, left, cancelled, expired, opening, spoiled,
                 source, sourceStop, retired, released, page, fresh>>

\* The page's turn rejects before a summary came.
PageFails(r) ==
  /\ pc[r] = "waiting" /\ ~Interrupted(r) /\ page[r] = "running"
  /\ page' = [page EXCEPT ![r] = "ended"]
  /\ Abort(r)
  /\ \E what \in {"error"} \cup (IF PageMayBeGone THEN {"unavailable"} ELSE {}) :
       Goes(r, "closing", what)
  /\ stop' = stop \cup {<<r, "page">>}
  /\ UNCHANGED <<runOf, cached, active, left, cancelled, expired, opening, spoiled,
                 source, sourceStop, retired, released, fresh>>

Answer(r) == verdict[r]

\* The broker closes: every transaction ends.
BrokerCloses ==
  /\ CloseStore
  /\ UNCHANGED <<runVars, browserVars>>

WaitRejected(r) ==
  /\ pc[r] = "waiting" /\ ~Interrupted(r) /\ waiter[r] = "rejected"
  /\ Goes(r, "closing", "error")
  /\ stop' = stop \cup {<<r, "page">>}
  /\ UNCHANGED <<storeVars, runOf, cached, active, left, cancelled, expired, opening, spoiled,
                 source, sourceStop, retired, released, page, fresh>>

\* The accepted summary is returned, or found to contradict the prompt, once
\* the page's turn is physically over.
HandoffCleaned(r) ==
  /\ pc[r] \in {"accepted", "closing"} /\ ~Interrupted(r) /\ page[r] = "over"
  /\ \/ Retires(r, Answer(r)) /\ UNCHANGED spoiled
     \/ pc[r] = "accepted" /\ Retires(r, "error") /\ spoiled' = spoiled \cup {r}
  /\ UNCHANGED <<storeVars, runOf, cached, active, left, cancelled, expired, opening,
                 source, released, page, fresh, stop>>

\* The signal: the waiter is rejected and nothing more is waited for.
HandoffInterrupted(r) ==
  /\ pc[r] \in {"opening", "waiting", "accepted", "closing"} /\ Interrupted(r)
  /\ IF r \in store THEN Abort(r) ELSE UNCHANGED storeVars
  /\ stop' = IF page[r] = "running" THEN stop \cup {<<r, "page">>} ELSE stop
  /\ Retires(r, IF verdict[r] = "unavailable" THEN "unavailable" ELSE "error")
  /\ UNCHANGED <<runOf, cached, active, left, cancelled, expired, opening, spoiled,
                 source, released, page, fresh>>

-----------------------------------------------------------------------------
(* The fallback on a fresh page (index.ts freshFallback).                   *)

\* It listens to the starter's client only.
FallbackSignal(r) == r \in left

FallbackEnds(r) ==
  /\ pc[r] = "fallback"
  /\ \/ /\ FallbackSignal(r)
        /\ Goes(r, "done", "error")
        /\ stop' = stop \cup {<<r, "fresh">>}
        /\ UNCHANGED fresh
     \/ /\ ~FallbackSignal(r) /\ fresh[r] = "running"
        /\ fresh' = [fresh EXCEPT ![r] = "ended"]
        /\ \E what \in {"summary", "error"} : Goes(r, "done", what)
        /\ stop' = stop \cup {<<r, "fresh">>}
  /\ UNCHANGED <<storeVars, runOf, cached, active, left, cancelled, expired, opening, spoiled,
                 source, sourceStop, retired, released, page>>

-----------------------------------------------------------------------------
(* Turns on pages: a turn answers or rejects, then is cleaned up.           *)

SourceSteps ==
  /\ \/ source = "running" /\ source' = "ended"
     \/ source = "ended" /\ source' = "over"
  /\ UNCHANGED <<storeVars, runVars, sourceStop, retired, released, page, fresh, stop>>

\* The handoff's turn answers without a summary, or ends as it was told.
PageEnds(r) ==
  /\ page[r] = "running"
  /\ page' = [page EXCEPT ![r] = "ended"]
  /\ UNCHANGED <<storeVars, runVars, source, sourceStop, retired, released, fresh, stop>>

FreshStopped(r) ==
  /\ fresh[r] = "running" /\ <<r, "fresh">> \in stop
  /\ fresh' = [fresh EXCEPT ![r] = "ended"]
  /\ UNCHANGED <<storeVars, runVars, source, sourceStop, retired, released, page, stop>>

TurnCleaned(r) ==
  /\ \/ page[r] = "ended" /\ page' = [page EXCEPT ![r] = "over"] /\ UNCHANGED fresh
     \/ fresh[r] = "ended" /\ fresh' = [fresh EXCEPT ![r] = "over"] /\ UNCHANGED page
  /\ UNCHANGED <<storeVars, runVars, source, sourceStop, retired, released, stop>>

\* The store is shared: other conversations use every operation it has.
OtherTransactions ==
  /\ \E x \in Transactions \ Requests :
       \/ Begin(x) \/ Submit(x) \/ Wait(x) \/ WaitAborted(x) \/ WaiterAborts(x)
       \/ Abort(x) \/ AbortTrace({x}) \/ TimesOut(x)
  /\ UNCHANGED <<runVars, browserVars>>

RunStep(r) ==
  \/ Start(r) \/ SourceAnswered(r) \/ SettlingAborted(r) \/ OpenHandoff(r)
  \/ WaitRejected(r) \/ HandoffCleaned(r) \/ HandoffInterrupted(r) \/ Retired(r) \/ RunSettles(r)

Next ==
  \/ \E r \in Requests :
       \/ Request(r) \/ ClientLeaves(r) \/ RunStep(r) \/ Expire(r)
       \/ TransactionArrives(r) \/ OpeningFails(r)
       \/ SubmitSummary(r) \/ PageFails(r) \/ FallbackEnds(r)
       \/ PageEnds(r) \/ FreshStopped(r) \/ TurnCleaned(r)
  \/ CancelTrace \/ SourceSteps \/ OtherTransactions \/ BrokerCloses

Spec == Init /\ [][Next]_vars

\* The event loop runs every continuation and timer, the broker's socket
\* comes up, an ordinary source turn ends, and a turn that was told to stop
\* ends and is cleaned up.  A page that was not told to stop may hang.
StopFairness ==
  /\ \A r \in Requests :
       /\ WF_vars(RunStep(r)) /\ WF_vars(Expire(r))
       /\ WF_vars(TransactionArrives(r) \/ OpeningFails(r))
       /\ WF_vars(<<r, "page">> \in stop /\ PageEnds(r))
       /\ WF_vars(FreshStopped(r)) /\ WF_vars(TurnCleaned(r))
       /\ WF_vars(FallbackSignal(r) /\ FallbackEnds(r))
  /\ WF_vars(SourceSteps)
  /\ \A x \in Transactions \ Requests :
       WF_vars(TimesOut(x) /\ UNCHANGED <<runVars, browserVars>>)

StopSpec == Spec /\ StopFairness

-----------------------------------------------------------------------------
\* Two runs of one compaction never drive pages at the same time: a run keeps
\* its key until its turns are physically over.
OneOwner ==
  \A r, s \in Requests : r # s =>
    ~(/\ {page[r], fresh[r]} \cap {"running", "ended"} # {}
      /\ {page[s], fresh[s]} \cap {"running", "ended"} # {})

\* A run that is over leaves no transaction behind, not even one that came
\* after it: no token ChatGPT was given stays valid.
NoTransactionLeft ==
  \A r \in Requests : pc[r] \in {"none", "retiring", "fallback", "done"} => r \notin store

\* A summary ChatGPT was told is accepted is what Codex gets, unless the
\* signal fired or the summary was spoiled on the way.
AcceptedIsReturned ==
  \A r \in submitted \cap Requests :
    /\ pc[r] = "done" /\ ~Interrupted(r) /\ r \notin spoiled => verdict[r] = "summary"
    /\ pc[r] # "fallback"

\* The retained page is released only when no turn drives it, and no handoff
\* starts on it afterwards.
ReleasedIsIdle == released => \A r \in Requests : page[r] # "running"

\* A handoff has one owner at a time, who leaves nothing behind, returns what
\* ChatGPT was told is accepted and never drives a page that was given up.
HandoffIsOwned == OneOwner /\ NoTransactionLeft /\ AcceptedIsReturned /\ ReleasedIsIdle

\* A run on the retained page settles, cancelled or not, though a page may
\* hang until it is told to stop: it gives its key up or falls back.
HandoffSettles ==
  \A r \in Requests : r \in active ~> r \notin active \/ pc[r] = "fallback"

\* Whoever waits for a summary, or for a run of the retained page, is answered.
WaitsEnd == EveryWaitEnds /\ HandoffSettles
=============================================================================
