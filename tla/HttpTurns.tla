------------------------------- MODULE HttpTurns -------------------------------
(***************************************************************************)
(* The daemon's HTTP side: requests of Codex, the counter that tracks them *)
(* until their response has been read (HttpTurnCounter in server.ts), the  *)
(* launcher's drain, interrupt, cancel and shutdown, and the round of the  *)
(* ChatGPT web adapter a request runs (runTurn in index.ts) on the browser *)
(* session of its native turn.                                             *)
(*                                                                         *)
(* A native turn takes several requests: one that ends in tool calls is    *)
(* followed by one with their results; one that fails or is disconnected   *)
(* may be sent again.  What happens to sessions inside the registry is in  *)
(* TurnSessions, the broker's side of tool calls in TurnBroker, retained   *)
(* compaction in CompactionHandoff; here they are one step each.           *)
(***************************************************************************)
EXTENDS ResponsesStream

CONSTANTS Turns,        \* native turns: thread and turn id
          Posts,        \* bound: how many requests Codex may send
          MaxRetries,   \* MAX_CHATGPT_WEB_TURN_RETRIES
          Scenarios     \* bound: of each request the turn and the kind, what the pages do,
                        \* what the launcher may do, how many clients disconnect, and
                        \* whether clients let the response wait

Kinds  == {"stream", "json", "compactStream", "compactJson", "native"}
Acts   == {"think", "text", "tools", "final", "retryable", "fatal"}
Admin  == {"drain", "interrupt", "cancel", "trace"}

ASSUME HttpAssumption ==
  /\ Posts \in Nat \ {0} /\ MaxRetries \in Nat
  /\ Scenarios \subseteq [turns : [1 .. Posts -> Turns], kinds : [1 .. Posts -> Kinds],
       page : Seq(Acts), admin : SUBSET Admin, leaves : Nat, slow : BOOLEAN]
\* A page that has ended writes no more.
ASSUME PagesEnd == \A s \in Scenarios : \A i \in DOMAIN s.page :
  s.page[i] \in {"final", "retryable", "fatal"} => i = Len(s.page)

VARIABLES
  req,       \* of a request: its phase, what is known of it, and its round
  stream,    \* of a request: ResponsesStream's record
  session,   \* of a turn: its browser session; held: the trace event its round's waiter has
  budget,    \* of a turn: retries (RetryBudgetEntry); history: sends since it was cleared, batches of calls
  server,    \* draining, stopping, down; the turns in interrupted
  left,      \* bounds: clients that may still disconnect, what the launcher may still do
  scenario

vars == <<req, stream, session, budget, server, left, scenario>>
Requests == 1 .. Posts

Phases == {"idle", "reading", "running", "streaming", "plain", "over", "refused"}
Rounds == {"none", "begin", "queued", "waiting", "compacting", "over"}
Outcomes == {"none", "final", "retryable", "fatal", "cancelled"}
Held == {"none", "fresh", "behind"}
Request == [phase : Phases, counted : BOOLEAN, bound : BOOLEAN, aborted : BOOLEAN, gone : BOOLEAN,
            results : Nat, call : Nat, round : Rounds, events : Seq(Events), segment : Nat]
Session == [life : {"none", "live", "retiring"}, tombstone : BOOLEAN, script : Seq(Acts), trace : Nat, text : Nat, held : Held,
            batch : BOOLEAN, outstanding : Nat, outcome : Outcomes, holder : 0 .. Posts, final : Seq(Events),
            segment : Nat]

NewRequest == [phase |-> "idle", counted |-> FALSE, bound |-> FALSE, aborted |-> FALSE, gone |-> FALSE,
  results |-> 0, call |-> 0, round |-> "none", events |-> <<>>, segment |-> 0]
NoSession == [life |-> "none", tombstone |-> FALSE, script |-> <<>>, trace |-> 0, text |-> 0, held |-> "none", batch |-> FALSE,
  outstanding |-> 0, outcome |-> "none", holder |-> 0, final |-> <<>>, segment |-> 0]

Init ==
  /\ req = [r \in Requests |-> NewRequest] /\ stream = [r \in Requests |-> NewStream]
  /\ session = [t \in Turns |-> NoSession] /\ budget = [t \in Turns |-> [retries |-> 0, sends |-> 0, calls |-> 0]]
  /\ server = [draining |-> FALSE, stopping |-> FALSE, down |-> FALSE, interrupted |-> {}]
  /\ scenario \in Scenarios /\ left = [leaves |-> scenario.leaves, admin |-> scenario.admin]

T(r)    == scenario.turns[r]
Kind(r) == scenario.kinds[r]
S(r)    == session[T(r)]
Compacts(r) == Kind(r) \in {"compactStream", "compactJson"}
Up      == ~server.down
InRound(r) == req[r].round \in {"queued", "waiting"}

\* activity(): chatGptTurnSessions.activeCount is the sessions without an outcome
ActiveHttp    == {r \in Requests : req[r].counted}
ActiveBrowser == {t \in Turns : session[t].life = "live" /\ session[t].outcome = "none"}

-----------------------------------------------------------------------------
(* Codex.                                                                  *)

\* What Codex knows of a request: it read the terminal event, or it is gone.
Known(r) == req[r].gone \/ req[r].phase \in {"over", "refused"}
EndedInTools(r) == Outcome(stream[r]) = "completed" /\ req[r].call # 0
OfTurn(r, q) == T(q) = T(r) /\ {Kind(q), Kind(r)} \subseteq {"stream", "json"}
Latest(r, q) == q < r /\ OfTurn(r, q) /\ \A n \in (q + 1) .. (r - 1) : ~OfTurn(r, n)
\* Codex goes on with a turn when the request before was answered with tool calls, or failed.
Continues(r) == \A q \in Requests : Latest(r, q) =>
  Known(q) /\ (EndedInTools(q) \/ Outcome(stream[q]) # "completed" \/ req[q].gone)

\* draining: any POST is answered with 503
Refused == server.draining

\* The calls whose results Codex has when it goes on after q: a request that is sent again
\* carries those it carried before.
Answered(q) == IF EndedInTools(q) THEN req[q].call ELSE req[q].results
Post(r) ==
  /\ Up /\ req[r].phase = "idle" /\ \A q \in Requests : q < r => req[q].phase # "idle"
  /\ Continues(r) /\ T(r) \notin server.interrupted
  /\ req' = [req EXCEPT ![r] = IF Refused THEN [@ EXCEPT !.phase = "refused"]
       ELSE [@ EXCEPT !.phase = "reading", !.counted = TRUE,
              !.results = IF \E q \in Requests : Latest(r, q) THEN Answered(CHOOSE q \in Requests : Latest(r, q)) ELSE 0]]
  /\ UNCHANGED <<stream, session, budget, server, left, scenario>>

-----------------------------------------------------------------------------
(* Cancelling a request.                                                   *)

Release(r) == [r EXCEPT !.counted = FALSE, !.phase = "over"]
\* The abort listener of a response that is being read cancels its reader and releases.
Aborted(rs) ==
  /\ req' = [r \in Requests |-> IF r \notin rs THEN req[r]
       ELSE LET a == [req[r] EXCEPT !.aborted = TRUE] IN IF req[r].phase \in {"streaming", "plain"} THEN Release(a) ELSE a]
  /\ stream' = [r \in Requests |-> IF r \in rs /\ stream[r].on /\ ~stream[r].closed THEN Cancel(stream[r]) ELSE stream[r]]

\* The client disconnects, or cancels the body.
Leave(r) ==
  /\ Up /\ req[r].counted /\ ~req[r].gone /\ left.leaves > 0 /\ left' = [left EXCEPT !.leaves = @ - 1]
  /\ LET a == [req[r] EXCEPT !.gone = TRUE, !.aborted = TRUE]
     IN  req' = [req EXCEPT ![r] = IF @.phase \in {"streaming", "plain"} THEN Release(a) ELSE a]
  /\ stream' = [stream EXCEPT ![r] = IF @.on /\ ~@.closed THEN Cancel(@) ELSE @]
  /\ UNCHANGED <<session, budget, server, scenario>>

\* The session of a cancelled turn goes; a later request of it is refused.
Entombed(t) == IF session[t].life = "live"
  THEN [session[t] EXCEPT !.life = "retiring", !.tombstone = TRUE, !.outcome = IF @ = "none" THEN "cancelled" ELSE @]
  ELSE session[t]
May(what) == Up /\ what \in left.admin

\* /admin/interrupt-turn: cancelNativeTurn, then beginCancelTurn
Interrupt(t) ==
  /\ May("interrupt") /\ \E r \in Requests : req[r].counted /\ T(r) = t /\ left' = [left EXCEPT !.admin = @ \ {"interrupt"}]
  /\ server' = [server EXCEPT !.interrupted = @ \cup {t}] /\ session' = [session EXCEPT ![t] = Entombed(t)]
  /\ Aborted({r \in ActiveHttp : req[r].bound /\ T(r) = t})
  /\ UNCHANGED <<budget, scenario>>

\* /admin/cancel-turns
CancelTurns ==
  /\ May("cancel") /\ left' = [left EXCEPT !.admin = @ \ {"cancel"}]
  /\ session' = [t \in Turns |-> Entombed(t)] /\ Aborted(ActiveHttp)
  /\ UNCHANGED <<budget, server, scenario>>
\* /admin/cancel-turn: the browser run alone; its request hears of it as the run's outcome.
CancelTrace(t) ==
  /\ May("trace") /\ t \in ActiveBrowser /\ left' = [left EXCEPT !.admin = @ \ {"trace"}]
  /\ session' = [session EXCEPT ![t] = Entombed(t)]
  /\ UNCHANGED <<req, stream, budget, server, scenario>>

-----------------------------------------------------------------------------
(* Drain and shutdown.                                                     *)

Drain ==
  /\ May("drain") /\ ~server.draining
  /\ server' = [server EXCEPT !.draining = TRUE] /\ UNCHANGED <<req, stream, session, budget, left, scenario>>
\* The launcher gives up a drain; not once its shutdown has been accepted.
Resume ==
  /\ May("drain") /\ server.draining /\ ~server.stopping /\ left' = [left EXCEPT !.admin = @ \ {"drain"}]
  /\ server' = [server EXCEPT !.draining = FALSE] /\ UNCHANGED <<req, stream, session, budget, scenario>>
Shutdown ==
  /\ Up /\ server.draining /\ ActiveHttp = {} /\ ActiveBrowser = {} /\ ~server.stopping
  /\ server' = [server EXCEPT !.stopping = TRUE] /\ UNCHANGED <<req, stream, session, budget, left, scenario>>
\* The timer of an accepted shutdown: sessions are cleared, the listener is stopped.
ShutsDown ==
  /\ Up /\ server.stopping /\ server' = [server EXCEPT !.down = TRUE]
  /\ UNCHANGED <<req, stream, session, budget, left, scenario>>

-----------------------------------------------------------------------------
(* A request is read and answered.                                         *)

\* 400 and 409: an unreadable body, a missing continuation state, a compaction of Luna
Rejects(r) ==
  /\ Up /\ req[r].phase = "reading"
  /\ req' = [req EXCEPT ![r] = IF @.aborted THEN Release(@) ELSE [@ EXCEPT !.phase = "plain"]]
  /\ UNCHANGED <<stream, session, budget, server, left, scenario>>

\* bindIdentity
Bound(r) == req[r].aborted \/ T(r) \in server.interrupted

Exhausted(t) == budget[t].retries > MaxRetries
\* The body is read: the identity is bound and the run begins; a streamed response is returned
\* at once, and cancelled at once if the request was aborted.
Begins(r) ==
  /\ Up /\ req[r].phase = "reading"
  /\ LET aborted  == IF Kind(r) = "native" THEN req[r].aborted ELSE Bound(r)
         streams  == Kind(r) \in {"stream", "compactStream"}
         refused  == Exhausted(T(r)) /\ ~Compacts(r) /\ Kind(r) # "native"
         began    == [req[r] EXCEPT !.bound = Kind(r) # "native", !.aborted = aborted,
                        !.phase = IF streams THEN "streaming" ELSE "running",
                        !.round = IF Kind(r) = "native" THEN "none" ELSE IF refused THEN "over"
                                  ELSE IF Compacts(r) THEN "compacting" ELSE "begin"]
         s        == [NewStream EXCEPT !.on = streams, !.stepping = streams /\ ~scenario.slow, !.batch = ~streams, !.compaction = Compacts(r)]
         started  == IF refused THEN PushLast(s, <<"error">>) ELSE s
     IN  /\ req' = [req EXCEPT ![r] = IF aborted /\ streams THEN Release(began) ELSE began]
         /\ stream' = [stream EXCEPT ![r] = IF aborted /\ streams THEN Cancel(started) ELSE started]
  /\ UNCHANGED <<session, budget, server, left, scenario>>

\* Codex reads on: at once, or when it gets to it.
ReadOn(s) == IF scenario.slow \/ s.closed THEN s ELSE Pull(s)
Reads(r) ==
  /\ Up /\ req[r].phase = "streaming" /\ CanPull(stream[r]) /\ stream' = [stream EXCEPT ![r] = Pull(@)]
  /\ UNCHANGED <<req, session, budget, server, left, scenario>>
Steps(r) ==
  /\ Up
  /\ \/ CanStep(stream[r]) /\ stream' = [stream EXCEPT ![r] = ReadOn(Step(@))]
     \/ CanEof(stream[r]) /\ stream' = [stream EXCEPT ![r] = Eof(@)]
  \* onCancel: the run's signal; the terminal event ends the run
  /\ req' = [req EXCEPT ![r].aborted = @ \/ stream'[r].closed]
  /\ UNCHANGED <<session, budget, server, left, scenario>>
\* A run sends heartbeats once it has its session.
Stalls(r) ==
  /\ Up /\ CanStall(stream[r]) /\ req[r].round \in {"begin", "compacting"}
  /\ stream' = [stream EXCEPT ![r] = Stall(@)] /\ req' = [req EXCEPT ![r].aborted = TRUE]
  /\ UNCHANGED <<session, budget, server, left, scenario>>

\* A run that could not report its failure fails the request; else the body is built, and not
\* sent if the request was aborted (499).
Answers(r) ==
  /\ Up /\ req[r].phase = "running"
  /\ \/ Kind(r) = "native" /\ UNCHANGED stream
     \/ stream[r].batch /\ stream[r].shut /\ stream' = [stream EXCEPT ![r] = IF @.dropped THEN @
                                             ELSE IF @.compaction THEN Compaction(Build(@)) ELSE Build(@)]
  /\ req' = [req EXCEPT ![r] = IF @.aborted \/ stream[r].dropped THEN Release(@) ELSE [@ EXCEPT !.phase = "plain"]]
  /\ UNCHANGED <<session, budget, server, left, scenario>>

\* The body's end was read, or reading it failed.
ReadToEnd(r) == req[r].phase = "plain" \/ (req[r].phase = "streaming" /\ stream[r].closed)
Ended(r) ==
  /\ Up /\ ReadToEnd(r) /\ req' = [req EXCEPT ![r] = Release(@)]
  /\ UNCHANGED <<stream, session, budget, server, left, scenario>>

-----------------------------------------------------------------------------
(* The round of a request.                                                 *)

Cleared(t) == [budget[t] EXCEPT !.retries = 0, !.sends = 0]
Retire(s) == IF s.life = "live" THEN [s EXCEPT !.life = "retiring", !.outcome = IF @ = "none" THEN "cancelled" ELSE @] ELSE s
\* The round's waiter goes with it, and so does the event it may hold.
Freed(r, s) == IF s.holder = r THEN [s EXCEPT !.holder = 0, !.held = "none"] ELSE s

Batch(es) == es # <<>> /\ Last(es) = "doneTools"
\* The round is over: es are its last events, s is what it leaves of the session.
Over(r, es, s, b) ==
  /\ req' = [req EXCEPT ![r].round = "over", ![r].segment = S(r).segment, ![r].call = IF Batch(es) THEN s.outstanding ELSE 0]
  /\ stream' = [stream EXCEPT ![r] = PushLast(@, es)]
  /\ session' = [session EXCEPT ![T(r)] = Freed(r, s)] /\ budget' = [budget EXCEPT ![T(r)] = b]
  /\ UNCHANGED <<server, left, scenario>>

\* recordRetryableFailure
Recorded(t) == [budget[t] EXCEPT !.retries = @ + 1]
\* Mutant: every failure keeps the session, to be replayed.
CatchKeeping(r, why) == Over(r, <<"error">>, S(r), [budget[T(r)] EXCEPT !.retries = IF why = "retryable" THEN @ + 1 ELSE 0])
\* A failure that may be retried retires the session, until the budget is used up; one that may
\* not is kept to be replayed; any other error, a disconnect among them, retires it.
Catch(r, why) ==
  LET b == Recorded(T(r))
  IN  CASE why = "retryable" -> Over(r, <<"error">>, IF b.retries > MaxRetries THEN S(r) ELSE Retire(S(r)), b)
        [] why = "fatal"     -> Over(r, <<"error">>, S(r), Cleared(T(r)))
        [] OTHER             -> Over(r, <<"error">>, Retire(S(r)), Cleared(T(r)))

\* es end the round; an event that does not fit into the queue fails it.
Concludes(r, es, s, b) ==
  IF Fits(stream[r], es) THEN Over(r, es, s, b) ELSE Over(r, es, Retire(S(r)), Cleared(T(r)))
\* es are sent and remembered for a replay.
Sends(r, es, s) ==
  IF Fits(stream[r], es)
  THEN /\ stream' = [stream EXCEPT ![r] = Push(@, es)] /\ req' = [req EXCEPT ![r].events = @ \o es]
       /\ session' = [session EXCEPT ![T(r)] = s] /\ UNCHANGED <<budget, server, left, scenario>>
  ELSE Over(r, es, Retire(S(r)), Cleared(T(r)))

\* Mutant: what the page wrote since the last look is left for later.
UndrainedYet(s) == <<>>
\* trace.drain, text.drain
Undrained(s) == [i \in 1 .. 2 * s.trace |-> IF i % 2 = 1 THEN "boundary" ELSE "think"] \o [i \in 1 .. s.text |-> "text"]
Drained(s) == [s EXCEPT !.trace = 0, !.text = 0]
Call == <<"call", "callEnd", "doneTools">>

\* An abort is thrown in the listening round before any other task runs.
AbortsCaught(t) == \A r \in Requests : T(r) = t => ~(req[r].round = "waiting" /\ req[r].aborted)
\* The awaits before the session: what it supersedes or replaces has been retired.
GetsSession(r) ==
  /\ Up /\ req[r].round = "begin" /\ S(r).life # "retiring" /\ AbortsCaught(T(r))
  /\ IF S(r).tombstone THEN Over(r, <<"error">>, S(r), budget[T(r)])
     ELSE /\ req' = [req EXCEPT ![r].round = "queued"]
          /\ IF S(r).life = "live" THEN UNCHANGED <<session, budget>>
             ELSE /\ session' = [session EXCEPT ![T(r)] = [NoSession EXCEPT !.life = "live", !.script = scenario.page]]
                  /\ budget' = [budget EXCEPT ![T(r)].sends = @ + 1]
          /\ UNCHANGED <<stream, server, left, scenario>>

\* runExclusive: a settled outcome is replayed or drained; a pending batch is sent again, unless
\* the request has its results; then the round sends what there is and listens to the page.
Enters(r) ==
  /\ Up /\ req[r].round = "queued" /\ S(r).holder = 0 /\ AbortsCaught(T(r))
  /\ LET s == S(r) IN
     CASE s.outcome = "final" ->
            LET es == IF s.final # <<>> THEN s.final ELSE Undrained(s)
            IN  Concludes(r, es \o <<"doneStop">>, [Drained(s) EXCEPT !.final = es], Cleared(T(r)))
       [] s.outcome \notin {"none", "final"} -> Catch(r, s.outcome)
       [] s.outcome = "none" /\ req[r].aborted -> Catch(r, "aborted")
       [] s.outcome = "none" /\ ~req[r].aborted /\ s.outstanding \notin {0, req[r].results} -> Concludes(r, s.final \o Call, s, budget[T(r)])
       [] OTHER ->
            LET delivered == IF s.outstanding # 0 THEN [s EXCEPT !.outstanding = 0, !.final = <<>>, !.segment = @ + 1, !.script = Tail(@)] ELSE s
                es        == Undrained(s)
            IN  IF ~Fits(stream[r], es) THEN Over(r, es, Retire(s), Cleared(T(r)))
                ELSE /\ req' = [req EXCEPT ![r].round = "waiting", ![r].segment = delivered.segment, ![r].events = es]
                     /\ stream' = [stream EXCEPT ![r] = Push(@, es)]
                     /\ session' = [session EXCEPT ![T(r)] = [Drained(delivered) EXCEPT !.holder = r]]
                     /\ UNCHANGED <<budget, server, left, scenario>>

\* Promise.race, again and again.  A trace event is handed to the waiter of nextTrace, and no longer
\* in the feed that is drained when another wins.  If it came to a race in which nothing was ready
\* it wins that race; if text came before it, or it is taken from the feed, anything may win.
Listens(r) == Up /\ req[r].round = "waiting"
Others(r) == Listens(r) /\ S(r).held # "fresh"
\* ChatGptTraceFeed.push; when a round waits, to its waiter
Traced(s) == CASE s.holder = 0 \/ s.held # "none" -> [s EXCEPT !.trace = @ + 1]
               [] OTHER -> [s EXCEPT !.held = IF s.text = 0 THEN "fresh" ELSE "behind"]
\* ChatGptTraceFeed.next
NextTrace(s) == IF s.trace = 0 THEN [s EXCEPT !.held = "none"] ELSE [s EXCEPT !.held = "behind", !.trace = @ - 1]
TakesTrace(r) ==
  Listens(r) /\ S(r).held # "none" /\ Sends(r, <<"boundary", "think">>, NextTrace(S(r)))
TakesText(r) ==
  /\ Others(r) /\ S(r).text > 0 /\ Sends(r, Undrained([S(r) EXCEPT !.trace = 0]), [S(r) EXCEPT !.text = 0])
TakesBatch(r) ==
  /\ Others(r) /\ S(r).batch /\ S(r).life = "live"
  /\ LET es == Undrained(S(r))
     IN  Concludes(r, es \o Call, [Drained(S(r)) EXCEPT !.batch = FALSE, !.outstanding = budget[T(r)].calls + 1,
                               !.final = req[r].events \o es], [budget[T(r)] EXCEPT !.calls = @ + 1])
TakesOutcome(r) ==
  /\ Others(r) /\ S(r).outcome # "none"
  /\ LET es == Undrained(S(r))
     IN  IF S(r).outcome = "final"
         THEN Concludes(r, es \o <<"doneStop">>, [Drained(S(r)) EXCEPT !.final = req[r].events \o es], Cleared(T(r)))
         ELSE Catch(r, S(r).outcome)
Aborts(r) == Listens(r) /\ req[r].aborted /\ Catch(r, "aborted")

\* A compaction's run: a summary, or an error; its own life is in CompactionHandoff.
Compacted(r) ==
  /\ Up /\ req[r].round = "compacting"
  /\ \/ ~req[r].aborted /\ Over(r, <<"text", "doneStop">>, S(r), budget[T(r)])
     \/ Over(r, <<"error">>, S(r), budget[T(r)])

-----------------------------------------------------------------------------
(* The page of a session; external to the daemon.                          *)

PageActs(t) ==
  LET s == session[t] IN
  /\ Up /\ s.life = "live" /\ s.outcome = "none" /\ s.script # <<>> /\ ~s.batch /\ s.outstanding = 0
  /\ session' = [session EXCEPT ![t] =
       CASE Head(s.script) = "think" -> Traced([s EXCEPT !.script = Tail(@)])
         [] Head(s.script) = "text"  -> [s EXCEPT !.script = Tail(@), !.text = @ + 1]
         [] Head(s.script) = "tools" -> [s EXCEPT !.batch = TRUE]
         [] OTHER -> [s EXCEPT !.script = Tail(@), !.outcome = Head(s.script)]]
  /\ UNCHANGED <<req, stream, budget, server, left, scenario>>
PageGone(t) ==
  /\ Up /\ session[t].life = "retiring" /\ \A r \in Requests : T(r) = t => ~InRound(r)
  /\ session' = [session EXCEPT ![t] = [NoSession EXCEPT !.tombstone = session[t].tombstone]]
  /\ UNCHANGED <<req, stream, budget, server, left, scenario>>

-----------------------------------------------------------------------------
Round(r) == GetsSession(r) \/ Enters(r) \/ TakesTrace(r) \/ TakesText(r) \/ TakesBatch(r) \/ TakesOutcome(r)
            \/ Aborts(r) \/ Compacted(r)
Reply(r) == Rejects(r) \/ Begins(r) \/ Reads(r) \/ Steps(r) \/ Answers(r) \/ Ended(r)
Page(t)  == PageActs(t) \/ PageGone(t)
Progress == (\E r \in Requests : Round(r) \/ Reply(r)) \/ (\E t \in Turns : Page(t))

Next ==
  \/ \E r \in Requests : Post(r) \/ Leave(r) \/ Stalls(r)
  \/ \E r \in Requests : Rejects(r) \/ Begins(r) \/ Reads(r) \/ Steps(r) \/ Answers(r) \/ Ended(r)
  \/ \E r \in Requests : GetsSession(r) \/ Enters(r) \/ TakesTrace(r) \/ TakesText(r) \/ TakesBatch(r)
                         \/ TakesOutcome(r) \/ Aborts(r) \/ Compacted(r)
  \/ \E t \in Turns : Interrupt(t) \/ CancelTrace(t) \/ PageActs(t) \/ PageGone(t)
  \/ CancelTurns \/ Drain \/ Resume \/ Shutdown \/ ShutsDown

Spec == Init /\ [][Next]_vars
\* Clients read or leave, pages end, and the daemon's tasks run.
FairSpec == Spec /\ WF_vars(Progress)

-----------------------------------------------------------------------------
(* Properties.                                                             *)

\* Every variable stays in its domain.
TypeOK ==
  /\ req \in [Requests -> Request] /\ session \in [Turns -> Session] /\ scenario \in Scenarios
  /\ budget \in [Turns -> [retries : Nat, sends : Nat, calls : Nat]]
  /\ server \in [draining : BOOLEAN, stopping : BOOLEAN, down : BOOLEAN, interrupted : SUBSET Turns]
  /\ left \in [leaves : Nat, admin : SUBSET Admin]
  /\ \A r \in Requests : stream[r].open \in Items \cup {"none"} /\ stream[r].queue \in Seq(Events)
       /\ Len(stream[r].queue) <= MaxBuffered + 1 /\ \A i \in DOMAIN stream[r].frames : stream[r].frames[i] \in Frame

\* What the page did between the k-th batch of tool calls and the next.
Did(what, k) == Cardinality({i \in DOMAIN scenario.page : scenario.page[i] = what
                  /\ Cardinality({j \in 1 .. i : scenario.page[j] = "tools"}) = k})
Deltas(r, item) == Cardinality({i \in DOMAIN stream[r].frames : stream[r].frames[i].what = "delta" /\ stream[r].frames[i].item = item})
Whole(r) == Kind(r) = "stream" /\ Outcome(stream[r]) = "completed"
\* A completed response carries all the page wrote in that round: nothing of it is lost or sent
\* twice, whether it came while the round listened, before, or is sent again (index.ts, bridge.ts).
\* Of what it thought one event may be lost: the one the round's waiter holds when the round ends.
RoundIsWhole(r) == Whole(r) =>
  /\ Deltas(r, "message") = Did("text", req[r].segment)
  /\ Deltas(r, "reasoning") <= Did("think", req[r].segment)
  /\ Deltas(r, "reasoning") >= Did("think", req[r].segment) - 1
\* Codex may continue only from a response it was told is complete.
RememberedIsComplete(r) == stream[r].remembered => Outcome(stream[r]) = "completed" \/ stream[r].clientCancelled
\* A compaction that is reported as completed has its one item, and nothing else.
CompactionIsOneItem(r) ==
  stream[r].compaction /\ Outcome(stream[r]) = "completed" => Len(stream[r].frames) = 2
\* What Codex is sent is a well-formed response: one terminal event, after everything else; each
\* item closed; the whole round if it completed (bridgeToResponsesSSE).
ResponsesAreWhole == \A r \in Requests : WellFormed(stream[r]) /\ RoundIsWhole(r)
                                         /\ CompactionIsOneItem(r) /\ RememberedIsComplete(r)

\* A browser run that is under way has a request that listens or will, or waits for Codex's results.
RunIsOwned(t) ==
  session[t].life = "live" /\ session[t].outcome = "none" =>
    session[t].outstanding # 0 \/ \E r \in Requests : T(r) = t /\ InRound(r)
\* An interrupt reaches the requests of its turn, those bound before it and those bound after.
InterruptHolds(r) == req[r].bound /\ T(r) \in server.interrupted => req[r].aborted \/ req[r].phase \in {"over", "plain"}
\* The daemon goes down only when every response was read and no browser run is under way, but
\* for the one that an abandoned request is about to stop.
ShutdownCutsNothing == server.down =>
  /\ \A r \in Requests : req[r].phase \in {"idle", "refused", "over"} /\ (stream[r].on => stream[r].closed)
  /\ \A t \in ActiveBrowser : session[t].outstanding = 0 /\ \A r \in Requests : T(r) = t /\ InRound(r) => req[r].aborted
\* A prompt is sent at most once and once per retry before the turn succeeds or fails otherwise.
SendsAreBounded(t) == budget[t].sends <= MaxRetries + 1
\* What the counters of the daemon are for: work goes on only for someone, and none is cut off.
WorkIsAccounted ==
  /\ \A t \in Turns : RunIsOwned(t) /\ SendsAreBounded(t)
  /\ \A r \in Requests : InterruptHolds(r)
  /\ ShutdownCutsNothing

\* Every request that is accepted is released, however the page, the client or the launcher act.
RequestsEnd == <>[](server.down \/ ActiveHttp = {})
==============================================================================
