---------------------------- MODULE BrowserWorker ----------------------------
(***************************************************************************)
(* The browser worker of an external browser: the pool of pages (see       *)
(* SurfacePool), and one of its turns in every step it takes on its page   *)
(* (see TurnPage).  What the page makes of that turn decides whether the   *)
(* page is kept and whether the connection becomes suspect; the other      *)
(* turns only complete or fail.                                            *)
(***************************************************************************)
EXTENDS SurfacePool, TurnPage

CONSTANTS Scenarios, Nobody

ASSUME WorkerBounds ==
  Scenarios \subseteq [plan : [Runs -> Plans], focus : Runs \cup {Nobody}, job : Jobs, asks : SUBSET Runs, frees : SUBSET Keys]

VARIABLE focus    \* the turn shown in detail
vars == <<pvars, tvars, focus>>

Init ==
  /\ \E s \in Scenarios : plan = s.plan /\ focus = s.focus /\ job = s.job /\ PoolInit(s.asks, s.frees)
  /\ TurnInit

Keep == UNCHANGED <<pvars, focus>>
Pool == UNCHANGED <<tvars, focus>>
Works == focus # Nobody /\ phase[focus] = "working"

Serve == \E r \in Runs :
  \/ RunOwned(r) \/ Evicted(r) \/ Start(r) \/ Reuse(r) \/ Unobservable(r) \/ Drop(r)
  \/ Continue(r) \/ Connect(r) \/ OpenPage(r) \/ Closed(r)
Spoil == (\E r \in Runs : EvictionFails(r) \/ Unprepared(r) \/ NoPage(r)) \/ (\E t \in tabs : UserCloses(t)) \/ Disconnect
Free == \E k \in Keys : ReleasePage(k) \/ Released(k)

(* A turn ends as its page says.                                           *)
Finish == \E r \in Runs :
  \/ (r = focus => turn.outcome = "ok") /\ Complete(r)
  \/ \E unread \in BOOLEAN :
       (r = focus => turn.outcome \notin {"none", "ok"} /\ unread = (turn.outcome = "unread")) /\ Fail(r, unread)

(* A page whose handle is gone ends the turn at its next step.             *)
Drive == Works /\ (Begins(reused[focus]) \/ (tab[focus] \in live /\ TurnSteps))
Disturb == Works /\ PageSteps
Notice == Works /\ tab[focus] \notin live /\ (Breaks \/ Lost)
TimeOut == Works /\ TimesOut

(* The action of a stage that timed out goes on while its page has a       *)
(* handle, also when the turn is over and its page could not be closed.    *)
Straggle == focus # Nobody /\ Straggles /\ IF tab[focus] \in live THEN LateSteps ELSE Breaks \/ Lost

Next ==
  \/ (Serve \/ Spoil \/ Free \/ Finish \/ \E k \in Keys : Release(k)) /\ Pool
  \/ (Drive \/ Disturb \/ Notice \/ TimeOut \/ Straggle) /\ Keep

Spec == Init /\ [][Next]_vars

(* The worker's own steps happen, and every wait for the page is bounded.  *)
FairSpec == /\ Spec /\ WF_vars((Serve \/ Free) /\ Pool) /\ WF_vars(Finish /\ Pool)
            /\ WF_vars((Drive \/ Notice) /\ Keep) /\ WF_vars(TimeOut /\ Keep)
-----------------------------------------------------------------------------
TypeOK == PoolTypeOK /\ TurnTypeOK

(* What goes on of a turn that timed out goes on alone: no other turn has  *)
(* its page, and none gets it once the turn is over.                       *)
StragglersAreAlone ==
  Straggles /\ focus # Nobody /\ tab[focus] \in live =>
    /\ phase[focus] \in {"working", "closing", "over"}
    /\ \A r \in Holding : r = focus \/ tab[r] # tab[focus]
    /\ phase[focus] # "working" => \A i \in DOMAIN retained : retained[i].tab # tab[focus]

(* A turn leaves in the account what it should: its messages, once and     *)
(* whole, and the user's own personalization; and nothing of it reaches    *)
(* into another turn.                                                      *)
AccountIsRight == MessagesAreWhole /\ ChoiceIsRestored /\ StragglersAreAlone

(* Every turn ends and every release does, once the page is quiet and      *)
(* unless it leaves the turn waiting (Waits).                              *)
WorkEnds == <>[](Settled \/ (Works /\ Waits))
=============================================================================
