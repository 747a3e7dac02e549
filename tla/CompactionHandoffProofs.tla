----------------------- MODULE CompactionHandoffProofs -----------------------
(***************************************************************************)
(* Proofs about CompactionHandoff: the store's invariants hold in it as    *)
(* well, and a handoff has one owner.  HandoffIsOwned is not inductive; it *)
(* becomes so together with what follows from the place a run has reached. *)
(* A run that is neither new nor done, or whose turns drive a page, owns   *)
(* the key (Keys): so the others have nothing to do when one retires the   *)
(* conversation (Retirement).  A transaction is in the store only while    *)
(* its run waits for it (Transaction), and how a run ends is settled when  *)
(* it leaves that wait (Outcome).                                          *)
(***************************************************************************)
EXTENDS CompactionHandoff, TLAPS

-----------------------------------------------------------------------------
(* The store on its own.  Its four invariants are inductive together:       *)
(* ParkedIsGuarded says that a waiter and a summary never meet in the       *)
(* store, which is what makes RejectsWaiters harmless to the other two, and *)
(* that no armed timer can take a summary away.                             *)

StoreInv == StoreTypeOK /\ ParkedIsGuarded /\ AcceptedIsKept /\ BothSidesAgree

\* Ending the transactions of S without a summary, on somebody's behalf who
\* does not withdraw them, keeps the invariant: compaction-transaction.ts
\* finishError.
LEMMA FinishKeeps ==
  ASSUME StoreInv, NEW S, S \cap submitted \subseteq withdrawn', FinishError(S),
         withdrawn \subseteq withdrawn', withdrawn' \subseteq Transactions,
         UNCHANGED <<begun, submitted>>
  PROVE  StoreInv'
<1>1. StoreTypeOK'
  BY DEF StoreInv, StoreTypeOK, FinishError, RejectsWaiters, Parked
<1>2. ParkedIsGuarded'
  BY DEF StoreInv, StoreTypeOK, ParkedIsGuarded, FinishError, RejectsWaiters, Parked
<1>3. AcceptedIsKept'
  BY DEF StoreInv, StoreTypeOK, AcceptedIsKept, ParkedIsGuarded, FinishError, RejectsWaiters, Parked
<1>4. BothSidesAgree'
  BY DEF StoreInv, StoreTypeOK, BothSidesAgree, ParkedIsGuarded, FinishError, RejectsWaiters, Parked
<1> QED BY <1>1, <1>2, <1>3, <1>4 DEF StoreInv

\* One step of the store keeps the invariant.
LEMMA StoreInductive == StoreInv /\ [StoreNext]_storeVars => StoreInv'
<1> SUFFICES ASSUME StoreInv, [StoreNext]_storeVars PROVE StoreInv' OBVIOUS
<1> USE DEF StoreInv, StoreTypeOK, ParkedIsGuarded, AcceptedIsKept, BothSidesAgree, Parked
<1>1. ASSUME NEW x \in Transactions, Begin(x) PROVE StoreInv'
  BY <1>1 DEF Begin
<1>2. ASSUME NEW x \in Transactions, Submit(x) PROVE StoreInv'
  <2>1. CASE Parked(x)
    BY <1>2, <2>1 DEF Submit, ServesWaiter
  <2>2. CASE ~Parked(x)
    BY <1>2, <2>2 DEF Submit, ServesWaiter
  <2> QED BY <2>1, <2>2
<1>3. ASSUME NEW x \in Transactions, Wait(x) PROVE StoreInv'
  <2>1. CASE x \notin store
    BY <1>3, <2>1 DEF Wait
  <2>2. CASE x \in store \cap submitted
    BY <1>3, <2>2 DEF Wait
  <2>3. CASE x \in store \ submitted
    BY <1>3, <2>3 DEF Wait
  <2> QED BY <2>1, <2>2, <2>3
<1>4. ASSUME NEW x \in Transactions, WaitAborted(x) PROVE StoreInv'
  BY <1>4 DEF WaitAborted
<1>5. ASSUME NEW x \in Transactions, WaiterAborts(x) PROVE StoreInv'
  BY <1>5, FinishKeeps DEF WaiterAborts
<1>6. ASSUME NEW x \in Transactions, Abort(x) PROVE StoreInv'
  BY <1>6, FinishKeeps DEF Abort
<1>7. ASSUME NEW x \in Transactions, TimesOut(x) PROVE StoreInv'
  BY <1>7, FinishKeeps DEF TimesOut
<1>8. ASSUME NEW S \in SUBSET Transactions, AbortTrace(S) PROVE StoreInv'
  BY <1>8, FinishKeeps DEF AbortTrace, Revocable
<1>9. CASE CloseStore
  BY <1>9, FinishKeeps DEF CloseStore
<1>10. CASE UNCHANGED storeVars
  BY <1>10 DEF storeVars
<1> QED BY <1>1, <1>2, <1>3, <1>4, <1>5, <1>6, <1>7, <1>8, <1>9, <1>10 DEF StoreNext


LEMMA StoreStarts == StoreInit => StoreInv
BY DEF StoreInit, StoreInv, StoreTypeOK, ParkedIsGuarded, AcceptedIsKept, BothSidesAgree, Parked

\* The store's state is well typed, whatever the transactions.
THEOREM StoreTypeCorrect == StoreSpec => []StoreTypeOK
<1>1. StoreInv => StoreTypeOK BY DEF StoreInv
<1> QED BY <1>1, StoreStarts, StoreInductive, PTL DEF StoreSpec

\* Every waiter waits on an open transaction with an armed timer; an accepted
\* summary is kept for, or was given to, the one who waits, as long as the
\* owner does not withdraw the transaction; and ChatGPT and Codex are told the
\* same of it (compaction-transaction.ts begin, submit, wait, abortTrace,
\* finishError).
THEOREM SidesAgree == StoreSpec => []SummariesAgree
<1>1. StoreInv => SummariesAgree BY DEF StoreInv, SummariesAgree
<1> QED BY <1>1, StoreStarts, StoreInductive, PTL DEF StoreSpec

-----------------------------------------------------------------------------
(* The handoff.                                                             *)

Driven == {"running", "ended"}

\* The key has one owner, who keeps it from its start until its answer is
\* given and its turns are over.
Keys ==
  /\ active \subseteq {cached}
  /\ \A r \in Requests :
       /\ runOf[r] = NoRun => pc[r] = "none"
       /\ pc[r] \notin {"none", "done"} => r \in active
       /\ page[r] \in Driven \/ fresh[r] \in Driven => r \in active

\* A handoff that has not been asked for has left no trace.
BeforeHandoff(r) == pc[r] \in {"none", "start", "settling", "settled"}

\* Only a run that waits has a transaction in the store, and nobody else
\* waits for it; one that is in flight has not begun.
Transaction ==
  \A r \in Requests :
    /\ BeforeHandoff(r) => r \notin begun \cup opening
    /\ r \in opening => r \notin begun
    /\ pc[r] = "opening" => r \notin store \cup submitted
    /\ r \in store => pc[r] = "waiting" /\ Parked(r)

\* What became of a summary is decided by where its run is.
Outcome ==
  \A r \in submitted \cap Requests :
    /\ pc[r] \in {"accepted", "retiring", "done"}
    /\ verdict[r] # "unavailable"
    /\ pc[r] = "accepted" => verdict[r] = "summary"
    /\ ~Interrupted(r) /\ r \notin spoiled => verdict[r] = "summary"

\* The steps of a handoff that use the retained page.
OnPage == {"settling", "settled", "opening", "waiting", "accepted", "closing"}

\* A run at retirement has retired the conversation; a retired conversation
\* gets no handoff, a released one is retired.
Retirement ==
  /\ \A r \in Requests : pc[r] = "retiring" => retired
  /\ retired => \A r \in Requests : pc[r] \notin OnPage
  /\ released => retired /\ \A r \in Requests : page[r] # "running"

HandoffInv ==
  TypeOK /\ StoreInv /\ Keys /\ Transaction /\ Outcome /\ Retirement

\* A run keeps its key from its start to its answer and longer, until its
\* turns are over: compaction-handoff.ts runStructuredCompactionOnce.
LEMMA KeysStep == HandoffInv /\ [Next]_vars => Keys'
<1> SUFFICES ASSUME HandoffInv, [Next]_vars PROVE Keys' OBVIOUS
<1> USE DEF HandoffInv, TypeOK, Keys, Driven, OnPage
<1>1. ASSUME NEW r \in Requests, Request(r) PROVE Keys'
  <2>1. PICK f \in Found :
          IF f # NoRun
            THEN runOf' = [runOf EXCEPT ![r] = f] /\ UNCHANGED <<cached, active, pc, verdict>>
            ELSE /\ runOf' = [runOf EXCEPT ![r] = r]
                 /\ cached' = r
                 /\ active' = active \cup {r}
                 /\ Goes(r, "start", "none")
    BY <1>1 DEF Request
  <2>2. UNCHANGED <<page, fresh>>
    BY <1>1 DEF Request, browserVars
  <2>3. CASE f # NoRun
    BY <2>1, <2>2, <2>3
  <2>4. CASE f = NoRun
    <3>1. active = {}
      BY <2>4, NoRunAssumption DEF Found
    <3> QED BY <2>1, <2>2, <2>4, <3>1, NoRunAssumption DEF Goes
  <2> QED BY <2>3, <2>4
<1>2. ASSUME NEW r \in Requests, ClientLeaves(r) PROVE Keys'
  BY <1>2 DEF ClientLeaves, storeVars, browserVars, runVars
<1>3. ASSUME NEW r \in Requests, Start(r) PROVE Keys'
  BY <1>3 DEF Start, Goes, Retires, FallsBack, storeVars, browserVars, runVars
<1>4. ASSUME NEW r \in Requests, SourceAnswered(r) PROVE Keys'
  BY <1>4 DEF SourceAnswered, Goes, Retires, storeVars, browserVars, runVars
<1>5. ASSUME NEW r \in Requests, SettlingAborted(r) PROVE Keys'
  BY <1>5 DEF SettlingAborted, Goes, Retires, storeVars, browserVars, runVars
<1>6. ASSUME NEW r \in Requests, OpenHandoff(r) PROVE Keys'
  BY <1>6 DEF OpenHandoff, Goes, Retires, storeVars, browserVars, runVars
<1>7. ASSUME NEW r \in Requests, WaitRejected(r) PROVE Keys'
  BY <1>7 DEF WaitRejected, Goes, storeVars, browserVars, runVars
<1>8. ASSUME NEW r \in Requests, HandoffCleaned(r) PROVE Keys'
  BY <1>8 DEF HandoffCleaned, Goes, Retires, Answer, storeVars, browserVars, runVars
<1>9. ASSUME NEW r \in Requests, HandoffInterrupted(r) PROVE Keys'
  BY <1>9 DEF HandoffInterrupted, Goes, Retires, storeVars, browserVars, runVars
<1>10. ASSUME NEW r \in Requests, Retired(r) PROVE Keys'
  BY <1>10 DEF Retired, Goes, FallsBack, PageFree, storeVars, browserVars, runVars
<1>11. ASSUME NEW r \in Requests, RunSettles(r) PROVE Keys'
  BY <1>11 DEF RunSettles, Settled, storeVars, browserVars, runVars
<1>12. ASSUME NEW r \in Requests, Expire(r) PROVE Keys'
  BY <1>12 DEF Expire, storeVars, browserVars, runVars
<1>13. ASSUME NEW r \in Requests, TransactionArrives(r) PROVE Keys'
  BY <1>13 DEF TransactionArrives, Goes, DropsLate, storeVars, browserVars, runVars
<1>14. ASSUME NEW r \in Requests, OpeningFails(r) PROVE Keys'
  BY <1>14 DEF OpeningFails, Goes, Retires, storeVars, browserVars, runVars
<1>15. ASSUME NEW r \in Requests, SubmitSummary(r) PROVE Keys'
  BY <1>15 DEF SubmitSummary, Goes, storeVars, browserVars, runVars
<1>16. ASSUME NEW r \in Requests, PageFails(r) PROVE Keys'
  BY <1>16 DEF PageFails, Goes, storeVars, browserVars, runVars
<1>17. ASSUME NEW r \in Requests, FallbackEnds(r) PROVE Keys'
  BY <1>17 DEF FallbackEnds, Goes, storeVars, browserVars, runVars
<1>18. ASSUME NEW r \in Requests, PageEnds(r) PROVE Keys'
  BY <1>18 DEF PageEnds, storeVars, browserVars, runVars
<1>19. ASSUME NEW r \in Requests, FreshStopped(r) PROVE Keys'
  BY <1>19 DEF FreshStopped, storeVars, browserVars, runVars
<1>20. ASSUME NEW r \in Requests, TurnCleaned(r) PROVE Keys'
  BY <1>20 DEF TurnCleaned, storeVars, browserVars, runVars
<1>21. CASE CancelTrace
  BY <1>21 DEF CancelTrace, storeVars, browserVars, runVars
<1>22. CASE SourceSteps
  BY <1>22 DEF SourceSteps, storeVars, browserVars, runVars
<1>23. CASE OtherTransactions
  BY <1>23 DEF OtherTransactions, storeVars, browserVars, runVars
<1>24. CASE BrokerCloses
  BY <1>24 DEF BrokerCloses, storeVars, browserVars, runVars
<1>25. CASE UNCHANGED vars
  BY <1>25 DEF vars, storeVars, browserVars, runVars
<1> QED BY <1>1, <1>2, <1>3, <1>4, <1>5, <1>6, <1>7, <1>8, <1>9, <1>10, <1>11, <1>12, <1>13, <1>14, <1>15, <1>16, <1>17, <1>18, <1>19, <1>20, <1>21, <1>22, <1>23, <1>24, <1>25 DEF Next, RunStep

\* Whoever retires the conversation owns the key, so no other run is on its
\* page: compaction-handoff.ts runRetainedCompaction.
LEMMA RetirementStep == HandoffInv /\ [Next]_vars => Retirement'
<1> SUFFICES ASSUME HandoffInv, [Next]_vars PROVE Retirement' OBVIOUS
<1> USE DEF HandoffInv, TypeOK, Keys, Retirement, Driven, OnPage
<1>1. ASSUME NEW r \in Requests, Request(r) PROVE Retirement'
  BY <1>1 DEF Request, Found, Goes, storeVars, browserVars, runVars
<1>2. ASSUME NEW r \in Requests, ClientLeaves(r) PROVE Retirement'
  BY <1>2 DEF ClientLeaves, storeVars, browserVars, runVars
<1>3. ASSUME NEW r \in Requests, Start(r) PROVE Retirement'
  BY <1>3 DEF Start, Goes, Retires, FallsBack, storeVars, browserVars, runVars
<1>4. ASSUME NEW r \in Requests, SourceAnswered(r) PROVE Retirement'
  BY <1>4 DEF SourceAnswered, Goes, Retires, storeVars, browserVars, runVars
<1>5. ASSUME NEW r \in Requests, SettlingAborted(r) PROVE Retirement'
  BY <1>5 DEF SettlingAborted, Goes, Retires, storeVars, browserVars, runVars
<1>6. ASSUME NEW r \in Requests, OpenHandoff(r) PROVE Retirement'
  BY <1>6 DEF OpenHandoff, Goes, Retires, storeVars, browserVars, runVars
<1>7. ASSUME NEW r \in Requests, WaitRejected(r) PROVE Retirement'
  BY <1>7 DEF WaitRejected, Goes, storeVars, browserVars, runVars
<1>8. ASSUME NEW r \in Requests, HandoffCleaned(r) PROVE Retirement'
  BY <1>8 DEF HandoffCleaned, Goes, Retires, Answer, storeVars, browserVars, runVars
<1>9. ASSUME NEW r \in Requests, HandoffInterrupted(r) PROVE Retirement'
  BY <1>9 DEF HandoffInterrupted, Goes, Retires, storeVars, browserVars, runVars
<1>10. ASSUME NEW r \in Requests, Retired(r) PROVE Retirement'
  <2>1. retired' = retired /\ page' = page /\ pc[r] = "retiring" /\ page[r] # "running"
    BY <1>10 DEF Retired, PageFree
  <2>2. \A q \in Requests : pc'[q] \in OnPage \cup {"retiring"} => pc[q] = pc'[q]
    BY <1>10 DEF Retired, Goes, FallsBack
  <2>3. \A q \in Requests : page[q] # "running"
    BY <2>1
  <2>4. released' => retired
    BY <2>1
  <2> QED BY <2>1, <2>2, <2>3, <2>4
<1>11. ASSUME NEW r \in Requests, RunSettles(r) PROVE Retirement'
  BY <1>11 DEF RunSettles, Settled, storeVars, browserVars, runVars
<1>12. ASSUME NEW r \in Requests, Expire(r) PROVE Retirement'
  BY <1>12 DEF Expire, storeVars, browserVars, runVars
<1>13. ASSUME NEW r \in Requests, TransactionArrives(r) PROVE Retirement'
  BY <1>13 DEF TransactionArrives, Goes, DropsLate, storeVars, browserVars, runVars
<1>14. ASSUME NEW r \in Requests, OpeningFails(r) PROVE Retirement'
  BY <1>14 DEF OpeningFails, Goes, Retires, storeVars, browserVars, runVars
<1>15. ASSUME NEW r \in Requests, SubmitSummary(r) PROVE Retirement'
  BY <1>15 DEF SubmitSummary, Goes, storeVars, browserVars, runVars
<1>16. ASSUME NEW r \in Requests, PageFails(r) PROVE Retirement'
  BY <1>16 DEF PageFails, Goes, storeVars, browserVars, runVars
<1>17. ASSUME NEW r \in Requests, FallbackEnds(r) PROVE Retirement'
  BY <1>17 DEF FallbackEnds, Goes, storeVars, browserVars, runVars
<1>18. ASSUME NEW r \in Requests, PageEnds(r) PROVE Retirement'
  BY <1>18 DEF PageEnds, storeVars, browserVars, runVars
<1>19. ASSUME NEW r \in Requests, FreshStopped(r) PROVE Retirement'
  BY <1>19 DEF FreshStopped, storeVars, browserVars, runVars
<1>20. ASSUME NEW r \in Requests, TurnCleaned(r) PROVE Retirement'
  BY <1>20 DEF TurnCleaned, storeVars, browserVars, runVars
<1>21. CASE CancelTrace
  BY <1>21 DEF CancelTrace, storeVars, browserVars, runVars
<1>22. CASE SourceSteps
  BY <1>22 DEF SourceSteps, storeVars, browserVars, runVars
<1>23. CASE OtherTransactions
  BY <1>23 DEF OtherTransactions, storeVars, browserVars, runVars
<1>24. CASE BrokerCloses
  BY <1>24 DEF BrokerCloses, storeVars, browserVars, runVars
<1>25. CASE UNCHANGED vars
  BY <1>25 DEF vars, storeVars, browserVars, runVars
<1> QED BY <1>1, <1>2, <1>3, <1>4, <1>5, <1>6, <1>7, <1>8, <1>9, <1>10, <1>11, <1>12, <1>13, <1>14, <1>15, <1>16, <1>17, <1>18, <1>19, <1>20, <1>21, <1>22, <1>23, <1>24, <1>25 DEF Next, RunStep

\* A step that leaves the store alone keeps what is known of it.
LEMMA FrameStore == StoreInv /\ UNCHANGED storeVars => StoreInv'
BY StoreInductive

\* Beginning a transaction and waiting for its summary at once: compaction-
\* transaction.ts begin and wait, called without an await between them.
LEMMA BegunAndAwaited ==
  ASSUME StoreInv, NEW r \in Transactions, r \notin begun,
         begun' = begun \cup {r}, store' = store \cup {r}, timers' = timers \cup {r},
         waiter' = [waiter EXCEPT ![r] = "parked"], UNCHANGED <<submitted, withdrawn>>
  PROVE  StoreInv'
BY DEF StoreInv, StoreTypeOK, ParkedIsGuarded, AcceptedIsKept, BothSidesAgree, Parked

\* Beginning a transaction that is aborted at once.
LEMMA BegunAndDropped ==
  ASSUME StoreInv, NEW r \in Transactions, r \notin begun, DropsLate(r)
  PROVE  StoreInv'
BY DEF DropsLate, StoreInv, StoreTypeOK, ParkedIsGuarded, AcceptedIsKept, BothSidesAgree, Parked

\* What a step of the store does to the transactions it is not about.
LEMMA OthersAreLeftAlone ==
  ASSUME StoreInv, OtherTransactions
  PROVE  /\ UNCHANGED <<runVars, browserVars>>
         /\ StoreInv'
         /\ \A r \in Requests :
              /\ r \in begun' <=> r \in begun
              /\ r \in store' <=> r \in store
              /\ r \in submitted' <=> r \in submitted
              /\ waiter'[r] = waiter[r]
<1>1. PICK x \in Transactions \ Requests :
        \/ Begin(x) \/ Submit(x) \/ Wait(x) \/ WaitAborted(x) \/ WaiterAborts(x)
        \/ Abort(x) \/ AbortTrace({x}) \/ TimesOut(x)
  BY DEF OtherTransactions
<1>2. StoreNext
  BY <1>1 DEF StoreNext
<1>3. \A r \in Requests : r \in Transactions /\ r # x
  BY <1>1, HandoffAssumption
<1>4. waiter \in [Transactions -> {"none", "parked", "resolved", "rejected"}]
  BY DEF StoreInv, StoreTypeOK
<1>5. \A r \in Requests :
        /\ r \in begun' <=> r \in begun
        /\ r \in store' <=> r \in store
        /\ r \in submitted' <=> r \in submitted
        /\ waiter'[r] = waiter[r]
  BY <1>1, <1>3, <1>4
     DEF Begin, Submit, ServesWaiter, Wait, WaitAborted, WaiterAborts, Abort, AbortTrace,
         Revocable, TimesOut, FinishError, RejectsWaiters
<1> QED BY <1>2, <1>5, StoreInductive DEF OtherTransactions

\* A handoff uses the store as it is meant to be used.
LEMMA StoreStep == HandoffInv /\ [Next]_vars => StoreInv'
<1> SUFFICES ASSUME HandoffInv, [Next]_vars PROVE StoreInv' OBVIOUS
<1> USE DEF HandoffInv
<1>1. ASSUME NEW r \in Requests, Request(r) PROVE StoreInv'
  BY <1>1, FrameStore DEF Request, runVars
<1>2. ASSUME NEW r \in Requests, ClientLeaves(r) PROVE StoreInv'
  BY <1>2, FrameStore DEF ClientLeaves
<1>3. ASSUME NEW r \in Requests, Start(r) PROVE StoreInv'
  BY <1>3, FrameStore DEF Start
<1>4. ASSUME NEW r \in Requests, SourceAnswered(r) PROVE StoreInv'
  BY <1>4, FrameStore DEF SourceAnswered
<1>5. ASSUME NEW r \in Requests, SettlingAborted(r) PROVE StoreInv'
  BY <1>5, FrameStore DEF SettlingAborted
<1>6. ASSUME NEW r \in Requests, OpenHandoff(r) PROVE StoreInv'
  BY <1>6, FrameStore DEF OpenHandoff
<1>7. ASSUME NEW r \in Requests, WaitRejected(r) PROVE StoreInv'
  BY <1>7, FrameStore DEF WaitRejected
<1>8. ASSUME NEW r \in Requests, HandoffCleaned(r) PROVE StoreInv'
  BY <1>8, FrameStore DEF HandoffCleaned
<1>9. ASSUME NEW r \in Requests, HandoffInterrupted(r) PROVE StoreInv'
  <2>1. CASE r \in store
    BY <1>9, <2>1, StoreInductive, HandoffAssumption DEF HandoffInterrupted, StoreNext
  <2>2. CASE r \notin store
    BY <1>9, <2>2, FrameStore DEF HandoffInterrupted
  <2> QED BY <2>1, <2>2
<1>10. ASSUME NEW r \in Requests, Retired(r) PROVE StoreInv'
  BY <1>10, FrameStore DEF Retired
<1>11. ASSUME NEW r \in Requests, RunSettles(r) PROVE StoreInv'
  BY <1>11, FrameStore DEF RunSettles
<1>12. ASSUME NEW r \in Requests, Expire(r) PROVE StoreInv'
  BY <1>12, FrameStore DEF Expire
<1>13. ASSUME NEW r \in Requests, TransactionArrives(r) PROVE StoreInv'
  <2>1. r \in Transactions /\ r \notin begun
    BY <1>13, HandoffAssumption DEF TransactionArrives, Transaction
  <2> QED BY <1>13, <2>1, BegunAndAwaited, BegunAndDropped DEF TransactionArrives
<1>14. ASSUME NEW r \in Requests, OpeningFails(r) PROVE StoreInv'
  BY <1>14, FrameStore DEF OpeningFails
<1>15. ASSUME NEW r \in Requests, SubmitSummary(r) PROVE StoreInv'
  BY <1>15, StoreInductive, HandoffAssumption DEF SubmitSummary, StoreNext
<1>16. ASSUME NEW r \in Requests, PageFails(r) PROVE StoreInv'
  BY <1>16, StoreInductive, HandoffAssumption DEF PageFails, StoreNext
<1>17. ASSUME NEW r \in Requests, FallbackEnds(r) PROVE StoreInv'
  BY <1>17, FrameStore DEF FallbackEnds
<1>18. ASSUME NEW r \in Requests, PageEnds(r) PROVE StoreInv'
  BY <1>18, FrameStore DEF PageEnds
<1>19. ASSUME NEW r \in Requests, FreshStopped(r) PROVE StoreInv'
  BY <1>19, FrameStore DEF FreshStopped
<1>20. ASSUME NEW r \in Requests, TurnCleaned(r) PROVE StoreInv'
  BY <1>20, FrameStore DEF TurnCleaned
<1>21. CASE CancelTrace
  BY <1>21, FrameStore DEF CancelTrace
<1>22. CASE SourceSteps
  BY <1>22, FrameStore DEF SourceSteps
<1>23. CASE OtherTransactions
  BY <1>23, OthersAreLeftAlone
<1>24. CASE BrokerCloses
  BY <1>24, StoreInductive DEF BrokerCloses, StoreNext
<1>25. CASE UNCHANGED vars
  BY <1>25, FrameStore DEF vars
<1> QED BY <1>1, <1>2, <1>3, <1>4, <1>5, <1>6, <1>7, <1>8, <1>9, <1>10, <1>11, <1>12, <1>13, <1>14, <1>15, <1>16, <1>17, <1>18, <1>19, <1>20, <1>21, <1>22, <1>23, <1>24, <1>25 DEF Next, RunStep

\* A run that leaves the wait has ended its transaction: compaction-handoff.ts
\* requestRetainedCompactionHandoff and its finally.
LEMMA TransactionStep == HandoffInv /\ [Next]_vars => Transaction'
<1> SUFFICES ASSUME HandoffInv, [Next]_vars PROVE Transaction' OBVIOUS
<1> USE DEF HandoffInv, TypeOK, StoreInv, StoreTypeOK, BothSidesAgree, Keys, Transaction, BeforeHandoff, Parked
<1>1. ASSUME NEW r \in Requests, Request(r) PROVE Transaction'
  BY <1>1, HandoffAssumption DEF Request, Found, Goes, storeVars, browserVars, runVars
<1>2. ASSUME NEW r \in Requests, ClientLeaves(r) PROVE Transaction'
  BY <1>2, HandoffAssumption DEF ClientLeaves, storeVars, browserVars, runVars
<1>3. ASSUME NEW r \in Requests, Start(r) PROVE Transaction'
  BY <1>3, HandoffAssumption DEF Start, Goes, Retires, FallsBack, storeVars, browserVars, runVars
<1>4. ASSUME NEW r \in Requests, SourceAnswered(r) PROVE Transaction'
  BY <1>4, HandoffAssumption DEF SourceAnswered, Goes, Retires, storeVars, browserVars, runVars
<1>5. ASSUME NEW r \in Requests, SettlingAborted(r) PROVE Transaction'
  BY <1>5, HandoffAssumption DEF SettlingAborted, Goes, Retires, storeVars, browserVars, runVars
<1>6. ASSUME NEW r \in Requests, OpenHandoff(r) PROVE Transaction'
  BY <1>6, HandoffAssumption DEF OpenHandoff, Goes, Retires, storeVars, browserVars, runVars
<1>7. ASSUME NEW r \in Requests, WaitRejected(r) PROVE Transaction'
  BY <1>7, HandoffAssumption DEF WaitRejected, Goes, storeVars, browserVars, runVars
<1>8. ASSUME NEW r \in Requests, HandoffCleaned(r) PROVE Transaction'
  BY <1>8, HandoffAssumption DEF HandoffCleaned, Goes, Retires, Answer, storeVars, browserVars, runVars
<1>9. ASSUME NEW r \in Requests, HandoffInterrupted(r) PROVE Transaction'
  BY <1>9, HandoffAssumption DEF HandoffInterrupted, Goes, Retires, Abort, FinishError, RejectsWaiters, storeVars, browserVars, runVars
<1>10. ASSUME NEW r \in Requests, Retired(r) PROVE Transaction'
  BY <1>10, HandoffAssumption DEF Retired, Goes, FallsBack, PageFree, storeVars, browserVars, runVars
<1>11. ASSUME NEW r \in Requests, RunSettles(r) PROVE Transaction'
  BY <1>11, HandoffAssumption DEF RunSettles, Settled, storeVars, browserVars, runVars
<1>12. ASSUME NEW r \in Requests, Expire(r) PROVE Transaction'
  BY <1>12, HandoffAssumption DEF Expire, storeVars, browserVars, runVars
<1>13. ASSUME NEW r \in Requests, TransactionArrives(r) PROVE Transaction'
  BY <1>13, HandoffAssumption DEF TransactionArrives, Goes, DropsLate, storeVars, browserVars, runVars
<1>14. ASSUME NEW r \in Requests, OpeningFails(r) PROVE Transaction'
  BY <1>14, HandoffAssumption DEF OpeningFails, Goes, Retires, storeVars, browserVars, runVars
<1>15. ASSUME NEW r \in Requests, SubmitSummary(r) PROVE Transaction'
  BY <1>15, HandoffAssumption DEF SubmitSummary, Goes, Submit, ServesWaiter, storeVars, browserVars, runVars
<1>16. ASSUME NEW r \in Requests, PageFails(r) PROVE Transaction'
  BY <1>16, HandoffAssumption DEF PageFails, Goes, Abort, FinishError, RejectsWaiters, storeVars, browserVars, runVars
<1>17. ASSUME NEW r \in Requests, FallbackEnds(r) PROVE Transaction'
  BY <1>17, HandoffAssumption DEF FallbackEnds, Goes, storeVars, browserVars, runVars
<1>18. ASSUME NEW r \in Requests, PageEnds(r) PROVE Transaction'
  BY <1>18, HandoffAssumption DEF PageEnds, storeVars, browserVars, runVars
<1>19. ASSUME NEW r \in Requests, FreshStopped(r) PROVE Transaction'
  BY <1>19, HandoffAssumption DEF FreshStopped, storeVars, browserVars, runVars
<1>20. ASSUME NEW r \in Requests, TurnCleaned(r) PROVE Transaction'
  BY <1>20, HandoffAssumption DEF TurnCleaned, storeVars, browserVars, runVars
<1>21. CASE CancelTrace
  BY <1>21 DEF CancelTrace, storeVars, browserVars, runVars
<1>22. CASE SourceSteps
  BY <1>22 DEF SourceSteps, storeVars, browserVars, runVars
<1>23. CASE OtherTransactions
  BY <1>23, OthersAreLeftAlone DEF browserVars, runVars
<1>24. CASE BrokerCloses
  BY <1>24, HandoffAssumption DEF BrokerCloses, CloseStore, FinishError, RejectsWaiters, browserVars, runVars
<1>25. CASE UNCHANGED vars
  BY <1>25 DEF vars, storeVars, browserVars, runVars
<1> QED BY <1>1, <1>2, <1>3, <1>4, <1>5, <1>6, <1>7, <1>8, <1>9, <1>10, <1>11, <1>12, <1>13, <1>14, <1>15, <1>16, <1>17, <1>18, <1>19, <1>20, <1>21, <1>22, <1>23, <1>24, <1>25 DEF Next, RunStep

\* An accepted summary is what the run answers with, unless its signal fired
\* or the release or the marker failed.
LEMMA OutcomeStep == HandoffInv /\ [Next]_vars => Outcome'
<1> SUFFICES ASSUME HandoffInv, [Next]_vars PROVE Outcome' OBVIOUS
<1> USE DEF HandoffInv, TypeOK, StoreInv, StoreTypeOK, Keys, Transaction, Outcome, BeforeHandoff, Interrupted, Aborted
<1>1. ASSUME NEW r \in Requests, Request(r) PROVE Outcome'
  BY <1>1, HandoffAssumption DEF Request, Found, Goes, storeVars, browserVars, runVars
<1>2. ASSUME NEW r \in Requests, ClientLeaves(r) PROVE Outcome'
  BY <1>2, HandoffAssumption DEF ClientLeaves, storeVars, browserVars, runVars
<1>3. ASSUME NEW r \in Requests, Start(r) PROVE Outcome'
  BY <1>3, HandoffAssumption DEF Start, Goes, Retires, FallsBack, storeVars, browserVars, runVars
<1>4. ASSUME NEW r \in Requests, SourceAnswered(r) PROVE Outcome'
  BY <1>4, HandoffAssumption DEF SourceAnswered, Goes, Retires, storeVars, browserVars, runVars
<1>5. ASSUME NEW r \in Requests, SettlingAborted(r) PROVE Outcome'
  BY <1>5, HandoffAssumption DEF SettlingAborted, Goes, Retires, storeVars, browserVars, runVars
<1>6. ASSUME NEW r \in Requests, OpenHandoff(r) PROVE Outcome'
  BY <1>6, HandoffAssumption DEF OpenHandoff, Goes, Retires, storeVars, browserVars, runVars
<1>7. ASSUME NEW r \in Requests, WaitRejected(r) PROVE Outcome'
  BY <1>7, HandoffAssumption DEF WaitRejected, Goes, storeVars, browserVars, runVars
<1>8. ASSUME NEW r \in Requests, HandoffCleaned(r) PROVE Outcome'
  BY <1>8, HandoffAssumption DEF HandoffCleaned, Goes, Retires, Answer, storeVars, browserVars, runVars
<1>9. ASSUME NEW r \in Requests, HandoffInterrupted(r) PROVE Outcome'
  BY <1>9, HandoffAssumption DEF HandoffInterrupted, Goes, Retires, Abort, FinishError, RejectsWaiters, storeVars, browserVars, runVars
<1>10. ASSUME NEW r \in Requests, Retired(r) PROVE Outcome'
  BY <1>10, HandoffAssumption DEF Retired, Goes, FallsBack, PageFree, storeVars, browserVars, runVars
<1>11. ASSUME NEW r \in Requests, RunSettles(r) PROVE Outcome'
  BY <1>11, HandoffAssumption DEF RunSettles, Settled, storeVars, browserVars, runVars
<1>12. ASSUME NEW r \in Requests, Expire(r) PROVE Outcome'
  BY <1>12, HandoffAssumption DEF Expire, storeVars, browserVars, runVars
<1>13. ASSUME NEW r \in Requests, TransactionArrives(r) PROVE Outcome'
  BY <1>13, HandoffAssumption DEF TransactionArrives, Goes, DropsLate, storeVars, browserVars, runVars
<1>14. ASSUME NEW r \in Requests, OpeningFails(r) PROVE Outcome'
  BY <1>14, HandoffAssumption DEF OpeningFails, Goes, Retires, storeVars, browserVars, runVars
<1>15. ASSUME NEW r \in Requests, SubmitSummary(r) PROVE Outcome'
  BY <1>15, HandoffAssumption DEF SubmitSummary, Goes, Submit, ServesWaiter, storeVars, browserVars, runVars
<1>16. ASSUME NEW r \in Requests, PageFails(r) PROVE Outcome'
  BY <1>16, HandoffAssumption DEF PageFails, Goes, Abort, FinishError, RejectsWaiters, storeVars, browserVars, runVars
<1>17. ASSUME NEW r \in Requests, FallbackEnds(r) PROVE Outcome'
  BY <1>17, HandoffAssumption DEF FallbackEnds, Goes, storeVars, browserVars, runVars
<1>18. ASSUME NEW r \in Requests, PageEnds(r) PROVE Outcome'
  BY <1>18, HandoffAssumption DEF PageEnds, storeVars, browserVars, runVars
<1>19. ASSUME NEW r \in Requests, FreshStopped(r) PROVE Outcome'
  BY <1>19, HandoffAssumption DEF FreshStopped, storeVars, browserVars, runVars
<1>20. ASSUME NEW r \in Requests, TurnCleaned(r) PROVE Outcome'
  BY <1>20, HandoffAssumption DEF TurnCleaned, storeVars, browserVars, runVars
<1>21. CASE CancelTrace
  BY <1>21 DEF CancelTrace, storeVars, browserVars, runVars
<1>22. CASE SourceSteps
  BY <1>22 DEF SourceSteps, storeVars, browserVars, runVars
<1>23. CASE OtherTransactions
  BY <1>23, OthersAreLeftAlone DEF browserVars, runVars
<1>24. CASE BrokerCloses
  BY <1>24, HandoffAssumption DEF BrokerCloses, CloseStore, FinishError, RejectsWaiters, browserVars, runVars
<1>25. CASE UNCHANGED vars
  BY <1>25 DEF vars, storeVars, browserVars, runVars
<1> QED BY <1>1, <1>2, <1>3, <1>4, <1>5, <1>6, <1>7, <1>8, <1>9, <1>10, <1>11, <1>12, <1>13, <1>14, <1>15, <1>16, <1>17, <1>18, <1>19, <1>20, <1>21, <1>22, <1>23, <1>24, <1>25 DEF Next, RunStep

\* The types of the run's and the pages' variables, one by one.
RunTypes ==
  /\ runOf \in [Requests -> Requests \cup {NoRun}] /\ cached \in Requests \cup {NoRun}
  /\ pc \in [Requests -> {"none", "start", "settling", "settled", "opening", "waiting",
                          "accepted", "closing", "retiring", "fallback", "done"}]
  /\ verdict \in [Requests -> {"none", "summary", "error", "unavailable"}]
  /\ active \subseteq Requests /\ left \subseteq Requests /\ cancelled \subseteq Requests
  /\ expired \subseteq Requests /\ opening \subseteq Requests /\ spoiled \subseteq Requests
  /\ source \in {"absent", "running", "ended", "over"}
  /\ sourceStop \in BOOLEAN /\ retired \in BOOLEAN /\ released \in BOOLEAN
  /\ page \in [Requests -> Ends] /\ fresh \in [Requests -> Ends]
  /\ stop \subseteq Requests \X {"page", "fresh"}

\* The steps keep the types of the run and of the pages.
LEMMA RunTypeStep == RunTypes /\ [Next]_vars => RunTypes'
<1> SUFFICES ASSUME RunTypes, [Next]_vars PROVE RunTypes' OBVIOUS
<1> USE DEF RunTypes, Ends
<1>1. ASSUME NEW r \in Requests, Request(r) PROVE RunTypes'
  BY <1>1 DEF Request, Found, Goes, browserVars, runVars
<1>2. ASSUME NEW r \in Requests, ClientLeaves(r) PROVE RunTypes'
  BY <1>2 DEF ClientLeaves, browserVars, runVars
<1>3. ASSUME NEW r \in Requests, Start(r) PROVE RunTypes'
  BY <1>3 DEF Start, Goes, Retires, FallsBack, browserVars, runVars
<1>4. ASSUME NEW r \in Requests, SourceAnswered(r) PROVE RunTypes'
  BY <1>4 DEF SourceAnswered, Goes, Retires, browserVars, runVars
<1>5. ASSUME NEW r \in Requests, SettlingAborted(r) PROVE RunTypes'
  BY <1>5 DEF SettlingAborted, Goes, Retires, browserVars, runVars
<1>6. ASSUME NEW r \in Requests, OpenHandoff(r) PROVE RunTypes'
  BY <1>6 DEF OpenHandoff, Goes, Retires, browserVars, runVars
<1>7. ASSUME NEW r \in Requests, WaitRejected(r) PROVE RunTypes'
  BY <1>7 DEF WaitRejected, Goes, browserVars, runVars
<1>8. ASSUME NEW r \in Requests, HandoffCleaned(r) PROVE RunTypes'
  BY <1>8 DEF HandoffCleaned, Goes, Retires, Answer, browserVars, runVars
<1>9. ASSUME NEW r \in Requests, HandoffInterrupted(r) PROVE RunTypes'
  BY <1>9 DEF HandoffInterrupted, Goes, Retires, browserVars, runVars
<1>10. ASSUME NEW r \in Requests, Retired(r) PROVE RunTypes'
  BY <1>10 DEF Retired, Goes, FallsBack, PageFree, browserVars, runVars
<1>11. ASSUME NEW r \in Requests, RunSettles(r) PROVE RunTypes'
  BY <1>11 DEF RunSettles, Settled, browserVars, runVars
<1>12. ASSUME NEW r \in Requests, Expire(r) PROVE RunTypes'
  BY <1>12 DEF Expire, browserVars, runVars
<1>13. ASSUME NEW r \in Requests, TransactionArrives(r) PROVE RunTypes'
  BY <1>13 DEF TransactionArrives, Goes, DropsLate, browserVars, runVars
<1>14. ASSUME NEW r \in Requests, OpeningFails(r) PROVE RunTypes'
  BY <1>14 DEF OpeningFails, Goes, Retires, browserVars, runVars
<1>15. ASSUME NEW r \in Requests, SubmitSummary(r) PROVE RunTypes'
  BY <1>15 DEF SubmitSummary, Goes, browserVars, runVars
<1>16. ASSUME NEW r \in Requests, PageFails(r) PROVE RunTypes'
  BY <1>16 DEF PageFails, Goes, browserVars, runVars
<1>17. ASSUME NEW r \in Requests, FallbackEnds(r) PROVE RunTypes'
  BY <1>17 DEF FallbackEnds, Goes, browserVars, runVars
<1>18. ASSUME NEW r \in Requests, PageEnds(r) PROVE RunTypes'
  BY <1>18 DEF PageEnds, browserVars, runVars
<1>19. ASSUME NEW r \in Requests, FreshStopped(r) PROVE RunTypes'
  BY <1>19 DEF FreshStopped, browserVars, runVars
<1>20. ASSUME NEW r \in Requests, TurnCleaned(r) PROVE RunTypes'
  BY <1>20 DEF TurnCleaned, browserVars, runVars
<1>21. CASE CancelTrace
  BY <1>21 DEF CancelTrace, storeVars, browserVars, runVars
<1>22. CASE SourceSteps
  BY <1>22 DEF SourceSteps, storeVars, browserVars, runVars
<1>23. CASE OtherTransactions
  BY <1>23 DEF OtherTransactions, browserVars, runVars
<1>24. CASE BrokerCloses
  BY <1>24 DEF BrokerCloses, browserVars, runVars
<1>25. CASE UNCHANGED vars
  BY <1>25 DEF vars, browserVars, runVars
<1> QED BY <1>1, <1>2, <1>3, <1>4, <1>5, <1>6, <1>7, <1>8, <1>9, <1>10, <1>11, <1>12, <1>13, <1>14, <1>15, <1>16, <1>17, <1>18, <1>19, <1>20, <1>21, <1>22, <1>23, <1>24, <1>25 DEF Next, RunStep

LEMMA TypesAreFlat == TypeOK <=> StoreTypeOK /\ RunTypes
<1>1. TypeOK => StoreTypeOK /\ RunTypes
  BY DEF TypeOK, RunTypes, Ends
<1>2. ASSUME StoreTypeOK, RunTypes PROVE TypeOK
  <2>1. \A S \in {active, left, cancelled, expired, opening, spoiled} : S \subseteq Requests
    BY <1>2 DEF RunTypes
  <2>2. {sourceStop, retired, released} \subseteq BOOLEAN
    BY <1>2 DEF RunTypes
  <2> QED BY <1>2, <2>1, <2>2 DEF TypeOK, RunTypes
<1> QED BY <1>1, <1>2

LEMMA HandoffStarts == Init => HandoffInv
<1> SUFFICES ASSUME Init PROVE HandoffInv OBVIOUS
<1>1. StoreInv
  BY StoreStarts DEF Init
<1>2. RunTypes
  BY HandoffAssumption DEF Init, RunTypes, Ends
<1>3. TypeOK
  BY <1>1, <1>2, TypesAreFlat DEF StoreInv
<1>4. Keys /\ Transaction /\ Outcome /\ Retirement
  BY NoRunAssumption
     DEF Init, StoreInit, Keys, Driven, Transaction, BeforeHandoff, Outcome, Retirement, OnPage
<1> QED BY <1>1, <1>3, <1>4 DEF HandoffInv

LEMMA HandoffInductive == HandoffInv /\ [Next]_vars => HandoffInv'
<1> SUFFICES ASSUME HandoffInv, [Next]_vars PROVE HandoffInv' OBVIOUS
<1>1. StoreInv'
  BY StoreStep
<1>2. RunTypes'
  BY TypesAreFlat, RunTypeStep DEF HandoffInv
<1>3. TypeOK'
  <2>1. StoreTypeOK'
    BY <1>1 DEF StoreInv
  <2>2. (StoreTypeOK /\ RunTypes)' => TypeOK'
    BY TypesAreFlat, PTL
  <2> QED BY <1>2, <2>1, <2>2
<1> QED BY <1>1, <1>3, KeysStep, TransactionStep, OutcomeStep, RetirementStep DEF HandoffInv

LEMMA HandoffHolds == Spec => []HandoffInv
BY HandoffStarts, HandoffInductive, PTL DEF Spec

\* Every reachable state of the handoffs is well typed, whatever requests and
\* transactions there are.
THEOREM HandoffTypeCorrect == Spec => []TypeOK
<1>1. HandoffInv => TypeOK BY DEF HandoffInv
<1> QED BY <1>1, HandoffHolds, PTL

\* ChatGPT and Codex are told the same of every summary in a store that
\* handoffs share with other conversations: compaction-transaction.ts, used
\* by compaction-handoff.ts requestRetainedCompactionHandoff.
THEOREM SidesAgreeInHandoff == Spec => []SummariesAgree
<1>1. HandoffInv => SummariesAgree BY DEF HandoffInv, StoreInv, SummariesAgree
<1> QED BY <1>1, HandoffHolds, PTL

\* However many requests there are: two runs never drive pages at the same
\* time, a run that is over leaves no transaction, an accepted summary is what
\* Codex gets, and a released page is idle (compaction-handoff.ts
\* runStructuredCompactionOnce, runRetainedCompaction).
THEOREM OwnershipHolds == Spec => []HandoffIsOwned
<1>1. ASSUME HandoffInv PROVE HandoffIsOwned
  <2> USE <1>1 DEF HandoffInv
  <2>1. OneOwner
    BY DEF OneOwner, Keys, Driven
  <2>2. NoTransactionLeft
    BY DEF NoTransactionLeft, Transaction
  <2>3. AcceptedIsReturned
    BY DEF AcceptedIsReturned, Outcome
  <2>4. ReleasedIsIdle
    BY DEF ReleasedIsIdle, Retirement
  <2> QED BY <2>1, <2>2, <2>3, <2>4 DEF HandoffIsOwned
<1> QED BY <1>1, HandoffHolds, PTL
=============================================================================
