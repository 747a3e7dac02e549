------------------------ MODULE CompactionTransactions ------------------------
(***************************************************************************)
(* The one-shot store of compaction summaries,                             *)
(* src/src/adapters/chatgpt-web/compaction-transaction.ts.  Codex's side   *)
(* begins a transaction and waits for its summary; ChatGPT submits one     *)
(* from another process; a timer, the waiter's abort signal, abort,        *)
(* abortTrace and close compete to end it.  Each method runs to completion *)
(* on one thread, so each is one action.                                   *)
(*                                                                         *)
(* A transaction stands for its token and its handoff id, both random and  *)
(* never reused; a submission with an unknown token, a wrong handoff id or *)
(* an empty summary is refused and changes nothing.                        *)
(***************************************************************************)
EXTENDS FiniteSets

CONSTANT Transactions

VARIABLES
  begun,      \* transactions begin() returned
  store,      \* the `transactions` map
  timers,     \* transactions whose TTL timer is armed
  submitted,  \* transactions whose submit() succeeded: ChatGPT was told so
  waiter,     \* what the promise of wait() came to
  withdrawn   \* history: ended by their owner: abort(), close() or the signal

storeVars == <<begun, store, timers, submitted, waiter, withdrawn>>

StoreTypeOK ==
  /\ begun \subseteq Transactions /\ store \subseteq begun
  /\ timers \subseteq store /\ submitted \subseteq begun
  /\ waiter \in [Transactions -> {"none", "parked", "resolved", "rejected"}]
  /\ \A x \in Transactions \ begun : waiter[x] = "none"
  /\ withdrawn \subseteq Transactions

StoreInit ==
  /\ begun = {} /\ store = {} /\ timers = {} /\ submitted = {} /\ withdrawn = {}
  /\ waiter = [x \in Transactions |-> "none"]

Parked(x) == waiter[x] = "parked"

\* finishError on every transaction of S: the waiters among them are rejected.
RejectsWaiters(S) ==
  [x \in Transactions |-> IF x \in S /\ Parked(x) THEN "rejected" ELSE waiter[x]]

\* Mutant: a finished transaction leaves its timer armed.
KeepsTimers(S) ==
  /\ store' = store \ S
  /\ waiter' = RejectsWaiters(S)
  /\ UNCHANGED timers

FinishError(S) ==
  /\ store' = store \ S
  /\ timers' = timers \ S
  /\ waiter' = RejectsWaiters(S)

Begin(x) ==
  /\ x \notin begun
  /\ begun' = begun \cup {x}
  /\ store' = store \cup {x}
  /\ timers' = timers \cup {x}
  /\ UNCHANGED <<submitted, waiter, withdrawn>>

\* consume(), if somebody waits.
ServesWaiter(x) ==
  IF Parked(x)
    THEN store' = store \ {x} /\ waiter' = [waiter EXCEPT ![x] = "resolved"]
    ELSE UNCHANGED <<store, waiter>>

Submit(x) ==
  /\ x \in store \ submitted
  /\ submitted' = submitted \cup {x}
  /\ timers' = timers \ {x}
  /\ ServesWaiter(x)
  /\ UNCHANGED <<begun, withdrawn>>

\* wait() without a signal, or with one that is not aborted.  A second wait
\* is refused and changes nothing.
Wait(x) ==
  /\ x \in begun /\ waiter[x] = "none"
  /\ \/ /\ x \notin store
        /\ waiter' = [waiter EXCEPT ![x] = "rejected"]
        /\ UNCHANGED store
     \/ /\ x \in store \cap submitted
        /\ waiter' = [waiter EXCEPT ![x] = "resolved"]
        /\ store' = store \ {x}
     \/ /\ x \in store \ submitted
        /\ waiter' = [waiter EXCEPT ![x] = "parked"]
        /\ UNCHANGED store
  /\ UNCHANGED <<begun, timers, submitted, withdrawn>>

\* wait() with a signal that is aborted already.
WaitAborted(x) ==
  /\ x \in store \ submitted /\ waiter[x] = "none"
  /\ store' = store \ {x}
  /\ timers' = timers \ {x}
  /\ waiter' = [waiter EXCEPT ![x] = "rejected"]
  /\ withdrawn' = withdrawn \cup {x}
  /\ UNCHANGED <<begun, submitted>>

\* The signal of a parked waiter aborts.
WaiterAborts(x) ==
  /\ Parked(x)
  /\ FinishError({x} \cap store)
  /\ withdrawn' = withdrawn \cup {x}
  /\ UNCHANGED <<begun, submitted>>

Abort(x) ==
  /\ x \in store
  /\ FinishError({x})
  /\ withdrawn' = withdrawn \cup {x}
  /\ UNCHANGED <<begun, submitted>>

\* Mutant: a revoked trace loses its submitted summaries too.
AllOf(S) == S \cap store

\* abortTrace() leaves a summary that was submitted to whoever comes for it.
Revocable(S) == (S \cap store) \ submitted

AbortTrace(S) ==
  /\ Revocable(S) # {}
  /\ FinishError(Revocable(S))
  /\ UNCHANGED <<begun, submitted, withdrawn>>

CloseStore ==
  /\ store # {}
  /\ FinishError(store)
  /\ withdrawn' = withdrawn \cup store
  /\ UNCHANGED <<begun, submitted>>

TimesOut(x) ==
  /\ x \in timers
  /\ FinishError({x})
  /\ UNCHANGED <<begun, submitted, withdrawn>>

StoreNext ==
  \/ \E x \in Transactions :
       \/ Begin(x) \/ Submit(x) \/ Wait(x) \/ WaitAborted(x)
       \/ WaiterAborts(x) \/ Abort(x) \/ TimesOut(x)
  \/ \E S \in SUBSET Transactions : AbortTrace(S)
  \/ CloseStore

StoreSpec == StoreInit /\ [][StoreNext]_storeVars

\* Timers fire.
FairStoreSpec == StoreSpec /\ \A x \in Transactions : WF_storeVars(TimesOut(x))

-----------------------------------------------------------------------------
\* Exactly the transactions without a summary have an armed timer, and
\* whoever waits waits for one of them: it will be served or timed out.
ParkedIsGuarded ==
  /\ timers = store \ submitted
  /\ \A x \in Transactions : Parked(x) => x \in timers

\* ChatGPT was told that its summary was accepted: it is there for the one
\* who comes for it, or it was handed over, unless its owner withdrew the
\* transaction.  Neither the TTL nor a revoked trace takes it away.
AcceptedIsKept ==
  \A x \in submitted : x \in store \/ waiter[x] = "resolved" \/ x \in withdrawn

\* Nobody receives a summary that was not submitted, and no waiter is told
\* of a failure that ChatGPT was, or can still be, told is a success, unless
\* the transaction was withdrawn.
BothSidesAgree ==
  \A x \in Transactions :
    /\ waiter[x] = "resolved" => x \in submitted \ store
    /\ waiter[x] = "rejected" => x \notin store
    /\ waiter[x] = "rejected" /\ x \in submitted => x \in withdrawn

\* ChatGPT and Codex are told the same of every transaction, and nobody waits
\* unguarded for what was told.
SummariesAgree == ParkedIsGuarded /\ AcceptedIsKept /\ BothSidesAgree

\* Every wait ends.
EveryWaitEnds == \A x \in Transactions : Parked(x) ~> ~Parked(x)
=============================================================================
