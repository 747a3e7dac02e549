-------------------------- MODULE TurnBrokerProofs --------------------------
(* Theorems about TurnBroker, for every value of its constants.             *)
EXTENDS TurnBroker, FiniteSetTheorems, SequenceTheorems, TLAPS

\* RemoveAt yields a sequence over the same set, so an aborted wait leaves
\* a list of observers.
LEMMA RemoveAtType ==
  ASSUME NEW S, NEW s \in Seq(S), NEW i \in DOMAIN s
  PROVE  RemoveAt(s, i) \in Seq(S)
<1>1. SubSeq(s, 1, i-1) \in Seq(S)
  <2>1. \A j \in 1 .. i-1 : s[j] \in S
    OBVIOUS
  <2> QED BY <2>1, SubSeqProperties
<1>2. SubSeq(s, i+1, Len(s)) \in Seq(S)
  <2>1. \A j \in i+1 .. Len(s) : s[j] \in S
    OBVIOUS
  <2> QED BY <2>1, SubSeqProperties
<1> QED BY <1>1, <1>2, ConcatProperties DEF RemoveAt

LEMMA EmptyChannelType == EmptyChannel \in Channel
BY EmptySeq DEF EmptyChannel, Channel, NoRevision

\* Replacing one channel by a well-formed one.
LEMMA SetChannelType ==
  ASSUME TypeOK, NEW t \in Turns, NEW r \in Channel, SetChannel(t, r)
  PROVE  channel' \in [Turns -> Channel]
BY DEF TypeOK, SetChannel

\* The types of the fields of a channel.
LEMMA FieldTypes ==
  ASSUME TypeOK, NEW t \in Turns
  PROVE  /\ channel[t] \in Channel
         /\ channel[t].sessionKeys \in SUBSET Sessions
         /\ channel[t].open \in SUBSET Calls
         /\ channel[t].queued \in SUBSET Calls
         /\ channel[t].delivered \in SUBSET Calls
         /\ channel[t].activities \in SUBSET Activities
         /\ channel[t].waiters \in Seq(Observers)
         /\ channel[t].timer \in BOOLEAN
         /\ channel[t].compaction \in BOOLEAN
         /\ channel[t].intercepts \in Nat
         /\ channel[t].revision \in Nat
         /\ channel[t].committed \in BOOLEAN
         /\ channel[t].committedAt \in Nat \cup {NoRevision}
BY DEF TypeOK, Channel

\* takeQueued yields a well-formed channel.
LEMMA TakeType ==
  ASSUME TypeOK, NEW t \in Turns
  PROVE  Take(t) \in Channel
<1>1. channel[t].delivered \cup (channel[t].queued \cap channel[t].open) \in SUBSET Calls
  BY FieldTypes
<1> QED BY <1>1, FieldTypes DEF Take, Channel

\* Dropping turns keeps the types of everything Drop assigns.
LEMMA DropType ==
  ASSUME TypeOK, NEW S \in SUBSET Turns, Drop(S)
  PROVE  /\ phase' \in [Turns -> {"new", "starting", "refused", "live", "over"}]
         /\ pending' \subseteq Turns /\ bindings' \subseteq Turns
         /\ sessionOf' \in [Sessions -> Turns \cup {NoTurn}]
         /\ outcome' \in [Calls -> {"unused", "open", "result", "compaction", "rejected"}]
         /\ granted' \in [Sessions -> SUBSET Turns]
         /\ inHand' \in [Turns -> SUBSET Calls]
         /\ gone' \subseteq Observers
         /\ fence' \in [Turns -> Nat \cup {NoRevision}]
BY DEF TypeOK, Drop, SessionWithout

\* TypeOK is inductive on its own.
THEOREM TypeCorrect == Spec => []TypeOK
<1>1. Init => TypeOK
  <2> SUFFICES ASSUME Init PROVE TypeOK
    OBVIOUS
  <2>1. channel \in [Turns -> Channel]
    BY EmptyChannelType DEF Init
  <2>2. fence \in [Turns -> Nat \cup {NoRevision}] /\ losses \in 0..MaxLosses
    BY BrokerAssumption DEF Init, BrokerAssumption
  <2> QED BY <2>1, <2>2 DEF Init, TypeOK
<1>2. TypeOK /\ [Next]_vars => TypeOK'
  <2> SUFFICES ASSUME TypeOK, [Next]_vars PROVE TypeOK'
    OBVIOUS
  <2>1. ASSUME NEW t \in Turns, RegisterCall(t) PROVE TypeOK'
    BY <2>1 DEF RegisterCall, clientVars, TypeOK
  <2>2. ASSUME NEW t \in Turns, RegisterResume(t) PROVE TypeOK'
    BY <2>2 DEF RegisterResume, clientVars, TypeOK
  <2>3. ASSUME NEW S \in SUBSET Turns, Revoke(S) PROVE TypeOK'
    BY <2>3, DropType, EmptyChannelType DEF Revoke, TypeOK
  <2>4. CASE Close
    BY <2>4, DropType, EmptyChannelType DEF Close, Live, TypeOK
  <2>5. ASSUME NEW b \in BOOLEAN, SetExternalOwnersAccepted(b) PROVE TypeOK'
    BY <2>5 DEF SetExternalOwnersAccepted, clientVars, TypeOK
  <2>6. ASSUME NEW x \in Expiring, Lapse(x) PROVE TypeOK'
    BY <2>6, BrokerAssumption DEF Lapse, clientVars, BrokerAssumption, TypeOK
  <2>7. CASE Prune
    <3>1. ASSUME NEW t \in Turns
          PROVE  [channel[t] EXCEPT !.activities = @ \ lapsed,
                                    !.revision = @ + Cardinality(ExpiredActivities(t))] \in Channel
      <4>1. Cardinality(ExpiredActivities(t)) \in Nat
        BY BrokerAssumption, FieldTypes, FS_Subset, FS_CardinalityType
        DEF BrokerAssumption, ExpiredActivities
      <4>2. /\ channel[t].activities \ lapsed \in SUBSET Activities
            /\ channel[t].revision + Cardinality(ExpiredActivities(t)) \in Nat
        BY <4>1, FieldTypes
      <4> QED BY <4>2, FieldTypes DEF Channel
    <3>2. channel' \in [Turns -> Channel]
      BY <2>7, <3>1, EmptyChannelType, FieldTypes DEF Prune
    <3> QED BY <2>7, <3>2, DropType DEF Prune, Live, TypeOK
  <2>8. ASSUME NEW h, NEW s \in Sessions \cup {NoSession}, NEW t \in Turns, Claim(h, s, t)
        PROVE  TypeOK'
    <3>1. CASE s = NoSession
      BY <2>8, <3>1 DEF Claim, TypeOK
    <3>2. CASE s # NoSession
      <4>1. channel[t].sessionKeys \cup {s} \in SUBSET Sessions
        BY <3>2, FieldTypes
      <4>2. [channel[t] EXCEPT !.sessionKeys = @ \cup {s}] \in Channel
        BY <4>1, FieldTypes DEF Channel
      <4>3. channel' \in [Turns -> Channel]
        BY <2>8, <3>2, <4>2, SetChannelType DEF Claim
      <4> QED BY <2>8, <3>2, <4>3 DEF Claim, TypeOK
    <3> QED BY <3>1, <3>2
  <2>9. ASSUME NEW c \in Calls, NEW t \in Turns, Invoke(c, t) PROVE TypeOK'
    <3>1. /\ channel[t].open \cup {c} \in SUBSET Calls
          /\ channel[t].queued \cup {c} \in SUBSET Calls
          /\ channel[t].revision + 1 \in Nat
          /\ ArmsTimer(t) \in BOOLEAN
      BY FieldTypes DEF ArmsTimer
    <3>2. [channel[t] EXCEPT !.open = @ \cup {c}, !.queued = @ \cup {c},
                             !.revision = @ + 1, !.timer = ArmsTimer(t)] \in Channel
      BY <3>1, FieldTypes DEF Channel
    <3>3. channel' \in [Turns -> Channel]
      BY <2>9, <3>2, SetChannelType DEF Invoke
    <3> QED BY <2>9, <3>3 DEF Invoke, TypeOK
  <2>10. ASSUME NEW c \in Calls, NEW t \in Turns, InvokeIntercepted(c, t) PROVE TypeOK'
    <3>1. channel[t].intercepts + 1 \in Nat
      BY FieldTypes
    <3>2. Intercepted(t) \in Channel
      BY <3>1, FieldTypes DEF Channel, Intercepted
    <3>3. channel' \in [Turns -> Channel]
      BY <2>10, <3>2, SetChannelType DEF InvokeIntercepted
    <3> QED BY <2>10, <3>3 DEF InvokeIntercepted, TypeOK
  <2>11. ASSUME NEW a \in Activities, NEW t \in Turns, ActivityBegin(a, t) PROVE TypeOK'
    <3>1. /\ channel[t].activities \cup {a} \in SUBSET Activities
          /\ channel[t].revision + 1 \in Nat
      BY FieldTypes
    <3>2. [channel[t] EXCEPT !.activities = @ \cup {a}, !.revision = @ + 1] \in Channel
      BY <3>1, FieldTypes DEF Channel
    <3>3. channel' \in [Turns -> Channel]
      BY <2>11, <3>2, SetChannelType DEF ActivityBegin
    <3> QED BY <2>11, <3>3 DEF ActivityBegin, TypeOK
  <2>12. ASSUME NEW a \in Activities, NEW t \in Turns, ActivityEnd(a, t) PROVE TypeOK'
    <3>1. /\ channel[t].activities \ {a} \in SUBSET Activities
          /\ channel[t].revision + 1 \in Nat
      BY FieldTypes
    <3>2. [channel[t] EXCEPT !.activities = @ \ {a}, !.revision = @ + 1] \in Channel
      BY <3>1, FieldTypes DEF Channel
    <3>3. channel' \in [Turns -> Channel]
      BY <2>12, <3>2, SetChannelType DEF ActivityEnd, TypeOK
    <3> QED BY <2>12, <3>3 DEF ActivityEnd, TypeOK
  <2>13. ASSUME NEW t \in Turns, NEW o \in Observers, NextToolBatch(t, o) PROVE TypeOK'
    <3>1. Take(t) \in Channel
      BY TakeType
    <3>2. Append(Take(t).waiters, o) \in Seq(Observers)
      BY FieldTypes, <3>1 DEF Channel
    <3>3. [Take(t) EXCEPT !.waiters = Append(@, o)] \in Channel
      BY <3>1, <3>2 DEF Channel
    <3>4. channel' \in [Turns -> Channel]
      BY <2>13, <3>1, <3>3, SetChannelType DEF NextToolBatch, TypeOK
    <3>5. inHand' \in [Turns -> SUBSET Calls]
      BY <2>13, FieldTypes DEF NextToolBatch, TypeOK
    <3> QED BY <2>13, <3>4, <3>5 DEF NextToolBatch, TypeOK
  <2>14. ASSUME NEW t \in Turns, NEW i \in DOMAIN channel[t].waiters, AbortWait(t, i)
         PROVE  TypeOK'
    <3>1. RemoveAt(channel[t].waiters, i) \in Seq(Observers) /\ channel[t].waiters[i] \in Observers
      BY FieldTypes, RemoveAtType
    <3>2. [channel[t] EXCEPT !.waiters = RemoveAt(@, i)] \in Channel
      BY <3>1, FieldTypes DEF Channel
    <3>3. channel' \in [Turns -> Channel]
      BY <2>14, <3>2, SetChannelType DEF AbortWait, TypeOK
    <3>4. gone' \subseteq Observers
      BY <2>14, <3>1 DEF AbortWait, TypeOK
    <3> QED BY <2>14, <3>3, <3>4 DEF AbortWait, TypeOK
  <2>15. ASSUME NEW t \in Turns, BatchTimer(t) PROVE TypeOK'
    <3>1. [channel[t] EXCEPT !.timer = FALSE] \in Channel
      BY FieldTypes DEF Channel
    <3>2. [Take(t) EXCEPT !.timer = FALSE, !.waiters = <<>>] \in Channel
      BY TakeType, EmptySeq DEF Channel
    <3>3. channel' \in [Turns -> Channel]
      BY <2>15, <3>1, <3>2, SetChannelType DEF BatchTimer
    <3>4. inHand[t] \cup (channel[t].queued \cap channel[t].open) \in SUBSET Calls
      BY FieldTypes DEF TypeOK
    <3>5. inHand' \in [Turns -> SUBSET Calls]
      BY <2>15, <3>4 DEF BatchTimer, TypeOK
    <3>6. gone' \subseteq Observers
      BY <2>15 DEF BatchTimer, TypeOK
    <3> QED BY <2>15, <3>3, <3>5, <3>6 DEF BatchTimer, TypeOK
  <2>16. ASSUME NEW t \in Turns, LoseBatch(t) PROVE TypeOK'
    BY <2>16, BrokerAssumption DEF LoseBatch, BrokerAssumption, brokerVars, TypeOK
  <2>17. ASSUME NEW t \in Turns, NEW c \in Calls, CompleteTool(t, c) PROVE TypeOK'
    <3>1. /\ channel[t].open \ {c} \in SUBSET Calls
          /\ channel[t].delivered \ {c} \in SUBSET Calls
          /\ channel[t].revision + 1 \in Nat
      BY FieldTypes
    <3>2. [channel[t] EXCEPT !.open = @ \ {c}, !.delivered = @ \ {c}, !.revision = @ + 1] \in Channel
      BY <3>1, FieldTypes DEF Channel
    <3>3. channel' \in [Turns -> Channel]
      BY <2>17, <3>2, SetChannelType DEF CompleteTool
    <3> QED BY <2>17, <3>3 DEF CompleteTool, TypeOK
  <2>18. ASSUME NEW t \in Turns, RequestCompaction(t) PROVE TypeOK'
    <3>1. Cardinality(TakenBack(t)) \in Nat
      BY BrokerAssumption, FieldTypes, FS_Subset, FS_CardinalityType
      DEF BrokerAssumption, TakenBack
    <3>2. /\ channel[t].open \ TakenBack(t) \in SUBSET Calls
          /\ channel[t].intercepts + Cardinality(TakenBack(t)) \in Nat
      BY <3>1, FieldTypes
    <3>3. [channel[t] EXCEPT !.compaction = TRUE, !.timer = FALSE, !.queued = {},
                             !.open = @ \ TakenBack(t),
                             !.intercepts = @ + Cardinality(TakenBack(t))] \in Channel
      BY <3>2, FieldTypes DEF Channel
    <3>4. channel' \in [Turns -> Channel]
      BY <2>18, <3>3, SetChannelType DEF RequestCompaction
    <3> QED BY <2>18, <3>4 DEF RequestCompaction, TypeOK
  <2>19. ASSUME NEW t \in Turns, BeginCompletionFence(t) PROVE TypeOK'
    <3>1. fence' \in [Turns -> Nat \cup {NoRevision}] /\ disturbed' \subseteq Turns
      BY <2>19, FieldTypes DEF BeginCompletionFence, TypeOK
    <3> QED BY <2>19, <3>1 DEF BeginCompletionFence, brokerVars, TypeOK
  <2>20. ASSUME NEW t \in Turns, CommitCompletionFence(t) PROVE TypeOK'
    <3>1. fence[t] \in Nat \cup {NoRevision}
      BY DEF TypeOK
    <3>2. [channel[t] EXCEPT !.committed = TRUE, !.committedAt = fence[t]] \in Channel
      BY <3>1, FieldTypes DEF Channel
    <3>3. channel' \in [Turns -> Channel]
      BY <2>20, <3>2, SetChannelType DEF CommitCompletionFence, TypeOK
    <3> QED BY <2>20, <3>3 DEF CommitCompletionFence, TypeOK
  <2>21. CASE UNCHANGED vars
    BY <2>21 DEF vars, brokerVars, clientVars, TypeOK
  <2> QED
    BY <2>1, <2>2, <2>3, <2>4, <2>5, <2>6, <2>7, <2>8, <2>9, <2>10, <2>11, <2>12, <2>13,
       <2>14, <2>15, <2>16, <2>17, <2>18, <2>19, <2>20, <2>21
    DEF Next, Register, Revocation, RevokeTurn, RevokeTrace, RevokeExternalOwners, Switch,
        Time, Mcp, Owner, Browser, Live
<1> QED BY <1>1, <1>2, PTL DEF Spec

-----------------------------------------------------------------------------
(* Calls: none is lost, none is left in a committed or compacted queue.     *)

\* What holds of each channel by itself.
ChannelSound(t) ==
  /\ channel[t].open = channel[t].queued \cup channel[t].delivered
  /\ channel[t].queued \cap channel[t].delivered = {}
  /\ channel[t].queued # {} /\ channel[t].waiters # <<>> => channel[t].timer
  /\ channel[t].committed => channel[t].open = {} /\ channel[t].activities = {}
  /\ channel[t].compaction => channel[t].queued = {}
  /\ phase[t] # "live" => channel[t].open = {}

\* What ties the open calls of the channels to the promises of the MCP side.
CallsTracked ==
  /\ \A c \in Calls : outcome[c] = "open" => turnOf[c] \in Turns /\ c \in channel[turnOf[c]].open
  /\ \A t \in Turns : \A c \in channel[t].open : outcome[c] = "open" /\ turnOf[c] = t

CallInv == /\ \A t \in Turns : ChannelSound(t)
           /\ CallsTracked
           /\ bindings \subseteq Live

\* A step that replaces the channel of one turn leaves the others alone.
LEMMA SetChannelFrame ==
  ASSUME TypeOK, NEW t \in Turns, NEW r, SetChannel(t, r)
  PROVE  channel'[t] = r /\ \A u \in Turns \ {t} : channel'[u] = channel[u]
BY DEF TypeOK, SetChannel

\* Dropping turns whose channels are emptied keeps the call invariant.
LEMMA DropCalls ==
  ASSUME TypeOK, CallInv, NEW S \in SUBSET Turns, Drop(S), turnOf' = turnOf,
         \A t \in S : channel'[t] = EmptyChannel,
         \A t \in Turns \ S :
           /\ channel'[t].open = channel[t].open
           /\ channel'[t].queued = channel[t].queued
           /\ channel'[t].delivered = channel[t].delivered
           /\ channel'[t].waiters = channel[t].waiters
           /\ channel'[t].timer = channel[t].timer
           /\ channel'[t].committed = channel[t].committed
           /\ channel'[t].compaction = channel[t].compaction
           /\ channel'[t].activities \subseteq channel[t].activities
  PROVE  CallInv'
<1>1. ASSUME NEW t \in Turns PROVE ChannelSound(t)'
  <2>1. CASE t \in S
    BY <2>1 DEF ChannelSound, EmptyChannel
  <2>2. CASE t \notin S
    <3>1. phase'[t] = phase[t]
      BY <2>2 DEF Drop
    <3> QED BY <2>2, <3>1 DEF CallInv, ChannelSound
  <2> QED BY <2>1, <2>2
<1>2. CallsTracked'
  <2>1. ASSUME NEW c \in Calls, outcome'[c] = "open"
        PROVE  turnOf'[c] \in Turns /\ c \in channel'[turnOf'[c]].open
    <3>1. outcome[c] = "open" /\ ~\E t \in S : c \in channel[t].open
      BY <2>1 DEF Drop
    <3> QED BY <3>1 DEF CallInv, CallsTracked
  <2>2. ASSUME NEW t \in Turns, NEW c \in channel'[t].open
        PROVE  outcome'[c] = "open" /\ turnOf'[c] = t
    <3>1. t \notin S
      BY <2>2 DEF EmptyChannel
    <3>2. c \in channel[t].open /\ c \in Calls
      BY <2>2, <3>1, FieldTypes
    <3>3. outcome[c] = "open" /\ turnOf[c] = t
      BY <3>2 DEF CallInv, CallsTracked
    <3>4. ~\E u \in S : c \in channel[u].open
      BY <3>1, <3>3 DEF CallInv, CallsTracked
    <3> QED BY <3>2, <3>3, <3>4 DEF Drop
  <2> QED BY <2>1, <2>2 DEF CallsTracked
<1>3. (bindings \subseteq Live)'
  BY DEF CallInv, Drop, Live, TypeOK
<1> QED BY <1>1, <1>2, <1>3 DEF CallInv

\* A step that leaves the calls, the waiters and the timers alone, ends no
\* live turn, and begins activities only in turns that are not committed.
LEMMA FrameCalls ==
  ASSUME TypeOK, CallInv, UNCHANGED <<outcome, turnOf>>,
         \A t \in Turns : /\ channel'[t].open = channel[t].open
                          /\ channel'[t].queued = channel[t].queued
                          /\ channel'[t].delivered = channel[t].delivered
                          /\ channel'[t].compaction = channel[t].compaction,
         \A t \in Turns : /\ channel'[t].waiters = <<>> \/ channel[t].waiters # <<>>
                          /\ channel'[t].timer = channel[t].timer,
         \A t \in Turns : channel'[t].committed =>
                            channel'[t].activities = {} /\ channel'[t].open = {},
         \A t \in Turns : phase'[t] = phase[t] \/ phase[t] # "live",
         bindings' \subseteq Live'
  PROVE  CallInv'
<1>1. ASSUME NEW t \in Turns PROVE ChannelSound(t)'
  BY DEF CallInv, ChannelSound
<1>2. CallsTracked'
  BY DEF CallInv, CallsTracked
<1> QED BY <1>1, <1>2 DEF CallInv

(* What the handlers that rewrite several fields of a channel leave in it.  *)

LEMMA InvokeEffect ==
  ASSUME TypeOK, NEW c \in Calls, NEW t \in Turns, Invoke(c, t)
  PROVE  /\ channel'[t].open = channel[t].open \cup {c}
         /\ channel'[t].queued = channel[t].queued \cup {c}
         /\ channel'[t].delivered = channel[t].delivered
         /\ channel'[t].activities = channel[t].activities
         /\ channel'[t].waiters = channel[t].waiters
         /\ channel'[t].timer = (channel[t].timer \/ channel[t].waiters # <<>>)
         /\ channel'[t].compaction = channel[t].compaction
         /\ channel'[t].revision = channel[t].revision + 1
         /\ channel'[t].committed = channel[t].committed
         /\ channel'[t].committedAt = channel[t].committedAt
         /\ channel'[t].intercepts = channel[t].intercepts
         /\ channel'[t].sessionKeys = channel[t].sessionKeys
         /\ ~channel[t].committed /\ ~channel[t].compaction
         /\ \A u \in Turns \ {t} : channel'[u] = channel[u]
<1> DEFINE r == [channel[t] EXCEPT !.open = @ \cup {c}, !.queued = @ \cup {c},
                                   !.revision = @ + 1, !.timer = ArmsTimer(t)]
<1>1. SetChannel(t, r) /\ ~channel[t].committed /\ ~channel[t].compaction
  BY DEF Invoke, Accepts
<1>2. channel'[t] = r /\ \A u \in Turns \ {t} : channel'[u] = channel[u]
  BY <1>1, SetChannelFrame
<1> QED BY <1>1, <1>2, FieldTypes DEF Channel, ArmsTimer

LEMMA CompleteEffect ==
  ASSUME TypeOK, NEW t \in Turns, NEW c \in Calls, CompleteTool(t, c)
  PROVE  /\ channel'[t].open = channel[t].open \ {c}
         /\ channel'[t].queued = channel[t].queued
         /\ channel'[t].delivered = channel[t].delivered \ {c}
         /\ channel'[t].activities = channel[t].activities
         /\ channel'[t].waiters = channel[t].waiters
         /\ channel'[t].timer = channel[t].timer
         /\ channel'[t].compaction = channel[t].compaction
         /\ channel'[t].revision = channel[t].revision + 1
         /\ channel'[t].committed = channel[t].committed
         /\ channel'[t].committedAt = channel[t].committedAt
         /\ channel'[t].intercepts = channel[t].intercepts
         /\ channel'[t].sessionKeys = channel[t].sessionKeys
         /\ \A u \in Turns \ {t} : channel'[u] = channel[u]
<1> DEFINE r == [channel[t] EXCEPT !.open = @ \ {c}, !.delivered = @ \ {c}, !.revision = @ + 1]
<1>1. SetChannel(t, r)
  BY DEF CompleteTool
<1>2. channel'[t] = r /\ \A u \in Turns \ {t} : channel'[u] = channel[u]
  BY <1>1, SetChannelFrame
<1> QED BY <1>2, FieldTypes DEF Channel

LEMMA CompactionEffect ==
  ASSUME TypeOK, NEW t \in Turns, RequestCompaction(t)
  PROVE  /\ channel'[t].open = channel[t].open \ TakenBack(t)
         /\ channel'[t].queued = {}
         /\ channel'[t].delivered = channel[t].delivered
         /\ channel'[t].activities = channel[t].activities
         /\ channel'[t].waiters = channel[t].waiters
         /\ channel'[t].compaction = TRUE
         /\ channel'[t].revision = channel[t].revision
         /\ channel'[t].committed = channel[t].committed
         /\ channel'[t].committedAt = channel[t].committedAt
         /\ channel'[t].intercepts = channel[t].intercepts + Cardinality(TakenBack(t))
         /\ channel'[t].sessionKeys = channel[t].sessionKeys
         /\ \A u \in Turns \ {t} : channel'[u] = channel[u]
<1> DEFINE r == [channel[t] EXCEPT !.compaction = TRUE, !.timer = FALSE, !.queued = {},
                             !.open = @ \ TakenBack(t),
                             !.intercepts = @ + Cardinality(TakenBack(t))]
<1>1. SetChannel(t, r)
  BY DEF RequestCompaction
<1>2. channel'[t] = r /\ \A u \in Turns \ {t} : channel'[u] = channel[u]
  BY <1>1, SetChannelFrame
<1> QED BY <1>2, FieldTypes DEF Channel

\* An activity begins or ends in turn t.
LEMMA ActivityEffect ==
  ASSUME TypeOK, NEW t \in Turns, NEW A,
         SetChannel(t, [channel[t] EXCEPT !.activities = A, !.revision = @ + 1])
  PROVE  /\ channel'[t].activities = A
         /\ channel'[t].revision = channel[t].revision + 1
         /\ channel'[t].intercepts = channel[t].intercepts
         /\ channel'[t].sessionKeys = channel[t].sessionKeys
         /\ channel'[t].open = channel[t].open
         /\ channel'[t].queued = channel[t].queued
         /\ channel'[t].delivered = channel[t].delivered
         /\ channel'[t].waiters = channel[t].waiters
         /\ channel'[t].timer = channel[t].timer
         /\ channel'[t].compaction = channel[t].compaction
         /\ channel'[t].committed = channel[t].committed
         /\ channel'[t].committedAt = channel[t].committedAt
         /\ \A u \in Turns \ {t} : channel'[u] = channel[u]
<1> DEFINE r == [channel[t] EXCEPT !.activities = A, !.revision = @ + 1]
<1>1. channel'[t] = r /\ \A u \in Turns \ {t} : channel'[u] = channel[u]
  BY SetChannelFrame
<1> QED BY <1>1, FieldTypes DEF Channel

\* A batch is taken, by an observer or by the timer.
LEMMA TakeEffect ==
  ASSUME TypeOK, NEW t \in Turns, NEW w, NEW b,
         \/ SetChannel(t, Take(t)) /\ w = channel[t].waiters /\ b = channel[t].timer
         \/ SetChannel(t, [Take(t) EXCEPT !.waiters = w]) /\ b = channel[t].timer
         \/ SetChannel(t, [Take(t) EXCEPT !.timer = b, !.waiters = w])
  PROVE  /\ channel'[t].queued = {}
         /\ channel'[t].delivered = channel[t].delivered \cup (channel[t].queued \cap channel[t].open)
         /\ channel'[t].waiters = w
         /\ channel'[t].timer = b
         /\ channel'[t].intercepts = channel[t].intercepts
         /\ channel'[t].sessionKeys = channel[t].sessionKeys
         /\ channel'[t].open = channel[t].open
         /\ channel'[t].activities = channel[t].activities
         /\ channel'[t].compaction = channel[t].compaction
         /\ channel'[t].revision = channel[t].revision
         /\ channel'[t].committed = channel[t].committed
         /\ channel'[t].committedAt = channel[t].committedAt
         /\ \A u \in Turns \ {t} : channel'[u] = channel[u]
<1> DEFINE r == Take(t)
<1>1. /\ r \in Channel
      /\ r.queued = {}
      /\ r.delivered = channel[t].delivered \cup (channel[t].queued \cap channel[t].open)
      /\ r.waiters = channel[t].waiters /\ r.timer = channel[t].timer
      /\ r.intercepts = channel[t].intercepts
      /\ r.sessionKeys = channel[t].sessionKeys /\ r.open = channel[t].open
      /\ r.activities = channel[t].activities /\ r.compaction = channel[t].compaction
      /\ r.revision = channel[t].revision /\ r.committed = channel[t].committed
      /\ r.committedAt = channel[t].committedAt
  BY TakeType, FieldTypes DEF Take, Channel
<1> HIDE DEF r
<1>2. CASE SetChannel(t, r) /\ w = channel[t].waiters /\ b = channel[t].timer
  <2>1. channel'[t] = r /\ \A u \in Turns \ {t} : channel'[u] = channel[u]
    BY <1>2, SetChannelFrame
  <2> QED BY <1>1, <1>2, <2>1
<1>3. CASE SetChannel(t, [r EXCEPT !.waiters = w]) /\ b = channel[t].timer
  <2>1. channel'[t] = [r EXCEPT !.waiters = w] /\ \A u \in Turns \ {t} : channel'[u] = channel[u]
    BY <1>3, SetChannelFrame
  <2> QED BY <1>1, <1>3, <2>1 DEF Channel
<1>4. CASE SetChannel(t, [r EXCEPT !.timer = b, !.waiters = w])
  <2>1. channel'[t] = [r EXCEPT !.timer = b, !.waiters = w]
        /\ \A u \in Turns \ {t} : channel'[u] = channel[u]
    BY <1>4, SetChannelFrame
  <2> QED BY <1>1, <2>1 DEF Channel
<1> QED BY <1>2, <1>3, <1>4 DEF r

\* The completion is committed.
LEMMA CommitEffect ==
  ASSUME TypeOK, NEW t \in Turns, CommitCompletionFence(t)
  PROVE  \/ channel' = channel /\ fence' = [fence EXCEPT ![t] = NoRevision]
         \/ /\ channel'[t].committed = TRUE
            /\ channel'[t].committedAt = fence[t]
            /\ CandidateStands(t) /\ fence' = fence
            /\ channel'[t].intercepts = channel[t].intercepts
            /\ channel'[t].sessionKeys = channel[t].sessionKeys
            /\ channel'[t].open = channel[t].open
            /\ channel'[t].queued = channel[t].queued
            /\ channel'[t].delivered = channel[t].delivered
            /\ channel'[t].activities = channel[t].activities
            /\ channel'[t].waiters = channel[t].waiters
            /\ channel'[t].timer = channel[t].timer
            /\ channel'[t].compaction = channel[t].compaction
            /\ channel'[t].revision = channel[t].revision
            /\ \A u \in Turns \ {t} : channel'[u] = channel[u]
<1> DEFINE r == [channel[t] EXCEPT !.committed = TRUE, !.committedAt = fence[t]]
<1>1. CASE CandidateStands(t)
  <2>1. SetChannel(t, r) /\ fence' = fence
    BY <1>1 DEF CommitCompletionFence
  <2>2. channel'[t] = r /\ \A u \in Turns \ {t} : channel'[u] = channel[u]
    BY <2>1, SetChannelFrame
  <2> QED BY <1>1, <2>1, <2>2, FieldTypes DEF Channel
<1>2. CASE ~CandidateStands(t)
  BY <1>2 DEF CommitCompletionFence
<1> QED BY <1>1, <1>2

LEMMA CallStep == TypeOK /\ CallInv /\ [Next]_vars => CallInv'
<1> SUFFICES ASSUME TypeOK, CallInv, [Next]_vars PROVE CallInv'
  OBVIOUS
<1>a. \A t \in Turns : ChannelSound(t)
  BY DEF CallInv
<1>b. \A t \in bindings : t \in Turns /\ phase[t] = "live"
  BY DEF CallInv, Live
<1>1. ASSUME NEW t \in Turns, RegisterCall(t) PROVE CallInv'
  BY <1>1, <1>a, <1>b, FrameCalls DEF RegisterCall, clientVars, ChannelSound, Live, TypeOK
<1>2. ASSUME NEW t \in Turns, RegisterResume(t) PROVE CallInv'
  BY <1>2, <1>a, <1>b, FrameCalls DEF RegisterResume, clientVars, ChannelSound, Live, TypeOK
<1>3. ASSUME NEW S \in SUBSET Turns, Revoke(S) PROVE CallInv'
  BY <1>3, DropCalls DEF Revoke
<1>4. CASE Close
  BY <1>4, DropCalls DEF Close, Live
<1>5. ASSUME NEW b \in BOOLEAN, SetExternalOwnersAccepted(b) PROVE CallInv'
  BY <1>5, <1>a, <1>b, FrameCalls DEF SetExternalOwnersAccepted, clientVars, ChannelSound, Live, TypeOK
<1>6. ASSUME NEW x \in Expiring, Lapse(x) PROVE CallInv'
  BY <1>6, <1>a, <1>b, FrameCalls DEF Lapse, clientVars, ChannelSound, Live, TypeOK
<1>7. CASE Prune
  <2> DEFINE S == Live \cap lapsed
  <2>1. S \in SUBSET Turns /\ Drop(S) /\ turnOf' = turnOf
    BY <1>7 DEF Prune, Live
  <2>2. \A t \in S : channel'[t] = EmptyChannel
    BY <1>7 DEF Prune, Live
  <2>3. ASSUME NEW t \in Turns \ S
        PROVE  /\ channel'[t].open = channel[t].open
               /\ channel'[t].queued = channel[t].queued
               /\ channel'[t].delivered = channel[t].delivered
               /\ channel'[t].waiters = channel[t].waiters
               /\ channel'[t].timer = channel[t].timer
               /\ channel'[t].committed = channel[t].committed
               /\ channel'[t].compaction = channel[t].compaction
               /\ channel'[t].activities \subseteq channel[t].activities
    BY <1>7, FieldTypes DEF Prune, Channel
  <2> QED BY <2>1, <2>2, <2>3, DropCalls
<1>8. ASSUME NEW h, NEW s \in Sessions \cup {NoSession}, NEW t \in Turns, Claim(h, s, t)
      PROVE  CallInv'
  <2>1. bindings' \subseteq Live'
    BY <1>8, <1>b DEF Claim, Resolves, Live
  <2>2. ASSUME NEW u \in Turns
        PROVE  /\ channel'[u].open = channel[u].open
               /\ channel'[u].queued = channel[u].queued
               /\ channel'[u].delivered = channel[u].delivered
               /\ channel'[u].compaction = channel[u].compaction
               /\ channel'[u].waiters = channel[u].waiters
               /\ channel'[u].timer = channel[u].timer
               /\ channel'[u].committed = channel[u].committed
               /\ channel'[u].activities = channel[u].activities
    BY <1>8, FieldTypes, SetChannelFrame DEF Claim, Channel
  <2>3. UNCHANGED <<outcome, turnOf, phase>>
    BY <1>8 DEF Claim
  <2> QED BY <2>1, <2>2, <2>3, <1>a, FrameCalls DEF ChannelSound
<1>9. ASSUME NEW c \in Calls, NEW t \in Turns, Invoke(c, t) PROVE CallInv'
  <2>1. /\ channel'[t].open = channel[t].open \cup {c}
        /\ channel'[t].queued = channel[t].queued \cup {c}
        /\ channel'[t].delivered = channel[t].delivered
        /\ channel'[t].waiters = channel[t].waiters
        /\ channel'[t].timer = (channel[t].timer \/ channel[t].waiters # <<>>)
        /\ channel'[t].committed = channel[t].committed
        /\ channel'[t].compaction = channel[t].compaction
        /\ ~channel[t].committed /\ ~channel[t].compaction
        /\ \A u \in Turns \ {t} : channel'[u] = channel[u]
    BY <1>9, InvokeEffect
  <2>2. /\ outcome' = [outcome EXCEPT ![c] = "open"]
        /\ turnOf' = [turnOf EXCEPT ![c] = t]
        /\ outcome[c] = "unused" /\ t \in bindings
        /\ UNCHANGED <<phase, bindings>>
    BY <1>9 DEF Invoke
  <2>3. \A u \in Turns : c \notin channel[u].open
    BY <2>2 DEF CallInv, CallsTracked
  <2>4. ASSUME NEW u \in Turns PROVE ChannelSound(u)'
    <3>1. CASE u = t
      <4>1. ChannelSound(t) /\ c \notin channel[t].open /\ phase'[t] = "live"
        BY <1>a, <1>b, <2>2, <2>3
      <4>2. channel'[t].open = channel'[t].queued \cup channel'[t].delivered
        BY <4>1, <2>1 DEF ChannelSound
      <4>3. channel'[t].queued \cap channel'[t].delivered = {}
        BY <4>1, <2>1 DEF ChannelSound
      <4>4. channel'[t].waiters # <<>> => channel'[t].timer
        BY <2>1
      <4>5. ~channel'[t].committed /\ ~channel'[t].compaction
        BY <2>1
      <4> QED BY <3>1, <4>1, <4>2, <4>3, <4>4, <4>5 DEF ChannelSound
    <3>2. CASE u # t
      BY <3>2, <2>1, <2>2, <1>a DEF ChannelSound
    <3> QED BY <3>1, <3>2
  <2>5. CallsTracked'
    <3>1. ASSUME NEW d \in Calls, outcome'[d] = "open"
          PROVE  turnOf'[d] \in Turns /\ d \in channel'[turnOf'[d]].open
      BY <2>1, <2>2, <2>3, <3>1, FieldTypes DEF CallInv, CallsTracked, TypeOK
    <3>2. ASSUME NEW u \in Turns, NEW d \in channel'[u].open
          PROVE  outcome'[d] = "open" /\ turnOf'[d] = u
      BY <2>1, <2>2, <2>3, FieldTypes DEF CallInv, CallsTracked, TypeOK
    <3> QED BY <3>1, <3>2 DEF CallsTracked
  <2> QED BY <2>2, <2>4, <2>5 DEF CallInv, Live
<1>10. ASSUME NEW c \in Calls, NEW t \in Turns, InvokeIntercepted(c, t) PROVE CallInv'
  <2>1. \A u \in Turns : /\ channel'[u].open = channel[u].open
                         /\ channel'[u].queued = channel[u].queued
                         /\ channel'[u].delivered = channel[u].delivered
                         /\ channel'[u].waiters = channel[u].waiters
                         /\ channel'[u].timer = channel[u].timer
                         /\ channel'[u].committed = channel[u].committed
                         /\ channel'[u].compaction = channel[u].compaction
                         /\ channel'[u].activities = channel[u].activities
    BY <1>10, FieldTypes, SetChannelFrame DEF InvokeIntercepted, Intercepted, Channel
  <2>2. /\ outcome' = [outcome EXCEPT ![c] = "compaction"]
        /\ turnOf' = [turnOf EXCEPT ![c] = t]
        /\ outcome[c] = "unused"
        /\ UNCHANGED <<phase, bindings>>
    BY <1>10 DEF InvokeIntercepted
  <2>3. \A u \in Turns : c \notin channel[u].open
    BY <2>2 DEF CallInv, CallsTracked
  <2>4. ASSUME NEW u \in Turns PROVE ChannelSound(u)'
    BY <2>1, <2>2, <1>a DEF ChannelSound
  <2>5. CallsTracked'
    <3>1. ASSUME NEW d \in Calls, outcome'[d] = "open"
          PROVE  turnOf'[d] \in Turns /\ d \in channel'[turnOf'[d]].open
      BY <2>1, <2>2, <2>3, <3>1, FieldTypes DEF CallInv, CallsTracked, TypeOK
    <3>2. ASSUME NEW u \in Turns, NEW d \in channel'[u].open
          PROVE  outcome'[d] = "open" /\ turnOf'[d] = u
      BY <2>1, <2>2, <2>3, FieldTypes DEF CallInv, CallsTracked, TypeOK
    <3> QED BY <3>1, <3>2 DEF CallsTracked
  <2> QED BY <2>2, <2>4, <2>5 DEF CallInv, Live
<1>11. ASSUME NEW a \in Activities, NEW t \in Turns, ActivityBegin(a, t) PROVE CallInv'
  <2>1. /\ SetChannel(t, [channel[t] EXCEPT !.activities = @ \cup {a}, !.revision = @ + 1])
        /\ ~channel[t].committed
        /\ UNCHANGED <<outcome, turnOf, phase, bindings>>
    BY <1>11 DEF ActivityBegin, Accepts
  <2>2. /\ \A u \in Turns : /\ channel'[u].open = channel[u].open
                            /\ channel'[u].queued = channel[u].queued
                            /\ channel'[u].delivered = channel[u].delivered
                            /\ channel'[u].waiters = channel[u].waiters
                            /\ channel'[u].timer = channel[u].timer
                            /\ channel'[u].committed = channel[u].committed
                            /\ channel'[u].compaction = channel[u].compaction
        /\ \A u \in Turns : u # t => channel'[u].activities = channel[u].activities
    BY <2>1, ActivityEffect
  <2> QED BY <2>1, <2>2, <1>a, <1>b, FrameCalls DEF ChannelSound, Live
<1>12. ASSUME NEW a \in Activities, NEW t \in Turns, ActivityEnd(a, t) PROVE CallInv'
  <2>1. /\ \/ SetChannel(t, [channel[t] EXCEPT !.activities = @ \ {a}, !.revision = @ + 1])
           \/ channel' = channel
        /\ UNCHANGED <<outcome, turnOf, phase, bindings>>
    BY <1>12 DEF ActivityEnd
  <2>2. CASE channel' = channel
    BY <2>1, <2>2, <1>a, <1>b, FrameCalls DEF ChannelSound, Live
  <2>3. CASE SetChannel(t, [channel[t] EXCEPT !.activities = @ \ {a}, !.revision = @ + 1])
    <3>1. /\ \A u \in Turns : /\ channel'[u].open = channel[u].open
                              /\ channel'[u].queued = channel[u].queued
                              /\ channel'[u].delivered = channel[u].delivered
                              /\ channel'[u].waiters = channel[u].waiters
                              /\ channel'[u].timer = channel[u].timer
                              /\ channel'[u].committed = channel[u].committed
                              /\ channel'[u].compaction = channel[u].compaction
          /\ channel'[t].activities = channel[t].activities \ {a}
          /\ \A u \in Turns \ {t} : channel'[u] = channel[u]
      BY <2>3, ActivityEffect
    <3> QED BY <2>1, <3>1, <1>a, <1>b, FrameCalls DEF ChannelSound, Live
  <2> QED BY <2>1, <2>2, <2>3
<1>13. ASSUME NEW t \in Turns, NEW o \in Observers, NextToolBatch(t, o) PROVE CallInv'
  <2>1. UNCHANGED <<outcome, turnOf, phase, bindings>>
    BY <1>13 DEF NextToolBatch
  <2>2. CASE channel' = channel
    BY <2>1, <2>2, <1>a, <1>b, FrameCalls DEF ChannelSound, Live
  <2>3. CASE channel' # channel
    <3>1. PICK w : \/ SetChannel(t, Take(t))
                   \/ SetChannel(t, [Take(t) EXCEPT !.waiters = w])
      BY <1>13, <2>3 DEF NextToolBatch
    <3>2. /\ channel'[t].queued = {}
          /\ channel'[t].delivered = channel[t].delivered \cup (channel[t].queued \cap channel[t].open)
          /\ channel'[t].open = channel[t].open
          /\ channel'[t].committed = channel[t].committed
          /\ channel'[t].compaction = channel[t].compaction
          /\ channel'[t].activities = channel[t].activities
          /\ \A u \in Turns \ {t} : channel'[u] = channel[u]
      BY <3>1, TakeEffect
    <3>3. ASSUME NEW u \in Turns PROVE ChannelSound(u)'
      BY <2>1, <3>2, <1>a DEF ChannelSound
    <3>4. CallsTracked'
      BY <2>1, <3>2 DEF CallInv, CallsTracked
    <3> QED BY <2>1, <3>3, <3>4 DEF CallInv, Live
  <2> QED BY <2>2, <2>3
<1>14. ASSUME NEW t \in Turns, NEW i \in DOMAIN channel[t].waiters, AbortWait(t, i)
       PROVE  CallInv'
  <2>1. \A u \in Turns : /\ channel'[u].open = channel[u].open
                         /\ channel'[u].queued = channel[u].queued
                         /\ channel'[u].delivered = channel[u].delivered
                         /\ channel'[u].timer = channel[u].timer
                         /\ channel'[u].committed = channel[u].committed
                         /\ channel'[u].compaction = channel[u].compaction
                         /\ channel'[u].activities = channel[u].activities
    BY <1>14, FieldTypes, SetChannelFrame DEF AbortWait, Channel
  <2>2. \A u \in Turns : channel'[u].waiters = channel[u].waiters \/ channel[u].waiters # <<>>
    BY <1>14, FieldTypes, SetChannelFrame DEF AbortWait, Channel
  <2>3. UNCHANGED <<outcome, turnOf, phase, bindings>>
    BY <1>14 DEF AbortWait
  <2> QED BY <2>1, <2>2, <2>3, <1>a, <1>b, FrameCalls DEF ChannelSound, Live
<1>15. ASSUME NEW t \in Turns, BatchTimer(t) PROVE CallInv'
  <2>1. UNCHANGED <<outcome, turnOf, phase, bindings>>
    BY <1>15 DEF BatchTimer
  <2>2. CASE channel[t].queued = {} \/ channel[t].waiters = <<>>
    <3>1. SetChannel(t, [channel[t] EXCEPT !.timer = FALSE])
      BY <1>15, <2>2 DEF BatchTimer
    <3>2. channel'[t] = [channel[t] EXCEPT !.timer = FALSE]
          /\ \A u \in Turns \ {t} : channel'[u] = channel[u]
      BY <3>1, SetChannelFrame
    <3>3. \A u \in Turns : /\ channel'[u].open = channel[u].open
                           /\ channel'[u].queued = channel[u].queued
                           /\ channel'[u].delivered = channel[u].delivered
                           /\ channel'[u].waiters = channel[u].waiters
                           /\ channel'[u].committed = channel[u].committed
                           /\ channel'[u].compaction = channel[u].compaction
                           /\ channel'[u].activities = channel[u].activities
                           /\ u # t => channel'[u].timer = channel[u].timer
      BY <3>2, FieldTypes DEF Channel
    <3>4. ASSUME NEW u \in Turns PROVE ChannelSound(u)'
      BY <2>1, <2>2, <3>3, <1>a DEF ChannelSound
    <3>5. CallsTracked'
      BY <2>1, <3>3 DEF CallInv, CallsTracked
    <3> QED BY <2>1, <3>4, <3>5 DEF CallInv, Live
  <2>3. CASE ~(channel[t].queued = {} \/ channel[t].waiters = <<>>)
    <3>1. SetChannel(t, [Take(t) EXCEPT !.timer = FALSE, !.waiters = <<>>])
      BY <1>15, <2>3 DEF BatchTimer
    <3>2. /\ channel'[t].queued = {}
          /\ channel'[t].delivered = channel[t].delivered \cup (channel[t].queued \cap channel[t].open)
          /\ channel'[t].open = channel[t].open
          /\ channel'[t].committed = channel[t].committed
          /\ channel'[t].compaction = channel[t].compaction
          /\ channel'[t].activities = channel[t].activities
          /\ \A u \in Turns \ {t} : channel'[u] = channel[u]
      BY <3>1, TakeEffect
    <3>3. ASSUME NEW u \in Turns PROVE ChannelSound(u)'
      BY <2>1, <3>2, <1>a DEF ChannelSound
    <3>4. CallsTracked'
      BY <2>1, <3>2 DEF CallInv, CallsTracked
    <3> QED BY <2>1, <3>3, <3>4 DEF CallInv, Live
  <2> QED BY <2>2, <2>3
<1>16. ASSUME NEW t \in Turns, LoseBatch(t) PROVE CallInv'
  BY <1>16, <1>a, <1>b, FrameCalls DEF LoseBatch, brokerVars, ChannelSound, Live
<1>17. ASSUME NEW t \in Turns, NEW c \in Calls, CompleteTool(t, c) PROVE CallInv'
  <2>1. /\ channel'[t].open = channel[t].open \ {c}
        /\ channel'[t].delivered = channel[t].delivered \ {c}
        /\ channel'[t].queued = channel[t].queued
        /\ channel'[t].waiters = channel[t].waiters
        /\ channel'[t].timer = channel[t].timer
        /\ channel'[t].committed = channel[t].committed
        /\ channel'[t].compaction = channel[t].compaction
        /\ channel'[t].activities = channel[t].activities
        /\ \A u \in Turns \ {t} : channel'[u] = channel[u]
    BY <1>17, CompleteEffect
  <2>2. /\ outcome' = [outcome EXCEPT ![c] = "result"]
        /\ c \in channel[t].open /\ c \in channel[t].delivered
        /\ UNCHANGED <<turnOf, phase, bindings>>
    BY <1>17 DEF CompleteTool
  <2>3. \A u \in Turns \ {t} : c \notin channel[u].open
    BY <2>2 DEF CallInv, CallsTracked
  <2>4. ASSUME NEW u \in Turns PROVE ChannelSound(u)'
    BY <2>1, <2>2, <1>a DEF ChannelSound
  <2>5. CallsTracked'
    <3>1. ASSUME NEW d \in Calls, outcome'[d] = "open"
          PROVE  turnOf'[d] \in Turns /\ d \in channel'[turnOf'[d]].open
      BY <2>1, <2>2, <2>3, <3>1, FieldTypes DEF CallInv, CallsTracked, TypeOK
    <3>2. ASSUME NEW u \in Turns, NEW d \in channel'[u].open
          PROVE  outcome'[d] = "open" /\ turnOf'[d] = u
      BY <2>1, <2>2, <2>3, FieldTypes DEF CallInv, CallsTracked, TypeOK
    <3> QED BY <3>1, <3>2 DEF CallsTracked
  <2> QED BY <2>2, <2>4, <2>5 DEF CallInv, Live
<1>18. ASSUME NEW t \in Turns, RequestCompaction(t) PROVE CallInv'
  <2>1. /\ channel'[t].open = channel[t].open \ channel[t].queued
        /\ channel'[t].queued = {}
        /\ channel'[t].delivered = channel[t].delivered
        /\ channel'[t].committed = channel[t].committed
        /\ channel'[t].activities = channel[t].activities
        /\ \A u \in Turns \ {t} : channel'[u] = channel[u]
    BY <1>18, <1>a, CompactionEffect DEF TakenBack, ChannelSound
  <2>2. /\ outcome' = [c \in Calls |->
                         IF c \in channel[t].queued THEN "compaction" ELSE outcome[c]]
        /\ UNCHANGED <<turnOf, phase, bindings>>
    BY <1>18, <1>a DEF RequestCompaction, TakenBack, ChannelSound
  <2>3. \A u \in Turns \ {t} : channel[u].open \cap channel[t].queued = {}
    BY <1>a DEF CallInv, CallsTracked, ChannelSound
  <2>4. ASSUME NEW u \in Turns PROVE ChannelSound(u)'
    BY <2>1, <2>2, <1>a DEF ChannelSound
  <2>5. CallsTracked'
    <3>1. ASSUME NEW d \in Calls, outcome'[d] = "open"
          PROVE  turnOf'[d] \in Turns /\ d \in channel'[turnOf'[d]].open
      BY <2>1, <2>2, <2>3, <3>1, FieldTypes DEF CallInv, CallsTracked, TypeOK
    <3>2. ASSUME NEW u \in Turns, NEW d \in channel'[u].open
          PROVE  outcome'[d] = "open" /\ turnOf'[d] = u
      BY <2>1, <2>2, <2>3, FieldTypes DEF CallInv, CallsTracked, TypeOK
    <3> QED BY <3>1, <3>2 DEF CallsTracked
  <2> QED BY <2>2, <2>4, <2>5 DEF CallInv, Live
<1>19. ASSUME NEW t \in Turns, BeginCompletionFence(t) PROVE CallInv'
  BY <1>19, <1>a, <1>b, FrameCalls DEF BeginCompletionFence, brokerVars, ChannelSound, Live
<1>20. ASSUME NEW t \in Turns, CommitCompletionFence(t) PROVE CallInv'
  <2>1. UNCHANGED <<outcome, turnOf, phase, bindings>>
    BY <1>20 DEF CommitCompletionFence
  <2>2. CASE channel' = channel
    BY <2>1, <2>2, <1>a, <1>b, FrameCalls DEF ChannelSound, Live
  <2>3. CASE channel' # channel
    <3>1. /\ \A u \in Turns : /\ channel'[u].open = channel[u].open
                              /\ channel'[u].queued = channel[u].queued
                              /\ channel'[u].delivered = channel[u].delivered
                              /\ channel'[u].waiters = channel[u].waiters
                              /\ channel'[u].timer = channel[u].timer
                              /\ channel'[u].compaction = channel[u].compaction
                              /\ channel'[u].activities = channel[u].activities
          /\ \A u \in Turns : channel'[u].committed => channel[u].committed \/ Quiescent(u)
      BY <2>3, <1>20, CommitEffect DEF CandidateStands
    <3> QED BY <2>1, <3>1, <1>a, <1>b, FrameCalls DEF ChannelSound, Quiescent, Live
  <2> QED BY <2>2, <2>3
<1>21. CASE UNCHANGED vars
  BY <1>21, <1>a, <1>b, FrameCalls DEF vars, brokerVars, clientVars, ChannelSound, Live
<1> QED
  BY <1>1, <1>2, <1>3, <1>4, <1>5, <1>6, <1>7, <1>8, <1>9, <1>10, <1>11, <1>12, <1>13,
     <1>14, <1>15, <1>16, <1>17, <1>18, <1>19, <1>20, <1>21
  DEF Next, Register, Revocation, RevokeTurn, RevokeTrace, RevokeExternalOwners, Switch,
      Time, Mcp, Owner, Browser, Live

\* Every reachable state satisfies the call invariant.
THEOREM CallsSound == Spec => [](TypeOK /\ CallInv)
<1>1. Init => CallInv
  BY DEF Init, CallInv, ChannelSound, CallsTracked, EmptyChannel
<1>2. TypeOK /\ CallInv /\ [Next]_vars => CallInv'
  BY CallStep
<1> QED BY <1>1, <1>2, TypeCorrect, PTL DEF Spec

LEMMA CallInvImplies == TypeOK /\ CallInv => NoLostCall /\ NoLostWakeup /\ CommittedIsQuiet
BY DEF CallInv, ChannelSound, CallsTracked, NoLostCall, NoLostWakeup, CommittedIsQuiet,
       Quiescent, Live

\* The broker keeps the calls it took: none is lost, no observer stays parked
\* beside a queue without an armed timer, and none is open in a committed turn.
THEOREM CallsKept == Spec => []CallsAreKept
BY CallsSound, CallInvImplies, PTL DEF CallsAreKept

\* A committed turn has no open call and no running local activity.
THEOREM CommittedStaysQuiet == Spec => []CommittedIsQuiet
BY CallsSound, CallInvImplies, PTL

-----------------------------------------------------------------------------
(* The completion fence.                                                    *)

\* A revision that the browser holds is never ahead of the turn's, and it is
\* behind it as soon as something happened since it was handed out.
FenceSound(t) ==
  /\ fence[t] <= channel[t].revision
  /\ channel[t].committed => channel[t].committedAt <= channel[t].revision
  /\ ~channel[t].committed /\ fence[t] # NoRevision /\ t \in disturbed
       => fence[t] < channel[t].revision

FenceInv == \A t \in Turns : FenceSound(t)

\* The claim about one step: the invariant is kept and no disturbed
\* candidate is committed.
FenceKept == /\ FenceInv'
             /\ \A t \in Turns : ~channel[t].committed /\ channel'[t].committed => t \notin disturbed

\* Steps the fence does not see.
LEMMA FrameFence ==
  ASSUME TypeOK, FenceInv, UNCHANGED <<fence, disturbed>>,
         \A t \in Turns : /\ channel'[t].revision = channel[t].revision
                          /\ channel'[t].committed = channel[t].committed
                          /\ channel'[t].committedAt = channel[t].committedAt
  PROVE  FenceKept
BY DEF FenceInv, FenceSound, FenceKept

\* Steps that count: the revision of turn t moves on.
LEMMA BumpFence ==
  ASSUME TypeOK, FenceInv, NEW t \in Turns,
         fence' = fence, disturbed' = disturbed \cup {t},
         /\ channel'[t].revision = channel[t].revision + 1
         /\ channel'[t].committed = channel[t].committed
         /\ channel'[t].committedAt = channel[t].committedAt,
         \A u \in Turns \ {t} : channel'[u] = channel[u]
  PROVE  FenceKept
<1>1. ASSUME NEW u \in Turns PROVE FenceSound(u)'
  <2>1. FenceSound(u) /\ channel[u].revision \in Nat /\ channel[u].committedAt \in Nat \cup {NoRevision}
        /\ fence[u] \in Nat \cup {NoRevision}
    BY FieldTypes DEF FenceInv, TypeOK
  <2>2. CASE u = t
    BY <2>1, <2>2 DEF FenceSound, NoRevision
  <2>3. CASE u # t
    BY <2>1, <2>3 DEF FenceSound
  <2> QED BY <2>2, <2>3
<1> QED BY <1>1 DEF FenceKept, FenceInv

\* Steps that end turns.
LEMMA DropFence ==
  ASSUME TypeOK, FenceInv, NEW S \in SUBSET Turns, Drop(S),
         \A t \in S : channel'[t] = EmptyChannel,
         \A t \in Turns \ S :
           /\ channel'[t].committed = channel[t].committed
           /\ channel'[t].committedAt = channel[t].committedAt
           /\ \/ channel'[t].revision = channel[t].revision /\ (t \in disturbed' => t \in disturbed)
              \/ channel'[t].revision \in Nat /\ channel'[t].revision > channel[t].revision
  PROVE  FenceKept
<1>1. ASSUME NEW t \in Turns PROVE FenceSound(t)'
  <2>1. FenceSound(t) /\ channel[t].revision \in Nat /\ channel[t].committedAt \in Nat \cup {NoRevision}
        /\ fence[t] \in Nat \cup {NoRevision}
    BY FieldTypes DEF FenceInv, TypeOK
  <2>2. CASE t \in S
    BY <2>1, <2>2 DEF FenceSound, EmptyChannel, Drop, NoRevision
  <2>3. CASE t \notin S
    <3>1. fence'[t] = fence[t]
      BY <2>3 DEF Drop
    <3> QED BY <2>1, <2>3, <3>1 DEF FenceSound, NoRevision
  <2> QED BY <2>2, <2>3
<1>2. ASSUME NEW t \in Turns PROVE channel'[t].committed => channel[t].committed
  BY DEF EmptyChannel
<1> QED BY <1>1, <1>2 DEF FenceKept, FenceInv

LEMMA FenceStep == TypeOK /\ FenceInv /\ [Next]_vars => FenceKept
<1> SUFFICES ASSUME TypeOK, FenceInv, [Next]_vars PROVE FenceKept
  OBVIOUS
<1>1. ASSUME NEW t \in Turns, RegisterCall(t) \/ RegisterResume(t) PROVE FenceKept
  BY <1>1, FrameFence DEF RegisterCall, RegisterResume, clientVars
<1>2. ASSUME NEW S \in SUBSET Turns, Revoke(S) PROVE FenceKept
  BY <1>2, DropFence DEF Revoke
<1>3. CASE Close
  BY <1>3, DropFence DEF Close, Live
<1>4. ASSUME NEW b \in BOOLEAN, SetExternalOwnersAccepted(b) PROVE FenceKept
  BY <1>4, FrameFence DEF SetExternalOwnersAccepted, clientVars
<1>5. ASSUME NEW x \in Expiring, Lapse(x) PROVE FenceKept
  BY <1>5, FrameFence DEF Lapse, clientVars
<1>6. CASE Prune
  <2> DEFINE S == Live \cap lapsed
             k(t) == Cardinality(ExpiredActivities(t))
  <2>1. S \in SUBSET Turns /\ Drop(S) /\ \A t \in S : channel'[t] = EmptyChannel
    BY <1>6 DEF Prune, Live
  <2>2. ASSUME NEW t \in Turns \ S
        PROVE  /\ channel'[t].committed = channel[t].committed
               /\ channel'[t].committedAt = channel[t].committedAt
               /\ \/ channel'[t].revision = channel[t].revision /\ (t \in disturbed' => t \in disturbed)
                  \/ channel'[t].revision \in Nat /\ channel'[t].revision > channel[t].revision
    <3>1. IsFiniteSet(ExpiredActivities(t)) /\ k(t) \in Nat
      BY BrokerAssumption, FieldTypes, FS_Subset, FS_CardinalityType
      DEF BrokerAssumption, ExpiredActivities
    <3>2. k(t) = 0 <=> ExpiredActivities(t) = {}
      BY <3>1, FS_EmptySet
    <3>3. channel'[t] = IF t \in Live
                          THEN [channel[t] EXCEPT !.activities = @ \ lapsed, !.revision = @ + k(t)]
                          ELSE channel[t]
      BY <1>6, <2>2 DEF Prune
    <3>4. t \in disturbed' => t \in disturbed \/ (t \in Live /\ ExpiredActivities(t) # {})
      BY <1>6, <2>2 DEF Prune
    <3> HIDE DEF k
    <3>5. /\ channel'[t].committed = channel[t].committed
          /\ channel'[t].committedAt = channel[t].committedAt
          /\ channel'[t].revision = IF t \in Live THEN channel[t].revision + k(t)
                                    ELSE channel[t].revision
      BY <3>3, FieldTypes DEF Channel
    <3> QED BY <3>1, <3>2, <3>4, <3>5, FieldTypes
  <2> QED BY <2>1, <2>2, DropFence
<1>7. ASSUME NEW h, NEW s \in Sessions \cup {NoSession}, NEW t \in Turns, Claim(h, s, t)
      PROVE  FenceKept
  <2>1. \A u \in Turns : /\ channel'[u].revision = channel[u].revision
                         /\ channel'[u].committed = channel[u].committed
                         /\ channel'[u].committedAt = channel[u].committedAt
    BY <1>7, FieldTypes, SetChannelFrame DEF Claim, Channel
  <2> QED BY <1>7, <2>1, FrameFence DEF Claim
<1>8. ASSUME NEW c \in Calls, NEW t \in Turns, Invoke(c, t) PROVE FenceKept
  <2>1. fence' = fence /\ disturbed' = disturbed \cup {t}
    BY <1>8 DEF Invoke
  <2> QED BY <1>8, <2>1, InvokeEffect, BumpFence
<1>9. ASSUME NEW c \in Calls, NEW t \in Turns, InvokeIntercepted(c, t) PROVE FenceKept
  <2>1. \A u \in Turns : /\ channel'[u].revision = channel[u].revision
                         /\ channel'[u].committed = channel[u].committed
                         /\ channel'[u].committedAt = channel[u].committedAt
    BY <1>9, FieldTypes, SetChannelFrame DEF InvokeIntercepted, Intercepted, Channel
  <2> QED BY <1>9, <2>1, FrameFence DEF InvokeIntercepted
<1>10. ASSUME NEW a \in Activities, NEW t \in Turns, ActivityBegin(a, t) PROVE FenceKept
  <2>1. /\ SetChannel(t, [channel[t] EXCEPT !.activities = @ \cup {a}, !.revision = @ + 1])
        /\ fence' = fence /\ disturbed' = disturbed \cup {t}
    BY <1>10 DEF ActivityBegin
  <2> QED BY <2>1, ActivityEffect, BumpFence
<1>11. ASSUME NEW a \in Activities, NEW t \in Turns, ActivityEnd(a, t) PROVE FenceKept
  <2>1. \/ UNCHANGED <<channel, fence, disturbed>>
        \/ /\ SetChannel(t, [channel[t] EXCEPT !.activities = @ \ {a}, !.revision = @ + 1])
           /\ fence' = fence /\ disturbed' = disturbed \cup {t}
    BY <1>11 DEF ActivityEnd
  <2>2. CASE UNCHANGED <<channel, fence, disturbed>>
    BY <2>2, FrameFence
  <2>3. CASE /\ SetChannel(t, [channel[t] EXCEPT !.activities = @ \ {a}, !.revision = @ + 1])
             /\ fence' = fence /\ disturbed' = disturbed \cup {t}
    BY <2>3, ActivityEffect, BumpFence
  <2> QED BY <2>1, <2>2, <2>3
<1>12. ASSUME NEW t \in Turns, NEW o \in Observers, NextToolBatch(t, o) PROVE FenceKept
  <2>1. UNCHANGED <<fence, disturbed>>
    BY <1>12 DEF NextToolBatch
  <2>2. CASE channel' = channel
    BY <2>1, <2>2, FrameFence
  <2>3. CASE channel' # channel
    <3>1. PICK w : \/ SetChannel(t, Take(t))
                   \/ SetChannel(t, [Take(t) EXCEPT !.waiters = w])
      BY <1>12, <2>3 DEF NextToolBatch
    <3>2. \A u \in Turns : /\ channel'[u].revision = channel[u].revision
                           /\ channel'[u].committed = channel[u].committed
                           /\ channel'[u].committedAt = channel[u].committedAt
      BY <3>1, TakeEffect
    <3> QED BY <2>1, <3>2, FrameFence
  <2> QED BY <2>2, <2>3
<1>13. ASSUME NEW t \in Turns, NEW i \in DOMAIN channel[t].waiters, AbortWait(t, i)
       PROVE  FenceKept
  <2>1. \A u \in Turns : /\ channel'[u].revision = channel[u].revision
                         /\ channel'[u].committed = channel[u].committed
                         /\ channel'[u].committedAt = channel[u].committedAt
    BY <1>13, FieldTypes, SetChannelFrame DEF AbortWait, Channel
  <2> QED BY <1>13, <2>1, FrameFence DEF AbortWait
<1>14. ASSUME NEW t \in Turns, BatchTimer(t) PROVE FenceKept
  <2>1. UNCHANGED <<fence, disturbed>>
    BY <1>14 DEF BatchTimer
  <2>2. CASE SetChannel(t, [channel[t] EXCEPT !.timer = FALSE])
    <3>1. \A u \in Turns : /\ channel'[u].revision = channel[u].revision
                           /\ channel'[u].committed = channel[u].committed
                           /\ channel'[u].committedAt = channel[u].committedAt
      BY <2>2, FieldTypes, SetChannelFrame DEF Channel
    <3> QED BY <2>1, <3>1, FrameFence
  <2>3. CASE SetChannel(t, [Take(t) EXCEPT !.timer = FALSE, !.waiters = <<>>])
    <3>1. \A u \in Turns : /\ channel'[u].revision = channel[u].revision
                           /\ channel'[u].committed = channel[u].committed
                           /\ channel'[u].committedAt = channel[u].committedAt
      BY <2>3, TakeEffect
    <3> QED BY <2>1, <3>1, FrameFence
  <2> QED BY <1>14, <2>2, <2>3 DEF BatchTimer
<1>15. ASSUME NEW t \in Turns, LoseBatch(t) PROVE FenceKept
  BY <1>15, FrameFence DEF LoseBatch, brokerVars
<1>16. ASSUME NEW t \in Turns, NEW c \in Calls, CompleteTool(t, c) PROVE FenceKept
  <2>1. fence' = fence /\ disturbed' = disturbed \cup {t}
    BY <1>16 DEF CompleteTool
  <2> QED BY <1>16, <2>1, CompleteEffect, BumpFence
<1>17. ASSUME NEW t \in Turns, RequestCompaction(t) PROVE FenceKept
  <2>1. UNCHANGED <<fence, disturbed>>
    BY <1>17 DEF RequestCompaction
  <2> QED BY <1>17, <2>1, CompactionEffect, FrameFence
<1>18. ASSUME NEW t \in Turns, BeginCompletionFence(t) PROVE FenceKept
  <2>1. channel' = channel
    BY <1>18 DEF BeginCompletionFence, brokerVars
  <2>2. ASSUME NEW u \in Turns PROVE FenceSound(u)'
    <3>1. FenceSound(u) /\ channel[u].revision \in Nat /\ channel[u].committedAt \in Nat \cup {NoRevision}
          /\ fence[u] \in Nat \cup {NoRevision}
      BY FieldTypes DEF FenceInv, TypeOK
    <3>2. CASE u # t
      <4>1. fence'[u] = fence[u] /\ (u \in disturbed' => u \in disturbed)
        BY <1>18, <3>2 DEF BeginCompletionFence, TypeOK
      <4> QED BY <2>1, <3>1, <4>1 DEF FenceSound
    <3>3. CASE u = t /\ channel[t].committed
      <4>1. fence'[t] = channel[t].committedAt
        BY <1>18, <3>3 DEF BeginCompletionFence, TypeOK
      <4> QED BY <2>1, <3>1, <3>3, <4>1 DEF FenceSound
    <3>4. CASE u = t /\ ~channel[t].committed
      <4>1. fence'[t] = channel[t].revision /\ t \notin disturbed'
        BY <1>18, <3>4 DEF BeginCompletionFence, TypeOK
      <4> QED BY <2>1, <3>1, <3>4, <4>1 DEF FenceSound
    <3> QED BY <3>2, <3>3, <3>4
  <2> QED BY <2>1, <2>2 DEF FenceKept, FenceInv
<1>19. ASSUME NEW t \in Turns, CommitCompletionFence(t) PROVE FenceKept
  <2>1. disturbed' = disturbed /\ fence[t] # NoRevision /\ ~channel[t].committed
    BY <1>19 DEF CommitCompletionFence
  <2>2. CASE channel' = channel /\ fence' = [fence EXCEPT ![t] = NoRevision]
    <3>1. ASSUME NEW u \in Turns PROVE FenceSound(u)'
      <4>1. FenceSound(u) /\ channel[u].revision \in Nat
            /\ channel[u].committedAt \in Nat \cup {NoRevision}
            /\ (fence'[u] = fence[u] \/ fence'[u] = NoRevision)
        BY <2>2, FieldTypes DEF FenceInv, TypeOK
      <4> QED BY <2>1, <2>2, <4>1 DEF FenceSound, NoRevision
    <3> QED BY <2>2, <3>1 DEF FenceKept, FenceInv
  <2>3. CASE ~(channel' = channel /\ fence' = [fence EXCEPT ![t] = NoRevision])
    <3>1. /\ channel'[t].committedAt = fence[t]
          /\ channel'[t].revision = channel[t].revision
          /\ channel[t].revision = fence[t] /\ fence' = fence
          /\ channel'[t].committed = TRUE
          /\ \A u \in Turns \ {t} : channel'[u] = channel[u]
      BY <1>19, <2>3, CommitEffect DEF CandidateStands
    <3>2. t \notin disturbed
      BY <2>1, <3>1, FieldTypes DEF FenceInv, FenceSound
    <3>3. ASSUME NEW u \in Turns PROVE FenceSound(u)'
      BY <2>1, <3>1, FieldTypes DEF FenceInv, FenceSound
    <3> QED BY <3>1, <3>2, <3>3 DEF FenceKept, FenceInv
  <2> QED BY <2>2, <2>3
<1>20. CASE UNCHANGED vars
  BY <1>20, FrameFence DEF vars, brokerVars, clientVars
<1> QED
  BY <1>1, <1>2, <1>3, <1>4, <1>5, <1>6, <1>7, <1>8, <1>9, <1>10, <1>11, <1>12, <1>13,
     <1>14, <1>15, <1>16, <1>17, <1>18, <1>19, <1>20
  DEF Next, Register, Revocation, RevokeTurn, RevokeTrace, RevokeExternalOwners, Switch,
      Time, Mcp, Owner, Browser, Live

\* Work that still runs belongs to a turn that was claimed, and as long as
\* its deadline has not passed the turn counts it.
WorkingInv ==
  \A a \in Activities : \A t \in Turns : working[a] = t =>
    /\ phase[t] \in {"live", "over"}
    /\ a \notin lapsed /\ phase[t] = "live" => a \in channel[t].activities

\* Steps that begin and end no work, bring no turn to life twice and drop
\* only what has expired from a turn that lives on.
LEMMA FrameWorking ==
  ASSUME TypeOK, WorkingInv, working' = working, lapsed \subseteq lapsed',
         \A t \in Turns : \/ phase'[t] = phase[t]
                          \/ phase'[t] = "over"
                          \/ phase[t] \in {"new", "starting"},
         \A t \in Turns : phase'[t] = "live" =>
           channel[t].activities \ lapsed \subseteq channel'[t].activities
  PROVE  WorkingInv'
BY DEF WorkingInv

\* Steps that replace the channel of a turn and leave its activities.
LEMMA FrameActivities ==
  ASSUME TypeOK, WorkingInv, UNCHANGED <<working, lapsed, phase>>,
         \A t \in Turns : channel'[t].activities = channel[t].activities
  PROVE  WorkingInv'
BY FrameWorking

\* Steps that end turns.
LEMMA DropWorking ==
  ASSUME TypeOK, WorkingInv, NEW S \in SUBSET Turns, Drop(S), UNCHANGED <<working, lapsed>>,
         \A t \in Turns \ S : channel[t].activities \ lapsed \subseteq channel'[t].activities
  PROVE  WorkingInv'
<1>1. \A t \in Turns : phase'[t] = IF t \in S THEN "over" ELSE phase[t]
  BY DEF Drop
<1> QED BY <1>1, FrameWorking

LEMMA WorkingStep == TypeOK /\ CallInv /\ WorkingInv /\ [Next]_vars => WorkingInv'
<1> SUFFICES ASSUME TypeOK, CallInv, WorkingInv, [Next]_vars PROVE WorkingInv'
  OBVIOUS
<1>1. ASSUME NEW t \in Turns, RegisterCall(t) \/ RegisterResume(t) PROVE WorkingInv'
  BY <1>1, FrameWorking DEF RegisterCall, RegisterResume, clientVars, TypeOK
<1>2. ASSUME NEW S \in SUBSET Turns, Revoke(S) PROVE WorkingInv'
  BY <1>2, DropWorking DEF Revoke
<1>3. CASE Close
  BY <1>3, DropWorking DEF Close, Live
<1>4. ASSUME NEW b \in BOOLEAN, SetExternalOwnersAccepted(b) PROVE WorkingInv'
  BY <1>4, FrameActivities DEF SetExternalOwnersAccepted, clientVars
<1>5. ASSUME NEW x \in Expiring, Lapse(x) PROVE WorkingInv'
  BY <1>5, FrameWorking DEF Lapse, clientVars
<1>6. CASE Prune
  <2> DEFINE S == Live \cap lapsed
  <2>1. S \in SUBSET Turns /\ Drop(S) /\ UNCHANGED <<working, lapsed>>
    BY <1>6 DEF Prune, Live
  <2>2. ASSUME NEW t \in Turns \ S
        PROVE  channel[t].activities \ lapsed \subseteq channel'[t].activities
    <3>1. channel'[t] = IF t \in Live
                          THEN [channel[t] EXCEPT !.activities = @ \ lapsed,
                                  !.revision = @ + Cardinality(ExpiredActivities(t))]
                          ELSE channel[t]
      BY <1>6, <2>2 DEF Prune
    <3> QED BY <3>1, FieldTypes DEF Channel
  <2> QED BY <2>1, <2>2, DropWorking
<1>7. ASSUME NEW h, NEW s \in Sessions \cup {NoSession}, NEW t \in Turns, Claim(h, s, t)
      PROVE  WorkingInv'
  <2>1. \A u \in Turns : channel'[u].activities = channel[u].activities
    BY <1>7, FieldTypes, SetChannelFrame DEF Claim, Channel
  <2> QED BY <1>7, <2>1, FrameActivities DEF Claim
<1>8. ASSUME NEW c \in Calls, NEW t \in Turns, Invoke(c, t) PROVE WorkingInv'
  <2>1. UNCHANGED <<working, lapsed, phase>>
    BY <1>8 DEF Invoke
  <2>2. \A u \in Turns : channel'[u].activities = channel[u].activities
    BY <1>8, InvokeEffect
  <2> QED BY <2>1, <2>2, FrameActivities
<1>9. ASSUME NEW c \in Calls, NEW t \in Turns, InvokeIntercepted(c, t) PROVE WorkingInv'
  <2>1. \A u \in Turns : channel'[u].activities = channel[u].activities
    BY <1>9, FieldTypes, SetChannelFrame DEF InvokeIntercepted, Intercepted, Channel
  <2> QED BY <1>9, <2>1, FrameActivities DEF InvokeIntercepted
<1>10. ASSUME NEW a \in Activities, NEW t \in Turns, ActivityBegin(a, t) PROVE WorkingInv'
  <2>1. /\ SetChannel(t, [channel[t] EXCEPT !.activities = @ \cup {a}, !.revision = @ + 1])
        /\ working' = [working EXCEPT ![a] = t] /\ UNCHANGED <<lapsed, phase>>
        /\ phase[t] = "live"
    BY <1>10 DEF ActivityBegin, CallInv, Live
  <2>2. /\ channel'[t].activities = channel[t].activities \cup {a}
        /\ \A u \in Turns \ {t} : channel'[u] = channel[u]
    BY <2>1, ActivityEffect
  <2> QED BY <2>1, <2>2 DEF WorkingInv, TypeOK
<1>11. ASSUME NEW a \in Activities, NEW t \in Turns, ActivityEnd(a, t) PROVE WorkingInv'
  <2>1. working' = [working EXCEPT ![a] = NoTurn] /\ UNCHANGED <<lapsed, phase>>
    BY <1>11 DEF ActivityEnd
  <2>2. \A u \in Turns : channel[u].activities \ {a} \subseteq channel'[u].activities
    <3>1. CASE SetChannel(t, [channel[t] EXCEPT !.activities = @ \ {a}, !.revision = @ + 1])
      <4>1. /\ channel'[t].activities = channel[t].activities \ {a}
            /\ \A u \in Turns \ {t} : channel'[u] = channel[u]
        BY <3>1, ActivityEffect
      <4> QED BY <4>1
    <3>2. CASE channel' = channel
      BY <3>2
    <3> QED BY <1>11, <3>1, <3>2 DEF ActivityEnd
  <2> QED BY <2>1, <2>2, BrokerAssumption DEF WorkingInv, TypeOK, BrokerAssumption
<1>12. ASSUME NEW t \in Turns, NEW o \in Observers, NextToolBatch(t, o) PROVE WorkingInv'
  <2>1. \A u \in Turns : channel'[u].activities = channel[u].activities
    <3>1. CASE channel' = channel
      BY <3>1
    <3>2. CASE channel' # channel
      <4>1. PICK w : \/ SetChannel(t, Take(t))
                     \/ SetChannel(t, [Take(t) EXCEPT !.waiters = w])
        BY <1>12, <3>2 DEF NextToolBatch
      <4> QED BY <4>1, TakeEffect
    <3> QED BY <3>1, <3>2
  <2> QED BY <1>12, <2>1, FrameActivities DEF NextToolBatch
<1>13. ASSUME NEW t \in Turns, NEW i \in DOMAIN channel[t].waiters, AbortWait(t, i)
       PROVE  WorkingInv'
  <2>1. \A u \in Turns : channel'[u].activities = channel[u].activities
    BY <1>13, FieldTypes, SetChannelFrame DEF AbortWait, Channel
  <2> QED BY <1>13, <2>1, FrameActivities DEF AbortWait
<1>14. ASSUME NEW t \in Turns, BatchTimer(t) PROVE WorkingInv'
  <2>1. \A u \in Turns : channel'[u].activities = channel[u].activities
    <3>1. CASE SetChannel(t, [channel[t] EXCEPT !.timer = FALSE])
      BY <3>1, FieldTypes, SetChannelFrame DEF Channel
    <3>2. CASE SetChannel(t, [Take(t) EXCEPT !.timer = FALSE, !.waiters = <<>>])
      BY <3>2, TakeEffect
    <3> QED BY <1>14, <3>1, <3>2 DEF BatchTimer
  <2> QED BY <1>14, <2>1, FrameActivities DEF BatchTimer
<1>15. ASSUME NEW t \in Turns, LoseBatch(t) PROVE WorkingInv'
  BY <1>15, FrameActivities DEF LoseBatch, brokerVars
<1>16. ASSUME NEW t \in Turns, NEW c \in Calls, CompleteTool(t, c) PROVE WorkingInv'
  <2>1. UNCHANGED <<working, lapsed, phase>>
    BY <1>16 DEF CompleteTool
  <2>2. \A u \in Turns : channel'[u].activities = channel[u].activities
    BY <1>16, CompleteEffect
  <2> QED BY <2>1, <2>2, FrameActivities
<1>17. ASSUME NEW t \in Turns, RequestCompaction(t) PROVE WorkingInv'
  <2>1. UNCHANGED <<working, lapsed, phase>>
    BY <1>17 DEF RequestCompaction
  <2>2. \A u \in Turns : channel'[u].activities = channel[u].activities
    BY <1>17, CompactionEffect
  <2> QED BY <2>1, <2>2, FrameActivities
<1>18. ASSUME NEW t \in Turns, BeginCompletionFence(t) PROVE WorkingInv'
  BY <1>18, FrameActivities DEF BeginCompletionFence, brokerVars
<1>19. ASSUME NEW t \in Turns, CommitCompletionFence(t) PROVE WorkingInv'
  <2>1. UNCHANGED <<working, lapsed, phase>>
    BY <1>19 DEF CommitCompletionFence
  <2>2. \A u \in Turns : channel'[u].activities = channel[u].activities
    BY <1>19, CommitEffect
  <2> QED BY <2>1, <2>2, FrameActivities
<1>20. CASE UNCHANGED vars
  BY <1>20, FrameActivities DEF vars, brokerVars, clientVars
<1> QED
  BY <1>1, <1>2, <1>3, <1>4, <1>5, <1>6, <1>7, <1>8, <1>9, <1>10, <1>11, <1>12, <1>13,
     <1>14, <1>15, <1>16, <1>17, <1>18, <1>19, <1>20
  DEF Next, Register, Revocation, RevokeTurn, RevokeTrace, RevokeExternalOwners, Switch,
      Time, Mcp, Owner, Browser, Live

LEMMA WorkingFences == CommittedIsQuiet /\ WorkingInv => LiveActivityFencesCompletion
BY DEF CommittedIsQuiet, WorkingInv, LiveActivityFencesCompletion, Quiescent, Live

\* The completion fence holds: no candidate is committed under work that
\* runs within its deadline, nor over activity that came after it.
THEOREM FenceHolds == Spec => CompletionIsFenced
<1>1. Init => FenceInv /\ WorkingInv
  BY BrokerAssumption
  DEF Init, FenceInv, FenceSound, EmptyChannel, NoRevision, WorkingInv, BrokerAssumption
<1>2. TypeOK /\ FenceInv /\ [Next]_vars => FenceInv'
  BY FenceStep DEF FenceKept
<1>3. TypeOK /\ FenceInv /\ [Next]_vars => [CommitsUndisturbed]_vars
  BY FenceStep DEF FenceKept, CommitsUndisturbed
<1>4. LiveActivityFencesCompletion' /\ [CommitsUndisturbed]_vars
        => [LiveActivityFencesCompletion' /\ CommitsUndisturbed]_vars
  OBVIOUS
<1>5. Spec => []LiveActivityFencesCompletion
  BY <1>1, WorkingStep, WorkingFences, CommittedStaysQuiet, CallsSound, PTL DEF Spec
<1> QED
  BY <1>1, <1>2, <1>3, <1>4, <1>5, TypeCorrect, PTL DEF Spec, CompletionIsFenced

-----------------------------------------------------------------------------
(* What the broker owes its clients: MCP sessions and turns are kept apart, *)
(* a compaction takes the turn over, and the broker implements              *)
(* ToolCallService.                                                         *)


-----------------------------------------------------------------------------
(* MCP sessions.                                                            *)

\* A session holds at most the binding of the turn it is mapped to, and the
\* mapping leads to a claimed turn that lists the session.
SessionInv ==
  \A s \in Sessions :
    /\ \A t \in granted[s] : sessionOf[s] = t
    /\ sessionOf[s] # NoTurn => /\ sessionOf[s] \in bindings
                                /\ s \in channel[sessionOf[s]].sessionKeys

\* What one step keeps: the invariant, and the closed door.
SessionKept ==
  /\ SessionInv'
  /\ ~accepting => \A t \in Turns \cap External : phase'[t] = "live" => phase[t] = "live"

\* Steps that neither map a session nor end or begin a turn.
LEMMA FrameSessions ==
  ASSUME TypeOK, SessionInv, UNCHANGED <<sessionOf, granted, bindings, phase>>,
         \A t \in Turns : channel'[t].sessionKeys = channel[t].sessionKeys
  PROVE  SessionKept
BY DEF SessionKept, SessionInv, TypeOK

\* Steps that end turns.
LEMMA DropSessions ==
  ASSUME TypeOK, SessionInv, NEW S \in SUBSET Turns, Drop(S),
         \A t \in Turns \ S : channel'[t].sessionKeys = channel[t].sessionKeys
  PROVE  SessionKept
<1>1. ASSUME NEW s \in Sessions, sessionOf'[s] # NoTurn
      PROVE  sessionOf'[s] = sessionOf[s] /\ sessionOf[s] \in Turns \ S
  BY <1>1, BrokerAssumption DEF Drop, SessionWithout, SessionInv, TypeOK, BrokerAssumption
<1>2. ASSUME NEW s \in Sessions, NEW t \in granted'[s] PROVE sessionOf'[s] = t
  <2>1. t \in granted[s] /\ t \notin S /\ sessionOf[s] = t
    BY DEF Drop, SessionInv
  <2> QED BY <2>1 DEF Drop, SessionWithout
<1>3. SessionInv'
  BY <1>1, <1>2 DEF SessionInv, Drop
<1>4. \A t \in Turns : phase'[t] = "live" => phase[t] = "live"
  BY DEF Drop
<1> QED BY <1>3, <1>4 DEF SessionKept

LEMMA SessionStep == TypeOK /\ CallInv /\ SessionInv /\ [Next]_vars => SessionKept
<1> SUFFICES ASSUME TypeOK, CallInv, SessionInv, [Next]_vars PROVE SessionKept
  OBVIOUS
<1>1. ASSUME NEW t \in Turns, RegisterCall(t) PROVE SessionKept
  BY <1>1 DEF RegisterCall, clientVars, SessionKept, SessionInv, TypeOK
<1>2. ASSUME NEW t \in Turns, RegisterResume(t) PROVE SessionKept
  BY <1>2 DEF RegisterResume, Refuses, clientVars, SessionKept, SessionInv, TypeOK
<1>3. ASSUME NEW S \in SUBSET Turns, Revoke(S) PROVE SessionKept
  BY <1>3, DropSessions DEF Revoke
<1>4. CASE Close
  BY <1>4, DropSessions DEF Close, Live
<1>5. ASSUME NEW b \in BOOLEAN, SetExternalOwnersAccepted(b) PROVE SessionKept
  BY <1>5, FrameSessions DEF SetExternalOwnersAccepted, clientVars
<1>6. ASSUME NEW x \in Expiring, Lapse(x) PROVE SessionKept
  BY <1>6, FrameSessions DEF Lapse, clientVars
<1>7. CASE Prune
  <2> DEFINE S == Live \cap lapsed
  <2>1. S \in SUBSET Turns /\ Drop(S)
    BY <1>7 DEF Prune, Live
  <2>2. \A t \in Turns \ S : channel'[t].sessionKeys = channel[t].sessionKeys
    BY <1>7, FieldTypes DEF Prune, Channel
  <2> QED BY <2>1, <2>2, DropSessions
<1>8. ASSUME NEW h, NEW s \in Sessions \cup {NoSession}, NEW t \in Turns, Claim(h, s, t)
      PROVE  SessionKept
  <2>1. phase' = phase /\ bindings' = bindings \cup {t}
    BY <1>8 DEF Claim
  <2>2. CASE s = NoSession
    BY <1>8, <2>1, <2>2 DEF Claim, SessionKept, SessionInv, TypeOK
  <2>3. CASE s # NoSession
    <3>1. /\ s \in Sessions
          /\ sessionOf' = [sessionOf EXCEPT ![s] = t]
          /\ granted' = [granted EXCEPT ![s] = @ \cup {t}]
          /\ SetChannel(t, [channel[t] EXCEPT !.sessionKeys = @ \cup {s}])
      BY <1>8, <2>3 DEF Claim
    <3>2. sessionOf[s] \in {NoTurn, t}
      BY <1>8, <2>3, <3>1 DEF Claim, SessionFree, SessionInv, CallInv
    <3>3. \A u \in granted[s] : u = t
      BY <3>1, <3>2, BrokerAssumption DEF SessionInv, TypeOK, BrokerAssumption
    <3>4. /\ channel'[t].sessionKeys = channel[t].sessionKeys \cup {s}
          /\ \A u \in Turns \ {t} : channel'[u] = channel[u]
      BY <3>1, FieldTypes, SetChannelFrame DEF Channel
    <3>5. ASSUME NEW r \in Sessions
          PROVE  /\ \A u \in granted'[r] : sessionOf'[r] = u
                 /\ sessionOf'[r] # NoTurn => /\ sessionOf'[r] \in bindings'
                                              /\ r \in channel'[sessionOf'[r]].sessionKeys
      <4>1. CASE r = s
        BY <2>1, <3>1, <3>3, <3>4, <4>1 DEF TypeOK
      <4>2. CASE r # s
        BY <2>1, <3>1, <3>4, <4>2 DEF TypeOK, SessionInv
      <4> QED BY <4>1, <4>2
    <3>6. SessionInv'
      BY <3>5 DEF SessionInv
    <3> QED BY <2>1, <3>6 DEF SessionKept
  <2> QED BY <2>2, <2>3
<1>9. ASSUME NEW c \in Calls, NEW t \in Turns, Invoke(c, t) PROVE SessionKept
  <2>1. \A u \in Turns : channel'[u].sessionKeys = channel[u].sessionKeys
    BY <1>9, InvokeEffect
  <2> QED BY <1>9, <2>1, FrameSessions DEF Invoke
<1>10. ASSUME NEW c \in Calls, NEW t \in Turns, InvokeIntercepted(c, t) PROVE SessionKept
  <2>1. \A u \in Turns : channel'[u].sessionKeys = channel[u].sessionKeys
    BY <1>10, FieldTypes, SetChannelFrame DEF InvokeIntercepted, Intercepted, Channel
  <2> QED BY <1>10, <2>1, FrameSessions DEF InvokeIntercepted
<1>11. ASSUME NEW a \in Activities, NEW t \in Turns, ActivityBegin(a, t) PROVE SessionKept
  <2>1. SetChannel(t, [channel[t] EXCEPT !.activities = @ \cup {a}, !.revision = @ + 1])
    BY <1>11 DEF ActivityBegin
  <2>2. \A u \in Turns : channel'[u].sessionKeys = channel[u].sessionKeys
    BY <2>1, ActivityEffect
  <2> QED BY <1>11, <2>2, FrameSessions DEF ActivityBegin
<1>12. ASSUME NEW a \in Activities, NEW t \in Turns, ActivityEnd(a, t) PROVE SessionKept
  <2>1. \A u \in Turns : channel'[u].sessionKeys = channel[u].sessionKeys
    <3>1. CASE SetChannel(t, [channel[t] EXCEPT !.activities = @ \ {a}, !.revision = @ + 1])
      BY <3>1, ActivityEffect
    <3>2. CASE channel' = channel
      BY <3>2
    <3> QED BY <1>12, <3>1, <3>2 DEF ActivityEnd
  <2> QED BY <1>12, <2>1, FrameSessions DEF ActivityEnd
<1>13. ASSUME NEW t \in Turns, NEW o \in Observers, NextToolBatch(t, o) PROVE SessionKept
  <2>1. \A u \in Turns : channel'[u].sessionKeys = channel[u].sessionKeys
    <3>1. CASE channel' = channel
      BY <3>1
    <3>2. CASE channel' # channel
      <4>1. PICK w : \/ SetChannel(t, Take(t))
                     \/ SetChannel(t, [Take(t) EXCEPT !.waiters = w])
        BY <1>13, <3>2 DEF NextToolBatch
      <4> QED BY <4>1, TakeEffect
    <3> QED BY <3>1, <3>2
  <2> QED BY <1>13, <2>1, FrameSessions DEF NextToolBatch
<1>14. ASSUME NEW t \in Turns, NEW i \in DOMAIN channel[t].waiters, AbortWait(t, i)
       PROVE  SessionKept
  <2>1. \A u \in Turns : channel'[u].sessionKeys = channel[u].sessionKeys
    BY <1>14, FieldTypes, SetChannelFrame DEF AbortWait, Channel
  <2> QED BY <1>14, <2>1, FrameSessions DEF AbortWait
<1>15. ASSUME NEW t \in Turns, BatchTimer(t) PROVE SessionKept
  <2>1. \A u \in Turns : channel'[u].sessionKeys = channel[u].sessionKeys
    <3>1. CASE SetChannel(t, [channel[t] EXCEPT !.timer = FALSE])
      BY <3>1, FieldTypes, SetChannelFrame DEF Channel
    <3>2. CASE SetChannel(t, [Take(t) EXCEPT !.timer = FALSE, !.waiters = <<>>])
      BY <3>2, TakeEffect
    <3> QED BY <1>15, <3>1, <3>2 DEF BatchTimer
  <2> QED BY <1>15, <2>1, FrameSessions DEF BatchTimer
<1>16. ASSUME NEW t \in Turns, LoseBatch(t) PROVE SessionKept
  BY <1>16, FrameSessions DEF LoseBatch, brokerVars
<1>17. ASSUME NEW t \in Turns, NEW c \in Calls, CompleteTool(t, c) PROVE SessionKept
  <2>1. \A u \in Turns : channel'[u].sessionKeys = channel[u].sessionKeys
    BY <1>17, CompleteEffect
  <2> QED BY <1>17, <2>1, FrameSessions DEF CompleteTool
<1>18. ASSUME NEW t \in Turns, RequestCompaction(t) PROVE SessionKept
  <2>1. \A u \in Turns : channel'[u].sessionKeys = channel[u].sessionKeys
    BY <1>18, CompactionEffect
  <2> QED BY <1>18, <2>1, FrameSessions DEF RequestCompaction
<1>19. ASSUME NEW t \in Turns, BeginCompletionFence(t) PROVE SessionKept
  BY <1>19, FrameSessions DEF BeginCompletionFence, brokerVars
<1>20. ASSUME NEW t \in Turns, CommitCompletionFence(t) PROVE SessionKept
  <2>1. \A u \in Turns : channel'[u].sessionKeys = channel[u].sessionKeys
    BY <1>20, CommitEffect
  <2> QED BY <1>20, <2>1, FrameSessions DEF CommitCompletionFence
<1>21. CASE UNCHANGED vars
  BY <1>21, FrameSessions DEF vars, brokerVars, clientVars
<1> QED
  BY <1>1, <1>2, <1>3, <1>4, <1>5, <1>6, <1>7, <1>8, <1>9, <1>10, <1>11, <1>12, <1>13,
     <1>14, <1>15, <1>16, <1>17, <1>18, <1>19, <1>20, <1>21
  DEF Next, Register, Revocation, RevokeTurn, RevokeTrace, RevokeExternalOwners, Switch,
      Time, Mcp, Owner, Browser, Live

\* Sessions and turns are kept apart: whatever handles the claims of a session
\* presented, it holds the binding of one live turn at most, its mapping ends
\* with that turn, and a drained broker gets no further external owner.
THEOREM SessionsKeptApart == Spec => SessionsAreApart
<1>1. Init => SessionInv
  BY DEF Init, SessionInv
<1>2. TypeOK /\ CallInv /\ SessionInv /\ [Next]_vars => SessionInv'
  BY SessionStep DEF SessionKept
<1>3. SessionInv => SessionIsolation /\ SessionRouting
  BY DEF SessionInv, SessionIsolation, SessionRouting
<1>4. TypeOK /\ CallInv /\ SessionInv /\ [Next]_vars => [DrainIsStable]_vars
  BY SessionStep DEF SessionKept, DrainIsStable, Live
<1>5. SessionIsolation' /\ SessionRouting' /\ [DrainIsStable]_vars
        => [SessionIsolation' /\ SessionRouting' /\ DrainIsStable]_vars
  OBVIOUS
<1> QED
  BY <1>1, <1>2, <1>3, <1>4, <1>5, CallsSound, PTL DEF Spec, SessionsAreApart

-----------------------------------------------------------------------------
(* Compaction.                                                              *)

\* The calls of turn t that were answered with the compaction result.
InterceptedIn(t) == {c \in Calls : turnOf[c] = t /\ outcome[c] = "compaction"}

\* The count of a live turn is that of its intercepted calls; before it is
\* live it has neither.
InterceptSound(t) ==
  /\ phase[t] = "live" => channel[t].intercepts = Cardinality(InterceptedIn(t))
  /\ phase[t] \notin {"live", "over"} => channel[t].intercepts = 0 /\ InterceptedIn(t) = {}

InterceptInv == \A t \in Turns : InterceptSound(t)

\* What one step keeps: the invariant, and no delivery after compaction.
CompactionKept == InterceptInv' /\ CompactionStopsDelivery

\* Steps that intercept nothing and deliver nothing in a compacted turn.
LEMMA FrameIntercepts ==
  ASSUME TypeOK, InterceptInv,
         \A t \in Turns : \/ phase'[t] = phase[t]
                          \/ phase'[t] \in {"starting", "refused", "live"} /\ phase[t] \in {"new", "starting"},
         \A c \in Calls : /\ outcome'[c] = "compaction" <=> outcome[c] = "compaction"
                          /\ outcome[c] = "compaction" => turnOf'[c] = turnOf[c],
         \A t \in Turns : channel'[t].intercepts = channel[t].intercepts,
         \A t \in Turns : channel[t].compaction => channel'[t].delivered \subseteq channel[t].delivered
  PROVE  CompactionKept
<1>1. ASSUME NEW t \in Turns PROVE InterceptSound(t)'
  <2>1. InterceptedIn(t)' = InterceptedIn(t)
    BY DEF InterceptedIn
  <2>2. phase[t] \in {"new", "starting"} => channel[t].intercepts = Cardinality(InterceptedIn(t))
    BY FS_EmptySet DEF InterceptInv, InterceptSound
  <2> QED BY <2>1, <2>2 DEF InterceptInv, InterceptSound
<1> QED BY <1>1 DEF CompactionKept, InterceptInv, CompactionStopsDelivery

\* Steps that end turns, and with them their open calls.
LEMMA DropIntercepts ==
  ASSUME TypeOK, CallInv, InterceptInv, NEW S \in SUBSET Turns, Drop(S), turnOf' = turnOf,
         \A t \in S : channel'[t] = EmptyChannel,
         \A t \in Turns \ S : /\ channel'[t].intercepts = channel[t].intercepts
                              /\ channel'[t].delivered = channel[t].delivered
  PROVE  CompactionKept
<1>1. \A c \in Calls : outcome'[c] = "compaction" <=> outcome[c] = "compaction"
  BY DEF Drop, CallInv, CallsTracked
<1>2. ASSUME NEW t \in Turns PROVE InterceptSound(t)'
  <2>1. InterceptedIn(t)' = InterceptedIn(t)
    BY <1>1 DEF InterceptedIn
  <2>2. phase'[t] = IF t \in S THEN "over" ELSE phase[t]
    BY DEF Drop
  <2> QED BY <2>1, <2>2 DEF InterceptInv, InterceptSound
<1>3. CompactionStopsDelivery
  BY DEF CompactionStopsDelivery, EmptyChannel
<1> QED BY <1>2, <1>3 DEF CompactionKept, InterceptInv

LEMMA InterceptStep == TypeOK /\ CallInv /\ InterceptInv /\ [Next]_vars => CompactionKept
<1> SUFFICES ASSUME TypeOK, CallInv, InterceptInv, [Next]_vars PROVE CompactionKept
  OBVIOUS
<1>1. ASSUME NEW t \in Turns, RegisterCall(t) \/ RegisterResume(t) PROVE CompactionKept
  BY <1>1, FrameIntercepts DEF RegisterCall, RegisterResume, clientVars, TypeOK
<1>2. ASSUME NEW S \in SUBSET Turns, Revoke(S) PROVE CompactionKept
  BY <1>2, DropIntercepts DEF Revoke
<1>3. CASE Close
  BY <1>3, DropIntercepts DEF Close, Live
<1>4. ASSUME NEW b \in BOOLEAN, SetExternalOwnersAccepted(b) PROVE CompactionKept
  BY <1>4, FrameIntercepts DEF SetExternalOwnersAccepted, clientVars
<1>5. ASSUME NEW x \in Expiring, Lapse(x) PROVE CompactionKept
  BY <1>5, FrameIntercepts DEF Lapse, clientVars
<1>6. CASE Prune
  <2> DEFINE S == Live \cap lapsed
  <2>1. S \in SUBSET Turns /\ Drop(S) /\ turnOf' = turnOf /\ \A t \in S : channel'[t] = EmptyChannel
    BY <1>6 DEF Prune, Live
  <2>2. \A t \in Turns \ S : /\ channel'[t].intercepts = channel[t].intercepts
                             /\ channel'[t].delivered = channel[t].delivered
    BY <1>6, FieldTypes DEF Prune, Channel
  <2> QED BY <2>1, <2>2, DropIntercepts
<1>7. ASSUME NEW h, NEW s \in Sessions \cup {NoSession}, NEW t \in Turns, Claim(h, s, t)
      PROVE  CompactionKept
  <2>1. \A u \in Turns : /\ channel'[u].intercepts = channel[u].intercepts
                         /\ channel'[u].delivered = channel[u].delivered
    BY <1>7, FieldTypes, SetChannelFrame DEF Claim, Channel
  <2> QED BY <1>7, <2>1, FrameIntercepts DEF Claim
<1>8. ASSUME NEW c \in Calls, NEW t \in Turns, Invoke(c, t) PROVE CompactionKept
  <2>1. /\ outcome' = [outcome EXCEPT ![c] = "open"] /\ outcome[c] = "unused"
        /\ turnOf' = [turnOf EXCEPT ![c] = t] /\ phase' = phase
    BY <1>8 DEF Invoke
  <2>2. \A u \in Turns : /\ channel'[u].intercepts = channel[u].intercepts
                         /\ channel'[u].delivered = channel[u].delivered
    BY <1>8, InvokeEffect
  <2> QED BY <2>1, <2>2, FrameIntercepts DEF TypeOK
<1>9. ASSUME NEW c \in Calls, NEW t \in Turns, InvokeIntercepted(c, t) PROVE CompactionKept
  <2>1. /\ outcome' = [outcome EXCEPT ![c] = "compaction"] /\ outcome[c] = "unused"
        /\ turnOf' = [turnOf EXCEPT ![c] = t] /\ phase' = phase /\ phase[t] = "live"
    BY <1>9 DEF InvokeIntercepted, CallInv, Live
  <2>2. /\ channel'[t].intercepts = channel[t].intercepts + 1
        /\ \A u \in Turns : channel'[u].delivered = channel[u].delivered
        /\ \A u \in Turns \ {t} : channel'[u] = channel[u]
    BY <1>9, FieldTypes, SetChannelFrame DEF InvokeIntercepted, Intercepted, Channel
  <2>3. InterceptedIn(t)' = InterceptedIn(t) \cup {c} /\ c \notin InterceptedIn(t)
    BY <2>1 DEF InterceptedIn, TypeOK
  <2>4. Cardinality(InterceptedIn(t)') = Cardinality(InterceptedIn(t)) + 1
    <3>1. IsFiniteSet(InterceptedIn(t))
      BY BrokerAssumption, FS_Subset DEF BrokerAssumption, InterceptedIn
    <3> QED BY <2>3, <3>1, FS_AddElement
  <2>5. ASSUME NEW u \in Turns PROVE InterceptSound(u)'
    <3>1. CASE u = t
      BY <2>1, <2>2, <2>4, <3>1 DEF InterceptInv, InterceptSound
    <3>2. CASE u # t
      <4>1. InterceptedIn(u)' = InterceptedIn(u)
        BY <2>1, <3>2 DEF InterceptedIn, TypeOK
      <4> QED BY <2>1, <2>2, <3>2, <4>1 DEF InterceptInv, InterceptSound
    <3> QED BY <3>1, <3>2
  <2> QED BY <2>2, <2>5 DEF CompactionKept, InterceptInv, CompactionStopsDelivery
<1>10. ASSUME NEW a \in Activities, NEW t \in Turns, ActivityBegin(a, t) PROVE CompactionKept
  <2>1. SetChannel(t, [channel[t] EXCEPT !.activities = @ \cup {a}, !.revision = @ + 1])
    BY <1>10 DEF ActivityBegin
  <2>2. \A u \in Turns : /\ channel'[u].intercepts = channel[u].intercepts
                         /\ channel'[u].delivered = channel[u].delivered
    BY <2>1, ActivityEffect
  <2> QED BY <1>10, <2>2, FrameIntercepts DEF ActivityBegin
<1>11. ASSUME NEW a \in Activities, NEW t \in Turns, ActivityEnd(a, t) PROVE CompactionKept
  <2>1. \A u \in Turns : /\ channel'[u].intercepts = channel[u].intercepts
                         /\ channel'[u].delivered = channel[u].delivered
    <3>1. CASE SetChannel(t, [channel[t] EXCEPT !.activities = @ \ {a}, !.revision = @ + 1])
      BY <3>1, ActivityEffect
    <3>2. CASE channel' = channel
      BY <3>2
    <3> QED BY <1>11, <3>1, <3>2 DEF ActivityEnd
  <2> QED BY <1>11, <2>1, FrameIntercepts DEF ActivityEnd
<1>12. ASSUME NEW t \in Turns, NEW o \in Observers, NextToolBatch(t, o) PROVE CompactionKept
  <2>1. ~channel[t].compaction /\ UNCHANGED <<phase, outcome, turnOf>>
    BY <1>12 DEF NextToolBatch
  <2>2. \A u \in Turns : /\ channel'[u].intercepts = channel[u].intercepts
                         /\ u # t => channel'[u] = channel[u]
    <3>1. CASE channel' = channel
      BY <3>1
    <3>2. CASE channel' # channel
      <4>1. PICK w : \/ SetChannel(t, Take(t))
                     \/ SetChannel(t, [Take(t) EXCEPT !.waiters = w])
        BY <1>12, <3>2 DEF NextToolBatch
      <4> QED BY <4>1, TakeEffect
    <3> QED BY <3>1, <3>2
  <2> QED BY <2>1, <2>2, FrameIntercepts
<1>13. ASSUME NEW t \in Turns, NEW i \in DOMAIN channel[t].waiters, AbortWait(t, i)
       PROVE  CompactionKept
  <2>1. \A u \in Turns : /\ channel'[u].intercepts = channel[u].intercepts
                         /\ channel'[u].delivered = channel[u].delivered
    BY <1>13, FieldTypes, SetChannelFrame DEF AbortWait, Channel
  <2> QED BY <1>13, <2>1, FrameIntercepts DEF AbortWait
<1>14. ASSUME NEW t \in Turns, BatchTimer(t) PROVE CompactionKept
  <2>1. UNCHANGED <<phase, outcome, turnOf>>
    BY <1>14 DEF BatchTimer
  <2>2. CASE SetChannel(t, [channel[t] EXCEPT !.timer = FALSE])
    <3>1. \A u \in Turns : /\ channel'[u].intercepts = channel[u].intercepts
                           /\ channel'[u].delivered = channel[u].delivered
      BY <2>2, FieldTypes, SetChannelFrame DEF Channel
    <3> QED BY <2>1, <3>1, FrameIntercepts
  <2>3. CASE /\ channel[t].queued # {}
             /\ SetChannel(t, [Take(t) EXCEPT !.timer = FALSE, !.waiters = <<>>])
    <3>1. ~channel[t].compaction
      BY <2>3 DEF CallInv, ChannelSound
    <3>2. \A u \in Turns : /\ channel'[u].intercepts = channel[u].intercepts
                           /\ u # t => channel'[u] = channel[u]
      <4>1. SetChannel(t, [Take(t) EXCEPT !.timer = FALSE, !.waiters = <<>>])
        BY <2>3
      <4> QED BY <4>1, TakeEffect
    <3> QED BY <2>1, <3>1, <3>2, FrameIntercepts
  <2> QED BY <1>14, <2>2, <2>3 DEF BatchTimer
<1>15. ASSUME NEW t \in Turns, LoseBatch(t) PROVE CompactionKept
  BY <1>15, FrameIntercepts DEF LoseBatch, brokerVars
<1>16. ASSUME NEW t \in Turns, NEW c \in Calls, CompleteTool(t, c) PROVE CompactionKept
  <2>1. /\ outcome' = [outcome EXCEPT ![c] = "result"] /\ c \in channel[t].open
        /\ UNCHANGED <<turnOf, phase>>
    BY <1>16 DEF CompleteTool
  <2>2. outcome[c] = "open"
    BY <2>1 DEF CallInv, CallsTracked
  <2>3. \A u \in Turns : /\ channel'[u].intercepts = channel[u].intercepts
                         /\ channel'[u].delivered \subseteq channel[u].delivered
    BY <1>16, CompleteEffect
  <2>4. \A d \in Calls : outcome'[d] = "compaction" <=> outcome[d] = "compaction"
    BY <2>1, <2>2 DEF TypeOK
  <2> QED BY <2>1, <2>3, <2>4, FrameIntercepts
<1>17. ASSUME NEW t \in Turns, RequestCompaction(t) PROVE CompactionKept
  <2> DEFINE taken == TakenBack(t)
  <2>1. /\ outcome' = [c \in Calls |-> IF c \in taken THEN "compaction" ELSE outcome[c]]
        /\ UNCHANGED <<turnOf, phase>> /\ phase[t] = "live"
    BY <1>17 DEF RequestCompaction, Live
  <2>2. \A c \in taken : c \in Calls /\ outcome[c] = "open" /\ turnOf[c] = t
    BY FieldTypes DEF TakenBack, CallInv, CallsTracked
  <2>3. IsFiniteSet(taken) /\ IsFiniteSet(InterceptedIn(t))
    BY <2>2, BrokerAssumption, FS_Subset DEF BrokerAssumption, InterceptedIn
  <2>4. /\ channel'[t].intercepts = channel[t].intercepts + Cardinality(taken)
        /\ \A u \in Turns : channel'[u].delivered = channel[u].delivered
        /\ \A u \in Turns \ {t} : channel'[u] = channel[u]
    BY <1>17, CompactionEffect
  <2>5. InterceptedIn(t)' = InterceptedIn(t) \cup taken
    BY <2>1, <2>2 DEF InterceptedIn
  <2>6. InterceptedIn(t) \cap taken = {}
    BY <2>2 DEF InterceptedIn
  <2> HIDE DEF taken
  <2>7. Cardinality(InterceptedIn(t)') = Cardinality(InterceptedIn(t)) + Cardinality(taken)
    <3>1. Cardinality(InterceptedIn(t) \cup taken)
            = Cardinality(InterceptedIn(t)) + Cardinality(taken)
                - Cardinality(InterceptedIn(t) \cap taken)
      BY <2>3, FS_Union
    <3>2. Cardinality(InterceptedIn(t) \cap taken) = 0
      BY <2>6, FS_EmptySet
    <3>3. Cardinality(InterceptedIn(t)) \in Nat /\ Cardinality(taken) \in Nat
      BY <2>3, FS_CardinalityType
    <3> QED BY <2>5, <3>1, <3>2, <3>3
  <2>8. ASSUME NEW u \in Turns PROVE InterceptSound(u)'
    <3>1. CASE u = t
      BY <2>1, <2>4, <2>7, <3>1 DEF InterceptInv, InterceptSound
    <3>2. CASE u # t
      <4>1. InterceptedIn(u)' = InterceptedIn(u)
        BY <2>1, <2>2, <3>2 DEF InterceptedIn
      <4> QED BY <2>1, <2>4, <3>2, <4>1 DEF InterceptInv, InterceptSound
    <3> QED BY <3>1, <3>2
  <2> QED BY <2>4, <2>8 DEF CompactionKept, InterceptInv, CompactionStopsDelivery
<1>18. ASSUME NEW t \in Turns, BeginCompletionFence(t) PROVE CompactionKept
  BY <1>18, FrameIntercepts DEF BeginCompletionFence, brokerVars
<1>19. ASSUME NEW t \in Turns, CommitCompletionFence(t) PROVE CompactionKept
  <2>1. \A u \in Turns : /\ channel'[u].intercepts = channel[u].intercepts
                         /\ channel'[u].delivered = channel[u].delivered
    BY <1>19, CommitEffect
  <2> QED BY <1>19, <2>1, FrameIntercepts DEF CommitCompletionFence
<1>20. CASE UNCHANGED vars
  BY <1>20, FrameIntercepts DEF vars, brokerVars, clientVars
<1> QED
  BY <1>1, <1>2, <1>3, <1>4, <1>5, <1>6, <1>7, <1>8, <1>9, <1>10, <1>11, <1>12, <1>13,
     <1>14, <1>15, <1>16, <1>17, <1>18, <1>19, <1>20
  DEF Next, Register, Revocation, RevokeTurn, RevokeTrace, RevokeExternalOwners, Switch,
      Time, Mcp, Owner, Browser, Live

\* A compaction takes the turn over: its count of control results is the number
\* of calls that were answered with one, for any number of calls, whether they
\* were taken back or came later, and Codex gets no further call of the turn.
THEOREM CompactionHolds == Spec => CompactionTakesOver
<1>1. Init => InterceptInv
  BY DEF Init, InterceptInv, InterceptSound, InterceptedIn, EmptyChannel
<1>2. TypeOK /\ CallInv /\ InterceptInv /\ [Next]_vars => InterceptInv'
  BY InterceptStep DEF CompactionKept
<1>3. InterceptInv => InterceptsCounted
  BY DEF InterceptInv, InterceptSound, InterceptsCounted, InterceptedIn, Live
<1>4. TypeOK /\ CallInv /\ InterceptInv /\ [Next]_vars => [CompactionStopsDelivery]_vars
  BY InterceptStep DEF CompactionKept
<1>5. InterceptsCounted' /\ [CompactionStopsDelivery]_vars
        => [InterceptsCounted' /\ CompactionStopsDelivery]_vars
  OBVIOUS
<1> QED
  BY <1>1, <1>2, <1>3, <1>4, <1>5, CallsSound, PTL DEF Spec, CompactionTakesOver

-----------------------------------------------------------------------------
(* The broker implements ToolCallService.                                   *)

Delivered(c) == \E t \in Turns : c \in channel[t].delivered

\* The service sees a call as unsettled exactly while its promise is open, and
\* which of the two it is, its own turn tells.
LEMMA StatusOf ==
  ASSUME TypeOK, CallInv, NEW c \in Calls
  PROVE  /\ outcome[c] # "open" => CallStatus[c] = outcome[c]
         /\ outcome[c] = "open" => CallStatus[c] = IF Delivered(c) THEN "delivered" ELSE "queued"
         /\ CallStatus[c] \in Service!Unsettled <=> outcome[c] = "open"
         /\ \A t \in Turns : c \in channel[t].open <=> outcome[c] = "open" /\ turnOf[c] = t
         /\ \A t \in Turns : c \in channel[t].delivered => c \in channel[t].open
         /\ \A t \in Turns : c \in channel[t].queued <=> c \in channel[t].open /\ ~Delivered(c)
<1>1. /\ outcome[c] # "open" => CallStatus[c] = outcome[c]
      /\ outcome[c] = "open" => CallStatus[c] = IF Delivered(c) THEN "delivered" ELSE "queued"
  BY DEF CallStatus, Delivered
<1>2. CallStatus[c] \in Service!Unsettled <=> outcome[c] = "open"
  BY <1>1 DEF TypeOK, Service!Unsettled
<1>3. \A t \in Turns : c \in channel[t].open <=> outcome[c] = "open" /\ turnOf[c] = t
  BY DEF CallInv, CallsTracked
<1>4. \A t \in Turns : c \in channel[t].delivered => c \in channel[t].open
  BY DEF CallInv, ChannelSound
<1>5. \A t \in Turns : c \in channel[t].queued <=> c \in channel[t].open /\ ~Delivered(c)
  BY <1>3, <1>4 DEF CallInv, ChannelSound, Delivered
<1> QED BY <1>1, <1>2, <1>3, <1>4, <1>5

\* Steps the service does not see.
LEMMA FrameService ==
  ASSUME UNCHANGED <<outcome, turnOf>>,
         \A t \in Turns : /\ channel'[t].delivered = channel[t].delivered
                          /\ channel'[t].committed = channel[t].committed
                          /\ phase'[t] = "over" <=> phase[t] = "over"
  PROVE  UNCHANGED Service!vars
<1>1. CallStatus' = CallStatus
  BY DEF CallStatus
<1>2. Sealed' = Sealed
  BY DEF Sealed
<1> QED BY <1>1, <1>2 DEF Service!vars

\* Dropping turns closes their registrations: the calls the service holds
\* unsettled for them are the ones whose promises Drop rejects.
LEMMA DropService ==
  ASSUME TypeOK, CallInv, NEW S \in SUBSET Turns, Drop(S), turnOf' = turnOf,
         \A t \in S : channel'[t] = EmptyChannel,
         \A t \in Turns \ S : /\ channel'[t].delivered = channel[t].delivered
                              /\ channel'[t].committed = channel[t].committed
  PROVE  Service!Next
<1>1. Sealed' = Sealed \cup S
  <2>1. \A t \in Turns : phase'[t] = IF t \in S THEN "over" ELSE phase[t]
    BY DEF Drop
  <2> QED BY <2>1 DEF Sealed
<1>2. ASSUME NEW c \in Calls
      PROVE  CallStatus'[c] = IF c \in Service!UnsettledOf(S) THEN "rejected" ELSE CallStatus[c]
  <2>1. c \in Service!UnsettledOf(S) <=> outcome[c] = "open" /\ turnOf[c] \in S
    BY StatusOf DEF Service!UnsettledOf
  <2>2. (\E t \in S : c \in channel[t].open) <=> outcome[c] = "open" /\ turnOf[c] \in S
    BY StatusOf
  <2>3. CASE outcome[c] = "open" /\ turnOf[c] \in S
    <3>1. outcome'[c] = "rejected"
      BY <2>2, <2>3 DEF Drop
    <3> QED BY <2>1, <2>3, <3>1 DEF CallStatus
  <2>4. CASE ~(outcome[c] = "open" /\ turnOf[c] \in S)
    <3>1. outcome'[c] = outcome[c]
      BY <2>2, <2>4 DEF Drop
    <3>2. outcome[c] = "open" => (Delivered(c)' <=> Delivered(c))
      BY <2>4, StatusOf DEF Delivered, EmptyChannel
    <3> QED BY <2>1, <2>4, <3>1, <3>2 DEF CallStatus, Delivered
  <2> QED BY <2>3, <2>4
<1>3. CallStatus' = [c \in Calls |-> IF c \in Service!UnsettledOf(S) THEN "rejected" ELSE CallStatus[c]]
  BY <1>2 DEF CallStatus
<1>4. Service!Close(S)
  BY <1>1, <1>3 DEF Service!Close, Service!Become
<1> QED BY <1>4 DEF Service!Next

\* A batch goes out: the queue of turn t becomes delivered.
LEMMA TakeService ==
  ASSUME TypeOK, CallInv, NEW t \in Turns, UNCHANGED <<outcome, turnOf, phase>>,
         channel'[t].delivered = channel[t].delivered \cup (channel[t].queued \cap channel[t].open),
         \A u \in Turns : channel'[u].committed = channel[u].committed,
         \A u \in Turns \ {t} : channel'[u] = channel[u]
  PROVE  Service!Next
<1> DEFINE Q == channel[t].queued
<1>1. Q \in SUBSET Service!UnsettledOf({t}) /\ \A c \in Q : CallStatus[c] = "queued"
  BY FieldTypes, StatusOf DEF Service!UnsettledOf
<1>2. ASSUME NEW c \in Calls
      PROVE  CallStatus'[c] = IF c \in Q THEN "delivered" ELSE CallStatus[c]
  <2>1. Delivered(c)' <=> Delivered(c) \/ c \in Q
    BY StatusOf DEF Delivered
  <2>2. c \in Q => outcome[c] = "open"
    BY StatusOf
  <2> QED BY <2>1, <2>2 DEF CallStatus, Delivered
<1>3. CallStatus' = [c \in Calls |-> IF c \in Q THEN "delivered" ELSE CallStatus[c]]
  BY <1>2 DEF CallStatus
<1>4. Sealed' = Sealed
  BY DEF Sealed
<1>5. Service!Deliver(t)
  BY <1>1, <1>3, <1>4 DEF Service!Deliver, Service!Become
<1> QED BY <1>5 DEF Service!Next

LEMMA ServiceStep == TypeOK /\ CallInv /\ [Next]_vars => [Service!Next]_(Service!vars)
<1> SUFFICES ASSUME TypeOK, CallInv, [Next]_vars PROVE Service!Next \/ UNCHANGED Service!vars
  OBVIOUS
<1>1. ASSUME NEW t \in Turns, RegisterCall(t) \/ RegisterResume(t) PROVE UNCHANGED Service!vars
  BY <1>1, FrameService DEF RegisterCall, RegisterResume, clientVars, TypeOK
<1>2. ASSUME NEW S \in SUBSET Turns, Revoke(S) PROVE Service!Next
  BY <1>2, DropService DEF Revoke
<1>3. CASE Close
  BY <1>3, DropService DEF Close, Live
<1>4. ASSUME NEW b \in BOOLEAN, SetExternalOwnersAccepted(b) PROVE UNCHANGED Service!vars
  BY <1>4, FrameService DEF SetExternalOwnersAccepted, clientVars
<1>5. ASSUME NEW x \in Expiring, Lapse(x) PROVE UNCHANGED Service!vars
  BY <1>5, FrameService DEF Lapse, clientVars
<1>6. CASE Prune
  <2> DEFINE S == Live \cap lapsed
  <2>1. S \in SUBSET Turns /\ Drop(S) /\ turnOf' = turnOf /\ \A t \in S : channel'[t] = EmptyChannel
    BY <1>6 DEF Prune, Live
  <2>2. \A t \in Turns \ S : /\ channel'[t].delivered = channel[t].delivered
                             /\ channel'[t].committed = channel[t].committed
    BY <1>6, FieldTypes DEF Prune, Channel
  <2> QED BY <2>1, <2>2, DropService
<1>7. ASSUME NEW h, NEW s \in Sessions \cup {NoSession}, NEW t \in Turns, Claim(h, s, t)
      PROVE  UNCHANGED Service!vars
  <2>1. \A u \in Turns : /\ channel'[u].delivered = channel[u].delivered
                         /\ channel'[u].committed = channel[u].committed
    <3>1. CASE s = NoSession
      BY <1>7, <3>1 DEF Claim
    <3>2. CASE s # NoSession
      <4>1. /\ channel'[t] = [channel[t] EXCEPT !.sessionKeys = @ \cup {s}]
            /\ \A u \in Turns \ {t} : channel'[u] = channel[u]
        BY <1>7, <3>2, SetChannelFrame DEF Claim
      <4> QED BY <4>1, FieldTypes DEF Channel
    <3> QED BY <3>1, <3>2
  <2> QED BY <1>7, <2>1, FrameService DEF Claim
<1>8. ASSUME NEW c \in Calls, NEW t \in Turns, Invoke(c, t) PROVE Service!Next
  <2>1. /\ outcome' = [outcome EXCEPT ![c] = "open"] /\ outcome[c] = "unused"
        /\ turnOf' = [turnOf EXCEPT ![c] = t] /\ phase' = phase /\ phase[t] = "live"
    BY <1>8 DEF Invoke, CallInv, Live
  <2>2. /\ \A u \in Turns : /\ channel'[u].delivered = channel[u].delivered
                            /\ channel'[u].committed = channel[u].committed
        /\ ~channel[t].committed
    BY <1>8, InvokeEffect
  <2>3. ~Delivered(c) /\ CallStatus[c] = "unused"
    BY <2>1, StatusOf DEF Delivered
  <2>4. CallStatus' = [d \in Calls |-> IF d \in {c} THEN "queued" ELSE CallStatus[d]]
    BY <2>1, <2>2, <2>3 DEF CallStatus, Delivered, TypeOK
  <2>5. t \notin Sealed /\ Sealed' = Sealed
    BY <2>1, <2>2 DEF Sealed
  <2>6. Service!Accept(c, t)
    BY <2>1, <2>3, <2>4, <2>5 DEF Service!Accept, Service!Become
  <2> QED BY <2>6 DEF Service!Next
<1>9. ASSUME NEW c \in Calls, NEW t \in Turns, InvokeIntercepted(c, t) PROVE Service!Next
  <2>1. /\ outcome' = [outcome EXCEPT ![c] = "compaction"] /\ outcome[c] = "unused"
        /\ turnOf' = [turnOf EXCEPT ![c] = t] /\ phase' = phase
    BY <1>9 DEF InvokeIntercepted
  <2>2. \A u \in Turns : /\ channel'[u].delivered = channel[u].delivered
                         /\ channel'[u].committed = channel[u].committed
    BY <1>9, FieldTypes, SetChannelFrame DEF InvokeIntercepted, Intercepted, Channel
  <2>3. CallStatus[c] = "unused"
    BY <2>1, StatusOf
  <2>4. CallStatus' = [d \in Calls |-> IF d \in {c} THEN "compaction" ELSE CallStatus[d]]
    BY <2>1, <2>2 DEF CallStatus, TypeOK
  <2>5. Sealed' = Sealed
    BY <2>1, <2>2 DEF Sealed
  <2>6. Service!Intercept(c, t)
    BY <2>1, <2>3, <2>4, <2>5 DEF Service!Intercept, Service!Become
  <2> QED BY <2>6 DEF Service!Next
<1>10. ASSUME NEW a \in Activities, NEW t \in Turns, ActivityBegin(a, t)
       PROVE  UNCHANGED Service!vars
  <2>1. SetChannel(t, [channel[t] EXCEPT !.activities = @ \cup {a}, !.revision = @ + 1])
    BY <1>10 DEF ActivityBegin
  <2>2. \A u \in Turns : /\ channel'[u].delivered = channel[u].delivered
                         /\ channel'[u].committed = channel[u].committed
    BY <2>1, ActivityEffect
  <2> QED BY <1>10, <2>2, FrameService DEF ActivityBegin
<1>11. ASSUME NEW a \in Activities, NEW t \in Turns, ActivityEnd(a, t)
       PROVE  UNCHANGED Service!vars
  <2>1. \A u \in Turns : /\ channel'[u].delivered = channel[u].delivered
                         /\ channel'[u].committed = channel[u].committed
    <3>1. CASE SetChannel(t, [channel[t] EXCEPT !.activities = @ \ {a}, !.revision = @ + 1])
      BY <3>1, ActivityEffect
    <3>2. CASE channel' = channel
      BY <3>2
    <3> QED BY <1>11, <3>1, <3>2 DEF ActivityEnd
  <2> QED BY <1>11, <2>1, FrameService DEF ActivityEnd
<1>12. ASSUME NEW t \in Turns, NEW o \in Observers, NextToolBatch(t, o)
       PROVE  Service!Next \/ UNCHANGED Service!vars
  <2>1. UNCHANGED <<outcome, turnOf, phase>>
    BY <1>12 DEF NextToolBatch
  <2>2. CASE channel' = channel
    BY <2>1, <2>2, FrameService
  <2>3. CASE channel' # channel
    <3>1. PICK w : \/ SetChannel(t, Take(t))
                   \/ SetChannel(t, [Take(t) EXCEPT !.waiters = w])
      BY <1>12, <2>3 DEF NextToolBatch
    <3>2. /\ channel'[t].delivered = channel[t].delivered \cup (channel[t].queued \cap channel[t].open)
          /\ channel'[t].committed = channel[t].committed
          /\ \A u \in Turns \ {t} : channel'[u] = channel[u]
      BY <3>1, TakeEffect
    <3> QED BY <2>1, <3>2, TakeService
  <2> QED BY <2>2, <2>3
<1>13. ASSUME NEW t \in Turns, NEW i \in DOMAIN channel[t].waiters, AbortWait(t, i)
       PROVE  UNCHANGED Service!vars
  <2>1. \A u \in Turns : /\ channel'[u].delivered = channel[u].delivered
                         /\ channel'[u].committed = channel[u].committed
    BY <1>13, FieldTypes, SetChannelFrame DEF AbortWait, Channel
  <2> QED BY <1>13, <2>1, FrameService DEF AbortWait
<1>14. ASSUME NEW t \in Turns, BatchTimer(t) PROVE Service!Next \/ UNCHANGED Service!vars
  <2>1. UNCHANGED <<outcome, turnOf, phase>>
    BY <1>14 DEF BatchTimer
  <2>2. CASE SetChannel(t, [channel[t] EXCEPT !.timer = FALSE])
    <3>1. \A u \in Turns : /\ channel'[u].delivered = channel[u].delivered
                           /\ channel'[u].committed = channel[u].committed
      BY <2>2, FieldTypes, SetChannelFrame DEF Channel
    <3> QED BY <2>1, <3>1, FrameService
  <2>3. CASE SetChannel(t, [Take(t) EXCEPT !.timer = FALSE, !.waiters = <<>>])
    <3>1. /\ channel'[t].delivered = channel[t].delivered \cup (channel[t].queued \cap channel[t].open)
          /\ channel'[t].committed = channel[t].committed
          /\ \A u \in Turns \ {t} : channel'[u] = channel[u]
      BY <2>3, TakeEffect
    <3> QED BY <2>1, <3>1, TakeService
  <2> QED BY <1>14, <2>2, <2>3 DEF BatchTimer
<1>15. ASSUME NEW t \in Turns, LoseBatch(t) PROVE UNCHANGED Service!vars
  BY <1>15, FrameService DEF LoseBatch, brokerVars
<1>16. ASSUME NEW t \in Turns, NEW c \in Calls, CompleteTool(t, c) PROVE Service!Next
  <2>1. /\ outcome' = [outcome EXCEPT ![c] = "result"] /\ UNCHANGED <<turnOf, phase>>
        /\ c \in channel[t].open /\ c \in channel[t].delivered
    BY <1>16 DEF CompleteTool
  <2>2. /\ channel'[t].delivered = channel[t].delivered \ {c}
        /\ channel'[t].committed = channel[t].committed
        /\ \A u \in Turns \ {t} : channel'[u] = channel[u]
    BY <1>16, CompleteEffect
  <2>3. CallStatus[c] = "delivered"
    BY <2>1, StatusOf DEF Delivered
  <2>4. ASSUME NEW d \in Calls
        PROVE  CallStatus'[d] = IF d \in {c} THEN "result" ELSE CallStatus[d]
    <3>1. CASE d = c
      BY <2>1, <3>1 DEF CallStatus, TypeOK
    <3>2. CASE d # c
      <4>1. outcome'[d] = outcome[d] /\ (Delivered(d)' <=> Delivered(d))
        BY <2>1, <2>2, <3>2 DEF Delivered, TypeOK
      <4> QED BY <3>2, <4>1 DEF CallStatus, Delivered
    <3> QED BY <3>1, <3>2
  <2>5. CallStatus' = [d \in Calls |-> IF d \in {c} THEN "result" ELSE CallStatus[d]]
    BY <2>4 DEF CallStatus
  <2>6. Sealed' = Sealed
    BY <2>1, <2>2 DEF Sealed
  <2>7. Service!Answer(c)
    BY <2>1, <2>3, <2>5, <2>6 DEF Service!Answer, Service!Become
  <2> QED BY <2>7 DEF Service!Next
<1>17. ASSUME NEW t \in Turns, RequestCompaction(t) PROVE Service!Next
  <2> DEFINE Q == {c \in Service!UnsettledOf({t}) : CallStatus[c] = "queued"}
  <2>1. /\ outcome' = [c \in Calls |-> IF c \in TakenBack(t) THEN "compaction" ELSE outcome[c]]
        /\ UNCHANGED <<turnOf, phase>>
    BY <1>17 DEF RequestCompaction
  <2>2. /\ \A u \in Turns : /\ channel'[u].delivered = channel[u].delivered
                            /\ channel'[u].committed = channel[u].committed
    BY <1>17, CompactionEffect
  <2>3. \A c \in Calls : c \in TakenBack(t) <=> c \in Q
    BY StatusOf DEF TakenBack, Service!UnsettledOf
  <2> HIDE DEF Q
  <2>4. CallStatus' = [c \in Calls |-> IF c \in Q THEN "compaction" ELSE CallStatus[c]]
    BY <2>1, <2>2, <2>3 DEF CallStatus
  <2>5. Sealed' = Sealed
    BY <2>1, <2>2 DEF Sealed
  <2>6. Service!Interrupt(t)
    BY <2>1, <2>4, <2>5 DEF Service!Interrupt, Service!Become, Q
  <2> QED BY <2>6 DEF Service!Next
<1>18. ASSUME NEW t \in Turns, BeginCompletionFence(t) PROVE UNCHANGED Service!vars
  BY <1>18, FrameService DEF BeginCompletionFence, brokerVars
<1>19. ASSUME NEW t \in Turns, CommitCompletionFence(t)
       PROVE  Service!Next \/ UNCHANGED Service!vars
  <2>1. UNCHANGED <<outcome, turnOf, phase>>
    BY <1>19 DEF CommitCompletionFence
  <2>2. CASE channel' = channel
    BY <2>1, <2>2, FrameService
  <2>3. CASE channel' # channel
    <3>1. /\ channel'[t].committed = TRUE /\ channel[t].open = {}
          /\ \A u \in Turns : channel'[u].delivered = channel[u].delivered
          /\ \A u \in Turns \ {t} : channel'[u] = channel[u]
      BY <1>19, <2>3, CommitEffect DEF CandidateStands, Quiescent
    <3>2. Service!UnsettledOf({t}) = {}
      BY <3>1, StatusOf DEF Service!UnsettledOf
    <3>3. Sealed' = Sealed \cup {t}
      BY <2>1, <3>1 DEF Sealed
    <3>4. CallStatus' = CallStatus
      BY <2>1, <3>1 DEF CallStatus
    <3>5. Service!Seal(t)
      BY <2>1, <3>2, <3>3, <3>4 DEF Service!Seal
    <3> QED BY <3>5 DEF Service!Next
  <2> QED BY <2>2, <2>3
<1>20. CASE UNCHANGED vars
  BY <1>20, FrameService DEF vars, brokerVars, clientVars
<1> QED
  BY <1>1, <1>2, <1>3, <1>4, <1>5, <1>6, <1>7, <1>8, <1>9, <1>10, <1>11, <1>12, <1>13,
     <1>14, <1>15, <1>16, <1>17, <1>18, <1>19, <1>20
  DEF Next, Register, Revocation, RevokeTurn, RevokeTrace, RevokeExternalOwners, Switch,
      Time, Mcp, Owner, Browser, Live

\* The broker implements the call service: each of its steps is a step of the
\* service on the statuses of the calls and the sealed turns, or none.
THEOREM BrokerImplementsService == Spec => ImplementsService
<1>1. Init => Service!Init
  BY DEF Init, EmptyChannel, CallStatus, Sealed, Service!Init
<1>2. TypeOK /\ CallInv /\ [Next]_vars => [Service!Next]_(Service!vars)
  BY ServiceStep
<1> QED BY <1>1, <1>2, CallsSound, PTL DEF Spec, ImplementsService, Service!Spec
=============================================================================
