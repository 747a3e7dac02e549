------------------------- MODULE TurnSessionsProofs -------------------------
(***************************************************************************)
(* Proofs about TurnSessions: the registry's maps are well typed and       *)
(* within their bounds, and what RegistryIsTrue says of them.  The         *)
(* invariant has one part per group of variables, so that an action is     *)
(* looked at once for each group it changes.  NoOrphanRun and              *)
(* DeadStaysDead need each other's companions: that an active session is   *)
(* under its own key, so a tombstone for a key is put where the key's      *)
(* session is cancelled; and that the sessions of the key that are no      *)
(* longer in the registry were cancelled when they left it.                *)
(***************************************************************************)
EXTENDS TurnSessions, FiniteSetTheorems, SequenceTheorems, TLAPS

-----------------------------------------------------------------------------
(* The operators of the registry.                                           *)

ActiveKeys == {k \in DOMAIN entries : IsActive(entries[k])}

\* The registry's maps.  A session that is active is under its own key: only a
\* final one is moved (RetireConversationPreserving).
RegistryInv ==
  /\ entries \in PartialFunctions(Keys, Requests)
  /\ conversationHeads \in PartialFunctions(Conversations, Requests)
  /\ threadHeads \in PartialFunctions(Threads, Requests)
  /\ IsFiniteSet(DOMAIN entries)
  /\ Cardinality(DOMAIN entries) <= MaxEntries
  /\ Cardinality(ActiveKeys) <= MaxActive
  /\ \A k \in DOMAIN entries : /\ phase[entries[k]] # "unborn"
                               /\ IsActive(entries[k]) => KeyOf[entries[k]] = k
  /\ NoOrphanRun

TombstoneInv ==
  /\ explicitTombstones \in Seq(Keys) /\ Len(explicitTombstones) <= MaxTombstones
  /\ supersededTombstones \in Seq(Keys) /\ Len(supersededTombstones) <= MaxTombstones
  /\ DeadStaysDead

\* A run is in its conversation's queue once, until it settles.
RunInv ==
  /\ phase \in [Requests -> {"unborn", "active", "refused", "final", "failed"}]
  /\ over \subseteq {s \in Requests : phase[s] \in {"final", "failed"}}
  /\ cancelled \subseteq {s \in Requests : IsActive(s)}
  /\ attached \subseteq {s \in Requests : SessionConversation(s) # NoConversation}
  /\ page \subseteq Conversations
  /\ queue \in [Conversations -> Seq(Requests)]
  /\ \A c \in Conversations :
       /\ Range(queue[c]) = {s \in Requests : SessionConversation(s) = c /\ phase[s] = "active"}
       /\ \A i, j \in 1 .. Len(queue[c]) : queue[c][i] = queue[c][j] => i = j

CleanupInv ==
  cleanups \subseteq [owner : Owners, after : SUBSET Requests, releases : SUBSET Conversations]

\* A request on its way has no session yet, so Start gives it a new one.
RequestInv ==
  /\ stage \in [Requests -> {"new", "retiring", "preempting", "running", "done", "refused"}]
  /\ mine \in [Requests -> Requests \cup {NoSession}]
  /\ \A r \in Requests : mine[r] # NoSession <=> stage[r] = "running"
  /\ \A r \in Requests : stage[r] \in {"new", "retiring", "preempting"} => phase[r] = "unborn"
  /\ controls \in Nat

SessionsInv == RegistryInv /\ TombstoneInv /\ RunInv /\ CleanupInv /\ RequestInv

-----------------------------------------------------------------------------
(* Lemmas about the operators.                                              *)

\* The constants.
LEMMA Constants ==
  /\ \A r \in Requests : KeyOf[r] \in Keys /\ SourceOf[r] \in Keys \cup {NoKey}
  /\ \A k \in Keys : ThreadOf[k] \in Threads /\ ConversationOf[k] \in Conversations \cup {NoConversation}
  /\ \A r \in Requests : SessionConversation(r) \in Conversations \cup {NoConversation}
  /\ NoConversation \notin Conversations /\ NoKey \notin Keys /\ NoSession \notin Requests
  /\ MaxActive \in Nat /\ MaxEntries \in Nat /\ MaxTombstones \in Nat
BY SessionsAssumption, NoSessionAssumption DEF SessionConversation

\* A partial function is one on its domain.
LEMMA Partial ==
  ASSUME NEW D, NEW R, NEW f
  PROVE  f \in PartialFunctions(D, R) <=> DOMAIN f \subseteq D /\ f \in [DOMAIN f -> R]
<1>1. ASSUME f \in PartialFunctions(D, R) PROVE DOMAIN f \subseteq D /\ f \in [DOMAIN f -> R]
  BY <1>1 DEF PartialFunctions
<1>2. ASSUME DOMAIN f \subseteq D, f \in [DOMAIN f -> R] PROVE f \in PartialFunctions(D, R)
  BY <1>2 DEF PartialFunctions
<1> QED BY <1>1, <1>2

LEMMA NoneIsPartial == ASSUME NEW D, NEW R PROVE <<>> \in PartialFunctions(D, R) /\ DOMAIN <<>> = {}
<1>1. DOMAIN <<>> = {} /\ <<>> \in [DOMAIN <<>> -> R] OBVIOUS
<1> QED BY <1>1, Partial

LEMMA WithType ==
  ASSUME NEW D, NEW R, NEW f \in PartialFunctions(D, R), NEW x \in D, NEW s \in R
  PROVE  /\ With(f, x, s) \in PartialFunctions(D, R)
         /\ DOMAIN With(f, x, s) = DOMAIN f \cup {x}
         /\ \A y \in DOMAIN With(f, x, s) : With(f, x, s)[y] = IF y = x THEN s ELSE f[y]
<1>1. DOMAIN f \subseteq D /\ f \in [DOMAIN f -> R] BY Partial
<1>2. DOMAIN With(f, x, s) = DOMAIN f \cup {x} /\ With(f, x, s) \in [DOMAIN f \cup {x} -> R]
  BY <1>1 DEF With
<1>3. \A y \in DOMAIN With(f, x, s) : With(f, x, s)[y] = IF y = x THEN s ELSE f[y]
  BY DEF With
<1>4. With(f, x, s) \in PartialFunctions(D, R) BY <1>1, <1>2, Partial
<1> QED BY <1>2, <1>3, <1>4

LEMMA RestrictType ==
  ASSUME NEW D, NEW R, NEW f \in PartialFunctions(D, R), NEW S \in SUBSET DOMAIN f
  PROVE  /\ Restrict(f, S) \in PartialFunctions(D, R)
         /\ DOMAIN Restrict(f, S) = S
         /\ \A y \in S : Restrict(f, S)[y] = f[y]
<1>1. DOMAIN f \subseteq D /\ f \in [DOMAIN f -> R] BY Partial
<1>2. DOMAIN Restrict(f, S) = S /\ Restrict(f, S) \in [S -> R] /\ \A y \in S : Restrict(f, S)[y] = f[y]
  BY <1>1 DEF Restrict
<1> QED BY <1>1, <1>2, Partial

LEMMA WithoutType ==
  ASSUME NEW D, NEW R, NEW f \in PartialFunctions(D, R), NEW gone
  PROVE  Without(f, gone) \in PartialFunctions(D, R)
<1> DEFINE S == {x \in DOMAIN f : f[x] \notin gone}
<1>1. Without(f, gone) = Restrict(f, S) BY DEF Without, RestrictValues
<1> QED BY <1>1, RestrictType

\* A finite set as a sequence: Buried puts the new tombstones last.
LEMMA SetAsSeq ==
  ASSUME NEW S, IsFiniteSet(S)
  PROVE  SetToSeq(S) \in Seq(S) /\ Range(SetToSeq(S)) \subseteq S
<1>1. Cardinality(S) \in Nat /\ ExistsBijection(1 .. Cardinality(S), S)
  BY FS_CardinalityType
<1>2. PICK f \in [1 .. Cardinality(S) -> S] : IsInjective(f)
  BY <1>1 DEF ExistsBijection, Bijection, Injection, IsInjective
<1>3. SetToSeq(S) \in [1 .. Cardinality(S) -> S]
  BY <1>2 DEF SetToSeq
<1> QED BY <1>1, <1>3 DEF Range

\* prune of the tombstones keeps the newest of them, within their bound.
LEMMA BuriedType ==
  ASSUME NEW old \in Seq(Keys), NEW ks \in SUBSET Keys, IsFiniteSet(ks)
  PROVE  /\ Buried(old, ks) \in Seq(Keys)
         /\ Len(Buried(old, ks)) <= MaxTombstones
         /\ Range(Buried(old, ks)) \subseteq Range(old) \cup ks
<1> DEFINE S == ks \ Range(old)
           new == SetToSeq(S)
           all == old \o new
           excess == IF Len(all) > MaxTombstones THEN Len(all) - MaxTombstones ELSE 0
           kept == SubSeq(all, excess + 1, Len(all))
<1>1. IsFiniteSet(S) BY FS_Difference
<1>2. new \in Seq(S) /\ Range(new) \subseteq S BY <1>1, SetAsSeq
<1>3. new \in Seq(Keys) BY <1>2
<1>4. all \in Seq(Keys) /\ Len(all) \in Nat BY <1>3, ConcatProperties, LenProperties
<1>5. excess \in Nat /\ MaxTombstones \in Nat BY <1>4, Constants
<1>6. \A i \in 1 .. Len(all) : all[i] \in Range(old) \cup S
  <2>1. TAKE i \in 1 .. Len(all)
  <2>2. CASE i <= Len(old)
    BY <2>1, <2>2, <1>3, <1>4, ConcatProperties DEF Range
  <2>3. CASE i > Len(old)
    <3>1. i - Len(old) \in 1 .. Len(new) /\ all[i] = new[i - Len(old)]
      BY <2>1, <2>3, <1>3, <1>4, ConcatProperties, LenProperties
    <3> QED BY <3>1, <1>2, <1>3, LenProperties DEF Range
  <2> QED BY <2>1, <2>2, <2>3, <1>4, LenProperties
<1> HIDE DEF all, excess, new
<1>7. /\ kept \in Seq(Keys) /\ Len(kept) <= MaxTombstones
      /\ \A i \in 1 .. Len(kept) : kept[i] = all[excess + i] /\ excess + i \in 1 .. Len(all)
  <2>1. \A i \in excess + 1 .. Len(all) : all[i] \in Keys BY <1>4, <1>5, LenProperties
  <2>2. excess <= Len(all) /\ Len(all) - excess <= MaxTombstones BY <1>4, <1>5 DEF excess
  <2>3. /\ kept \in Seq(Keys) /\ Len(kept) = Len(all) - excess
        /\ \A i \in 1 .. Len(all) - excess : kept[i] = all[excess + 1 + i - 1]
    BY <2>1, <2>2, <1>4, <1>5, SubSeqProperties
  <2> QED BY <2>2, <2>3, <1>4, <1>5
<1>8. Range(kept) \subseteq Range(old) \cup ks
  BY <1>6, <1>7, LenProperties DEF Range
<1>9. Buried(old, ks) = kept BY DEF Buried, all, excess, new
<1> QED BY <1>7, <1>8, <1>9

-----------------------------------------------------------------------------
(* Steps of the registry.                                                   *)

\* Frames.  What a part of the invariant says depends only on its variables.
LEMMA RegistryFrame ==
  ASSUME RegistryInv, UNCHANGED <<entries, conversationHeads, threadHeads, phase, cancelled>>
  PROVE  RegistryInv'
BY DEF RegistryInv, ActiveKeys, IsActive, NoOrphanRun

LEMMA TombstoneFrame ==
  ASSUME TombstoneInv, UNCHANGED <<explicitTombstones, supersededTombstones, phase>>,
         cancelled \subseteq cancelled'
  PROVE  TombstoneInv'
BY DEF TombstoneInv, DeadStaysDead, IsActive

LEMMA RunFrame ==
  ASSUME RunInv, UNCHANGED <<phase, over, queue, page>>,
         attached' \subseteq attached, cancelled' \subseteq {s \in Requests : IsActive(s)}
  PROVE  RunInv'
BY DEF RunInv, IsActive, SessionConversation

LEMMA RequestFrame ==
  ASSUME RequestInv, UNCHANGED <<stage, mine, phase>>, controls' \in Nat
  PROVE  RequestInv'
BY DEF RequestInv

LEMMA Sessions ==
  ASSUME RegistryInv, NEW ks \in SUBSET DOMAIN entries
  PROVE  /\ ks \subseteq Keys /\ IsFiniteSet(ks)
         /\ SessionsAt(ks) \subseteq Requests
         /\ \A S : HeadedBy(S) \subseteq Conversations
<1>1. DOMAIN entries \subseteq Keys /\ entries \in [DOMAIN entries -> Requests]
      /\ DOMAIN conversationHeads \subseteq Conversations
  BY Partial DEF RegistryInv
<1>2. IsFiniteSet(ks) BY FS_Subset DEF RegistryInv
<1> QED BY <1>1, <1>2 DEF SessionsAt, HeadedBy

\* Retire cancels the active sessions it takes away.
LEMMA RetireKeeps ==
  ASSUME RegistryInv, RunInv, NEW ks \in SUBSET DOMAIN entries, Retire(ks), UNCHANGED phase
  PROVE  /\ RegistryInv'
         /\ cancelled \subseteq cancelled' /\ cancelled' \subseteq {s \in Requests : IsActive(s)}
         /\ \A s \in Requests : IsActive(s) /\ KeyOf[s] \in ks => s \in cancelled'
<1>1. DOMAIN entries \subseteq Keys /\ entries \in [DOMAIN entries -> Requests]
  BY Partial DEF RegistryInv
<1> DEFINE left == DOMAIN entries \ ks
<1>2. entries' \in PartialFunctions(Keys, Requests) /\ DOMAIN entries' = left
      /\ \A k \in left : entries'[k] = entries[k]
  BY RestrictType DEF Retire, RegistryInv
<1>3. conversationHeads' \in PartialFunctions(Conversations, Requests)
      /\ threadHeads' \in PartialFunctions(Threads, Requests)
  BY WithoutType DEF Retire, RegistryInv
<1>4. IsFiniteSet(DOMAIN entries') /\ Cardinality(DOMAIN entries') <= MaxEntries
  <2>1. IsFiniteSet(left) /\ Cardinality(left) <= Cardinality(DOMAIN entries)
        /\ Cardinality(left) \in Nat /\ Cardinality(DOMAIN entries) \in Nat
    BY FS_Subset, FS_CardinalityType DEF RegistryInv
  <2> QED BY <2>1, <1>2, Constants DEF RegistryInv
<1>5. Cardinality(ActiveKeys') <= MaxActive
  <2>1. IsFiniteSet(ActiveKeys) BY FS_Subset DEF RegistryInv, ActiveKeys
  <2>2. ActiveKeys' \subseteq ActiveKeys BY <1>2 DEF ActiveKeys, IsActive
  <2>3. Cardinality(ActiveKeys') <= Cardinality(ActiveKeys)
        /\ Cardinality(ActiveKeys') \in Nat /\ Cardinality(ActiveKeys) \in Nat
    BY <2>1, <2>2, FS_Subset, FS_CardinalityType
  <2> QED BY <2>3, Constants DEF RegistryInv
<1>6. cancelled' = cancelled \cup {s \in SessionsAt(ks) : IsActive(s)}
  BY DEF Retire, Cancel
<1>7. \A k \in DOMAIN entries' : /\ phase[entries'[k]] # "unborn"
                                 /\ IsActive(entries'[k]) => KeyOf[entries'[k]] = k
  BY <1>2 DEF RegistryInv, IsActive
<1>8. NoOrphanRun'
  <2> SUFFICES ASSUME NEW s \in Requests, IsActive(s), s \notin cancelled'
               PROVE  s \in Range(entries')
    BY DEF NoOrphanRun, IsActive
  <2>1. PICK k \in DOMAIN entries : entries[k] = s
    BY <1>6 DEF RegistryInv, NoOrphanRun, Range
  <2>2. k \notin ks BY <2>1, <1>6 DEF SessionsAt
  <2> QED BY <2>1, <2>2, <1>2 DEF Range
<1>9. ASSUME NEW s \in Requests, IsActive(s), KeyOf[s] \in ks PROVE s \in cancelled'
  <2>1. CASE s \in cancelled BY <2>1, <1>6
  <2>2. CASE s \notin cancelled
    <3>1. PICK k \in DOMAIN entries : entries[k] = s
      BY <1>9, <2>2 DEF RegistryInv, NoOrphanRun, Range
    <3>2. k \in ks BY <3>1, <1>9 DEF RegistryInv
    <3> QED BY <3>1, <3>2, <1>6, <1>9 DEF SessionsAt
  <2> QED BY <2>1, <2>2
<1>10. cancelled \subseteq cancelled' /\ cancelled' \subseteq {s \in Requests : IsActive(s)}
  BY <1>6, Sessions DEF RunInv
<1>11. RegistryInv'
  BY <1>2, <1>3, <1>4, <1>5, <1>7, <1>8 DEF RegistryInv, IsActive
<1> QED BY <1>9, <1>10, <1>11

LEMMA CleanupType ==
  ASSUME RegistryInv, NEW ks \in SUBSET DOMAIN entries, NEW owner \in Owners
  PROVE  Cleanup(owner, ks) \subseteq [owner : Owners, after : SUBSET Requests, releases : SUBSET Conversations]
BY Sessions DEF Cleanup

LEMMA OwnerTypes ==
  /\ Background \in Owners
  /\ \A r \in Requests : ByRequest(r) \in Owners
  /\ \A k \in Keys : ByKey(k) \in Owners
  /\ \A c \in Conversations : ByConversation(c) \in Owners
BY DEF Owners

\* Tombstones are put on keys whose sessions the same step cancels.
LEMMA BuryKeeps ==
  ASSUME TombstoneInv, RegistryInv, NEW ks \in SUBSET DOMAIN entries, UNCHANGED phase,
         cancelled \subseteq cancelled',
         \A s \in Requests : IsActive(s) /\ KeyOf[s] \in ks => s \in cancelled',
         \/ explicitTombstones' = Buried(explicitTombstones, ks) /\ UNCHANGED supersededTombstones
         \/ supersededTombstones' = Buried(supersededTombstones, ks) /\ UNCHANGED explicitTombstones
  PROVE  TombstoneInv'
<1>1. ks \subseteq Keys /\ IsFiniteSet(ks) BY Sessions
<1>2. /\ explicitTombstones' \in Seq(Keys) /\ Len(explicitTombstones') <= MaxTombstones
      /\ supersededTombstones' \in Seq(Keys) /\ Len(supersededTombstones') <= MaxTombstones
  BY <1>1, BuriedType DEF TombstoneInv
<1>3. Range(explicitTombstones') \cup Range(supersededTombstones')
        \subseteq Range(explicitTombstones) \cup Range(supersededTombstones) \cup ks
  BY <1>1, BuriedType DEF TombstoneInv
<1>4. DeadStaysDead'
  BY <1>3 DEF TombstoneInv, DeadStaysDead, IsActive
<1> QED BY <1>2, <1>4 DEF TombstoneInv

\* retireAndWait takes one session away, or finds nothing to do.
LEMMA RetireAndWaitKeeps ==
  ASSUME RegistryInv, RunInv, TombstoneInv, CleanupInv, NEW k \in Keys, RetireAndWait(k),
         UNCHANGED <<phase, tombstones>>
  PROVE  /\ RegistryInv' /\ CleanupInv' /\ TombstoneInv'
         /\ cancelled' \subseteq {s \in Requests : IsActive(s)}
<1>1. CASE ~Awaits(ByKey(k)) /\ k \in DOMAIN entries
  <2>1. Retire({k}) /\ cleanups' = cleanups \cup Cleanup(ByKey(k), {k})
    BY <1>1 DEF RetireAndWait
  <2>2. /\ RegistryInv' /\ cancelled \subseteq cancelled'
        /\ cancelled' \subseteq {s \in Requests : IsActive(s)}
    BY <1>1, <2>1, RetireKeeps
  <2>3. CleanupInv' BY <1>1, <2>1, CleanupType, OwnerTypes DEF CleanupInv
  <2>4. TombstoneInv' BY <2>2, TombstoneFrame DEF tombstones
  <2> QED BY <2>2, <2>3, <2>4
<1>2. CASE ~(~Awaits(ByKey(k)) /\ k \in DOMAIN entries)
  <2>1. UNCHANGED <<entries, threadHeads, conversationHeads, cancelled, cleanups>>
    BY <1>2 DEF RetireAndWait
  <2>2. RegistryInv' BY <2>1, RegistryFrame
  <2>3. TombstoneInv' BY <2>1, TombstoneFrame DEF tombstones
  <2>4. CleanupInv' BY <2>1 DEF CleanupInv
  <2> QED BY <2>1, <2>2, <2>3, <2>4 DEF RunInv
<1> QED BY <1>1, <1>2

\* A request that changes its stage, and gets or leaves no session.
LEMMA StageKeeps ==
  ASSUME RequestInv, NEW r \in Requests, NEW to \in {"retiring", "preempting", "refused"},
         stage[r] \in {"new", "retiring", "preempting"},
         stage' = [stage EXCEPT ![r] = to], UNCHANGED <<mine, phase, controls>>
  PROVE  RequestInv'
BY DEF RequestInv

-----------------------------------------------------------------------------
(* The actions.                                                             *)

LEMMA RetireSourceKeeps ==
  ASSUME SessionsInv, NEW r \in Requests, RetireSource(r)
  PROVE  SessionsInv'
<1>1. SourceOf[r] \in Keys BY Constants DEF RetireSource
<1>2. /\ RegistryInv' /\ CleanupInv' /\ TombstoneInv'
      /\ cancelled' \subseteq {s \in Requests : IsActive(s)}
  BY <1>1, RetireAndWaitKeeps DEF RetireSource, SessionsInv, browser, tombstones
<1>3. RunInv' BY <1>2, RunFrame DEF RetireSource, SessionsInv, browser
<1>4. RequestInv' BY StageKeeps DEF RetireSource, Goes, SessionsInv, browser
<1> QED BY <1>2, <1>3, <1>4 DEF SessionsInv

LEMMA PreemptKeeps ==
  ASSUME SessionsInv, NEW r \in Requests, Preempt(r)
  PROVE  SessionsInv'
<1> DEFINE ks == Superseded(KeyOf[r])
<1>1. ks \in SUBSET DOMAIN entries BY DEF Superseded
<1>2. Retire(ks) /\ UNCHANGED phase BY DEF Preempt, browser
<1>3. /\ RegistryInv' /\ cancelled \subseteq cancelled'
      /\ cancelled' \subseteq {s \in Requests : IsActive(s)}
      /\ \A s \in Requests : IsActive(s) /\ KeyOf[s] \in ks => s \in cancelled'
  BY <1>1, <1>2, RetireKeeps DEF SessionsInv
<1>4. TombstoneInv'
  <2>1. supersededTombstones' = Buried(supersededTombstones, ks) /\ UNCHANGED explicitTombstones
    BY DEF Preempt
  <2> QED BY <1>1, <1>2, <1>3, <2>1, BuryKeeps DEF SessionsInv
<1>5. CleanupInv'
  BY <1>1, CleanupType, OwnerTypes DEF Preempt, CleanupInv, SessionsInv
<1>6. RunInv' BY <1>3, RunFrame DEF Preempt, SessionsInv, browser
<1>7. RequestInv' BY StageKeeps DEF Preempt, Arrives, SessionsInv, browser
<1> QED BY <1>3, <1>4, <1>5, <1>6, <1>7 DEF SessionsInv

LEMMA RefuseKeeps ==
  ASSUME SessionsInv, NEW r \in Requests, Refuse(r)
  PROVE  SessionsInv'
<1> USE DEF SessionsInv, Refuse, Creates, browser, registry
<1>1. RegistryInv' BY RegistryFrame
<1>2. TombstoneInv' BY TombstoneFrame
<1>3. RunInv' BY RunFrame DEF RunInv
<1>4. CleanupInv' BY DEF CleanupInv
<1>5. RequestInv' BY StageKeeps
<1> QED BY <1>1, <1>2, <1>3, <1>4, <1>5

LEMMA JoinKeeps ==
  ASSUME SessionsInv, NEW r \in Requests, Join(r)
  PROVE  SessionsInv'
<1> USE DEF SessionsInv, Join, Creates, browser, registry
<1>1. RegistryInv' BY RegistryFrame
<1>2. TombstoneInv' BY TombstoneFrame
<1>3. RunInv' BY RunFrame DEF RunInv
<1>4. CleanupInv' BY DEF CleanupInv
<1>5. entries[KeyOf[r]] \in Requests /\ entries[KeyOf[r]] # NoSession
  BY Partial, Constants DEF RegistryInv
<1>6. RequestInv' BY <1>5 DEF RequestInv
<1> QED BY <1>1, <1>2, <1>3, <1>4, <1>6

\* A new run joins the queue of its conversation, unless the worker refuses it.
LEMMA StartRuntimeKeeps ==
  ASSUME RunInv, NEW r \in Requests, phase[r] = "unborn", StartRuntime(r), UNCHANGED <<over, page, cancelled>>
  PROVE  /\ RunInv'
         /\ phase'[r] \in {"active", "refused"}
         /\ \A s \in Requests \ {r} : phase'[s] = phase[s]
<1> DEFINE own == SessionConversation(r)
<1>1. /\ phase' \in [Requests -> {"unborn", "active", "refused", "final", "failed"}]
      /\ phase'[r] = IF TraceInUse(KeyOf[r]) THEN "refused" ELSE "active"
      /\ \A s \in Requests \ {r} : phase'[s] = phase[s]
  BY DEF StartRuntime, RunInv
<1>2. /\ over' \subseteq {s \in Requests : phase'[s] \in {"final", "failed"}}
      /\ cancelled' \subseteq {s \in Requests : phase'[s] \in {"active", "refused"}}
  BY <1>1 DEF RunInv, IsActive
<1>3. attached' \subseteq {s \in Requests : SessionConversation(s) # NoConversation}
  BY DEF StartRuntime, RunInv, SessionConversation
<1>4. /\ queue' \in [Conversations -> Seq(Requests)]
      /\ \A c \in Conversations :
           /\ Range(queue'[c]) = {s \in Requests : SessionConversation(s) = c /\ phase'[s] = "active"}
           /\ \A i, j \in 1 .. Len(queue'[c]) : queue'[c][i] = queue'[c][j] => i = j
  <2>1. CASE own = NoConversation \/ TraceInUse(KeyOf[r])
    <3>1. queue' = queue BY <2>1 DEF StartRuntime, SessionConversation
    <3>2. \A c \in Conversations, s \in Requests :
            SessionConversation(s) = c /\ phase'[s] = "active" <=> SessionConversation(s) = c /\ phase[s] = "active"
      BY <2>1, <1>1, Constants
    <3> QED BY <3>1, <3>2 DEF RunInv
  <2>2. CASE own # NoConversation /\ ~TraceInUse(KeyOf[r])
    <3>1. own \in Conversations BY <2>2, Constants
    <3>2. queue' = [queue EXCEPT ![own] = Append(@, r)] BY <2>2 DEF StartRuntime, SessionConversation
    <3>3. queue[own] \in Seq(Requests) BY <3>1 DEF RunInv
    <3>4. /\ Append(queue[own], r) \in Seq(Requests)
          /\ Len(Append(queue[own], r)) = Len(queue[own]) + 1
          /\ \A i \in 1 .. Len(queue[own]) : Append(queue[own], r)[i] = queue[own][i]
          /\ Append(queue[own], r)[Len(queue[own]) + 1] = r
          /\ Len(queue[own]) \in Nat
      BY <3>3, AppendProperties, LenProperties
    <3>5. \A i \in 1 .. Len(queue[own]) : queue[own][i] # r
      <4>1. r \notin Range(queue[own]) BY <3>1 DEF RunInv
      <4> QED BY <4>1, <3>3, LenProperties DEF Range
    <3>6. queue' \in [Conversations -> Seq(Requests)] BY <3>2, <3>4 DEF RunInv
    <3>7. ASSUME NEW c \in Conversations, c # own
          PROVE  /\ Range(queue'[c]) = {s \in Requests : SessionConversation(s) = c /\ phase'[s] = "active"}
                 /\ \A i, j \in 1 .. Len(queue'[c]) : queue'[c][i] = queue'[c][j] => i = j
      <4>1. queue'[c] = queue[c] BY <3>2, <3>7 DEF RunInv
      <4>2. \A s \in Requests : SessionConversation(s) = c => phase'[s] = phase[s]
        BY <3>7, <1>1
      <4> QED BY <4>1, <4>2 DEF RunInv
    <3>8. queue'[own] = Append(queue[own], r) BY <3>1, <3>2 DEF RunInv
    <3>9. Range(queue'[own]) = {s \in Requests : SessionConversation(s) = own /\ phase'[s] = "active"}
      <4>1. DOMAIN queue'[own] = 1 .. Len(queue[own]) + 1 /\ DOMAIN queue[own] = 1 .. Len(queue[own])
        BY <3>8, <3>4, <3>3, LenProperties
      <4>2. Range(queue'[own]) = Range(queue[own]) \cup {r}
        <5>1. \A i \in 1 .. Len(queue[own]) + 1 : queue'[own][i] \in Range(queue[own]) \cup {r}
          BY <4>1, <3>4, <3>8 DEF Range
        <5>2. \A i \in 1 .. Len(queue[own]) : i \in 1 .. Len(queue[own]) + 1 /\ queue'[own][i] = queue[own][i]
          BY <3>4, <3>8
        <5>3. Len(queue[own]) + 1 \in 1 .. Len(queue[own]) + 1 /\ queue'[own][Len(queue[own]) + 1] = r
          BY <3>4, <3>8
        <5> QED BY <4>1, <5>1, <5>2, <5>3 DEF Range
      <4>3. Range(queue[own]) = {s \in Requests : SessionConversation(s) = own /\ phase[s] = "active"}
        BY <3>1 DEF RunInv
      <4>4. phase'[r] = "active" BY <2>2, <1>1
      <4> QED BY <4>2, <4>3, <4>4, <1>1
    <3>10. \A i, j \in 1 .. Len(queue'[own]) : queue'[own][i] = queue'[own][j] => i = j
      <4>1. \A i, j \in 1 .. Len(queue[own]) : queue[own][i] = queue[own][j] => i = j
        BY <3>1 DEF RunInv
      <4> QED BY <4>1, <3>4, <3>5, <3>8
    <3> QED BY <3>6, <3>7, <3>9, <3>10
  <2> QED BY <2>1, <2>2
<1>5. RunInv' BY <1>1, <1>2, <1>3, <1>4 DEF RunInv, IsActive, SessionConversation
<1>6. phase'[r] \in {"active", "refused"} BY <1>1
<1> QED BY <1>1, <1>5, <1>6

LEMMA StartKeeps ==
  ASSUME SessionsInv, NEW r \in Requests, Start(r)
  PROVE  SessionsInv'
<1> DEFINE k == KeyOf[r]
<1>1. phase[r] = "unborn" /\ k \in Keys BY Constants DEF Start, Creates, SessionsInv, RequestInv
<1>2. /\ RunInv' /\ phase'[r] \in {"active", "refused"}
      /\ \A s \in Requests \ {r} : phase'[s] = phase[s]
  BY <1>1, StartRuntimeKeeps DEF Start, SessionsInv
<1>3. k \notin DOMAIN entries /\ ~Tombstoned(k) /\ ~Full BY DEF Start
<1>4. /\ entries' \in PartialFunctions(Keys, Requests)
      /\ DOMAIN entries' = DOMAIN entries \cup {k}
      /\ \A j \in DOMAIN entries' : entries'[j] = IF j = k THEN r ELSE entries[j]
  <2>1. entries' = With(entries, k, r) BY DEF Start
  <2>2. entries \in PartialFunctions(Keys, Requests) BY DEF SessionsInv, RegistryInv
  <2>3. With(entries, k, r) \in PartialFunctions(Keys, Requests) BY <1>1, <2>2, WithType
  <2>4. /\ DOMAIN With(entries, k, r) = DOMAIN entries \cup {k}
        /\ \A j \in DOMAIN With(entries, k, r) : With(entries, k, r)[j] = IF j = k THEN r ELSE entries[j]
    BY DEF With
  <2> QED BY <2>1, <2>3, <2>4
<1>5. entries \in [DOMAIN entries -> Requests] BY Partial DEF SessionsInv, RegistryInv
<1>6. \A j \in DOMAIN entries : entries[j] # r /\ phase'[entries[j]] = phase[entries[j]]
  BY <1>1, <1>2, <1>5 DEF SessionsInv, RegistryInv
<1>7. ActiveKeys' = ActiveKeys \cup {k}
  BY <1>2, <1>4, <1>6 DEF ActiveKeys, IsActive
<1>8. IsFiniteSet(DOMAIN entries) /\ Cardinality(DOMAIN entries) \in Nat
      /\ IsFiniteSet(ActiveKeys) /\ Cardinality(ActiveKeys) \in Nat
  <2>1. IsFiniteSet(ActiveKeys) BY FS_Subset DEF ActiveKeys, SessionsInv, RegistryInv
  <2> QED BY <2>1, FS_CardinalityType DEF SessionsInv, RegistryInv
<1>9. /\ IsFiniteSet(DOMAIN entries')
      /\ Cardinality(DOMAIN entries') <= MaxEntries /\ Cardinality(ActiveKeys') <= MaxActive
  <2>1. Cardinality(DOMAIN entries) < MaxEntries /\ Cardinality(ActiveKeys) < MaxActive
    BY <1>3, <1>8, Constants DEF Full, ActiveKeys
  <2>2. Cardinality(DOMAIN entries') = Cardinality(DOMAIN entries) + 1 /\ IsFiniteSet(DOMAIN entries')
    BY <1>3, <1>4, <1>8, FS_AddElement
  <2>3. k \notin ActiveKeys BY <1>3 DEF ActiveKeys
  <2>4. Cardinality(ActiveKeys') = Cardinality(ActiveKeys) + 1 BY <1>7, <1>8, <2>3, FS_AddElement
  <2> QED BY <2>1, <2>2, <2>4, <1>8, Constants
<1>10. /\ threadHeads' \in PartialFunctions(Threads, Requests)
       /\ conversationHeads' \in PartialFunctions(Conversations, Requests)
  <2>1. threadHeads' \in PartialFunctions(Threads, Requests)
    BY <1>1, WithType, Constants DEF Start, SessionsInv, RegistryInv
  <2>2. conversationHeads' \in PartialFunctions(Conversations, Requests)
    BY <1>1, WithType, Constants DEF Start, SessionsInv, RegistryInv
  <2> QED BY <2>1, <2>2
<1>11. \A j \in DOMAIN entries' : /\ phase'[entries'[j]] # "unborn"
                                  /\ phase'[entries'[j]] \in {"active", "refused"} => KeyOf[entries'[j]] = j
  BY <1>2, <1>4, <1>6 DEF SessionsInv, RegistryInv, IsActive
<1>12. NoOrphanRun'
  <2> SUFFICES ASSUME NEW s \in Requests, phase'[s] \in {"active", "refused"}, s \notin cancelled
               PROVE  s \in Range(entries')
    BY DEF NoOrphanRun, IsActive, Start
  <2>1. CASE s = r BY <2>1, <1>4 DEF Range
  <2>2. CASE s # r
    <3>1. PICK j \in DOMAIN entries : entries[j] = s
      BY <2>2, <1>2 DEF SessionsInv, RegistryInv, NoOrphanRun, IsActive, Range
    <3> QED BY <3>1, <1>3, <1>4 DEF Range
  <2> QED BY <2>1, <2>2
<1>13. RegistryInv'
  BY <1>4, <1>9, <1>10, <1>11, <1>12 DEF RegistryInv, IsActive
<1>14. TombstoneInv'
  BY <1>2, <1>3 DEF Start, tombstones, SessionsInv, TombstoneInv, DeadStaysDead, IsActive, Tombstoned
<1>15. CleanupInv' BY DEF Start, SessionsInv, CleanupInv
<1>16. RequestInv'
  BY <1>1, <1>2, Constants DEF Start, Creates, SessionsInv, RequestInv
<1> QED BY <1>2, <1>13, <1>14, <1>15, <1>16 DEF SessionsInv

\* A run leaves its conversation's queue from the front.
LEMMA SettledKeeps ==
  ASSUME RunInv, NEW s \in Requests, MaySettle(s), NEW to \in {"final", "failed"},
         phase' = [phase EXCEPT ![s] = to], queue' = Dequeued(s), cancelled' = cancelled \ {s},
         page' \subseteq Conversations, UNCHANGED <<over, attached>>
  PROVE  RunInv'
<1> DEFINE own == SessionConversation(s)
<1>1. /\ phase' \in [Requests -> {"unborn", "active", "refused", "final", "failed"}]
      /\ phase'[s] = to /\ \A x \in Requests \ {s} : phase'[x] = phase[x]
  BY DEF RunInv
<1>2. /\ over' \subseteq {x \in Requests : phase'[x] \in {"final", "failed"}}
      /\ cancelled' \subseteq {x \in Requests : phase'[x] \in {"active", "refused"}}
  BY <1>1 DEF RunInv, IsActive
<1>3. \A c \in Conversations : queue'[c] = IF c = own THEN Tail(queue[c]) ELSE queue[c]
  BY DEF Dequeued
<1>4. ASSUME NEW c \in Conversations
      PROVE  /\ queue'[c] \in Seq(Requests)
             /\ Range(queue'[c]) = {x \in Requests : SessionConversation(x) = c /\ phase'[x] = "active"}
             /\ \A i, j \in 1 .. Len(queue'[c]) : queue'[c][i] = queue'[c][j] => i = j
  <2>0. queue[c] \in Seq(Requests)
        /\ Range(queue[c]) = {x \in Requests : SessionConversation(x) = c /\ phase[x] = "active"}
        /\ \A i, j \in 1 .. Len(queue[c]) : queue[c][i] = queue[c][j] => i = j
    BY <1>4 DEF RunInv
  <2>1. CASE c # own
    <3>1. queue'[c] = queue[c] BY <2>1, <1>3
    <3>2. \A x \in Requests : SessionConversation(x) = c => phase'[x] = phase[x] BY <2>1, <1>1
    <3> QED BY <3>1, <3>2, <2>0
  <2>2. CASE c = own
    <3> DEFINE q == queue[c]
    <3>1. s = Head(q) /\ phase[s] = "active" BY <2>2, <1>4, Constants DEF MaySettle
    <3>2. q # <<>> /\ Len(q) \in Nat /\ DOMAIN q = 1 .. Len(q)
      <4>1. s \in Range(q) BY <2>0, <2>2, <3>1
      <4> QED BY <4>1, <2>0, LenProperties DEF Range
    <3>3. /\ q[1] = s /\ Tail(q) \in Seq(Requests) /\ Len(Tail(q)) = Len(q) - 1 /\ Len(q) >= 1
          /\ \A i \in 1 .. Len(q) - 1 : Tail(q)[i] = q[i + 1]
      BY <3>1, <3>2, <2>0, HeadTailProperties
    <3>4. queue'[c] = Tail(q) BY <1>3, <2>2
    <3>5. DOMAIN Tail(q) = 1 .. Len(q) - 1 BY <3>3, LenProperties
    <3>6. Range(Tail(q)) = Range(q) \ {s}
      <4>1. \A i \in 1 .. Len(q) - 1 : i + 1 \in 1 .. Len(q) /\ Tail(q)[i] = q[i + 1] /\ q[i + 1] # s
        BY <3>2, <3>3, <2>0
      <4>2. \A i \in 1 .. Len(q) : q[i] # s => i - 1 \in 1 .. Len(q) - 1 /\ Tail(q)[i - 1] = q[i]
        BY <3>2, <3>3
      <4> HIDE DEF q
      <4>3. Range(Tail(q)) \subseteq Range(q) \ {s} BY <4>1, <3>2, <3>5 DEF Range
      <4>4. Range(q) \ {s} \subseteq Range(Tail(q))
        <5> SUFFICES ASSUME NEW x \in Range(q), x # s PROVE x \in Range(Tail(q)) OBVIOUS
        <5>1. PICK i \in 1 .. Len(q) : q[i] = x BY <3>2 DEF Range
        <5>2. i - 1 \in 1 .. Len(q) - 1 /\ Tail(q)[i - 1] = x BY <5>1, <4>2
        <5> QED BY <5>2, <3>5 DEF Range
      <4> QED BY <4>3, <4>4
    <3>7. {x \in Requests : SessionConversation(x) = c /\ phase'[x] = "active"}
            = {x \in Requests : SessionConversation(x) = c /\ phase[x] = "active"} \ {s}
      BY <1>1
    <3>8. \A i, j \in 1 .. Len(Tail(q)) : Tail(q)[i] = Tail(q)[j] => i = j
      BY <3>2, <3>3, <2>0
    <3> QED BY <3>3, <3>4, <3>6, <3>7, <3>8, <2>0
  <2> QED BY <2>1, <2>2
<1>5. queue' \in [Conversations -> Seq(Requests)]
  <2>1. queue' = [c \in Conversations |-> queue'[c]] BY DEF Dequeued
  <2> QED BY <2>1, <1>4
<1>6. attached' \subseteq {x \in Requests : SessionConversation(x) # NoConversation} BY DEF RunInv
<1> QED BY <1>1, <1>2, <1>4, <1>5, <1>6 DEF RunInv, IsActive, SessionConversation

\* A session that is no longer active burdens the registry less.
LEMMA InactiveKeeps ==
  ASSUME SessionsInv, NEW s \in Requests, phase[s] \in {"active", "refused"}, NEW to \in {"final", "failed"},
         phase' = [phase EXCEPT ![s] = to], cancelled' = cancelled \ {s},
         UNCHANGED <<registry, cleanups, stage, mine, controls>>
  PROVE  RegistryInv' /\ TombstoneInv' /\ CleanupInv' /\ RequestInv'
<1>1. phase'[s] = to /\ \A x \in Requests \ {s} : phase'[x] = phase[x]
  BY DEF SessionsInv, RunInv
<1>2. entries \in [DOMAIN entries -> Requests] BY Partial DEF SessionsInv, RegistryInv
<1>3. RegistryInv'
  <2>1. /\ entries' \in PartialFunctions(Keys, Requests)
        /\ conversationHeads' \in PartialFunctions(Conversations, Requests)
        /\ threadHeads' \in PartialFunctions(Threads, Requests)
        /\ IsFiniteSet(DOMAIN entries') /\ Cardinality(DOMAIN entries') <= MaxEntries
    BY DEF SessionsInv, RegistryInv, registry
  <2>2. Cardinality(ActiveKeys') <= MaxActive
    <3>1. IsFiniteSet(ActiveKeys) BY FS_Subset DEF SessionsInv, RegistryInv, ActiveKeys
    <3>2. ActiveKeys' \subseteq ActiveKeys
      BY <1>1, <1>2 DEF ActiveKeys, IsActive, registry
    <3>3. Cardinality(ActiveKeys') <= Cardinality(ActiveKeys)
          /\ Cardinality(ActiveKeys') \in Nat /\ Cardinality(ActiveKeys) \in Nat
      BY <3>1, <3>2, FS_Subset, FS_CardinalityType
    <3> QED BY <3>3, Constants DEF SessionsInv, RegistryInv
  <2>3. \A k \in DOMAIN entries : /\ phase'[entries[k]] # "unborn"
                                  /\ phase'[entries[k]] \in {"active", "refused"} => KeyOf[entries[k]] = k
    BY <1>1, <1>2 DEF SessionsInv, RegistryInv, IsActive
  <2>4. NoOrphanRun'
    BY <1>1 DEF SessionsInv, RegistryInv, NoOrphanRun, IsActive, registry
  <2> QED BY <2>1, <2>2, <2>3, <2>4 DEF RegistryInv, IsActive, registry
<1>4. TombstoneInv'
  BY <1>1 DEF SessionsInv, TombstoneInv, DeadStaysDead, IsActive, registry
<1>5. CleanupInv' BY DEF SessionsInv, CleanupInv
<1>6. RequestInv' BY <1>1 DEF SessionsInv, RequestInv
<1> QED BY <1>3, <1>4, <1>5, <1>6

LEMMA SettlesKeeps ==
  ASSUME SessionsInv, NEW s \in Requests, Settles(s)
  PROVE  SessionsInv'
<1>1. CASE SettleFinal(s)
  <2>1. page' \subseteq Conversations
    BY <1>1, Constants DEF SettleFinal, SessionsInv, RunInv
  <2>2. RunInv' BY <1>1, <2>1, SettledKeeps DEF SettleFinal, SessionsInv
  <2>3. RegistryInv' /\ TombstoneInv' /\ CleanupInv' /\ RequestInv'
    BY <1>1, InactiveKeeps DEF SettleFinal, MaySettle
  <2> QED BY <2>2, <2>3 DEF SessionsInv
<1>2. CASE SettleFailed(s)
  <2>1. page' \subseteq Conversations
    BY <1>2 DEF SettleFailed, SessionsInv, RunInv
  <2>2. RunInv' BY <1>2, <2>1, SettledKeeps DEF SettleFailed, SessionsInv
  <2>3. RegistryInv' /\ TombstoneInv' /\ CleanupInv' /\ RequestInv'
    BY <1>2, InactiveKeeps DEF SettleFailed, MaySettle
  <2> QED BY <2>2, <2>3 DEF SessionsInv
<1>3. CASE SettleRefused(s)
  <2>1. phase'[s] = "failed" /\ \A x \in Requests \ {s} : phase'[x] = phase[x]
    BY <1>3 DEF SettleRefused, SessionsInv, RunInv
  <2>2. \A x \in Requests : phase'[x] = "active" <=> phase[x] = "active"
    BY <1>3, <2>1 DEF SettleRefused
  <2>3. RunInv'
    <3>1. /\ phase' \in [Requests -> {"unborn", "active", "refused", "final", "failed"}]
          /\ over' \subseteq {x \in Requests : phase'[x] \in {"final", "failed"}}
          /\ cancelled' \subseteq {x \in Requests : phase'[x] \in {"active", "refused"}}
      BY <1>3, <2>1 DEF SettleRefused, SessionsInv, RunInv, IsActive
    <3>2. UNCHANGED <<attached, page, queue>> BY <1>3 DEF SettleRefused
    <3> QED BY <3>1, <3>2, <2>2 DEF SessionsInv, RunInv, IsActive, SessionConversation
  <2>4. RegistryInv' /\ TombstoneInv' /\ CleanupInv' /\ RequestInv'
    BY <1>3, InactiveKeeps DEF SettleRefused
  <2> QED BY <2>3, <2>4 DEF SessionsInv
<1> QED BY <1>1, <1>2, <1>3 DEF Settles

LEMMA PhysicallyOverKeeps ==
  ASSUME SessionsInv, NEW s \in Requests, PhysicallyOver(s)
  PROVE  SessionsInv'
<1> USE DEF SessionsInv, PhysicallyOver
<1>1. RegistryInv' BY RegistryFrame DEF registry
<1>2. TombstoneInv' BY TombstoneFrame DEF registry
<1>3. RunInv' BY DEF RunInv, IsActive, SessionConversation
<1>4. CleanupInv' BY DEF CleanupInv
<1>5. RequestInv' BY RequestFrame DEF RequestInv
<1> QED BY <1>1, <1>2, <1>3, <1>4, <1>5

\* How a request on a session ends.
LEMMA EndsKeeps ==
  ASSUME SessionsInv, NEW r \in Requests, Ends(r)
  PROVE  SessionsInv'
<1>0. RequestInv'
  <2>1. /\ stage' = [stage EXCEPT ![r] = "done"] /\ mine' = [mine EXCEPT ![r] = NoSession]
        /\ UNCHANGED <<phase, controls>>
    BY DEF Ends, Answered, FailForGood, Fail, Leaves, Goes, browser
  <2> QED BY <2>1, Constants DEF SessionsInv, RequestInv
<1>1. CASE Answered(r)
  <2> USE <1>1 DEF SessionsInv, Answered, browser, registry
  <2>1. RegistryInv' BY RegistryFrame
  <2>2. TombstoneInv' BY TombstoneFrame
  <2>3. RunInv' BY RunFrame DEF RunInv
  <2>4. CleanupInv' BY DEF CleanupInv
  <2> QED BY <1>0, <2>1, <2>2, <2>3, <2>4
<1>2. CASE FailForGood(r)
  <2>1. mine[r] \in Requests
    BY <1>2 DEF FailForGood, Leaves, Goes, SessionsInv, RequestInv
  <2>2. cancelled' = cancelled \cup {s \in {mine[r]} : IsActive(s)} /\ UNCHANGED <<registry, browser, attached, cleanups>>
    BY <1>2 DEF FailForGood, Cancel
  <2>3. cancelled \subseteq cancelled' /\ cancelled' \subseteq {s \in Requests : IsActive(s)}
    BY <2>1, <2>2 DEF SessionsInv, RunInv
  <2>4. RegistryInv'
    BY <2>2, <2>3 DEF SessionsInv, RegistryInv, ActiveKeys, NoOrphanRun, IsActive, registry, browser
  <2>5. TombstoneInv' BY <2>2, <2>3, TombstoneFrame DEF SessionsInv, registry, browser
  <2>6. RunInv' BY <2>2, <2>3, RunFrame DEF SessionsInv, browser
  <2>7. CleanupInv' BY <2>2 DEF SessionsInv, CleanupInv
  <2> QED BY <1>0, <2>4, <2>5, <2>6, <2>7 DEF SessionsInv
<1>3. CASE Fail(r)
  <2>1. CASE StillMine(r)
    <3>1. /\ {KeyOf[r]} \in SUBSET DOMAIN entries /\ Retire({KeyOf[r]})
          /\ cleanups' = cleanups \cup Cleanup(Background, {KeyOf[r]})
          /\ UNCHANGED <<tombstones, browser, attached>>
      BY <1>3, <2>1 DEF Fail, StillMine
    <3>2. /\ RegistryInv' /\ cancelled \subseteq cancelled'
          /\ cancelled' \subseteq {s \in Requests : IsActive(s)}
      BY <3>1, RetireKeeps DEF SessionsInv, browser
    <3>3. TombstoneInv' BY <3>1, <3>2, TombstoneFrame DEF SessionsInv, tombstones, browser
    <3>4. RunInv' BY <3>1, <3>2, RunFrame DEF SessionsInv, browser
    <3>5. CleanupInv' BY <3>1, CleanupType, OwnerTypes DEF SessionsInv, CleanupInv
    <3> QED BY <1>0, <3>2, <3>3, <3>4, <3>5 DEF SessionsInv
  <2>2. CASE ~StillMine(r)
    <3>1. UNCHANGED <<entries, threadHeads, conversationHeads, cancelled, cleanups, tombstones, browser, attached>>
      BY <1>3, <2>2 DEF Fail
    <3> USE <3>1 DEF SessionsInv, browser, tombstones
    <3>2. RegistryInv' BY RegistryFrame
    <3>3. TombstoneInv' BY TombstoneFrame
    <3>4. RunInv' BY RunFrame DEF RunInv
    <3>5. CleanupInv' BY DEF CleanupInv
    <3> QED BY <1>0, <3>2, <3>3, <3>4, <3>5
  <2> QED BY <2>1, <2>2
<1> QED BY <1>1, <1>2, <1>3 DEF Ends

LEMMA CleansKeeps ==
  ASSUME SessionsInv, Cleans
  PROVE  SessionsInv'
<1>1. PICK d \in cleanups : CleanupEnds(d) \/ \E c \in Conversations : Release(d, c)
  BY DEF Cleans
<1>2. UNCHANGED <<registry, phase, over, queue, cancelled, attached, stage, mine, controls>>
      /\ page' \subseteq page
  BY <1>1 DEF CleanupEnds, Release, browser
<1>3. CleanupInv'
  <2>1. d \in [owner : Owners, after : SUBSET Requests, releases : SUBSET Conversations]
    BY DEF SessionsInv, CleanupInv
  <2>2. CASE CleanupEnds(d) BY <2>2 DEF CleanupEnds, SessionsInv, CleanupInv
  <2>3. ASSUME NEW c \in Conversations, Release(d, c) PROVE CleanupInv'
    <3>1. [d EXCEPT !.releases = @ \ {c}] \in [owner : Owners, after : SUBSET Requests, releases : SUBSET Conversations]
      BY <2>1
    <3> QED BY <2>3, <3>1 DEF Release, SessionsInv, CleanupInv
  <2> QED BY <1>1, <2>2, <2>3
<1> USE <1>2 DEF SessionsInv, registry
<1>4. RegistryInv' BY RegistryFrame
<1>5. TombstoneInv' BY TombstoneFrame
<1>6. RunInv' BY DEF RunInv, IsActive, SessionConversation
<1>7. RequestInv' BY RequestFrame DEF RequestInv
<1> QED BY <1>3, <1>4, <1>5, <1>6, <1>7

\* A control takes one off their number.
LEMMA ControlKeeps ==
  ASSUME RequestInv, Control, UNCHANGED <<stage, mine, phase>>
  PROVE  RequestInv'
BY RequestFrame DEF RequestInv, Control

\* What the explicit cancellations have in common.
LEMMA CancelKeeps ==
  ASSUME SessionsInv, NEW ks \in SUBSET DOMAIN entries, CancelExplicitly(ks), CleanupInv'
  PROVE  SessionsInv'
<1>1. /\ Retire(ks) /\ Control /\ explicitTombstones' = Buried(explicitTombstones, ks)
      /\ UNCHANGED <<supersededTombstones, phase, over, queue, page, attached, stage, mine>>
  BY DEF CancelExplicitly, browser
<1>2. /\ RegistryInv' /\ cancelled \subseteq cancelled'
      /\ cancelled' \subseteq {s \in Requests : IsActive(s)}
      /\ \A s \in Requests : IsActive(s) /\ KeyOf[s] \in ks => s \in cancelled'
  BY <1>1, RetireKeeps DEF SessionsInv
<1>3. TombstoneInv' BY <1>1, <1>2, BuryKeeps DEF SessionsInv
<1>4. RunInv' BY <1>1, <1>2, RunFrame DEF SessionsInv
<1>5. RequestInv' BY <1>1, ControlKeeps DEF SessionsInv
<1> QED BY <1>2, <1>3, <1>4, <1>5 DEF SessionsInv

LEMMA CancelAllKeeps ==
  ASSUME SessionsInv, CancelAllExplicitly
  PROVE  SessionsInv'
<1>1. conversationHeads \in [DOMAIN conversationHeads -> Requests] /\ DOMAIN conversationHeads \subseteq Conversations
  BY Partial DEF SessionsInv, RegistryInv
<1>2. {[owner |-> Background, after |-> {conversationHeads[c]}, releases |-> {c}] : c \in DOMAIN conversationHeads}
        \subseteq [owner : Owners, after : SUBSET Requests, releases : SUBSET Conversations]
  BY <1>1, OwnerTypes
<1>3. CleanupInv' BY <1>2 DEF CancelAllExplicitly, SessionsInv, CleanupInv
<1>4. DOMAIN entries \in SUBSET DOMAIN entries OBVIOUS
<1> QED BY <1>3, <1>4, CancelKeeps DEF CancelAllExplicitly

LEMMA PruneKeeps ==
  ASSUME SessionsInv, NEW k \in DOMAIN entries, Prune(k)
  PROVE  SessionsInv'
<1>1. /\ {k} \in SUBSET DOMAIN entries /\ Retire({k}) /\ Control
      /\ cleanups' = cleanups \cup Cleanup(Background, {k})
      /\ UNCHANGED <<tombstones, phase, over, queue, page, attached, stage, mine>>
  BY DEF Prune, browser
<1>2. /\ RegistryInv' /\ cancelled \subseteq cancelled'
      /\ cancelled' \subseteq {s \in Requests : IsActive(s)}
  BY <1>1, RetireKeeps DEF SessionsInv
<1>3. TombstoneInv' BY <1>1, <1>2, TombstoneFrame DEF SessionsInv, tombstones
<1>4. RunInv' BY <1>1, <1>2, RunFrame DEF SessionsInv
<1>5. RequestInv' BY <1>1, ControlKeeps DEF SessionsInv
<1>6. CleanupInv' BY <1>1, CleanupType, OwnerTypes DEF SessionsInv, CleanupInv
<1> QED BY <1>2, <1>3, <1>4, <1>5, <1>6 DEF SessionsInv

\* closeConversationAndWait: the sessions that own the conversation leave the
\* registry, except for a final one, which may get another key.
LEMMA CloseConversationKeeps ==
  ASSUME SessionsInv, NEW c \in Conversations, NEW kept, NEW at, CloseConversation(c, kept, at),
         kept = {} \/ (at \in Keys /\ \E s \in Requests : kept = {s})
  PROVE  SessionsInv'
<1> DEFINE matches == {k \in DOMAIN entries : entries[k] \in attached /\ SessionConversation(entries[k]) = c}
           sessions == SessionsAt(matches)
           left == DOMAIN entries \ matches
           stay == Restrict(entries, left)
           it == CHOOSE s \in kept : TRUE
<1>1. /\ matches # {} /\ Control
      /\ \A s \in kept : s \in sessions /\ phase[s] = "final" /\ (at \in DOMAIN entries => entries[at] = s)
      /\ conversationHeads' = Restrict(conversationHeads, DOMAIN conversationHeads \ {c})
      /\ threadHeads' = Without(threadHeads, sessions)
      /\ entries' = IF kept = {} THEN stay ELSE With(stay, at, it)
      /\ cancelled' = cancelled \cup {s \in sessions : IsActive(s)}
      /\ attached' = attached \ sessions
      /\ cleanups' = cleanups \cup {[owner |-> ByConversation(c), after |-> sessions, releases |-> {c}]}
      /\ UNCHANGED <<tombstones, phase, over, queue, page, stage, mine>>
  BY DEF CloseConversation, Cancel, browser
<1>2. /\ DOMAIN entries \subseteq Keys /\ entries \in [DOMAIN entries -> Requests]
      /\ matches \in SUBSET DOMAIN entries /\ left \in SUBSET DOMAIN entries /\ sessions \subseteq Requests
  BY Partial DEF SessionsInv, RegistryInv, SessionsAt
<1>3. stay \in PartialFunctions(Keys, Requests) /\ DOMAIN stay = left /\ \A k \in left : stay[k] = entries[k]
  <2>1. entries \in PartialFunctions(Keys, Requests) BY DEF SessionsInv, RegistryInv
  <2> QED BY <1>2, <2>1, RestrictType
<1>4. cancelled \subseteq cancelled' /\ cancelled' \subseteq {s \in Requests : IsActive(s)}
  BY <1>1, <1>2 DEF SessionsInv, RunInv
<1>5. conversationHeads' \in PartialFunctions(Conversations, Requests)
      /\ threadHeads' \in PartialFunctions(Threads, Requests)
  BY <1>1, RestrictType, WithoutType DEF SessionsInv, RegistryInv
<1>6. IsFiniteSet(left) /\ Cardinality(left) \in Nat /\ Cardinality(DOMAIN entries) \in Nat
      /\ Cardinality(left) < Cardinality(DOMAIN entries) /\ Cardinality(DOMAIN entries) <= MaxEntries
  <2>1. IsFiniteSet(DOMAIN entries) /\ left # DOMAIN entries BY <1>1, <1>2 DEF SessionsInv, RegistryInv
  <2>2. IsFiniteSet(left) /\ Cardinality(left) <= Cardinality(DOMAIN entries)
        /\ Cardinality(left) # Cardinality(DOMAIN entries)
    BY <1>2, <2>1, FS_Subset
  <2> QED BY <2>1, <2>2, FS_CardinalityType DEF SessionsInv, RegistryInv
<1>7. \A s \in Requests : IsActive(s) /\ s \notin cancelled' => \E k \in left : entries[k] = s
  <2> SUFFICES ASSUME NEW s \in Requests, IsActive(s), s \notin cancelled' PROVE \E k \in left : entries[k] = s
    OBVIOUS
  <2>1. PICK k \in DOMAIN entries : entries[k] = s
    BY <1>1 DEF SessionsInv, RegistryInv, NoOrphanRun, Range
  <2>2. k \notin matches BY <2>1, <1>1 DEF SessionsAt
  <2> QED BY <2>1, <2>2
<1>8. \* The new map, whether something is kept or not.
      /\ entries' \in PartialFunctions(Keys, Requests)
      /\ IsFiniteSet(DOMAIN entries') /\ Cardinality(DOMAIN entries') <= MaxEntries
      /\ left \subseteq DOMAIN entries' /\ \A k \in left : entries'[k] = entries[k]
      /\ \A k \in DOMAIN entries' \ left : phase[entries'[k]] = "final"
  <2>1. CASE kept = {}
    <3>1. entries' = stay BY <1>1, <2>1
    <3>2. /\ entries' \in PartialFunctions(Keys, Requests)
          /\ DOMAIN entries' = left /\ \A k \in left : entries'[k] = entries[k]
      BY <3>1, <1>3
    <3>3. IsFiniteSet(DOMAIN entries') /\ Cardinality(DOMAIN entries') = Cardinality(left) BY <3>2, <1>6
    <3>4. Cardinality(DOMAIN entries') <= MaxEntries BY <3>3, <1>6, Constants
    <3> HIDE DEF left
    <3>5. left \subseteq DOMAIN entries' /\ \A k \in DOMAIN entries' \ left : phase[entries'[k]] = "final"
      BY <3>2
    <3> QED BY <3>2, <3>3, <3>4, <3>5
  <2>2. CASE kept # {}
    <3>1. at \in Keys /\ it \in kept /\ it \in Requests BY <2>2
    <3>2. it \in sessions /\ phase[it] = "final" /\ (at \in DOMAIN entries => entries[at] = it)
      BY <1>1, <3>1
    <3>3. at \notin left
      <4>1. PICK k \in matches : entries[k] = it BY <3>2 DEF SessionsAt
      <4>2. at \in DOMAIN entries => at \in matches BY <4>1, <3>2
      <4> QED BY <4>2
    <3>4. /\ entries' = With(stay, at, it) BY <1>1, <2>2
    <3>5. entries' \in PartialFunctions(Keys, Requests) BY <3>1, <3>4, <1>3, WithType
    <3>6. DOMAIN entries' = left \cup {at} /\ entries'[at] = it /\ \A k \in left : entries'[k] = entries[k]
      BY <3>3, <3>4, <1>3 DEF With
    <3>7. IsFiniteSet(DOMAIN entries') /\ Cardinality(DOMAIN entries') = Cardinality(left) + 1
      BY <3>3, <3>6, <1>6, FS_AddElement
    <3>8. Cardinality(DOMAIN entries') <= MaxEntries BY <3>7, <1>6, Constants
    <3> QED BY <3>2, <3>5, <3>6, <3>7, <3>8
  <2> QED BY <2>1, <2>2
<1>9. Cardinality(ActiveKeys') <= MaxActive
  <2>1. IsFiniteSet(ActiveKeys) BY FS_Subset DEF SessionsInv, RegistryInv, ActiveKeys
  <2>2. ActiveKeys' \subseteq ActiveKeys
    <3> HIDE DEF left
    <3> SUFFICES ASSUME NEW k \in ActiveKeys' PROVE k \in ActiveKeys OBVIOUS
    <3>1. k \in DOMAIN entries' /\ phase[entries'[k]] \in {"active", "refused"}
      BY <1>1 DEF ActiveKeys, IsActive
    <3>2. k \in left /\ entries[k] = entries'[k] BY <3>1, <1>8
    <3> QED BY <3>1, <3>2, <1>2 DEF ActiveKeys, IsActive
  <2>3. Cardinality(ActiveKeys') <= Cardinality(ActiveKeys)
        /\ Cardinality(ActiveKeys') \in Nat /\ Cardinality(ActiveKeys) \in Nat
    BY <2>1, <2>2, FS_Subset, FS_CardinalityType
  <2> QED BY <2>3, Constants DEF SessionsInv, RegistryInv
<1>10. \A k \in DOMAIN entries' : /\ phase[entries'[k]] # "unborn"
                                  /\ IsActive(entries'[k]) => KeyOf[entries'[k]] = k
  BY <1>2, <1>8 DEF SessionsInv, RegistryInv, IsActive
<1>11. NoOrphanRun'
  BY <1>1, <1>7, <1>8 DEF NoOrphanRun, IsActive, Range
<1>12. RegistryInv' BY <1>1, <1>5, <1>8, <1>9, <1>10, <1>11 DEF RegistryInv, IsActive
<1>13. TombstoneInv' BY <1>1, <1>4, TombstoneFrame DEF SessionsInv, tombstones
<1>14. RunInv' BY <1>1, <1>4, RunFrame DEF SessionsInv
<1>15. RequestInv' BY <1>1, ControlKeeps DEF SessionsInv
<1>16. CleanupInv'
  <2>1. [owner |-> ByConversation(c), after |-> sessions, releases |-> {c}]
          \in [owner : Owners, after : SUBSET Requests, releases : SUBSET Conversations]
    BY <1>2, OwnerTypes
  <2> QED BY <1>1, <2>1 DEF SessionsInv, CleanupInv
<1> QED BY <1>12, <1>13, <1>14, <1>15, <1>16 DEF SessionsInv

LEMMA RetireThreadKeeps ==
  ASSUME SessionsInv, NEW t \in Threads, RetireThread(t)
  PROVE  SessionsInv'
<1>1. threadHeads[t] \in Requests
  BY Partial DEF RetireThread, SessionsInv, RegistryInv
<1>2. CASE /\ threadHeads[t] \in attached
           /\ RetireConversation(SessionConversation(threadHeads[t]))
  <2>1. SessionConversation(threadHeads[t]) \in Conversations
    BY <1>1, <1>2, Constants DEF SessionsInv, RunInv
  <2> QED BY <1>2, <2>1, CloseConversationKeeps DEF RetireConversation
<1>3. ASSUME NEW k \in DOMAIN entries, RetireAndWait(k), Control,
             UNCHANGED <<tombstones, browser, attached, stage, mine>>
      PROVE  SessionsInv'
  <2>1. k \in Keys BY Partial DEF SessionsInv, RegistryInv
  <2>2. /\ RegistryInv' /\ CleanupInv' /\ TombstoneInv'
        /\ cancelled' \subseteq {s \in Requests : IsActive(s)}
    BY <1>3, <2>1, RetireAndWaitKeeps DEF SessionsInv, browser, tombstones
  <2>3. RunInv' BY <1>3, <2>2, RunFrame DEF SessionsInv, browser
  <2>4. RequestInv' BY <1>3, ControlKeeps DEF SessionsInv, browser
  <2> QED BY <2>2, <2>3, <2>4 DEF SessionsInv
<1> QED BY <1>2, <1>3 DEF RetireThread

LEMMA ControlsKeeps ==
  ASSUME SessionsInv, Controls
  PROVE  SessionsInv'
<1>1. ASSUME NEW k \in Keys, CancelNativeTurn(k) PROVE SessionsInv'
  <2> DEFINE ks == {j \in DOMAIN entries : LET own == KeyOf[entries[j]] IN
                      ThreadOf[own] = ThreadOf[k] /\ TurnOf[own] = TurnOf[k]}
  <2>1. /\ ks \in SUBSET DOMAIN entries /\ CancelExplicitly(ks)
        /\ cleanups' = cleanups \cup Cleanup(Background, ks)
    BY <1>1 DEF CancelNativeTurn
  <2>2. CleanupInv' BY <2>1, CleanupType, OwnerTypes DEF SessionsInv, CleanupInv
  <2> QED BY <2>1, <2>2, CancelKeeps
<1>2. ASSUME NEW k \in Keys, CancelTrace(k) PROVE SessionsInv'
  <2> DEFINE ks == {j \in DOMAIN entries : IsActive(entries[j]) /\ KeyOf[entries[j]] = k}
  <2>1. /\ ks \in SUBSET DOMAIN entries /\ CancelExplicitly(ks)
        /\ cleanups' = cleanups \cup Cleanup(Background, ks)
    BY <1>2 DEF CancelTrace
  <2>2. CleanupInv' BY <2>1, CleanupType, OwnerTypes DEF SessionsInv, CleanupInv
  <2> QED BY <2>1, <2>2, CancelKeeps
<1>3. CASE CancelAllExplicitly BY <1>3, CancelAllKeeps
<1>4. ASSUME NEW c \in Conversations, RetireConversation(c) PROVE SessionsInv'
  BY <1>4, CloseConversationKeeps DEF RetireConversation
<1>5. ASSUME NEW c \in Conversations, RetireConversationPreserving(c) PROVE SessionsInv'
  <2>1. PICK s \in Requests, k \in Keys : CloseConversation(c, {s}, k)
    BY <1>5 DEF RetireConversationPreserving
  <2> QED BY <2>1, CloseConversationKeeps
<1>6. ASSUME NEW t \in Threads, RetireThread(t) PROVE SessionsInv'
  BY <1>6, RetireThreadKeeps
<1> QED BY <1>1, <1>2, <1>3, <1>4, <1>5, <1>6 DEF Controls

-----------------------------------------------------------------------------
(* The theorems.                                                            *)

LEMMA SessionsStart == Init => SessionsInv
<1> SUFFICES ASSUME Init PROVE SessionsInv OBVIOUS
<1> USE DEF Init, SessionsInv
<1>1. RegistryInv
  <2>1. /\ entries \in PartialFunctions(Keys, Requests) /\ DOMAIN entries = {}
        /\ conversationHeads \in PartialFunctions(Conversations, Requests)
        /\ threadHeads \in PartialFunctions(Threads, Requests)
    BY NoneIsPartial
  <2>2. ActiveKeys = {} BY <2>1 DEF ActiveKeys
  <2>3. NoOrphanRun BY DEF NoOrphanRun, IsActive
  <2> QED BY <2>1, <2>2, <2>3, FS_EmptySet, Constants DEF RegistryInv
<1>2. TombstoneInv
  BY Constants DEF TombstoneInv, DeadStaysDead, IsActive
<1>3. RunInv
  <2>1. \A c \in Conversations : Range(queue[c]) = {} /\ Len(queue[c]) = 0 BY DEF Range
  <2>2. queue \in [Conversations -> Seq(Requests)] OBVIOUS
  <2> QED BY <2>1, <2>2 DEF RunInv
<1>4. CleanupInv BY DEF CleanupInv
<1>5. RequestInv
  <2>1. PICK s \in Scenarios : stage = [r \in Requests |-> IF r \in s.asks THEN "new" ELSE "done"]
                               /\ controls = s.controls
    OBVIOUS
  <2>2. s.controls \in Nat BY SessionsAssumption
  <2> QED BY <2>1, <2>2 DEF RequestInv
<1> QED BY <1>1, <1>2, <1>3, <1>4, <1>5

LEMMA SessionsInductive == SessionsInv /\ [Next]_vars => SessionsInv'
<1> SUFFICES ASSUME SessionsInv, [Next]_vars PROVE SessionsInv' OBVIOUS
<1>1. ASSUME NEW r \in Requests, Continues(r) PROVE SessionsInv'
  BY <1>1, PreemptKeeps, RefuseKeeps, JoinKeeps, StartKeeps DEF Continues
<1>2. ASSUME NEW r \in Requests, RetireSource(r) \/ Ends(r) \/ Settles(r) \/ PhysicallyOver(r)
      PROVE  SessionsInv'
  BY <1>2, RetireSourceKeeps, EndsKeeps, SettlesKeeps, PhysicallyOverKeeps
<1>3. CASE Cleans BY <1>3, CleansKeeps
<1>4. CASE Controls BY <1>4, ControlsKeeps
<1>5. ASSUME NEW k \in DOMAIN entries, Prune(k) PROVE SessionsInv'
  BY <1>5, PruneKeeps
<1>6. CASE UNCHANGED vars
  <2> USE <1>6 DEF vars, registry, browser, SessionsInv
  <2>1. RegistryInv' BY RegistryFrame
  <2>2. TombstoneInv' BY TombstoneFrame
  <2>3. RunInv' BY RunFrame DEF RunInv
  <2>4. CleanupInv' BY DEF CleanupInv
  <2>5. RequestInv' BY RequestFrame DEF RequestInv
  <2> QED BY <2>1, <2>2, <2>3, <2>4, <2>5
<1> QED BY <1>1, <1>2, <1>3, <1>4, <1>5, <1>6 DEF Next

\* The state of the registry and of the requests is well typed, and a
\* conversation's queue is the set of its unsettled runs, for any number of
\* requests, keys and conversations (ChatGptTurnSessions).
THEOREM SessionsTypeCorrect == Spec => []TypeOK
<1>1. SessionsInv => TypeOK
  <2> SUFFICES ASSUME SessionsInv PROVE TypeOK OBVIOUS
  <2> USE DEF SessionsInv
  <2>1. /\ entries \in PartialFunctions(Keys, Requests)
        /\ conversationHeads \in PartialFunctions(Conversations, Requests)
        /\ threadHeads \in PartialFunctions(Threads, Requests)
    BY DEF RegistryInv
  <2>2. explicitTombstones \in Seq(Keys) /\ supersededTombstones \in Seq(Keys) BY DEF TombstoneInv
  <2>3. /\ phase \in [Requests -> {"unborn", "active", "refused", "final", "failed"}]
        /\ over \subseteq {s \in Requests : phase[s] \in {"final", "failed"}}
        /\ cancelled \subseteq {s \in Requests : IsActive(s)} /\ attached \subseteq Requests
        /\ page \subseteq Conversations
        /\ \A c \in Conversations :
             Range(queue[c]) = {s \in Requests : SessionConversation(s) = c /\ phase[s] = "active"}
    BY DEF RunInv
  <2>4. cleanups \subseteq [owner : Owners, after : SUBSET Requests, releases : SUBSET Conversations]
    BY DEF CleanupInv
  <2> QED BY <2>1, <2>2, <2>3, <2>4 DEF TypeOK, RequestInv
<1> QED BY <1>1, SessionsStart, SessionsInductive, PTL DEF Spec

\* A request that ends takes only its own session away.
LEMMA EndsTakesItsOwn ==
  ASSUME SessionsInv PROVE EndsOnlyItsOwn
<1> SUFFICES ASSUME NEW r \in Requests, Ends(r)
             PROVE  (Range(entries) \ Range(entries')) \cup (cancelled' \ cancelled) \subseteq {mine[r]}
  BY DEF EndsOnlyItsOwn
<1>1. CASE Answered(r) BY <1>1 DEF Answered, registry
<1>2. CASE FailForGood(r) BY <1>2 DEF FailForGood, registry, Cancel
<1>3. CASE Fail(r) /\ ~StillMine(r) BY <1>3 DEF Fail
<1>4. CASE Fail(r) /\ StillMine(r)
  <2>1. /\ KeyOf[r] \in DOMAIN entries /\ entries[KeyOf[r]] = mine[r] /\ Retire({KeyOf[r]})
    BY <1>4 DEF Fail, StillMine
  <2>2. SessionsAt({KeyOf[r]}) = {mine[r]} BY <2>1 DEF SessionsAt
  <2>3. cancelled' \ cancelled \subseteq {mine[r]} BY <2>1, <2>2 DEF Retire, Cancel
  <2>4. DOMAIN entries' = DOMAIN entries \ {KeyOf[r]} /\ \A k \in DOMAIN entries' : entries'[k] = entries[k]
    BY <2>1 DEF Retire, Restrict
  <2>5. Range(entries) \ Range(entries') \subseteq {mine[r]} BY <2>1, <2>4 DEF Range
  <2> QED BY <2>3, <2>5
<1> QED BY <1>1, <1>2, <1>3, <1>4 DEF Ends

\* The registry keeps within its limits; a turn whose key is tombstoned does
\* not run on, and a run nobody can reach any more was told to stop; and a
\* request that ends takes nothing away but its own session (getOrCreate,
\* cancelExplicitly, preemptSupersededThread, retire).
THEOREM RegistryTellsTheTruth == Spec => RegistryIsTrue
<1>1. SessionsInv => Limits /\ DeadStaysDead /\ NoOrphanRun
  BY DEF SessionsInv, RegistryInv, TombstoneInv, Limits, ActiveKeys
<1>2. SessionsInv' => Limits' /\ DeadStaysDead' /\ NoOrphanRun'
  BY <1>1, PTL
<1>3. SessionsInv /\ [Next]_vars => [Limits' /\ DeadStaysDead' /\ NoOrphanRun' /\ EndsOnlyItsOwn]_vars
  <2>1. SessionsInv /\ [Next]_vars => SessionsInv' BY SessionsInductive
  <2> QED BY <2>1, <1>2, EndsTakesItsOwn
<1> QED BY <1>3, SessionsStart, SessionsInductive, PTL DEF Spec, RegistryIsTrue
=============================================================================
