------------------------- MODULE BrowserWorkerProofs -------------------------
(***************************************************************************)
(* Proofs about BrowserWorker: the pool's pages are accounted for, and a   *)
(* turn's messages, choice and answer are right, for any runs,             *)
(* conversations, limit and number of faults.                              *)
(*                                                                         *)
(* The invariant is one of the pool (PoolInv) and one of the turn          *)
(* (TurnInv); a step of one leaves the variables of the other alone.  The  *)
(* pool's steps are of three shapes, each with a lemma that carries the    *)
(* whole invariant over it: a run that has begun moves on (RunSteps), a    *)
(* page or a closing ends (StillSteps), a turn arrives (ArrivingKeeps).    *)
(* The turn's are of two: a step that sends nothing and leaves the answer  *)
(* alone (QuietSteps), and one of the answer (AnswerSteps); Insert and     *)
(* Send stand alone.                                                       *)
(***************************************************************************)
EXTENDS BrowserWorker, FiniteSetTheorems, SequenceTheorems, TLAPS

-----------------------------------------------------------------------------
(* The pool's inductive invariant.                                         *)

States == {"idle", "queued", "probing", "dropping", "kept", "fresh", "connected", "working", "closing", "over"}
Entry == [key : Keys, tab : Nat]
SlotRecord == [state : {"none", "ready", "closing", "failed"}, key : Keys \cup {NoKey}, tab : Nat]
ReleaseRecord == [state : {"no", "waiting", "closing", "done"}, key : Keys \cup {NoKey}, tab : Nat]

PoolTyped ==
  /\ plan \in [Runs -> Plans] /\ phase \in [Runs -> States] /\ opened \in Nat /\ faults \in Nat
  /\ tab \in [Runs -> Nat] /\ reused \in [Runs -> BOOLEAN] /\ suspect \in BOOLEAN
  /\ slot \in [Runs -> SlotRecord] /\ release \in [Keys -> ReleaseRecord]
  /\ retained \in Seq(Entry) /\ tails \in [Keys -> Seq(Runs)]
  /\ live \subseteq tabs /\ tabs \cup gone \cup lost \cup stuck \subseteq 1 .. opened

\* The runs of a conversation at work are those of its queue, and only the first of them has begun.
Queued ==
  /\ \A k \in Keys : ToSet(tails[k]) = {r \in Active : Key(r) = k} /\ IsInjective(tails[k])
  /\ \A r \in Active : Key(r) \in Keys /\ phase[r] # "queued" => Head(tails[Key(r)]) = r

Pages == ToSet(retained)
Distinct(q) == \A i, j \in DOMAIN q : i # j => q[i].key # q[j].key /\ q[i].tab # q[j].tab
Uses(r) == phase[r] \in {"probing", "dropping", "kept", "working", "closing"}
SlotCloses(r) == slot[r].state = "closing"
ReleaseCloses(k) == release[k].state = "closing"

\* A tab is in one place: one retained page, one run, one closing; only the run of the conversation
\* whose page is retained may use that page, until it begins to close it.
Apart ==
  /\ Distinct(retained)
  /\ \A e \in Pages : e.tab \in 1 .. opened
  /\ \A r \in Runs : tab[r] <= opened /\ (phase[r] = "probing" => Key(r) # NoKey)
  /\ \A r \in Runs : (Uses(r) => tab[r] # 0) /\ (tab[r] # 0 => Uses(r) \/ phase[r] = "over")
  /\ \A r \in Runs : \A e \in Pages : e.tab = tab[r] => e.key = Key(r) /\ phase[r] \notin {"dropping", "closing", "over"}
  /\ \A r, s \in Runs : tab[r] = tab[s] /\ tab[r] # 0 => r = s
SlotsApart ==
  /\ \A r \in Runs : phase[r] = "idle" => slot[r].state = "none"
  /\ \A r \in Runs : SlotCloses(r) =>
       /\ phase[r] = "queued" /\ slot[r].key \in Keys /\ slot[r].tab \in 1 .. opened
       /\ \A e \in Pages : e.tab # slot[r].tab
       /\ \A s \in Runs : tab[s] # slot[r].tab
       /\ \A s \in Runs : SlotCloses(s) /\ slot[s].tab = slot[r].tab => s = r
       /\ \A k \in Keys : ReleaseCloses(k) => release[k].tab # slot[r].tab
ReleasesApart ==
  \A k \in Keys : ReleaseCloses(k) =>
    /\ release[k].tab \in 1 .. opened
    /\ \A e \in Pages : e.tab # release[k].tab
    /\ \A s \in Runs : tab[s] # release[k].tab

\* A page that was put back while the run of its conversation has, or will have, another.
Doubled == {e \in Pages : \E r \in Active : Key(r) = e.key /\ phase[r] # "queued" /\ tab[r] # e.tab}

\* A tab has a place, or was lost or left with its closing.
Accounted(t) ==
  \/ \E e \in Pages : e.tab = t
  \/ \E r \in Runs : Uses(r) /\ tab[r] = t
  \/ \E r \in Runs : SlotCloses(r) /\ slot[r].tab = t
  \/ \E k \in Keys : ReleaseCloses(k) /\ release[k].tab = t
  \/ t \in lost \cup stuck
Seen ==
  /\ \A t \in tabs : Accounted(t) /\ t \in live \cup lost
  /\ \A e \in Doubled : e.tab \in stuck
  /\ \A r \in Runs : phase[r] = "kept" => tab[r] \in stuck \/ tab[r] \notin live \/ \E e \in Pages : e.tab = tab[r]
  /\ \A r \in Holding : tab[r] \in live \cup gone

\* What a page is counted for: a conversation, a run without one, a page that was put back.
KeysOf(pages, runs) == {e.key : e \in pages} \cup ({Key(r) : r \in runs} \ {NoKey})
LooseIn(runs) == {r \in runs : Key(r) = NoKey}
Room ==
  /\ Cardinality(Doubled) <= Cardinality(Failed)
  /\ Cardinality(KeysOf(Pages, Active)) + Cardinality(LooseIn(Active)) + Cardinality(Doubled) <= Limit + Cardinality(Failed)

PoolInv == PoolTyped /\ Queued /\ Apart /\ SlotsApart /\ ReleasesApart /\ Seen /\ Room

-----------------------------------------------------------------------------
(* The turn's inductive invariant.                                         *)

Places == {"idle", "chat", "effort", "attach", "label", "prove", "toggle", "restore", "rows", "refresh", "insert",
           "check", "verify", "mangled", "send", "accept", "ack", "watch", "over"}
Outcomes == {"none", "ok", "failed", "persistent", "unread", "expired"}
Texts == Seq(0 .. 2)
TurnRecord == [at : Places, part : 1 .. 2, chunk : 1 .. 2, reuse : BOOLEAN, retried : BOOLEAN, again : BOOLEAN,
               baseline : Nat, refresh : BOOLEAN, rebinds : 0 .. MaxRebinds, receipt : 0 .. 2, proven : BOOLEAN,
               outcome : Outcomes]
PageRecord == [composer : Texts, pill : BOOLEAN, effort : 0 .. 3, choice : {0, 1}, listed : BOOLEAN]
Messages == [text : Texts, effort : 0 .. 3, pill : BOOLEAN, slip : BOOLEAN]
AnswerRecord == [present : BOOLEAN, blocks : Seq({1, 2}), running : BOOLEAN, action : BOOLEAN]
CallsRecord == [made : 0 .. Calls, open : BOOLEAN, left : 0 .. Calls, moves : Nat]
WatchRecord == [missing : 0 .. Grace, empty : 0 .. Grace, unclosed : 0 .. Grace, text : Texts, candidate : Texts,
                since : -1 .. Settle, revision : 0 .. Calls, base : Texts, silent : 0 .. Grace, fence : -1 .. Calls,
                latest : Texts, out : Texts, shown : Texts]

TurnTyped ==
  /\ job \in Jobs /\ turn \in TurnRecord /\ page \in PageRecord /\ sent \in Seq(Messages)
  /\ answer \in AnswerRecord /\ Len(answer.blocks) <= 2 /\ calls \in CallsRecord /\ watch \in WatchRecord
  /\ turn.part <= job.parts /\ turn.chunk <= job.chunks
  /\ (At("over") => turn.outcome # "none") /\ (~At("over") => turn.outcome \in {"none", "expired"})
  /\ calls.made + calls.left = Calls /\ watch.revision <= calls.made

\* Where the connector is chosen, and where the message is made.
Connecting == {"label", "prove", "toggle", "restore", "rows"}
Composing == Connecting \cup {"attach", "refresh", "insert", "check", "verify", "mangled", "send"}
Slips == {i \in DOMAIN sent : sent[i].slip}
Presses == {i \in DOMAIN sent : ~sent[i].slip}

\* What is in the composer, and what Enter will send.
Composed ==
  /\ At("idle") => ~page.pill /\ sent = <<>>
  /\ page.pill => NeedsConnector
  /\ turn.at \in Connecting \cup {"refresh"} => NeedsConnector
  /\ turn.at \in Connecting => page.composer = <<>> /\ turn.chunk = 1
  /\ turn.at \in Composing => page.effort = Target
  /\ At("insert") => IsNoop
  /\ At("send") => page.composer = Prompt
  /\ turn.at \in {"insert", "check", "verify", "send"} => page.pill = NeedsConnector \/ Slips # {}

\* What was sent: one message for each part that is over.
Delivered ==
  /\ turn.baseline <= Len(sent)
  /\ At("idle") => turn.part = 1
  /\ turn.at \in Composing \cup {"idle", "chat", "effort"} => Cardinality(Presses) = turn.part - 1
  /\ turn.at \in {"accept", "ack", "watch"} => Cardinality(Presses) = turn.part
  /\ At("watch") => Final
  /\ At("ack") => ~Final
  /\ At("over") => Cardinality(Presses) <= job.parts
  /\ turn.outcome = "ok" => Cardinality(Presses) = job.parts
  /\ \A i \in DOMAIN Pressed : IsMessage(Pressed[i], i)
  /\ \A i \in Slips : Len(sent[i].text) > 1 =>
       /\ i = Len(sent)
       /\ \/ At("over") \/ (At("mangled") /\ Submitted)
          \/ At("check") /\ Submitted /\ turn.chunk = 2 /\ page.composer = <<>>

\* A change of the personalization that has not proven the connector is being tried or taken back.
Restored ==
  /\ At("restore") => turn.receipt # 2
  /\ turn.receipt # 2 /\ ~turn.proven =>
       turn.at \in {"prove", "restore"} \/ (At("over") /\ (turn.outcome \in {"persistent", "expired"} \/ page.choice = turn.receipt))

TurnInv == TurnTyped /\ Composed /\ Delivered /\ Restored /\ AnswersAreFinal /\ watch.base = watch.shown

-----------------------------------------------------------------------------
(* Subsequences.                                                            *)

LEMMA RankIsOrder ==
  ASSUME NEW m \in Nat, NEW is \in SUBSET (1 .. m)
  PROVE  /\ Cardinality(is) \in Nat
         /\ \A i \in is : Rank(is, i) \in 1 .. Cardinality(is)
         /\ \A i, j \in is : i < j => Rank(is, i) < Rank(is, j)
         /\ \A n \in 1 .. Cardinality(is) : \E i \in is : Rank(is, i) = n
  <1> DEFINE upto(i) == {j \in is : j <= i}
             rank == [i \in is |-> Rank(is, i)]
             C == Cardinality(is)
  <1>1. IsFiniteSet(is) /\ C \in Nat
    <2>1. IsFiniteSet(1 .. m)
      BY FS_Interval
    <2> QED  BY <2>1, FS_Subset, FS_CardinalityType
  <1>2. \A i \in is : IsFiniteSet(upto(i)) /\ Cardinality(upto(i)) \in Nat /\ Cardinality(upto(i)) <= C
    BY <1>1, FS_Subset, FS_CardinalityType
  <1>3. ASSUME NEW i \in is  PROVE Rank(is, i) \in 1 .. C
    <2>1. upto(i) # {}
      OBVIOUS
    <2>2. Cardinality(upto(i)) # 0
      BY <2>1, <1>2, FS_EmptySet
    <2> QED  BY <1>1, <1>2, <2>2 DEF Rank
  <1>4. ASSUME NEW i \in is, NEW j \in is, i < j  PROVE Rank(is, i) < Rank(is, j)
    <2>1. \A n \in is : n \in Nat
      OBVIOUS
    <2>2. upto(i) \in SUBSET upto(j)
      <3>1. \A n \in upto(i) : n \in upto(j)
        BY <2>1, <1>4
      <3> QED  BY <3>1
    <2>3. j \in upto(j) /\ j \notin upto(i)
      BY <2>1, <1>4
    <2>4. Cardinality(upto(i)) <= Cardinality(upto(j)) /\ Cardinality(upto(i)) # Cardinality(upto(j))
      BY <2>2, <2>3, <1>2, FS_Subset
    <2> QED  BY <1>2, <2>4 DEF Rank
  <1>5. rank \in Injection(is, 1 .. C)
    <2>1. rank \in [is -> 1 .. C]
      BY <1>3
    <2>2. \A i, j \in is : rank[i] = rank[j] => i = j
      <3>1. \A i, j \in is : i = j \/ i < j \/ j < i
        OBVIOUS
      <3>2. \A i \in is : Rank(is, i) \in Nat
        BY <1>3, <1>1
      <3> QED  BY <3>1, <3>2, <1>4
    <2> QED  BY <2>1, <2>2 DEF Injection, IsInjective
  <1>6. rank \in Surjection(is, 1 .. C)
    <2>1. IsFiniteSet(1 .. C) /\ Cardinality(1 .. C) = C
      BY <1>1, FS_Interval
    <2> QED  BY <2>1, <1>5, FS_Injection
  <1>7. \A n \in 1 .. C : \E i \in is : Rank(is, i) = n
    BY <1>6 DEF Surjection
  <1> QED  BY <1>1, <1>3, <1>4, <1>7

\* Picked(s, is) reads s at the positions in is, each once, in their order.
LEMMA PickedInOrder ==
  ASSUME NEW S, NEW s \in Seq(S), NEW is \in SUBSET DOMAIN s
  PROVE  /\ Picked(s, is) \in Seq(S) /\ Len(Picked(s, is)) = Cardinality(is)
         /\ \E at \in [1 .. Cardinality(is) -> is] :
              /\ \A m, n \in DOMAIN at : m < n => at[m] < at[n]
              /\ \A i \in is : \E n \in DOMAIN at : at[n] = i
              /\ \A n \in DOMAIN at : Picked(s, is)[n] = s[at[n]]
  <1> DEFINE C == Cardinality(is)
             at == [n \in 1 .. C |-> CHOOSE i \in is : Rank(is, i) = n]
  <1>1. Len(s) \in Nat /\ DOMAIN s = 1 .. Len(s)
    OBVIOUS
  <1>2. /\ C \in Nat
        /\ \A i \in is : Rank(is, i) \in 1 .. C
        /\ \A i, j \in is : i < j => Rank(is, i) < Rank(is, j)
        /\ \A n \in 1 .. C : \E i \in is : Rank(is, i) = n
    BY <1>1, RankIsOrder
  <1>3. \A n \in 1 .. C : at[n] \in is /\ Rank(is, at[n]) = n
    BY <1>2
  <1>4. at \in [1 .. C -> is] /\ DOMAIN at = 1 .. C
    BY <1>3
  <1>5. Picked(s, is) = [n \in 1 .. C |-> s[at[n]]]
    BY DEF Picked
  <1>6. \A n \in 1 .. C : s[at[n]] \in S
    BY <1>3, <1>1
  <1> HIDE DEF at, C
  <1>7. Picked(s, is) \in Seq(S) /\ Len(Picked(s, is)) = C
    BY <1>2, <1>5, <1>6
  <1>8. ASSUME NEW m \in 1 .. C, NEW n \in 1 .. C, m < n  PROVE at[m] < at[n]
    <2>1. at[m] \in 1 .. Len(s) /\ at[n] \in 1 .. Len(s) /\ Len(s) \in Nat
      BY <1>1, <1>3
    <2>2. at[m] = at[n] \/ at[m] < at[n] \/ at[n] < at[m]
      BY <2>1
    <2>3. ~(at[n] < at[m])
      BY <1>2, <1>3, <1>8
    <2> QED  BY <2>2, <2>3, <1>3, <1>8, <1>2
  <1>9. \A i \in is : \E n \in 1 .. C : at[n] = i
    <2> TAKE i \in is
    <2> DEFINE n == Rank(is, i)
    <2>1. n \in 1 .. C /\ at[n] \in is /\ Rank(is, at[n]) = n
      BY <1>2, <1>3
    <2>2. i \in Nat /\ at[n] \in Nat
      BY <2>1, <1>1
    <2> HIDE DEF n
    <2>3. n = Rank(is, i)
      BY DEF n
    <2>4. i = at[n] \/ i < at[n] \/ at[n] < i
      BY <2>2
    <2>5. n \in Nat
      BY <2>1, <1>2
    <2>6. at[n] = i
      BY <2>1, <2>3, <2>4, <2>5, <1>2
    <2> QED  BY <2>1, <2>6
  <1>10. \E g \in [1 .. C -> is] :
           /\ \A m, n \in DOMAIN g : m < n => g[m] < g[n]
           /\ \A i \in is : \E n \in DOMAIN g : g[n] = i
           /\ \A n \in DOMAIN g : Picked(s, is)[n] = s[g[n]]
    <2>1. at \in [1 .. C -> is] /\ DOMAIN at = 1 .. C
      BY <1>4
    <2>2. \A n \in DOMAIN at : Picked(s, is)[n] = s[at[n]]
      BY <1>5, <2>1
    <2>3. /\ \A m, n \in DOMAIN at : m < n => at[m] < at[n]
          /\ \A i \in is : \E n \in DOMAIN at : at[n] = i
      BY <1>8, <1>9, <2>1
    <2> QED  BY <2>1, <2>2, <2>3
  <1> QED  BY <1>7, <1>10 DEF C

LEMMA PickedElements ==
  ASSUME NEW S, NEW s \in Seq(S), NEW is \in SUBSET DOMAIN s
  PROVE  /\ Picked(s, is) \in Seq(S) /\ Len(Picked(s, is)) = Cardinality(is)
         /\ ToSet(Picked(s, is)) = {s[i] : i \in is}
         /\ \A m, n \in DOMAIN Picked(s, is) : m # n =>
              \E i, j \in is : i # j /\ Picked(s, is)[m] = s[i] /\ Picked(s, is)[n] = s[j]
         /\ 1 \in is => Head(Picked(s, is)) = Head(s)
  <1> DEFINE p == Picked(s, is)
             C == Cardinality(is)
  <1>1. p \in Seq(S) /\ Len(p) = C /\ DOMAIN p = 1 .. C /\ C \in Nat
    BY PickedInOrder
  <1>2. PICK at \in [1 .. C -> is] :
          /\ \A m, n \in DOMAIN at : m < n => at[m] < at[n]
          /\ \A i \in is : \E n \in DOMAIN at : at[n] = i
          /\ \A n \in DOMAIN at : p[n] = s[at[n]]
    BY PickedInOrder
  <1> HIDE DEF p, C
  <1>3. /\ \A n \in 1 .. C : at[n] \in is /\ p[n] = s[at[n]]
        /\ \A i \in is : \E n \in 1 .. C : at[n] = i
        /\ \A m, n \in 1 .. C : m < n => at[m] < at[n]
    BY <1>2
  <1>4. \A i \in is : i \in Nat /\ i >= 1
    OBVIOUS
  <1>5. ToSet(p) = {s[i] : i \in is}
    <2>1. ToSet(p) = {p[n] : n \in 1 .. C}
      BY <1>1 DEF ToSet
    <2>2. \A i \in is : \E n \in 1 .. C : p[n] = s[i]
      BY <1>3
    <2>3. \A n \in 1 .. C : \E i \in is : p[n] = s[i]
      BY <1>3
    <2> QED  BY <2>1, <2>2, <2>3
  <1>6. ASSUME NEW m \in 1 .. C, NEW n \in 1 .. C, m # n
        PROVE  \E i, j \in is : i # j /\ p[m] = s[i] /\ p[n] = s[j]
    <2>1. m < n \/ n < m
      BY <1>1, <1>6
    <2>2. at[m] < at[n] \/ at[n] < at[m]
      BY <2>1, <1>3
    <2>3. at[m] \in is /\ at[n] \in is
      BY <1>3
    <2>4. at[m] # at[n]
      BY <2>2, <2>3, <1>4
    <2> QED  BY <2>3, <2>4, <1>3
  <1>7. ASSUME 1 \in is  PROVE Head(p) = Head(s)
    <2>1. PICK n \in 1 .. C : at[n] = 1
      BY <1>3, <1>7
    <2>2. n \in Nat /\ 1 <= n /\ 1 \in 1 .. C
      BY <1>1
    <2>3. at[1] \in Nat /\ at[1] >= 1
      BY <2>2, <1>3, <1>4
    <2>4. ~(1 < n)
      BY <2>1, <2>2, <2>3, <1>3
    <2>5. p[1] = s[1]
      BY <2>1, <2>2, <2>4, <1>3
    <2>6. p # <<>> /\ s # <<>>
      BY <1>1, <2>2, <1>7
    <2> QED  BY <2>5, <2>6, <1>1
  <1>8. ASSUME NEW m \in DOMAIN p, NEW n \in DOMAIN p, m # n
        PROVE  \E i, j \in is : i # j /\ p[m] = s[i] /\ p[n] = s[j]
    <2>1. m \in 1 .. C /\ n \in 1 .. C
      BY <1>1
    <2> QED  BY <2>1, <1>6, <1>8
  <1>9. Len(p) = Cardinality(is)
    BY <1>1 DEF C
  <1> QED  BY <1>1, <1>5, <1>7, <1>8, <1>9 DEF p

-----------------------------------------------------------------------------
(* The retained pages.                                                      *)

LEMMA ElementsAre ==
  ASSUME NEW S, NEW q \in Seq(S)
  PROVE  \A x \in ToSet(q) : x \in S
  <1>1. \A i \in DOMAIN q : q[i] \in S
    OBVIOUS
  <1> QED  BY <1>1 DEF ToSet

LEMMA PagesAre ==
  ASSUME retained \in Seq(Entry), Distinct(retained)
  PROVE  /\ Pages \in SUBSET Entry
         /\ \A e \in Pages : PageOf(e.key) = e.tab
         /\ \A k : (\A e \in Pages : e.key # k) => PageOf(k) = 0
         /\ \A e, f \in Pages : e.key = f.key \/ e.tab = f.tab => e = f
         /\ Retained = {e.key : e \in Pages}
  <1>1. Pages \in SUBSET Entry /\ \A e \in Pages : \E i \in DOMAIN retained : e = retained[i]
    BY DEF Pages, ToSet
  <1>2. Retained = {e.key : e \in Pages}
    BY <1>1 DEF Pages, ToSet, Retained
  <1>3. \A e, f \in Pages : e.key = f.key \/ e.tab = f.tab => e = f
    BY <1>1 DEF Distinct
  <1>4. ASSUME NEW e \in Pages  PROVE PageOf(e.key) = e.tab
    <2> DEFINE c == CHOOSE f \in Pages : f.key = e.key
    <2>1. c \in Pages /\ c.key = e.key
      OBVIOUS
    <2>2. c = e
      BY <2>1, <1>3
    <2>3. e.key \in Retained
      BY <1>2
    <2> QED  BY <2>2, <2>3 DEF PageOf, Pages
  <1>5. \A k : (\A e \in Pages : e.key # k) => PageOf(k) = 0
    BY <1>2 DEF PageOf
  <1> QED  BY <1>1, <1>2, <1>3, <1>4, <1>5

\* What Picked leaves of retained pages.
LEMMA PickedPages ==
  ASSUME NEW q \in Seq(Entry), Distinct(q), NEW is \in SUBSET DOMAIN q
  PROVE  /\ Picked(q, is) \in Seq(Entry) /\ Distinct(Picked(q, is))
         /\ ToSet(Picked(q, is)) = {q[i] : i \in is}
  <1>1. /\ Picked(q, is) \in Seq(Entry) /\ ToSet(Picked(q, is)) = {q[i] : i \in is}
        /\ \A m, n \in DOMAIN Picked(q, is) : m # n =>
             \E i, j \in is : i # j /\ Picked(q, is)[m] = q[i] /\ Picked(q, is)[n] = q[j]
    BY PickedElements
  <1> DEFINE p == Picked(q, is)
  <1> HIDE DEF p
  <1>2. ASSUME NEW m \in DOMAIN p, NEW n \in DOMAIN p, m # n  PROVE p[m].key # p[n].key /\ p[m].tab # p[n].tab
    <2>1. PICK i \in is, j \in is : i # j /\ p[m] = q[i] /\ p[n] = q[j]
      BY <1>1, <1>2 DEF p
    <2> QED  BY <2>1 DEF Distinct
  <1>3. Distinct(p)
    BY <1>2 DEF Distinct
  <1> QED  BY <1>1, <1>3 DEF p

LEMMA WithoutIs ==
  ASSUME NEW q \in Seq(Entry), Distinct(q), NEW k
  PROVE  /\ Without(q, k) \in Seq(Entry) /\ Distinct(Without(q, k))
         /\ ToSet(Without(q, k)) = {e \in ToSet(q) : e.key # k}
  <1> DEFINE is == {i \in DOMAIN q : q[i].key # k}
  <1>1. is \in SUBSET DOMAIN q
    OBVIOUS
  <1>2. {q[i] : i \in is} = {e \in ToSet(q) : e.key # k}
    BY DEF ToSet
  <1> HIDE DEF is
  <1>3. Picked(q, is) \in Seq(Entry) /\ Distinct(Picked(q, is)) /\ ToSet(Picked(q, is)) = {q[i] : i \in is}
    BY <1>1, PickedPages
  <1> QED  BY <1>2, <1>3 DEF Without, is

\* The pages whose handle is still there, as a run that arrives finds them.
Usable == Picked(retained, {i \in DOMAIN retained : retained[i].tab \in live})

LEMMA UsableIs ==
  ASSUME retained \in Seq(Entry), Distinct(retained)
  PROVE  Usable \in Seq(Entry) /\ Distinct(Usable) /\ ToSet(Usable) = {e \in Pages : e.tab \in live}
  <1> DEFINE is == {i \in DOMAIN retained : retained[i].tab \in live}
  <1>1. is \in SUBSET DOMAIN retained
    OBVIOUS
  <1>2. {retained[i] : i \in is} = {e \in Pages : e.tab \in live}
    BY DEF Pages, ToSet
  <1> HIDE DEF is
  <1>3. Picked(retained, is) \in Seq(Entry) /\ Distinct(Picked(retained, is))
        /\ ToSet(Picked(retained, is)) = {retained[i] : i \in is}
    BY <1>1, PickedPages
  <1> QED  BY <1>2, <1>3 DEF Usable, is

\* The page that is set, last of all.
LEMMA AppendedIs ==
  ASSUME NEW q \in Seq(Entry), Distinct(q), NEW k \in Keys, NEW t \in Nat,
         \A e \in ToSet(q) : e.key # k /\ e.tab # t
  PROVE  LET p == Append(q, [key |-> k, tab |-> t])
         IN  p \in Seq(Entry) /\ Distinct(p) /\ ToSet(p) = ToSet(q) \cup {[key |-> k, tab |-> t]}
  <1> DEFINE x == [key |-> k, tab |-> t]
             p == Append(q, x)
             n == Len(q)
  <1>1. x \in Entry /\ x.key = k /\ x.tab = t
    BY DEF Entry
  <1> HIDE DEF x
  <1>2. /\ n \in Nat /\ DOMAIN q = 1 .. n /\ p \in Seq(Entry) /\ DOMAIN p = 1 .. (n + 1)
        /\ p[n + 1] = x /\ \A i \in 1 .. n : p[i] = q[i]
    BY <1>1
  <1> HIDE DEF p, n
  <1>3. \A i \in 1 .. n : q[i] \in ToSet(q)
    BY <1>2 DEF ToSet
  <1>4. \A i \in 1 .. (n + 1) : i = n + 1 \/ i \in 1 .. n
    BY <1>2
  <1>5. Distinct(p)
    <2> SUFFICES ASSUME NEW i \in 1 .. (n + 1), NEW j \in 1 .. (n + 1), i # j
                 PROVE  p[i].key # p[j].key /\ p[i].tab # p[j].tab
      BY <1>2 DEF Distinct
    <2>1. CASE i \in 1 .. n /\ j \in 1 .. n
      BY <2>1, <1>2 DEF Distinct
    <2>2. CASE i = n + 1 /\ j \in 1 .. n
      BY <2>2, <1>1, <1>2, <1>3
    <2>3. CASE j = n + 1 /\ i \in 1 .. n
      BY <2>3, <1>1, <1>2, <1>3
    <2> QED  BY <1>4, <2>1, <2>2, <2>3
  <1>6. ToSet(p) = ToSet(q) \cup {x}
    <2>1. ToSet(p) = {p[i] : i \in 1 .. (n + 1)} /\ ToSet(q) = {q[i] : i \in 1 .. n}
      BY <1>2 DEF ToSet
    <2>2. n + 1 \in 1 .. (n + 1) /\ \A i \in 1 .. n : i \in 1 .. (n + 1)
      BY <1>2
    <2> QED  BY <1>2, <1>4, <2>1, <2>2
  <1> QED  BY <1>2, <1>5, <1>6 DEF p, x

LEMMA SetIs ==
  ASSUME retained \in Seq(Entry), Distinct(retained), NEW k \in Keys, NEW t \in Nat,
         \A e \in Pages : e.key # k => e.tab # t
  PROVE  \A q \in {With(k, t), Refreshed(k, t)} :
           /\ q \in Seq(Entry) /\ Distinct(q)
           /\ ToSet(q) = {e \in Pages : e.key # k} \cup {[key |-> k, tab |-> t]}
  <1> DEFINE x == [key |-> k, tab |-> t]
             r == Refreshed(k, t)
             w == With(k, t)
             m == [i \in DOMAIN retained |-> IF retained[i].key = k THEN x ELSE retained[i]]
  <1>1. r \in Seq(Entry) /\ Distinct(r) /\ ToSet(r) = {e \in Pages : e.key # k} \cup {x}
    <2>1. /\ Without(retained, k) \in Seq(Entry) /\ Distinct(Without(retained, k))
          /\ ToSet(Without(retained, k)) = {e \in Pages : e.key # k}
      BY WithoutIs DEF Pages
    <2> QED  BY <2>1, AppendedIs DEF Refreshed
  <1>2. CASE k \notin Retained
    <2>1. \A e \in Pages : e.key # k
      BY <1>2, PagesAre
    <2>2. w = Append(retained, x) /\ {e \in Pages : e.key # k} = Pages
      BY <1>2, <2>1 DEF With
    <2>3. w \in Seq(Entry) /\ Distinct(w) /\ ToSet(w) = Pages \cup {x}
      BY <2>1, <2>2, AppendedIs DEF Pages
    <2> QED  BY <1>1, <2>2, <2>3
  <1>3. CASE k \in Retained
    <2>1. w = m
      BY <1>3 DEF With
    <2>2. PICK j \in DOMAIN retained : retained[j].key = k
      BY <1>3 DEF Retained
    <2>3. x \in Entry /\ x.key = k /\ x.tab = t
      BY DEF Entry
    <2> HIDE DEF x
    <2>4. m \in Seq(Entry) /\ DOMAIN m = DOMAIN retained
          /\ \A i \in DOMAIN retained : m[i] = IF retained[i].key = k THEN x ELSE retained[i]
      <3>1. DOMAIN retained = 1 .. Len(retained) /\ Len(retained) \in Nat
        OBVIOUS
      <3>2. \A i \in DOMAIN retained : (IF retained[i].key = k THEN x ELSE retained[i]) \in Entry
        BY <2>3
      <3> QED  BY <3>1, <3>2
    <2> HIDE DEF m
    <2>5. \A i \in DOMAIN retained : retained[i] \in Pages
      BY DEF Pages, ToSet
    <2>6. \A i \in DOMAIN retained : retained[i].key = k => i = j
      BY <2>2 DEF Distinct
    <2>7. Distinct(m)
      <3> SUFFICES ASSUME NEW a \in DOMAIN retained, NEW b \in DOMAIN retained, a # b
                   PROVE  m[a].key # m[b].key /\ m[a].tab # m[b].tab
        BY <2>4 DEF Distinct
      <3>1. retained[a].key # retained[b].key /\ retained[a].tab # retained[b].tab
        BY DEF Distinct
      <3> QED  BY <2>3, <2>4, <2>5, <2>6, <3>1
    <2>8. ToSet(m) = {e \in Pages : e.key # k} \cup {x}
      <3>1. ToSet(m) = {m[i] : i \in DOMAIN retained}
        BY <2>4 DEF ToSet
      <3>2. \A e \in Pages : \E i \in DOMAIN retained : e = retained[i]
        BY DEF Pages, ToSet
      <3>3. m[j] = x
        BY <2>2, <2>4
      <3> QED  BY <2>4, <2>5, <3>1, <3>2, <3>3
    <2> QED  BY <1>1, <2>1, <2>4, <2>7, <2>8 DEF x
  <1> QED  BY <1>2, <1>3

-----------------------------------------------------------------------------
(* The queues of the conversations.                                         *)

LEMMA ActiveIs ==
  ASSUME PoolTyped, plan' = plan, NEW r \in Runs, NEW w \in States, phase' = [phase EXCEPT ![r] = w]
  PROVE  /\ phase' \in [Runs -> States] /\ \A s \in Runs : phase'[s] = IF s = r THEN w ELSE phase[s]
         /\ Active' = IF w \in {"idle", "over"} THEN Active \ {r} ELSE Active \cup {r}
         /\ \A s \in Runs : Key(s)' = Key(s)
  <1>1. phase' \in [Runs -> States] /\ \A s \in Runs : phase'[s] = IF s = r THEN w ELSE phase[s]
    BY DEF PoolTyped
  <1>2. Active' = IF w \in {"idle", "over"} THEN Active \ {r} ELSE Active \cup {r}
    BY <1>1 DEF Active
  <1> QED  BY <1>1, <1>2 DEF Key

\* A queue that r leaves, or goes to the end of.
Left(q, r) == Picked(q, {i \in DOMAIN q : q[i] # r})

LEMMA LeftQueue ==
  ASSUME NEW q \in Seq(Runs), IsInjective(q), NEW r
  PROVE  /\ Left(q, r) \in Seq(Runs) /\ IsInjective(Left(q, r)) /\ ToSet(Left(q, r)) = ToSet(q) \ {r}
         /\ (ToSet(q) # {} /\ Head(q) # r => Head(Left(q, r)) = Head(q))
  <1> DEFINE is == {i \in DOMAIN q : q[i] # r}
             p == Picked(q, is)
  <1>1. is \in SUBSET DOMAIN q
    OBVIOUS
  <1>2. {q[i] : i \in is} = ToSet(q) \ {r}
    BY DEF ToSet
  <1>3. ToSet(q) # {} /\ Head(q) # r => 1 \in is
    BY DEF ToSet
  <1> HIDE DEF is
  <1>4. /\ p \in Seq(Runs) /\ ToSet(p) = {q[i] : i \in is}
        /\ \A m, n \in DOMAIN p : m # n => \E i, j \in is : i # j /\ p[m] = q[i] /\ p[n] = q[j]
        /\ 1 \in is => Head(p) = Head(q)
    BY <1>1, PickedElements
  <1> HIDE DEF p
  <1>5. IsInjective(p)
    <2> SUFFICES ASSUME NEW m \in DOMAIN p, NEW n \in DOMAIN p, m # n  PROVE p[m] # p[n]
      BY DEF IsInjective
    <2>1. PICK i \in is, j \in is : i # j /\ p[m] = q[i] /\ p[n] = q[j]
      BY <1>4
    <2> QED  BY <1>1, <2>1 DEF IsInjective
  <1> QED  BY <1>2, <1>3, <1>4, <1>5 DEF p, is, Left

LEMMA JoinedQueue ==
  ASSUME NEW q \in Seq(Runs), IsInjective(q), NEW r \in Runs, r \notin ToSet(q)
  PROVE  /\ Append(q, r) \in Seq(Runs) /\ IsInjective(Append(q, r)) /\ ToSet(Append(q, r)) = ToSet(q) \cup {r}
         /\ (ToSet(q) # {} => Head(Append(q, r)) = Head(q))
  <1> DEFINE p == Append(q, r)
             n == Len(q)
  <1>1. /\ n \in Nat /\ DOMAIN q = 1 .. n /\ p \in Seq(Runs) /\ DOMAIN p = 1 .. (n + 1)
        /\ p[n + 1] = r /\ \A i \in 1 .. n : p[i] = q[i]
    OBVIOUS
  <1>2. ToSet(q) # {} => Head(p) = Head(q)
    BY <1>1 DEF ToSet
  <1> HIDE DEF p, n
  <1>3. \A i \in 1 .. n : q[i] \in ToSet(q)
    BY <1>1 DEF ToSet
  <1>4. \A i \in 1 .. (n + 1) : i = n + 1 \/ i \in 1 .. n
    BY <1>1
  <1>5. IsInjective(p)
    <2> SUFFICES ASSUME NEW i \in 1 .. (n + 1), NEW j \in 1 .. (n + 1), p[i] = p[j]  PROVE i = j
      BY <1>1 DEF IsInjective
    <2>1. CASE i \in 1 .. n /\ j \in 1 .. n
      BY <2>1, <1>1 DEF IsInjective
    <2> QED  BY <1>1, <1>3, <1>4, <2>1
  <1>6. ToSet(p) = ToSet(q) \cup {r}
    <2>1. ToSet(p) = {p[i] : i \in 1 .. (n + 1)} /\ ToSet(q) = {q[i] : i \in 1 .. n}
      BY <1>1 DEF ToSet
    <2>2. n + 1 \in 1 .. (n + 1) /\ \A i \in 1 .. n : i \in 1 .. (n + 1)
      BY <1>1
    <2> QED  BY <1>1, <1>4, <2>1, <2>2
  <1> QED  BY <1>1, <1>2, <1>5, <1>6 DEF p

LEMMA EndedQueues ==
  ASSUME PoolTyped, Queued, PoolBounds, plan' = plan, NEW r \in Runs, Ended(r)
  PROVE  Queued' /\ tails' \in [Keys -> Seq(Runs)] /\ phase' \in [Runs -> States]
  <1>1. /\ phase' \in [Runs -> States] /\ \A s \in Runs : phase'[s] = IF s = r THEN "over" ELSE phase[s]
        /\ Active' = Active \ {r} /\ \A s \in Runs : Key(s)' = Key(s)
    BY ActiveIs DEF Ended, States
  <1>2. ASSUME NEW k \in Keys
        PROVE  /\ tails'[k] \in Seq(Runs) /\ IsInjective(tails'[k]) /\ ToSet(tails'[k]) = ToSet(tails[k]) \ {r}
               /\ (ToSet(tails[k]) # {} /\ Head(tails[k]) # r => Head(tails'[k]) = Head(tails[k]))
    <2>1. tails'[k] = Left(tails[k], r)
      BY DEF Ended, Left
    <2>2. tails[k] \in Seq(Runs) /\ IsInjective(tails[k])
      BY DEF PoolTyped, Queued
    <2> QED  BY <2>1, <2>2, LeftQueue
  <1>3. tails' \in [Keys -> Seq(Runs)]
    <2>1. tails' = [k \in Keys |-> tails'[k]]
      BY DEF Ended
    <2> QED  BY <2>1, <1>2
  <1>4. \A k \in Keys : ToSet(tails'[k]) = {s \in Active' : Key(s)' = k}
    <2>1. \A k \in Keys : ToSet(tails[k]) = {s \in Active : Key(s) = k}
      BY DEF Queued
    <2> QED  BY <1>1, <1>2, <2>1 DEF Active
  <1>5. ASSUME NEW s \in Active', Key(s)' \in Keys, phase'[s] # "queued"  PROVE Head(tails'[Key(s)']) = s
    <2>1. s \in Runs /\ s # r /\ s \in Active /\ Key(s) \in Keys /\ phase[s] # "queued" /\ Key(s)' = Key(s)
      BY <1>1, <1>5 DEF Active
    <2>2. Head(tails[Key(s)]) = s /\ s \in ToSet(tails[Key(s)])
      BY <2>1 DEF Queued
    <2> QED  BY <2>1, <2>2, <1>2
  <1> QED  BY <1>1, <1>2, <1>3, <1>4, <1>5 DEF Queued

LEMMA GoesQueues ==
  ASSUME PoolTyped, Queued, PoolBounds, plan' = plan, NEW r \in Active, NEW w \in States \ {"idle", "over"}, Goes(r, w),
         phase[r] # "queued" \/ IsNext(r)
  PROVE  Queued' /\ phase' \in [Runs -> States]
  <1>1. r \in Runs
    BY DEF Active
  <1>2. /\ phase' \in [Runs -> States] /\ \A s \in Runs : phase'[s] = IF s = r THEN w ELSE phase[s]
        /\ Active' = Active \cup {r} /\ \A s \in Runs : Key(s)' = Key(s)
    BY <1>1, ActiveIs DEF Goes
  <1>3. Active' = Active /\ tails' = tails
    BY <1>2 DEF Goes
  <1>4. ASSUME NEW s \in Active, Key(s) \in Keys, phase'[s] # "queued"  PROVE Head(tails[Key(s)]) = s
    <2>1. CASE s = r
      <3>1. IsNext(r) => Head(tails[Key(r)]) = r
        BY <1>4, <2>1 DEF IsNext, PoolBounds
      <3> QED  BY <1>4, <2>1, <3>1 DEF Queued
    <2>2. CASE s # r
      BY <1>2, <1>4, <2>2 DEF Queued, Active
    <2> QED  BY <2>1, <2>2
  <1>5. \A s \in Active : s \in Runs
    BY DEF Active
  <1> QED  BY <1>2, <1>3, <1>4, <1>5 DEF Queued

LEMMA EnqueuedQueues ==
  ASSUME PoolTyped, Queued, PoolBounds, plan' = plan, NEW r \in Runs, phase[r] = "idle", Enqueued(r)
  PROVE  Queued' /\ tails' \in [Keys -> Seq(Runs)] /\ phase' \in [Runs -> States]
  <1>1. /\ phase' \in [Runs -> States] /\ \A s \in Runs : phase'[s] = IF s = r THEN "queued" ELSE phase[s]
        /\ Active' = Active \cup {r} /\ \A s \in Runs : Key(s)' = Key(s)
    BY ActiveIs DEF Enqueued, States
  <1>2. r \notin Active
    BY DEF Active
  <1>3. \A k \in Keys : tails[k] \in Seq(Runs) /\ IsInjective(tails[k]) /\ ToSet(tails[k]) = {s \in Active : Key(s) = k}
    BY DEF PoolTyped, Queued
  <1>4. ASSUME NEW k \in Keys
        PROVE  /\ tails'[k] \in Seq(Runs) /\ IsInjective(tails'[k])
               /\ ToSet(tails'[k]) = IF k = Key(r) THEN ToSet(tails[k]) \cup {r} ELSE ToSet(tails[k])
               /\ (ToSet(tails[k]) # {} => Head(tails'[k]) = Head(tails[k]))
    <2>1. tails'[k] = IF k = Key(r) THEN Append(tails[k], r) ELSE tails[k]
      BY DEF Enqueued
    <2>2. r \notin ToSet(tails[k])
      BY <1>2, <1>3
    <2>3. CASE k = Key(r)
      <3>1. /\ Append(tails[k], r) \in Seq(Runs) /\ IsInjective(Append(tails[k], r))
            /\ ToSet(Append(tails[k], r)) = ToSet(tails[k]) \cup {r}
            /\ (ToSet(tails[k]) # {} => Head(Append(tails[k], r)) = Head(tails[k]))
        BY <1>3, <2>2, JoinedQueue
      <3> QED  BY <2>1, <2>3, <3>1
    <2>4. CASE k # Key(r)
      BY <1>3, <2>1, <2>4
    <2> QED  BY <2>3, <2>4
  <1>5. tails' \in [Keys -> Seq(Runs)]
    <2>1. tails' = [k \in Keys |-> tails'[k]]
      BY DEF Enqueued
    <2> QED  BY <2>1, <1>4
  <1>6. ASSUME NEW k \in Keys  PROVE ToSet(tails'[k]) = {s \in Active' : Key(s)' = k}
    <2>1. \A s \in Active' : s \in Runs
      BY DEF Active
    <2>2. {s \in Active' : Key(s)' = k} = IF k = Key(r) THEN {s \in Active : Key(s) = k} \cup {r} ELSE {s \in Active : Key(s) = k}
      BY <1>1, <1>2, <2>1
    <2> QED  BY <1>3, <1>4, <2>2
  <1>7. ASSUME NEW s \in Active', Key(s)' \in Keys, phase'[s] # "queued"  PROVE Head(tails'[Key(s)']) = s
    <2>1. s \in Runs /\ s # r /\ s \in Active /\ Key(s) \in Keys /\ phase[s] # "queued" /\ Key(s)' = Key(s)
      BY <1>1, <1>7 DEF Active
    <2>2. Head(tails[Key(s)]) = s /\ s \in ToSet(tails[Key(s)])
      BY <2>1, <1>3 DEF Queued
    <2> QED  BY <2>1, <2>2, <1>4
  <1> QED  BY <1>1, <1>4, <1>5, <1>6, <1>7 DEF Queued


-----------------------------------------------------------------------------
(* Counting.                                                                *)

\* What a function of finitely many arguments takes is finite, and no more than they.
LEMMA Covered ==
  ASSUME NEW D, IsFiniteSet(D), NEW f, DOMAIN f = D, NEW S, \A x \in S : \E d \in D : f[d] = x
  PROVE  IsFiniteSet(S) /\ Cardinality(S) \in Nat /\ Cardinality(S) <= Cardinality(D)
  <1> DEFINE D0 == {d \in D : f[d] \in S}
             g == [d \in D0 |-> f[d]]
  <1>1. D0 \in SUBSET D
    OBVIOUS
  <1>2. IsFiniteSet(D0) /\ Cardinality(D0) <= Cardinality(D)
    BY <1>1, FS_Subset
  <1>3. g \in Surjection(D0, S)
    BY DEF Surjection
  <1>4. IsFiniteSet(S) /\ Cardinality(S) <= Cardinality(D0)
    BY <1>2, <1>3, FS_Surjection
  <1>5. Cardinality(S) \in Nat /\ Cardinality(D0) \in Nat /\ Cardinality(D) \in Nat
    BY <1>2, <1>4, FS_CardinalityType
  <1> QED  BY <1>2, <1>4, <1>5

LEMMA SmallerIsLess ==
  ASSUME NEW S, IsFiniteSet(S), NEW T, \A x \in T : x \in S
  PROVE  IsFiniteSet(T) /\ Cardinality(T) \in Nat /\ Cardinality(S) \in Nat /\ Cardinality(T) <= Cardinality(S)
  <1>1. T \in SUBSET S
    OBVIOUS
  <1> QED  BY <1>1, FS_Subset, FS_CardinalityType

LEMMA UnionIsLess ==
  ASSUME NEW S, IsFiniteSet(S), NEW T, IsFiniteSet(T)
  PROVE  /\ IsFiniteSet(S \cup T) /\ Cardinality(S \cup T) \in Nat
         /\ Cardinality(S \cup T) <= Cardinality(S) + Cardinality(T)
  <1>1. IsFiniteSet(S \cap T)
    BY FS_Subset
  <1>2. IsFiniteSet(S \cup T) /\ Cardinality(S \cup T) = Cardinality(S) + Cardinality(T) - Cardinality(S \cap T)
    BY FS_Union
  <1>3. Cardinality(S) \in Nat /\ Cardinality(T) \in Nat /\ Cardinality(S \cap T) \in Nat /\ Cardinality(S \cup T) \in Nat
    BY <1>1, <1>2, FS_CardinalityType
  <1> QED  BY <1>2, <1>3

LEMMA OneMore ==
  ASSUME NEW S, IsFiniteSet(S), NEW T, NEW y, \A x \in T : x \in S \/ x = y
  PROVE  /\ IsFiniteSet(T) /\ Cardinality(T) \in Nat /\ Cardinality(S) \in Nat
         /\ Cardinality(T) <= Cardinality(S) + 1
  <1>1. IsFiniteSet(S \cup {y}) /\ Cardinality(S \cup {y}) <= Cardinality(S) + 1 /\ Cardinality(S) \in Nat
    BY FS_AddElement, FS_CardinalityType
  <1>2. IsFiniteSet(T) /\ Cardinality(T) \in Nat /\ Cardinality(T) <= Cardinality(S \cup {y}) /\ Cardinality(S \cup {y}) \in Nat
    BY <1>1, SmallerIsLess
  <1> QED  BY <1>1, <1>2

LEMMA OneForAnother ==
  ASSUME NEW S, IsFiniteSet(S), NEW T, NEW e \in S, NEW y, \A x \in T : (x \in S /\ x # e) \/ x = y
  PROVE  IsFiniteSet(T) /\ Cardinality(T) \in Nat /\ Cardinality(S) \in Nat /\ Cardinality(T) <= Cardinality(S)
  <1>1. IsFiniteSet(S \ {e}) /\ Cardinality(S \ {e}) = Cardinality(S) - 1 /\ Cardinality(S) \in Nat
    BY FS_RemoveElement, FS_CardinalityType
  <1>2. \A x \in T : x \in S \ {e} \/ x = y
    OBVIOUS
  <1>3. IsFiniteSet(T) /\ Cardinality(T) \in Nat /\ Cardinality(T) <= Cardinality(S \ {e}) + 1
    BY <1>1, <1>2, OneMore
  <1> QED  BY <1>1, <1>3

LEMMA CountsAreFinite ==
  ASSUME PoolBounds, retained \in Seq(Entry)
  PROVE  /\ IsFiniteSet(Pages) /\ Cardinality(Pages) \in Nat
         /\ IsFiniteSet(Doubled) /\ Cardinality(Doubled) \in Nat
         /\ IsFiniteSet(Failed) /\ Cardinality(Failed) \in Nat
         /\ IsFiniteSet(KeysOf(Pages, Active)) /\ Cardinality(KeysOf(Pages, Active)) \in Nat
         /\ IsFiniteSet(LooseIn(Active)) /\ Cardinality(LooseIn(Active)) \in Nat
  <1>1. IsFiniteSet(Pages) /\ Cardinality(Pages) \in Nat
    <2>1. DOMAIN retained = 1 .. Len(retained) /\ Len(retained) \in Nat
      OBVIOUS
    <2>2. IsFiniteSet(DOMAIN retained)
      BY <2>1, FS_Interval
    <2>3. \A e \in Pages : \E i \in DOMAIN retained : retained[i] = e
      BY DEF Pages, ToSet
    <2> QED  BY <2>2, <2>3, Covered
  <1>2. IsFiniteSet(Runs) /\ \A r \in Active \cup Failed \cup LooseIn(Active) : r \in Runs
    BY DEF PoolBounds, Active, Failed, LooseIn
  <1>3. \A e \in Doubled : e \in Pages
    BY DEF Doubled
  <1>4. IsFiniteSet({e.key : e \in Pages})
    <2> DEFINE key == [e \in Pages |-> e.key]
    <2>1. DOMAIN key = Pages /\ \A k \in {e.key : e \in Pages} : \E e \in Pages : key[e] = k
      OBVIOUS
    <2> HIDE DEF key
    <2> QED  BY <1>1, <2>1, Covered
  <1>5. IsFiniteSet({Key(r) : r \in Active} \ {NoKey})
    <2> DEFINE key == [r \in Runs |-> Key(r)]
    <2>1. DOMAIN key = Runs /\ \A k \in {Key(r) : r \in Active} \ {NoKey} : \E r \in Runs : key[r] = k
      BY <1>2
    <2> HIDE DEF key
    <2> QED  BY <1>2, <2>1, Covered
  <1>6. IsFiniteSet(KeysOf(Pages, Active))
    BY <1>4, <1>5, FS_Union DEF KeysOf
  <1> QED  BY <1>1, <1>2, <1>3, <1>6, SmallerIsLess, FS_CardinalityType

\* Room is kept when nothing is counted that was not before, or one more with an eviction that failed.
LEMMA RoomShrinks ==
  ASSUME PoolBounds, PoolTyped, Room, retained' \in Seq(Entry), Failed' = Failed,
         \A k \in KeysOf(Pages, Active)' : k \in KeysOf(Pages, Active),
         \A r \in LooseIn(Active)' : r \in LooseIn(Active),
         \A e \in Doubled' : e \in Doubled
  PROVE  Room'
  <1>1. /\ IsFiniteSet(Doubled) /\ IsFiniteSet(Failed) /\ Cardinality(Failed) \in Nat
        /\ IsFiniteSet(KeysOf(Pages, Active)) /\ IsFiniteSet(LooseIn(Active))
    BY CountsAreFinite DEF PoolTyped
  <1>2. /\ Cardinality(Doubled') \in Nat /\ Cardinality(Doubled) \in Nat /\ Cardinality(Doubled') <= Cardinality(Doubled)
    BY <1>1, SmallerIsLess
  <1>3. /\ Cardinality(KeysOf(Pages, Active)') \in Nat /\ Cardinality(KeysOf(Pages, Active)) \in Nat
        /\ Cardinality(KeysOf(Pages, Active)') <= Cardinality(KeysOf(Pages, Active))
    BY <1>1, SmallerIsLess
  <1>4. /\ Cardinality(LooseIn(Active)') \in Nat /\ Cardinality(LooseIn(Active)) \in Nat
        /\ Cardinality(LooseIn(Active)') <= Cardinality(LooseIn(Active))
    BY <1>1, SmallerIsLess
  <1>5. Limit \in Nat
    BY DEF PoolBounds
  <1> QED  BY <1>1, <1>2, <1>3, <1>4, <1>5 DEF Room

-----------------------------------------------------------------------------
(* Steps of the pool.                                                       *)

\* A step that begins no closing, and gives no run and no page a tab that is being closed.
LEMMA ClosingsApart ==
  ASSUME PoolTyped, SlotsApart, ReleasesApart, opened' \in Nat, opened <= opened',
         \A s \in Runs : SlotCloses(s)' => SlotCloses(s) /\ slot'[s] = slot[s] /\ phase'[s] = phase[s],
         \A k \in Keys : ReleaseCloses(k)' => ReleaseCloses(k) /\ release'[k] = release[k],
         \A s \in Runs : phase'[s] = "idle" => phase[s] = "idle" /\ slot'[s] = slot[s],
         \A e \in Pages' : (\E d \in Pages : d.tab = e.tab) \/ (\E s \in Runs : tab[s] = e.tab) \/ e.tab \notin 1 .. opened,
         \A s \in Runs : \/ \E d \in Pages : d.tab = tab'[s]
                         \/ \E q \in Runs : tab[q] = tab'[s]
                         \/ tab'[s] \notin 1 .. opened
  PROVE  SlotsApart' /\ ReleasesApart'
  <1>1. \A s \in Runs : SlotCloses(s) => slot[s].tab \in 1 .. opened'
    BY DEF SlotsApart, PoolTyped
  <1>2. \A k \in Keys : ReleaseCloses(k) => release[k].tab \in 1 .. opened'
    BY DEF ReleasesApart, PoolTyped
  <1>3. SlotsApart'
    BY <1>1 DEF SlotsApart
  <1>4. ReleasesApart'
    BY <1>2 DEF ReleasesApart
  <1> QED  BY <1>3, <1>4

\* Of the runs of a conversation one at most has begun.
LEMMA OneBegun ==
  ASSUME PoolBounds, PoolTyped, Queued, NEW r \in Active, phase[r] # "queued" \/ IsNext(r),
         NEW s \in Active, phase[s] # "queued", Key(s) = Key(r), Key(r) \in Keys
  PROVE  s = r
  <1>1. Head(tails[Key(r)]) = s
    BY DEF Queued
  <1>2. Head(tails[Key(r)]) = r
    BY DEF Queued, IsNext, PoolBounds
  <1> QED  BY <1>1, <1>2

\* A step of a run that waits for nothing takes it to w and its tab to t, and touches no page but that of its conversation.
RunStep(r, w, t) ==
  /\ r \in Active /\ (phase[r] # "queued" \/ (IsNext(r) /\ ~SlotCloses(r)))
  /\ w \in States \ {"idle", "queued"} /\ ((w = "over" /\ Ended(r)) \/ (w # "over" /\ Goes(r, w)))
  /\ t \in Nat /\ tab' \in [Runs -> Nat] /\ \A s \in Runs : tab'[s] = IF s = r THEN t ELSE tab[s]
  /\ UNCHANGED <<plan, slot, release, gone, lost>> /\ stuck \subseteq stuck' /\ stuck' \subseteq 1 .. opened'
  /\ reused' \in [Runs -> BOOLEAN] /\ suspect' \in BOOLEAN /\ faults' \in Nat /\ opened' \in {opened, opened + 1}
  /\ retained' \in Seq(Entry) /\ Distinct(retained')
  /\ \A e \in Pages' : e \in Pages \/ (e.key = Key(r) /\ e.tab = tab[r] /\ tab[r] # 0)
  /\ \A e \in Pages : e \in Pages' \/ (e.key = Key(r) /\ (e.tab \in tabs' => e.tab \in lost \cup stuck' \/ (e.tab = t /\ w # "over")))
  /\ w \in {"probing", "dropping", "kept", "working", "closing"} => t # 0
  /\ t # 0 => w \in {"probing", "dropping", "kept", "working", "closing", "over"}
  /\ w = "over" => t \in {0, tab[r]}
  /\ \/ t \in {0, tab[r]} \/ (t = opened + 1 /\ opened' = t)
     \/ \E e \in Pages : e.key = Key(r) /\ e.tab = t
  /\ \A e \in Pages' : /\ e.tab = t => w \notin {"dropping", "closing", "over"}
                       /\ e.key = Key(r) /\ w # "over" => e.tab = t \/ e \in Doubled
  /\ w = "probing" => Key(r) # NoKey
  /\ w = "kept" => t \in stuck' \/ t \notin live' \/ \E e \in Pages' : e.tab = t
  /\ w \in {"probing", "kept", "working"} => t \in live' \cup gone
  /\ live' \subseteq tabs' /\ \A x \in tabs' : x \in live' \cup lost
  /\ \A x \in tabs' : x \in tabs \/ (x = t /\ t # 0) \/ (x = opened + 1 /\ x = opened' /\ x \in stuck')
  /\ \A x \in live : x \in live' \/ x = tab[r]
  /\ \A x \in live' : x \in live \/ x = t \/ x = opened + 1
  /\ tab[r] \in tabs' => (t = tab[r] /\ w # "over") \/ tab[r] \in lost \cup stuck' \/ \E e \in Pages' : e.tab = tab[r]

LEMMA RunSteps ==
  ASSUME PoolBounds, PoolInv, NEW r, NEW w, NEW t, RunStep(r, w, t)
  PROVE  PoolInv'
  <1> USE DEF RunStep
  <1>0. r \in Runs /\ PoolTyped /\ Queued /\ Apart /\ SlotsApart /\ ReleasesApart /\ Seen /\ Room
    BY DEF PoolInv, Active
  <1>1. Queued' /\ tails' \in [Keys -> Seq(Runs)] /\ phase' \in [Runs -> States]
    <2>1. CASE w = "over"
      BY <1>0, <2>1, EndedQueues
    <2>2. CASE w # "over"
      <3>1. tails' \in [Keys -> Seq(Runs)]
        BY <1>0, <2>2 DEF Goes, PoolTyped
      <3> QED  BY <1>0, <2>2, <3>1, GoesQueues
    <2> QED  BY <2>1, <2>2
  <1>2. /\ \A s \in Runs : phase'[s] = IF s = r THEN w ELSE phase[s]
        /\ Active' = (IF w = "over" THEN Active \ {r} ELSE Active) /\ \A s \in Active : s \in Runs
    BY <1>0, ActiveIs DEF Ended, Goes, Active, States
  <1>3. tab' \in [Runs -> Nat] /\ \A s \in Runs : tab'[s] = IF s = r THEN t ELSE tab[s]
    OBVIOUS
  <1>4. \A s \in Runs : Uses(s) => s \in Active /\ phase[s] # "queued"
    BY DEF Uses, Active
  <1>5. \A e \in Pages : e.key \in Keys /\ e.tab \in 1 .. opened
    BY <1>0, PagesAre DEF PoolTyped, Apart, Entry
  <1>6. \A s \in Runs : Uses(s) /\ Key(s) = Key(r) /\ Key(r) \in Keys => s = r
    BY <1>0, <1>4, OneBegun
  <1>7. \A s \in Runs : tab[s] = t /\ tab[s] # 0 => s = r
    <2> SUFFICES ASSUME NEW s \in Runs, tab[s] = t, tab[s] # 0  PROVE s = r
      OBVIOUS
    <2>1. tab[s] \in Nat /\ tab[s] <= opened /\ opened \in Nat
      BY <1>0 DEF Apart, PoolTyped
    <2>2. CASE \E e \in Pages : e.key = Key(r) /\ e.tab = t
      BY <2>2, <1>0, <1>5, <1>6 DEF Apart
    <2>3. CASE t = tab[r]
      BY <2>3, <1>0 DEF Apart
    <2>4. t # opened + 1
      BY <2>1
    <2> QED  BY <2>2, <2>3, <2>4
  <1>8. PoolTyped'
    <2>1. opened' \in Nat /\ opened <= opened' /\ 1 .. opened \subseteq 1 .. opened'
      BY <1>0 DEF PoolTyped
    <2>2. t # 0 => t \in 1 .. opened'
      BY <2>1, <1>0, <1>5 DEF PoolTyped, Apart
    <2>3. tabs' \cup gone' \cup lost' \cup stuck' \subseteq 1 .. opened'
      BY <2>1, <2>2, <1>0 DEF PoolTyped
    <2> QED  BY <1>0, <1>1, <1>3, <2>1, <2>3 DEF PoolTyped
  <1>9. \A e \in Pages' : e.key \in Keys /\ e.tab \in Nat /\ e.tab # 0
    <2>1. \A e \in Pages' : e \in Entry
      BY ElementsAre DEF Pages
    <2> QED  BY <2>1, <1>0, <1>5 DEF Entry
  <1>10. Apart'
    <2>1. opened \in Nat /\ opened' \in Nat /\ opened <= opened' /\ \A s \in Runs : tab[s] \in Nat /\ tab[s] <= opened
      BY <1>0 DEF PoolTyped, Apart
    <2>2. t <= opened'
      BY <2>1, <1>0, <1>5
    <2>3. \A e \in Pages' : e.tab \in 1 .. opened'
      BY <2>1, <1>0, <1>5
    <2>4. \A s \in Runs : tab'[s] <= opened' /\ (Uses(s)' => tab'[s] # 0) /\ (tab'[s] # 0 => Uses(s)' \/ phase'[s] = "over")
      BY <2>1, <2>2, <1>0, <1>2, <1>3 DEF Apart, Uses
    <2>5. ASSUME NEW s \in Runs, NEW e \in Pages', e.tab = tab'[s]
          PROVE  e.key = Key(s) /\ phase'[s] \notin {"dropping", "closing", "over"}
      <3>1. CASE s = r /\ e \in Pages
        <4>1. e.tab = t /\ \A d \in Pages : d.tab = t => d = e
          BY <3>1, <2>5, <1>0, <1>3, PagesAre DEF PoolTyped, Apart
        <4>2. t # opened + 1
          BY <4>1, <3>1, <1>5, <1>0 DEF PoolTyped
        <4>3. t = tab[r] => e.key = Key(r)
          BY <4>1, <3>1, <1>0 DEF Apart
        <4> QED  BY <4>1, <4>2, <4>3, <3>1, <1>2, <1>9
      <3>2. CASE s = r /\ e \notin Pages
        BY <3>2, <2>5, <1>0, <1>2, <1>3
      <3>3. CASE s # r /\ e \in Pages
        BY <3>3, <2>5, <1>0, <1>2, <1>3 DEF Apart
      <3>4. CASE s # r /\ e \notin Pages
        <4>1. e.tab = tab[r] /\ tab[r] # 0 /\ tab[s] = tab[r]
          BY <3>4, <2>5, <1>3
        <4> QED  BY <4>1, <3>4, <1>0 DEF Apart
      <3> QED  BY <3>1, <3>2, <3>3, <3>4
    <2>6. \A s, q \in Runs : tab'[s] = tab'[q] /\ tab'[s] # 0 => s = q
      BY <1>0, <1>3, <1>7 DEF Apart
    <2>7. \A s \in Runs : phase'[s] = "probing" => Key(s) # NoKey
      BY <1>0, <1>2 DEF Apart
    <2> QED  BY <2>3, <2>4, <2>5, <2>6, <2>7 DEF Apart, Key
  <1>11. SlotsApart' /\ ReleasesApart'
    <2>1. opened' \in Nat /\ opened <= opened'
      BY <1>0 DEF PoolTyped
    <2>2. \A s \in Runs : SlotCloses(s) => s # r
      BY <1>0 DEF SlotsApart
    <2>3. \A s \in Runs : /\ SlotCloses(s)' => SlotCloses(s) /\ slot'[s] = slot[s] /\ phase'[s] = phase[s]
                          /\ phase'[s] = "idle" => phase[s] = "idle" /\ slot'[s] = slot[s]
      BY <2>2, <1>2 DEF SlotCloses
    <2>4. \A k \in Keys : ReleaseCloses(k)' => ReleaseCloses(k) /\ release'[k] = release[k]
      BY DEF ReleaseCloses
    <2>5. \A e \in Pages' : (\E d \in Pages : d.tab = e.tab) \/ (\E s \in Runs : tab[s] = e.tab)
      BY <1>0
    <2>6. \A s \in Runs : \/ \E d \in Pages : d.tab = tab'[s]
                          \/ \E q \in Runs : tab[q] = tab'[s]
                          \/ tab'[s] \notin 1 .. opened
      BY <1>0, <1>3 DEF PoolTyped
    <2> QED  BY <2>1, <2>3, <2>4, <2>5, <2>6, <1>0, ClosingsApart
  <1>12. ASSUME NEW e \in Doubled'  PROVE e \in Doubled
    <2>1. e \in Pages' /\ e.key \in Keys
      BY <1>9 DEF Doubled
    <2>2. PICK s \in Active' : Key(s) = e.key /\ phase'[s] # "queued" /\ tab'[s] # e.tab
      BY DEF Doubled, Key
    <2>3. s \in Runs /\ s \in Active
      BY <2>2, <1>2
    <2>4. CASE s = r
      BY <2>1, <2>2, <2>3, <2>4, <1>2, <1>3
    <2>5. CASE s # r
      <3>1. phase[s] # "queued" /\ tab[s] # e.tab /\ Key(s) = e.key
        BY <2>2, <2>3, <2>5, <1>2, <1>3
      <3>2. e \in Pages
        BY <3>1, <2>1, <2>3, <2>5, <1>0, OneBegun
      <3> QED  BY <3>1, <3>2, <2>3 DEF Doubled
    <2> QED  BY <2>4, <2>5
  <1>13. Seen'
    <2>1. \A x \in tabs' : Accounted(x)'
      <3> SUFFICES ASSUME NEW x \in tabs'  PROVE Accounted(x)'
        OBVIOUS
      <3>1. CASE x = tab[r]
        <4>1. CASE x = t /\ w # "over"
          <5>1. x # 0
            BY <1>8 DEF PoolTyped
          <5>2. Uses(r)'
            BY <5>1, <4>1, <1>0, <1>2 DEF Uses
          <5> QED  BY <5>2, <4>1, <1>0, <1>3 DEF Accounted
        <4> QED  BY <4>1, <3>1 DEF Accounted
      <3>2. CASE x # tab[r] /\ x = t /\ t # 0
        <4>1. Uses(r)'
          BY <3>2, <1>0, <1>2 DEF Uses
        <4> QED  BY <4>1, <3>2, <1>0, <1>3 DEF Accounted
      <3>3. CASE x # t /\ \E e \in Pages : e.tab = x
        BY <3>3, <1>0, <1>3 DEF Accounted
      <3>4. ASSUME NEW s \in Runs, Uses(s), tab[s] = x, x # tab[r]  PROVE Accounted(x)'
        <4>1. s # r /\ Uses(s)' /\ tab'[s] = x
          BY <3>4, <1>2, <1>3 DEF Uses
        <4> QED  BY <4>1 DEF Accounted
      <3>5. CASE \/ \E s \in Runs : SlotCloses(s) /\ slot[s].tab = x
                 \/ \E k \in Keys : ReleaseCloses(k) /\ release[k].tab = x
                 \/ x \in lost \cup stuck'
        BY <3>5 DEF Accounted, SlotCloses, ReleaseCloses
      <3>6. x # 0
        BY <1>8 DEF PoolTyped
      <3> QED  BY <3>1, <3>2, <3>3, <3>4, <3>5, <3>6, <1>0 DEF Seen, Accounted
    <2>2. \A x \in tabs' : x \in live' \cup lost'
      OBVIOUS
    <2>3. \A e \in Doubled' : e.tab \in stuck'
      BY <1>12, <1>0 DEF Seen
    <2>4. ASSUME NEW s \in Runs, phase'[s] = "kept"  PROVE tab'[s] \in stuck' \/ tab'[s] \notin live' \/ \E e \in Pages' : e.tab = tab'[s]
      <3>1. CASE s = r
        BY <3>1, <2>4, <1>2, <1>3
      <3>2. CASE s # r
        <4>1. tab'[s] = tab[s] /\ phase[s] = "kept" /\ s \in Active
          BY <3>2, <2>4, <1>2, <1>3 DEF Active
        <4>2. tab[s] # 0 /\ tab[s] # t /\ Uses(s)
          BY <4>1, <3>2, <1>0, <1>7 DEF Apart, Uses
        <4>3. tab[s] \in live' => tab[s] \in live
          <5>1. tab[s] # opened + 1
            BY <1>0 DEF Apart, PoolTyped
          <5> QED  BY <5>1, <4>2
        <4>4. ASSUME NEW e \in Pages, e.tab = tab[s]  PROVE e \in Pages'
          <5>1. e.key = Key(s) /\ e.key \in Keys
            BY <4>4, <1>0, <1>5 DEF Apart
          <5>2. e.key # Key(r)
            BY <5>1, <4>2, <3>2, <1>6
          <5> QED  BY <5>2
        <4> QED  BY <4>1, <4>3, <4>4, <1>0 DEF Seen
      <3> QED  BY <3>1, <3>2
    <2>5. \A s \in Holding' : tab'[s] \in live' \cup gone'
      <3> SUFFICES ASSUME NEW s \in Runs, phase'[s] \in {"probing", "kept", "working"}  PROVE tab'[s] \in live' \cup gone'
        BY DEF Holding
      <3>1. CASE s = r
        BY <3>1, <1>2, <1>3
      <3>2. CASE s # r
        <4>1. tab'[s] = tab[s] /\ phase'[s] = phase[s] /\ tab[s] # 0 /\ tab[s] # tab[r]
          BY <3>2, <1>0, <1>2, <1>3 DEF Apart, Uses
        <4> QED  BY <4>1, <1>0 DEF Seen, Holding
      <3> QED  BY <3>1, <3>2
    <2> QED  BY <2>1, <2>2, <2>3, <2>4, <2>5 DEF Seen
  <1>14. Room'
    <2>1. \A k \in KeysOf(Pages, Active)' : k \in KeysOf(Pages, Active)
      <3>1. \A e \in Pages' : e.key \in KeysOf(Pages, Active)
        BY <1>9, <1>0 DEF KeysOf, PoolBounds
      <3> QED  BY <3>1, <1>2 DEF KeysOf, Key
    <2>2. \A s \in LooseIn(Active)' : s \in LooseIn(Active)
      BY <1>2 DEF LooseIn, Key
    <2>3. Failed' = Failed
      BY DEF Failed
    <2> QED  BY <2>1, <2>2, <2>3, <1>0, <1>12, RoomShrinks
  <1> QED  BY <1>1, <1>8, <1>10, <1>11, <1>13, <1>14 DEF PoolInv
\* What the invariant says of a run that has begun.
LEMMA BegunRun ==
  ASSUME PoolBounds, PoolInv, NEW r \in Runs, phase[r] \in States \ {"idle", "queued", "over"}
  PROVE  /\ r \in Active /\ PoolTyped /\ retained \in Seq(Entry) /\ Distinct(retained)
         /\ (tab[r] # 0 <=> phase[r] \in {"probing", "dropping", "kept", "working", "closing"}) /\ tab[r] \in Nat
         /\ live \subseteq tabs /\ \A x \in tabs : x # 0 /\ x \in live \cup lost
         /\ \A e \in Pages : e.tab = tab[r] => e.key = Key(r) /\ phase[r] \notin {"dropping", "closing"}
         /\ \A e \in Pages : e.key = Key(r) => e.tab = tab[r] \/ (e \in Doubled /\ e.tab \in stuck)
         /\ \A e \in Pages : e.tab # 0 /\ e.tab \in Nat
  <1>1. PoolTyped /\ Apart /\ Seen
    BY DEF PoolInv
  <1>2. r \in Active
    BY DEF Active
  <1>3. \A e \in Pages : e.key = Key(r) => e.tab = tab[r] \/ (e \in Doubled /\ e.tab \in stuck)
    BY <1>1, <1>2 DEF Doubled, Seen
  <1>4. \A e \in Pages : e.tab \in 1 .. opened
    BY <1>1 DEF Apart
  <1>5. opened \in Nat /\ tab[r] \in Nat /\ live \subseteq tabs /\ tabs \subseteq 1 .. opened /\ retained \in Seq(Entry)
    BY <1>1 DEF PoolTyped
  <1>6. \A e \in Pages : e.tab # 0 /\ e.tab \in Nat
    BY <1>4, <1>5
  <1>7. \A x \in tabs : x # 0
    BY <1>5
  <1> QED  BY <1>1, <1>2, <1>3, <1>5, <1>6, <1>7 DEF Apart, Seen, Uses

LEMMA UnpreparedKeeps ==
  ASSUME PoolBounds, PoolInv, NEW r \in Runs, Unprepared(r)
  PROVE  PoolInv'
  <1>1. phase[r] \in {"kept", "fresh"}
    BY DEF Unprepared
  <1>2. /\ r \in Active /\ PoolTyped /\ retained \in Seq(Entry) /\ Distinct(retained)
        /\ (tab[r] # 0 <=> phase[r] \in {"probing", "dropping", "kept", "working", "closing"}) /\ tab[r] \in Nat
        /\ live \subseteq tabs /\ \A x \in tabs : x # 0 /\ x \in live \cup lost
        /\ \A e \in Pages : e.tab # 0
    BY <1>1, BegunRun DEF States
  <1>3. Pages' = Pages
    BY DEF Pages, Unprepared
  <1>4. tab[r] \in tabs => tab[r] \in lost \cup stuck \/ \E e \in Pages : e.tab = tab[r]
    BY <1>1, <1>2 DEF PoolInv, Seen
  <1>5. RunStep(r, "over", 0)
    BY <1>1, <1>2, <1>3, <1>4 DEF RunStep, Unprepared, States, PoolTyped
  <1> QED  BY <1>5, RunSteps

LEMMA ContinueKeeps ==
  ASSUME PoolBounds, PoolInv, NEW r \in Runs, Continue(r)
  PROVE  PoolInv'
  <1>1. phase[r] = "kept"
    BY DEF Continue
  <1>2. /\ r \in Active /\ PoolTyped /\ retained \in Seq(Entry) /\ Distinct(retained)
        /\ tab[r] # 0 /\ tab[r] \in Nat
        /\ live \subseteq tabs /\ \A x \in tabs : x # 0 /\ x \in live \cup lost
        /\ \A e \in Pages : e.key = Key(r) => e.tab = tab[r] \/ e \in Doubled
    BY <1>1, BegunRun DEF States
  <1>3. Pages' = Pages
    BY DEF Pages, Continue
  <1>4. tab[r] \in live \cup gone
    BY <1>1 DEF PoolInv, Seen, Holding
  <1>5. RunStep(r, "working", tab[r])
    BY <1>1, <1>2, <1>3, <1>4 DEF RunStep, Continue, States, PoolTyped
  <1> QED  BY <1>5, RunSteps

LEMMA NoPageKeeps ==
  ASSUME PoolBounds, PoolInv, NEW r \in Runs, NoPage(r)
  PROVE  PoolInv'
  <1>1. phase[r] = "connected"
    BY DEF NoPage
  <1>2. /\ r \in Active /\ PoolTyped /\ retained \in Seq(Entry) /\ Distinct(retained)
        /\ tab[r] = 0
        /\ live \subseteq tabs /\ \A x \in tabs : x # 0 /\ x \in live \cup lost
        /\ \A e \in Pages : e.tab # 0
    BY <1>1, BegunRun DEF States
  <1>3. Pages' = Pages
    BY DEF Pages, NoPage
  <1>4. tab' = [tab EXCEPT ![r] = 0]
    BY <1>2 DEF NoPage, PoolTyped
  <1>5. /\ opened' \in {opened, opened + 1} /\ faults' \in Nat
        /\ stuck \subseteq stuck' /\ stuck' \subseteq 1 .. opened' /\ live \subseteq live' /\ live' \subseteq tabs'
        /\ \A x \in tabs' : x \in tabs \/ (x = opened + 1 /\ x = opened' /\ x \in stuck')
        /\ \A x \in tabs' : x \in live' \cup lost
        /\ \A x \in live' : x \in live \/ x = opened + 1
    <2>1. opened \in Nat /\ faults \in Nat /\ stuck \subseteq 1 .. opened /\ 1 .. opened \subseteq 1 .. opened + 1
      BY <1>2 DEF PoolTyped
    <2>2. CASE UNCHANGED <<live, tabs, opened, faults, stuck>>
      BY <1>2, <2>1, <2>2
    <2>3. CASE opened' = opened + 1
      <3>1. live' = live \cup {opened'} /\ tabs' = tabs \cup {opened'} /\ stuck' = stuck \cup {opened'}
            /\ faults > 0 /\ faults' = faults - 1
        BY <2>1, <2>3 DEF NoPage
      <3>2. stuck' \subseteq 1 .. opened'
        BY <2>1, <2>3, <3>1
      <3> QED  BY <1>2, <2>1, <2>3, <3>1, <3>2
    <2> QED  BY <2>2, <2>3 DEF NoPage
  <1>6. RunStep(r, "over", 0)
    BY <1>1, <1>2, <1>3, <1>4, <1>5 DEF RunStep, NoPage, States, PoolTyped
  <1> QED  BY <1>6, RunSteps

\* A page that is closed is gone from the browser, was lost, or is left with its closing.
LEMMA ClosesLeaves ==
  ASSUME PoolTyped, NEW t, \A x \in tabs : x \in live \cup lost, Closes(t)
  PROVE  /\ live' \subseteq tabs' /\ \A x \in tabs' : x \in tabs /\ x \in live' \cup lost
         /\ \A x \in live : x \in live' \/ x = t
         /\ live' \subseteq live
         /\ t \in tabs' => t \in lost \cup stuck'
         /\ stuck \subseteq stuck' /\ stuck' \subseteq 1 .. opened /\ faults' \in Nat
  <1>1. live \subseteq tabs /\ tabs \subseteq 1 .. opened /\ stuck \subseteq 1 .. opened /\ faults \in Nat
    BY DEF PoolTyped
  <1>2. CASE Close(t) /\ UNCHANGED <<faults, stuck>>
    BY <1>1, <1>2 DEF Close
  <1>3. CASE Stays(t)
    BY <1>1, <1>3 DEF Stays
  <1> QED  BY <1>2, <1>3 DEF Closes

LEMMA DropKeeps ==
  ASSUME PoolBounds, PoolInv, NEW r \in Runs, Drop(r)
  PROVE  PoolInv'
  <1>1. phase[r] = "dropping"
    BY DEF Drop
  <1>2. /\ r \in Active /\ PoolTyped /\ retained \in Seq(Entry) /\ Distinct(retained)
        /\ tab[r] # 0 /\ tab[r] \in Nat
        /\ live \subseteq tabs /\ \A x \in tabs : x # 0 /\ x \in live \cup lost
        /\ \A e \in Pages : e.tab # 0 /\ e.tab # tab[r]
        /\ \A e \in Pages : e.key = Key(r) => e.tab = tab[r] \/ e \in Doubled
    BY <1>1, BegunRun DEF States
  <1>3. Pages' = Pages
    BY DEF Pages, Drop
  <1>4. /\ live' \subseteq tabs' /\ \A x \in tabs' : x \in tabs /\ x \in live' \cup lost
        /\ \A x \in live : x \in live' \/ x = tab[r]
        /\ \A x \in live' : x \in live
        /\ tab[r] \in tabs' => tab[r] \in lost \cup stuck'
        /\ stuck \subseteq stuck' /\ stuck' \subseteq 1 .. opened /\ faults' \in Nat
    BY <1>2, ClosesLeaves DEF Drop
  <1>5. \E w \in {"over", "fresh"} : (w = "over" /\ Ended(r)) \/ (w # "over" /\ Goes(r, w))
    BY DEF Drop, Unkept
  <1>6. PICK w \in {"over", "fresh"} : (w = "over" /\ Ended(r)) \/ (w # "over" /\ Goes(r, w))
    BY <1>5
  <1>7. w \in States \ {"idle", "queued"}
    BY DEF States
  <1>8. RunStep(r, w, 0)
    BY <1>1, <1>2, <1>3, <1>4, <1>6, <1>7 DEF RunStep, Drop, PoolTyped
  <1> QED  BY <1>8, RunSteps

LEMMA ClosedKeeps ==
  ASSUME PoolBounds, PoolInv, NEW r \in Runs, Closed(r)
  PROVE  PoolInv'
  <1>1. phase[r] = "closing"
    BY DEF Closed
  <1>2. /\ r \in Active /\ PoolTyped /\ retained \in Seq(Entry) /\ Distinct(retained)
        /\ tab[r] # 0 /\ tab[r] \in Nat
        /\ live \subseteq tabs /\ \A x \in tabs : x # 0 /\ x \in live \cup lost
        /\ \A e \in Pages : e.tab # 0 /\ e.tab # tab[r]
    BY <1>1, BegunRun DEF States
  <1>3. Pages' = Pages
    BY DEF Pages, Closed
  <1>4. /\ live' \subseteq tabs' /\ \A x \in tabs' : x \in tabs /\ x \in live' \cup lost
        /\ \A x \in live : x \in live' \/ x = tab[r]
        /\ \A x \in live' : x \in live
        /\ tab[r] \in tabs' => tab[r] \in lost \cup stuck'
        /\ stuck \subseteq stuck' /\ stuck' \subseteq 1 .. opened /\ faults' \in Nat
    BY <1>2, ClosesLeaves DEF Closed
  <1>5. RunStep(r, "over", tab[r])
    BY <1>1, <1>2, <1>3, <1>4 DEF RunStep, Closed, States, PoolTyped
  <1> QED  BY <1>5, RunSteps

\* A run that ends keeps every page of its conversation but its own.
LEMMA ForgottenIs ==
  ASSUME PoolBounds, PoolInv, NEW r \in Runs, phase[r] = "working", retained' = Forgotten(r)
  PROVE  retained' \in Seq(Entry) /\ Distinct(retained') /\ Pages' = {e \in Pages : e.tab # tab[r]}
  <1>1. retained \in Seq(Entry) /\ Distinct(retained)
    BY DEF PoolInv, PoolTyped, Apart
  <1>2. \A e \in Pages : PageOf(e.key) = e.tab /\ e.key # NoKey
    BY <1>1, PagesAre DEF PoolBounds, Entry
  <1>3. \A e \in Pages : e.tab = tab[r] => e.key = Key(r)
    BY DEF PoolInv, Apart
  <1>4. CASE Key(r) # NoKey /\ PageOf(Key(r)) = tab[r]
    <2>1. retained' = Without(retained, Key(r))
      BY <1>4 DEF Forgotten
    <2>2. retained' \in Seq(Entry) /\ Distinct(retained') /\ Pages' = {e \in Pages : e.key # Key(r)}
      BY <2>1, <1>1, WithoutIs DEF Pages
    <2> QED  BY <2>2, <1>2, <1>3, <1>4
  <1>5. CASE ~(Key(r) # NoKey /\ PageOf(Key(r)) = tab[r])
    <2>1. retained' = retained /\ Pages' = Pages
      BY <1>5 DEF Forgotten, Pages
    <2>2. \A e \in Pages : e.tab # tab[r]
      BY <1>2, <1>3, <1>5
    <2> QED  BY <2>1, <2>2, <1>1
  <1> QED  BY <1>4, <1>5

LEMMA ForgettingKeeps ==
  ASSUME PoolBounds, PoolInv, NEW r \in Runs, phase[r] = "working", Goes(r, "closing"), retained' = Forgotten(r),
         suspect' \in BOOLEAN,
         UNCHANGED <<plan, slot, tab, reused, live, tabs, opened, release, faults, stuck, gone, lost>>
  PROVE  PoolInv'
  <1>1. /\ r \in Active /\ PoolTyped
        /\ tab[r] # 0 /\ tab[r] \in Nat
        /\ live \subseteq tabs /\ \A x \in tabs : x # 0 /\ x \in live \cup lost
        /\ \A e \in Pages : e.key = Key(r) => e.tab = tab[r] \/ e \in Doubled
        /\ \A e \in Pages : e.tab = tab[r] => e.key = Key(r)
    BY BegunRun DEF States
  <1>2. retained' \in Seq(Entry) /\ Distinct(retained') /\ Pages' = {e \in Pages : e.tab # tab[r]}
    BY ForgottenIs
  <1>3. tab' = [tab EXCEPT ![r] = tab[r]]
    BY <1>1 DEF PoolTyped
  <1>4. "closing" \in States \ {"idle", "queued"}
    BY DEF States
  <1>5. /\ \A e \in Pages' : e \in Pages /\ e.tab # tab[r] /\ (e.key = Key(r) => e \in Doubled)
        /\ \A e \in Pages : e \in Pages' \/ (e.key = Key(r) /\ e.tab = tab[r])
    BY <1>1, <1>2
  <1>6. PICK t \in Nat : t = tab[r]
    BY <1>1
  <1>7. tab' \in [Runs -> Nat] /\ \A s \in Runs : tab'[s] = IF s = r THEN t ELSE tab[s]
    BY <1>3, <1>6, <1>1 DEF PoolTyped
  <1>8. RunStep(r, "closing", tab[r])
    BY <1>1, <1>2, <1>4, <1>5, <1>6, <1>7 DEF RunStep, PoolTyped
  <1> QED  BY <1>8, RunSteps

LEMMA FailKeeps ==
  ASSUME PoolBounds, PoolInv, NEW r \in Runs, NEW unread \in BOOLEAN, Fail(r, unread)
  PROVE  PoolInv'
  <1>1. suspect' \in BOOLEAN
    BY DEF Fail, PoolInv, PoolTyped
  <1> QED  BY <1>1, ForgettingKeeps DEF Fail

LEMMA CompleteKeeps ==
  ASSUME PoolBounds, PoolInv, NEW r \in Runs, Complete(r)
  PROVE  PoolInv'
  <1>1. CASE ~(plan[r].retain /\ Key(r) # NoKey /\ tab[r] \in live)
    <2>1. suspect' \in BOOLEAN
      BY DEF Complete, PoolInv, PoolTyped
    <2> QED  BY <1>1, <2>1, ForgettingKeeps DEF Complete
  <1>2. CASE plan[r].retain /\ Key(r) # NoKey /\ tab[r] \in live
    <2>1. /\ r \in Active /\ PoolTyped /\ retained \in Seq(Entry) /\ Distinct(retained)
          /\ tab[r] # 0 /\ tab[r] \in Nat
          /\ live \subseteq tabs /\ \A x \in tabs : x # 0 /\ x \in live \cup lost
          /\ \A e \in Pages : e.tab = tab[r] => e.key = Key(r)
          /\ \A e \in Pages : e.key = Key(r) => e.tab = tab[r] \/ (e \in Doubled /\ e.tab \in stuck)
      BY BegunRun DEF States, Complete
    <2>2. Key(r) \in Keys
      BY <1>2, <2>1 DEF PoolTyped, Plans, Key
    <2> DEFINE x == [key |-> Key(r), tab |-> tab[r]]
    <2>3. retained' = With(Key(r), tab[r])
      BY <1>2 DEF Complete
    <2>4. \A e \in Pages : e.key # Key(r) => e.tab # tab[r]
      BY <2>1
    <2>5. /\ With(Key(r), tab[r]) \in Seq(Entry) /\ Distinct(With(Key(r), tab[r]))
          /\ ToSet(With(Key(r), tab[r])) = {e \in Pages : e.key # Key(r)} \cup {x}
      BY <2>1, <2>2, <2>4, SetIs
    <2>6. retained' \in Seq(Entry) /\ Distinct(retained') /\ Pages' = {e \in Pages : e.key # Key(r)} \cup {x}
      BY <2>3, <2>5 DEF Pages
    <2>7. x.key = Key(r) /\ x.tab = tab[r] /\ \A e \in Pages : e.key = Key(r) /\ e.tab = tab[r] => e = x
      <3>1. \A e \in Pages : e = [key |-> e.key, tab |-> e.tab]
        BY <2>1, PagesAre DEF Entry
      <3> QED  BY <3>1
    <2> HIDE DEF x
    <2>8. Ended(r) /\ tab' = [tab EXCEPT ![r] = 0]
      BY <1>2 DEF Complete
    <2>9. UNCHANGED <<plan, slot, reused, live, tabs, opened, suspect, release, faults, stuck, gone, lost>> /\ phase[r] = "working"
      BY DEF Complete
    <2>10. x \in Pages'
      BY <2>6
    <2>11. \A e \in Pages : e \in Pages' \/ (e.key = Key(r) /\ e.tab \in stuck)
      BY <2>1, <2>6, <2>7
    <2>12. \A e \in Pages' : e \in Pages \/ (e.key = Key(r) /\ e.tab = tab[r])
      BY <2>6, <2>7
    <2>13. \A e \in Pages' : e.tab # 0
      BY <2>1, <2>12, BegunRun DEF States, Complete
    <2>14. RunStep(r, "over", 0)
      BY <2>1, <2>6, <2>7, <2>8, <2>9, <2>10, <2>11, <2>12, <2>13 DEF RunStep, States, PoolTyped
    <2> QED  BY <2>14, RunSteps
  <1> QED  BY <1>1, <1>2

LEMMA OpenPageKeeps ==
  ASSUME PoolBounds, PoolInv, NEW r \in Runs, OpenPage(r)
  PROVE  PoolInv'
  <1>1. phase[r] = "connected"
    BY DEF OpenPage
  <1>2. /\ r \in Active /\ PoolTyped /\ retained \in Seq(Entry) /\ Distinct(retained)
        /\ tab[r] = 0
        /\ live \subseteq tabs /\ \A x \in tabs : x # 0 /\ x \in live \cup lost
        /\ \A e \in Pages : e.key = Key(r) => e.tab = tab[r] \/ e \in Doubled
        /\ \A e \in Pages : e.tab # 0
    BY <1>1, BegunRun DEF States
  <1>3. Pages' = Pages
    BY DEF Pages, OpenPage
  <1>4. \A e \in Pages : e.tab # opened + 1
    BY <1>2 DEF PoolInv, Apart, PoolTyped
  <1>5. RunStep(r, "working", opened + 1)
    BY <1>1, <1>2, <1>3, <1>4 DEF RunStep, OpenPage, States, PoolTyped
  <1> QED  BY <1>5, RunSteps

LEMMA ReuseKeeps ==
  ASSUME PoolBounds, PoolInv, NEW r \in Runs, Reuse(r)
  PROVE  PoolInv'
  <1>1. phase[r] = "probing" /\ tab[r] \in live
    BY DEF Reuse
  <1>2. /\ r \in Active /\ PoolTyped /\ retained \in Seq(Entry) /\ Distinct(retained)
        /\ tab[r] # 0 /\ tab[r] \in Nat
        /\ live \subseteq tabs /\ \A x \in tabs : x # 0 /\ x \in live \cup lost
        /\ \A e \in Pages : e.tab = tab[r] => e.key = Key(r)
        /\ \A e \in Pages : e.key = Key(r) => e.tab = tab[r] \/ (e \in Doubled /\ e.tab \in stuck)
    BY <1>1, BegunRun DEF States
  <1>3. Key(r) \in Keys
    <2>1. Key(r) # NoKey
      BY <1>1 DEF PoolInv, Apart
    <2> QED  BY <1>2, <2>1 DEF PoolTyped, Plans, Key
  <1> DEFINE x == [key |-> Key(r), tab |-> tab[r]]
  <1>4. retained' = Refreshed(Key(r), tab[r])
    BY DEF Reuse
  <1>5. /\ Refreshed(Key(r), tab[r]) \in Seq(Entry) /\ Distinct(Refreshed(Key(r), tab[r]))
        /\ ToSet(Refreshed(Key(r), tab[r])) = {e \in Pages : e.key # Key(r)} \cup {x}
    BY <1>2, <1>3, SetIs
  <1>6. retained' \in Seq(Entry) /\ Distinct(retained') /\ Pages' = {e \in Pages : e.key # Key(r)} \cup {x}
    BY <1>4, <1>5 DEF Pages
  <1>7. x.key = Key(r) /\ x.tab = tab[r] /\ \A e \in Pages : e.key = Key(r) /\ e.tab = tab[r] => e = x
    <2>1. \A e \in Pages : e = [key |-> e.key, tab |-> e.tab]
      BY <1>2, PagesAre DEF Entry
    <2> QED  BY <2>1
  <1> HIDE DEF x
  <1>8. x \in Pages'
    BY <1>6
  <1>9. \A e \in Pages : e \in Pages' \/ (e.key = Key(r) /\ e.tab \in stuck)
    BY <1>2, <1>6, <1>7
  <1>10. \A e \in Pages' : e \in Pages \/ (e.key = Key(r) /\ e.tab = tab[r])
    BY <1>6, <1>7
  <1>11. \A e \in Pages' : e.key = Key(r) => e.tab = tab[r]
    BY <1>6, <1>7
  <1>12. RunStep(r, "kept", tab[r])
    BY <1>1, <1>2, <1>6, <1>7, <1>8, <1>9, <1>10, <1>11 DEF RunStep, Reuse, States, PoolTyped
  <1> QED  BY <1>12, RunSteps

LEMMA UnobservableKeeps ==
  ASSUME PoolBounds, PoolInv, NEW r \in Runs, Unobservable(r)
  PROVE  PoolInv'
  <1>1. phase[r] = "probing"
    BY DEF Unobservable
  <1>2. /\ r \in Active /\ PoolTyped /\ retained \in Seq(Entry) /\ Distinct(retained)
        /\ tab[r] # 0 /\ tab[r] \in Nat
        /\ live \subseteq tabs /\ \A x \in tabs : x # 0 /\ x \in live \cup lost
        /\ \A e \in Pages : e.tab = tab[r] => e.key = Key(r)
        /\ \A e \in Pages : e.key = Key(r) => e.tab = tab[r] \/ (e \in Doubled /\ e.tab \in stuck)
    BY <1>1, BegunRun DEF States
  <1>3. retained' \in Seq(Entry) /\ Distinct(retained') /\ Pages' = {e \in Pages : e.key # Key(r)}
    BY <1>2, WithoutIs DEF Unobservable, Pages
  <1>4. faults' \in Nat
    BY <1>2 DEF Unobservable, PoolTyped
  <1>5. \A e \in Pages : e \in Pages' \/ (e.key = Key(r) /\ (e.tab \in stuck \/ e.tab = tab[r]))
    BY <1>2, <1>3
  <1>6. RunStep(r, "dropping", tab[r])
    BY <1>1, <1>2, <1>3, <1>4, <1>5 DEF RunStep, Unobservable, States, PoolTyped
  <1> QED  BY <1>6, RunSteps

LEMMA StartKeeps ==
  ASSUME PoolBounds, PoolInv, NEW r \in Runs, Start(r)
  PROVE  PoolInv'
  <1>1. phase[r] = "queued" /\ IsNext(r) /\ ~SlotCloses(r)
    BY DEF Start, SlotCloses
  <1>2. /\ r \in Active /\ PoolTyped /\ retained \in Seq(Entry) /\ Distinct(retained)
        /\ live \subseteq tabs /\ (\A x \in tabs : x # 0 /\ x \in live \cup lost) /\ tab[r] = 0
    <2>1. r \in Active /\ PoolTyped /\ Apart /\ Seen
      BY <1>1 DEF PoolInv, Active
    <2>2. tab[r] = 0
      BY <1>1, <2>1 DEF Apart, Uses
    <2>3. retained \in Seq(Entry) /\ live \subseteq tabs /\ \A x \in tabs : x # 0
      BY <2>1 DEF PoolTyped
    <2> QED  BY <2>1, <2>2, <2>3 DEF Apart, Seen
  <1>3. \A e \in Pages : PageOf(e.key) = e.tab /\ e.tab \in 1 .. opened /\ e.key \in Keys
    BY <1>2, PagesAre DEF PoolInv, Apart, Entry
  <1>4. CASE PageOf(Key(r)) \in live
    <2>0. Key(r) # NoKey
      BY <1>2, <1>3, <1>4, PagesAre DEF PoolBounds
    <2>1. PICK e \in Pages : e.key = Key(r) /\ e.tab = PageOf(Key(r))
      BY <1>2, <1>3, <1>4, PagesAre
    <2>2. Pages' = Pages
      BY <1>4 DEF Start, Pages
    <2>3. \A d \in Pages : d.key = Key(r) => d.tab = e.tab
      BY <1>3, <2>1
    <2>4. e.tab \in Nat /\ e.tab # 0 /\ \A d \in Pages : d.tab # 0
      BY <1>2, <1>3 DEF PoolTyped
    <2>5. RunStep(r, "probing", e.tab)
      BY <1>1, <1>2, <1>4, <2>1, <2>2, <2>3, <2>4, <2>0 DEF RunStep, Start, States, PoolTyped
    <2> QED  BY <2>5, RunSteps
  <1>5. CASE PageOf(Key(r)) \notin live
    <2>1. retained' \in Seq(Entry) /\ Distinct(retained') /\ Pages' = {e \in Pages : e.key # Key(r)}
      BY <1>2, <1>5, WithoutIs DEF Start, Pages
    <2>2. \A e \in Pages : e \in Pages' \/ (e.key = Key(r) /\ (e.tab \in tabs => e.tab \in lost))
      BY <1>2, <1>3, <1>5, <2>1
    <2>3. PICK w \in {"over", "fresh"} : (w = "over" /\ Ended(r)) \/ (w # "over" /\ Goes(r, w))
      BY <1>5 DEF Start, Unkept
    <2>4. w \in States \ {"idle", "queued"}
      BY DEF States
    <2>5. \A e \in Pages' : e.tab # 0 /\ e.key # Key(r)
      BY <1>3, <2>1, <1>2 DEF PoolTyped
    <2>6. RunStep(r, w, 0)
      BY <1>1, <1>2, <1>5, <2>1, <2>2, <2>3, <2>4, <2>5 DEF RunStep, Start, PoolTyped
    <2> QED  BY <2>6, RunSteps
  <1> QED  BY <1>4, <1>5

\* A step in which no run moves and no page is set or forgotten; tabs may lose their handle, or close.
StillStep ==
  /\ UNCHANGED <<plan, phase, tab, tails, reused, retained, opened, suspect>> /\ faults' \in Nat
  /\ stuck \subseteq stuck' /\ stuck' \subseteq 1 .. opened
  /\ slot' \in [Runs -> SlotRecord] /\ release' \in [Keys -> ReleaseRecord] /\ Failed' = Failed
  /\ \A s \in Runs : /\ SlotCloses(s)' => SlotCloses(s) /\ slot'[s] = slot[s]
                     /\ SlotCloses(s) => SlotCloses(s)' \/ (slot[s].tab \in tabs' => slot[s].tab \in lost')
                     /\ phase[s] = "idle" => slot'[s] = slot[s]
  /\ \A k \in Keys : /\ ReleaseCloses(k)' => ReleaseCloses(k) /\ release'[k] = release[k]
                     /\ ReleaseCloses(k) => ReleaseCloses(k)' \/ (release[k].tab \in tabs' => release[k].tab \in lost' \cup stuck')
  /\ live' \subseteq live /\ live' \subseteq tabs' /\ tabs' \subseteq tabs
  /\ gone \subseteq gone' /\ lost \subseteq lost' /\ gone' \cup lost' \subseteq 1 .. opened
  /\ \A x \in tabs' : x \in live' \cup lost'
  /\ \A s \in Holding : tab[s] \in live => tab[s] \in live' \cup gone'

LEMMA StillSteps ==
  ASSUME PoolBounds, PoolInv, StillStep
  PROVE  PoolInv'
  <1> USE DEF StillStep
  <1>0. PoolTyped /\ Queued /\ Apart /\ SlotsApart /\ ReleasesApart /\ Seen /\ Room
    BY DEF PoolInv
  <1>1. Pages' = Pages /\ Active' = Active /\ Holding' = Holding /\ Doubled' = Doubled
    BY DEF Pages, Active, Holding, Doubled, Key
  <1>2. PoolTyped'
    BY <1>0 DEF PoolTyped
  <1>3. Queued'
    BY <1>0, <1>1 DEF Queued, Key
  <1>4. Apart'
    BY <1>0, <1>1 DEF Apart, Uses, Key
  <1>5. SlotsApart' /\ ReleasesApart'
    BY <1>0, <1>1, ClosingsApart DEF PoolTyped
  <1>6. Seen'
    <2>1. ASSUME NEW x \in tabs'  PROVE Accounted(x)'
      <3>1. Accounted(x)
        BY <1>0 DEF Seen
      <3>2. CASE \E s \in Runs : SlotCloses(s) /\ slot[s].tab = x
        BY <3>2 DEF Accounted
      <3>3. CASE \E k \in Keys : ReleaseCloses(k) /\ release[k].tab = x
        BY <3>3 DEF Accounted
      <3>4. CASE \E s \in Runs : Uses(s) /\ tab[s] = x
        BY <3>4 DEF Accounted, Uses
      <3> QED  BY <1>1, <3>1, <3>2, <3>3, <3>4 DEF Accounted
    <2>2. \A s \in Holding' : tab'[s] \in live' \cup gone'
      BY <1>0, <1>1 DEF Seen
    <2>3. \A s \in Runs : phase'[s] = "kept" => tab'[s] \in stuck' \/ tab'[s] \notin live' \/ \E e \in Pages' : e.tab = tab'[s]
      BY <1>0, <1>1 DEF Seen
    <2> QED  BY <1>0, <1>1, <2>1, <2>2, <2>3 DEF Seen
  <1>7. Room'
    <2>1. KeysOf(Pages, Active)' = KeysOf(Pages, Active) /\ LooseIn(Active)' = LooseIn(Active)
      BY <1>1 DEF KeysOf, LooseIn, Key
    <2> QED  BY <1>0, <1>1, <2>1 DEF Room
  <1> QED  BY <1>2, <1>3, <1>4, <1>5, <1>6, <1>7 DEF PoolInv

LEMMA EvictedKeeps ==
  ASSUME PoolBounds, PoolInv, NEW r \in Runs, Evicted(r)
  PROVE  PoolInv'
  <1>1. PoolTyped /\ SlotsApart /\ Apart /\ Seen
    BY DEF PoolInv
  <1>2. SlotCloses(r) /\ phase[r] = "queued" /\ \A s \in Runs : tab[s] # slot[r].tab
    BY <1>1 DEF Evicted, SlotsApart, SlotCloses
  <1>3. slot' = [slot EXCEPT ![r].state = "ready"] /\ slot \in [Runs -> SlotRecord]
    BY <1>1 DEF Evicted, PoolTyped
  <1>4. slot' \in [Runs -> SlotRecord] /\ slot'[r].state = "ready" /\ \A s \in Runs \ {r} : slot'[s] = slot[s]
    BY <1>3 DEF SlotRecord
  <1>5. Failed' = Failed
    BY <1>2, <1>4 DEF Failed, SlotCloses
  <1>6. StillStep
    BY <1>1, <1>2, <1>4, <1>5 DEF StillStep, Evicted, Close, PoolTyped, SlotCloses, ReleaseCloses, Seen, Holding
  <1> QED  BY <1>6, StillSteps

LEMMA ReleasedKeeps ==
  ASSUME PoolBounds, PoolInv, NEW k \in Keys, Released(k)
  PROVE  PoolInv'
  <1>1. PoolTyped /\ ReleasesApart /\ Seen
    BY DEF PoolInv
  <1>2. ReleaseCloses(k) /\ \A s \in Runs : tab[s] # release[k].tab
    BY <1>1 DEF Released, ReleasesApart, ReleaseCloses
  <1>3. release' = [release EXCEPT ![k] = Open("done")] /\ release \in [Keys -> ReleaseRecord] /\ Open("done") \in ReleaseRecord
    BY <1>1 DEF Released, PoolTyped, Open, ReleaseRecord
  <1>4. release' \in [Keys -> ReleaseRecord] /\ release'[k].state = "done" /\ \A j \in Keys \ {k} : release'[j] = release[j]
    BY <1>3 DEF Open
  <1>5. Failed' = Failed
    BY DEF Failed, Released
  <1>6. /\ live' \subseteq tabs' /\ \A x \in tabs' : x \in tabs /\ x \in live' \cup lost
        /\ \A x \in live : x \in live' \/ x = release[k].tab
        /\ live' \subseteq live
        /\ release[k].tab \in tabs' => release[k].tab \in lost \cup stuck'
        /\ stuck \subseteq stuck' /\ stuck' \subseteq 1 .. opened /\ faults' \in Nat
    BY <1>1, ClosesLeaves DEF Released, Seen
  <1>7. StillStep
    BY <1>1, <1>2, <1>4, <1>5, <1>6 DEF StillStep, Released, PoolTyped, SlotCloses, ReleaseCloses, Holding
  <1> QED  BY <1>7, StillSteps

LEMMA ReleaseKeeps ==
  ASSUME PoolBounds, PoolInv, NEW k \in Keys, Release(k)
  PROVE  PoolInv'
  <1>1. PoolTyped /\ Seen
    BY DEF PoolInv
  <1>2. release' = [release EXCEPT ![k].state = "waiting"] /\ release \in [Keys -> ReleaseRecord] /\ release[k].state = "no"
    BY <1>1 DEF Release, PoolTyped
  <1>3. release' \in [Keys -> ReleaseRecord] /\ release'[k].state = "waiting" /\ \A j \in Keys \ {k} : release'[j] = release[j]
    BY <1>2 DEF ReleaseRecord
  <1>4. Failed' = Failed
    BY DEF Failed, Release
  <1>5. StillStep
    BY <1>1, <1>2, <1>3, <1>4 DEF StillStep, Release, PoolTyped, SlotCloses, ReleaseCloses, Seen
  <1> QED  BY <1>5, StillSteps

LEMMA UserClosesKeeps ==
  ASSUME PoolBounds, PoolInv, NEW t, UserCloses(t)
  PROVE  PoolInv'
  <1>1. PoolTyped /\ Seen
    BY DEF PoolInv
  <1>2. Failed' = Failed
    BY DEF Failed, UserCloses
  <1>3. faults' \in Nat
    BY <1>1 DEF UserCloses, PoolTyped
  <1>4. StillStep
    BY <1>1, <1>2, <1>3 DEF StillStep, UserCloses, PoolTyped, SlotCloses, ReleaseCloses, Seen
  <1> QED  BY <1>4, StillSteps

LEMMA DisconnectKeeps ==
  ASSUME PoolBounds, PoolInv, Disconnect
  PROVE  PoolInv'
  <1>1. PoolTyped /\ Seen
    BY DEF PoolInv
  <1>2. Failed' = Failed
    BY DEF Failed, Disconnect
  <1>3. faults' \in Nat
    BY <1>1 DEF Disconnect, PoolTyped
  <1>4. StillStep
    BY <1>1, <1>2, <1>3 DEF StillStep, Disconnect, PoolTyped, SlotCloses, ReleaseCloses, Seen
  <1> QED  BY <1>4, StillSteps

LEMMA ReleasePageKeeps ==
  ASSUME PoolBounds, PoolInv, NEW k \in Keys, ReleasePage(k)
  PROVE  PoolInv'
  <1>0. PoolTyped /\ Queued /\ Apart /\ SlotsApart /\ ReleasesApart /\ Seen /\ Room
    BY DEF PoolInv
  <1>1. UNCHANGED <<plan, phase, slot, tab, reused, tails, live, tabs, opened, suspect, faults, stuck, gone, lost>>
        /\ tails[k] = <<>> /\ ~ReleaseCloses(k)
    BY DEF ReleasePage, ReleaseCloses
  <1>2. \A s \in Active : Key(s) # k
    <2>1. ToSet(tails[k]) = {}
      BY <1>1 DEF ToSet
    <2>2. ToSet(tails[k]) = {s \in Active : Key(s) = k}
      BY <1>0 DEF Queued
    <2> QED  BY <2>1, <2>2
  <1>3. retained \in Seq(Entry) /\ Distinct(retained)
    BY <1>0 DEF PoolTyped, Apart
  <1>4. retained' \in Seq(Entry) /\ Distinct(retained') /\ Pages' = {e \in Pages : e.key # k}
    BY <1>3, WithoutIs DEF ReleasePage, Pages
  <1>5. \A e \in Pages : PageOf(e.key) = e.tab /\ e.tab \in 1 .. opened
    BY <1>0, <1>3, PagesAre DEF Apart
  <1>6. PageOf(k) \in live => \E e \in Pages : e.key = k /\ e.tab = PageOf(k)
    <2>1. live \subseteq 1 .. opened
      BY <1>0 DEF PoolTyped
    <2> QED  BY <2>1, <1>3, <1>5, PagesAre
  <1>7. /\ release' \in [Keys -> ReleaseRecord] /\ \A j \in Keys \ {k} : release'[j] = release[j]
        /\ ReleaseCloses(k)' <=> PageOf(k) \in live
        /\ ReleaseCloses(k)' => release'[k].tab = PageOf(k)
    <2> DEFINE new == IF PageOf(k) \in live THEN [state |-> "closing", key |-> k, tab |-> PageOf(k)] ELSE Open("done")
    <2>1. release' = [release EXCEPT ![k] = new] /\ release \in [Keys -> ReleaseRecord]
      BY <1>0 DEF ReleasePage, PoolTyped
    <2>2. PageOf(k) \in live => PageOf(k) \in Nat
      BY <1>0 DEF PoolTyped
    <2>3. /\ new \in ReleaseRecord /\ (new.state = "closing" <=> PageOf(k) \in live)
          /\ (new.state = "closing" => new.tab = PageOf(k))
      BY <2>2 DEF ReleaseRecord, Open
    <2> HIDE DEF new
    <2>4. release' \in [Keys -> ReleaseRecord] /\ release'[k] = new /\ \A j \in Keys \ {k} : release'[j] = release[j]
      BY <2>1, <2>3
    <2> QED  BY <2>3, <2>4 DEF ReleaseCloses
  <1>8. PoolTyped'
    BY <1>0, <1>1, <1>4, <1>7 DEF PoolTyped
  <1>9. Active' = Active /\ Holding' = Holding /\ Failed' = Failed /\ \A e \in Doubled' : e \in Doubled
    BY <1>1, <1>4 DEF Active, Holding, Doubled, Key, Failed
  <1>10. Queued'
    BY <1>0, <1>1, <1>9 DEF Queued, Key
  <1>11. Apart'
    BY <1>0, <1>1, <1>4 DEF Apart, Uses, Key
  <1>12. \A s \in Runs : Uses(s) => s \in Active
    BY DEF Uses, Active
  <1>13. ASSUME PageOf(k) \in live
         PROVE  /\ \A s \in Runs : tab[s] # PageOf(k)
                /\ \A e \in Pages' : e.tab # PageOf(k)
                /\ \A s \in Runs : SlotCloses(s) => slot[s].tab # PageOf(k)
                /\ PageOf(k) \in 1 .. opened
    <2>1. PICK e \in Pages : e.key = k /\ e.tab = PageOf(k)
      BY <1>6, <1>13
    <2>2. \A s \in Runs : tab[s] # e.tab
      BY <2>1, <1>0, <1>2, <1>5, <1>12 DEF Apart, PoolTyped
    <2>3. \A d \in Pages' : d.tab # e.tab
      BY <2>1, <1>4, <1>3, PagesAre
    <2>4. \A s \in Runs : SlotCloses(s) => slot[s].tab # e.tab
      BY <1>0 DEF SlotsApart
    <2> QED  BY <2>1, <2>2, <2>3, <2>4, <1>5
  <1>14. SlotsApart'
    BY <1>0, <1>1, <1>4, <1>7, <1>13 DEF SlotsApart, SlotCloses, ReleaseCloses
  <1>15. ReleasesApart'
    BY <1>0, <1>1, <1>4, <1>7, <1>13 DEF ReleasesApart, ReleaseCloses
  <1>16. Seen'
    <2>1. ASSUME NEW x \in tabs  PROVE Accounted(x)'
      <3>1. Accounted(x) /\ x \in live \cup lost
        BY <1>0 DEF Seen
      <3>2. CASE \E e \in Pages : e.tab = x
        <4>1. PICK e \in Pages : e.tab = x
          BY <3>2
        <4>2. CASE e.key # k
          BY <4>1, <4>2, <1>4 DEF Accounted
        <4>3. CASE e.key = k
          BY <4>1, <4>3, <3>1, <1>1, <1>5, <1>7 DEF Accounted
        <4> QED  BY <4>2, <4>3
      <3>3. CASE \E j \in Keys : ReleaseCloses(j) /\ release[j].tab = x
        <4>1. PICK j \in Keys : ReleaseCloses(j) /\ release[j].tab = x
          BY <3>3
        <4>2. j # k /\ ReleaseCloses(j)' /\ release'[j].tab = x
          BY <4>1, <1>1, <1>7 DEF ReleaseCloses
        <4> QED  BY <4>2 DEF Accounted
      <3>4. CASE \E s \in Runs : Uses(s) /\ tab[s] = x
        BY <3>4, <1>1 DEF Accounted, Uses
      <3> QED  BY <1>1, <3>1, <3>2, <3>3, <3>4 DEF Accounted, SlotCloses
    <2>2. \A s \in Runs : phase'[s] = "kept" => tab'[s] \in stuck' \/ tab'[s] \notin live' \/ \E e \in Pages' : e.tab = tab'[s]
      <3> SUFFICES ASSUME NEW s \in Runs, phase[s] = "kept", NEW e \in Pages, e.tab = tab[s]
                   PROVE  e \in Pages'
        BY <1>0, <1>1 DEF Seen
      <3>1. s \in Active /\ Key(s) = e.key
        BY <1>0 DEF Apart, Active
      <3> QED  BY <3>1, <1>2, <1>4
    <2> QED  BY <1>0, <1>1, <1>9, <2>1, <2>2 DEF Seen
  <1>17. Room'
    <2>1. /\ \A j \in KeysOf(Pages, Active)' : j \in KeysOf(Pages, Active)
          /\ \A s \in LooseIn(Active)' : s \in LooseIn(Active)
      BY <1>1, <1>4, <1>9 DEF KeysOf, LooseIn, Key
    <2> QED  BY <2>1, <1>0, <1>4, <1>9, RoomShrinks
  <1> QED  BY <1>8, <1>10, <1>11, <1>14, <1>15, <1>16, <1>17 DEF PoolInv

LEMMA ConnectKeeps ==
  ASSUME PoolBounds, PoolInv, NEW r \in Runs, Connect(r)
  PROVE  PoolInv'
  <1>1. phase[r] = "fresh"
    BY DEF Connect
  <1>2. /\ r \in Active /\ PoolTyped /\ retained \in Seq(Entry) /\ Distinct(retained)
        /\ tab[r] = 0
        /\ live \subseteq tabs /\ \A x \in tabs : x # 0 /\ x \in live \cup lost
        /\ \A e \in Pages : e.key = Key(r) => e.tab = tab[r] \/ e \in Doubled
        /\ \A e \in Pages : e.tab # 0
    BY <1>1, BegunRun DEF States
  <1>3. CASE ~Resets(r)
    <2>1. Pages' = Pages
      BY <1>3 DEF Pages, Connect
    <2>2. tab' = tab
      BY DEF Connect
    <2>3. RunStep(r, "connected", 0)
      BY <1>1, <1>2, <1>3, <2>1, <2>2 DEF RunStep, Connect, States, PoolTyped
    <2> QED  BY <2>3, RunSteps
  <1>4. CASE Resets(r)
    <2>0. PoolTyped /\ Queued /\ Apart /\ SlotsApart /\ ReleasesApart /\ Seen /\ Room
      BY DEF PoolInv
    <2>1. /\ Goes(r, "connected") /\ suspect' = FALSE /\ retained' = <<>> /\ live' = {} /\ lost' = lost \cup tabs
          /\ UNCHANGED <<plan, slot, tab, reused, tabs, opened, release, faults, stuck, gone>>
      BY <1>4 DEF Connect
    <2>2. Active = {r}
      <3>1. IsFiniteSet(Runs) /\ Active \in SUBSET Runs
        BY DEF PoolBounds, Active
      <3>2. IsFiniteSet(Active) /\ Cardinality(Active) \in Nat /\ IsFiniteSet(Active \ {r}) /\ Cardinality(Active \ {r}) = Cardinality(Active) - 1
        BY <1>2, <3>1, FS_Subset, FS_CardinalityType, FS_RemoveElement
      <3>3. Cardinality(Active \ {r}) \in Nat /\ Cardinality(Active) <= 1
        BY <1>4, <3>2, FS_CardinalityType DEF Resets
      <3>4. Cardinality(Active \ {r}) = 0
        BY <3>2, <3>3
      <3>5. Active \ {r} = {}
        BY <3>2, <3>4, FS_EmptySet
      <3> QED  BY <3>5, <1>2
    <2>3. Queued' /\ phase' \in [Runs -> States]
      BY <1>1, <1>2, <2>0, <2>1, GoesQueues DEF States
    <2>4. /\ \A s \in Runs : phase'[s] = IF s = r THEN "connected" ELSE phase[s]
          /\ Active' = {r}
      BY <1>2, <2>0, <2>1, <2>2, ActiveIs, ZenonT(40) DEF Goes, States
    <2>5. Pages' = {} /\ retained' \in Seq(Entry) /\ Distinct(retained')
      BY <2>1 DEF Pages, ToSet, Distinct
    <2>6. \A s \in Runs : (tab[s] # 0 => s # r /\ phase[s] = "over") /\ ~SlotCloses(s) /\ phase'[s] \notin {"kept", "probing", "working"}
      <3> SUFFICES ASSUME NEW s \in Runs  PROVE (tab[s] # 0 => s # r /\ phase[s] = "over") /\ ~SlotCloses(s) /\ phase'[s] \notin {"kept", "probing", "working"}
        OBVIOUS
      <3>1. s # r => phase[s] \in {"idle", "over"}
        BY <2>2 DEF Active
      <3>2. tab[s] # 0 => s # r /\ phase[s] = "over"
        BY <1>2, <2>0, <3>1 DEF Apart, Uses
      <3> QED  BY <1>1, <2>0, <2>4, <3>1, <3>2 DEF SlotsApart
    <2>7. PoolTyped'
      BY <2>0, <2>1, <2>3, <2>5 DEF PoolTyped, Goes
    <2>8. Apart'
      BY <2>0, <2>1, <2>4, <2>5, <2>6, <1>1 DEF Apart, Uses, Key
    <2>9. SlotsApart' /\ ReleasesApart'
      BY <2>0, <2>1, <2>4, <2>5, <2>6 DEF SlotsApart, ReleasesApart, SlotCloses, ReleaseCloses
    <2>10. Seen'
      BY <2>1, <2>4, <2>5, <2>6 DEF Seen, Doubled, Holding, Accounted
    <2>11. Room'
      <3>1. Failed' = Failed
        BY <2>1 DEF Failed
      <3>2. /\ \A k \in KeysOf(Pages, Active)' : k \in KeysOf(Pages, Active)
            /\ \A s \in LooseIn(Active)' : s \in LooseIn(Active)
            /\ \A e \in Doubled' : e \in Doubled
        BY <2>1, <2>2, <2>4, <2>5 DEF KeysOf, LooseIn, Key, Doubled
      <3> QED  BY <2>0, <2>5, <3>1, <3>2, RoomShrinks
    <2> QED  BY <2>3, <2>7, <2>8, <2>9, <2>10, <2>11 DEF PoolInv
  <1> QED  BY <1>3, <1>4

\* An eviction that fails puts one page back: one more conversation, or one more page of a run's conversation.
LEMMA RoomGrows ==
  ASSUME PoolBounds, PoolTyped, Room, retained' \in Seq(Entry), NEW r \in Runs \ Failed, Failed' = Failed \cup {r},
         NEW k, NEW e,
         \A s \in LooseIn(Active)' : s \in LooseIn(Active),
         \/ /\ \A j \in KeysOf(Pages, Active)' : j \in KeysOf(Pages, Active) \/ j = k
            /\ \A d \in Doubled' : d \in Doubled
         \/ /\ \A j \in KeysOf(Pages, Active)' : j \in KeysOf(Pages, Active)
            /\ \A d \in Doubled' : d \in Doubled \/ d = e
  PROVE  Room'
  <1>1. /\ IsFiniteSet(Doubled) /\ IsFiniteSet(Failed) /\ Cardinality(Failed) \in Nat
        /\ IsFiniteSet(KeysOf(Pages, Active)) /\ IsFiniteSet(LooseIn(Active))
    BY CountsAreFinite DEF PoolTyped
  <1>2. Cardinality(Failed') = Cardinality(Failed) + 1
    BY <1>1, FS_AddElement
  <1>3. /\ Cardinality(LooseIn(Active)') \in Nat /\ Cardinality(LooseIn(Active)) \in Nat
        /\ Cardinality(LooseIn(Active)') <= Cardinality(LooseIn(Active))
    BY <1>1, SmallerIsLess
  <1>4. Limit \in Nat
    BY DEF PoolBounds
  <1>5. CASE /\ \A j \in KeysOf(Pages, Active)' : j \in KeysOf(Pages, Active) \/ j = k
             /\ \A d \in Doubled' : d \in Doubled
    <2>1. /\ Cardinality(Doubled') \in Nat /\ Cardinality(Doubled) \in Nat /\ Cardinality(Doubled') <= Cardinality(Doubled)
      BY <1>1, <1>5, SmallerIsLess
    <2>2. /\ Cardinality(KeysOf(Pages, Active)') \in Nat /\ Cardinality(KeysOf(Pages, Active)) \in Nat
          /\ Cardinality(KeysOf(Pages, Active)') <= Cardinality(KeysOf(Pages, Active)) + 1
      BY <1>1, <1>5, OneMore
    <2> QED  BY <1>1, <1>2, <1>3, <1>4, <2>1, <2>2, SMTT(30) DEF Room
  <1>6. CASE /\ \A j \in KeysOf(Pages, Active)' : j \in KeysOf(Pages, Active)
             /\ \A d \in Doubled' : d \in Doubled \/ d = e
    <2>1. /\ Cardinality(Doubled') \in Nat /\ Cardinality(Doubled) \in Nat /\ Cardinality(Doubled') <= Cardinality(Doubled) + 1
      BY <1>1, <1>6, OneMore
    <2>2. /\ Cardinality(KeysOf(Pages, Active)') \in Nat /\ Cardinality(KeysOf(Pages, Active)) \in Nat
          /\ Cardinality(KeysOf(Pages, Active)') <= Cardinality(KeysOf(Pages, Active))
      BY <1>1, <1>6, SmallerIsLess
    <2> QED  BY <1>1, <1>2, <1>3, <1>4, <2>1, <2>2, SMTT(30) DEF Room
  <1> QED  BY <1>5, <1>6

LEMMA EvictionFailsKeeps ==
  ASSUME PoolBounds, PoolInv, NEW r \in Runs, EvictionFails(r)
  PROVE  PoolInv'
  <1>0. PoolTyped /\ Queued /\ Apart /\ SlotsApart /\ ReleasesApart /\ Seen /\ Room
    BY DEF PoolInv
  <1> DEFINE k == slot[r].key
             t == slot[r].tab
             x == [key |-> k, tab |-> t]
  <1>1. SlotCloses(r) /\ t \in live /\ faults' \in Nat /\ Ended(r)
        /\ UNCHANGED <<plan, tab, reused, live, tabs, opened, suspect, release, gone, lost>>
    BY <1>0 DEF EvictionFails, SlotCloses, PoolTyped
  <1>2. /\ phase[r] = "queued" /\ k \in Keys /\ t \in 1 .. opened /\ t \in Nat
        /\ \A e \in Pages : e.tab # t
        /\ \A s \in Runs : tab[s] # t
        /\ \A s \in Runs : SlotCloses(s) /\ slot[s].tab = t => s = r
        /\ \A j \in Keys : ReleaseCloses(j) => release[j].tab # t
    BY <1>0, <1>1 DEF SlotsApart, PoolTyped, SlotRecord
  <1>3. retained \in Seq(Entry) /\ Distinct(retained) /\ retained' = With(k, t)
    BY <1>0 DEF PoolTyped, Apart, EvictionFails
  <1>4. retained' \in Seq(Entry) /\ Distinct(retained') /\ Pages' = {e \in Pages : e.key # k} \cup {x}
    <2> HIDE DEF k, t
    <2> QED  BY <1>2, <1>3, SetIs DEF Pages
  <1>5. x.key = k /\ x.tab = t /\ x \in Pages'
    BY <1>4
  <1>6. \A e \in Pages : PageOf(e.key) = e.tab /\ e.tab \in 1 .. opened /\ e.key \in Keys /\ e.tab # 0
    BY <1>0, <1>3, PagesAre DEF Apart, Entry, PoolTyped
  <1>7. stuck' = stuck \cup ({t, PageOf(k)} \ {0}) /\ (PageOf(k) = 0 \/ PageOf(k) \in 1 .. opened)
    BY <1>3, <1>6, PagesAre DEF EvictionFails
  <1>8. /\ slot' \in [Runs -> SlotRecord] /\ slot'[r].state = "failed" /\ \A s \in Runs \ {r} : slot'[s] = slot[s]
    <2>1. slot' = [slot EXCEPT ![r] = Open("failed")] /\ Open("failed") \in SlotRecord /\ slot \in [Runs -> SlotRecord]
      BY <1>0 DEF EvictionFails, Open, SlotRecord, PoolTyped
    <2> QED  BY <2>1 DEF Open
  <1> HIDE DEF x, k, t
  <1>9. Queued' /\ tails' \in [Keys -> Seq(Runs)] /\ phase' \in [Runs -> States]
    BY <1>0, <1>1, EndedQueues
  <1>10. /\ \A s \in Runs : phase'[s] = IF s = r THEN "over" ELSE phase[s]
         /\ Active' = Active \ {r} /\ \A s \in Active : s \in Runs
    BY <1>0, <1>1, ActiveIs DEF Ended, States, Active
  <1>11. PoolTyped'
    BY <1>0, <1>1, <1>2, <1>4, <1>7, <1>8, <1>9 DEF PoolTyped
  <1>12. tab[r] = 0
    BY <1>0, <1>2 DEF Apart, Uses
  <1>13. Apart'
    <2>1. \A e \in Pages' : e.tab \in 1 .. opened
      BY <1>2, <1>4, <1>5, <1>6
    <2>2. \A s \in Runs : /\ (Uses(s)' => tab'[s] # 0) /\ (tab'[s] # 0 => Uses(s)' \/ phase'[s] = "over")
                          /\ phase'[s] = "probing" => Key(s) # NoKey
      BY <1>0, <1>1, <1>10, <1>12 DEF Apart, Uses
    <2>3. \A s \in Runs : \A e \in Pages' : e.tab = tab'[s] => e \in Pages /\ s # r
      BY <1>1, <1>2, <1>4, <1>5, <1>12, <1>6
    <2> QED  BY <1>0, <1>1, <1>4, <1>10, <2>1, <2>2, <2>3 DEF Apart, Key
  <1>14. \A s \in Runs : SlotCloses(s)' => SlotCloses(s) /\ slot'[s] = slot[s] /\ s # r
    BY <1>8 DEF SlotCloses
  <1>15. SlotsApart'
    <2>1. \A s \in Runs : phase'[s] = "idle" => slot'[s].state = "none"
      BY <1>0, <1>8, <1>10 DEF SlotsApart
    <2>2. ASSUME NEW s \in Runs, SlotCloses(s)'
          PROVE  /\ phase'[s] = "queued" /\ slot'[s].key \in Keys /\ slot'[s].tab \in 1 .. opened'
                 /\ \A e \in Pages' : e.tab # slot'[s].tab
                 /\ \A q \in Runs : tab'[q] # slot'[s].tab
                 /\ \A q \in Runs : SlotCloses(q)' /\ slot'[q].tab = slot'[s].tab => q = s
                 /\ \A j \in Keys : ReleaseCloses(j)' => release'[j].tab # slot'[s].tab
      <3>1. SlotCloses(s) /\ slot'[s] = slot[s] /\ s # r /\ slot[s].tab # t
        BY <2>2, <1>2, <1>14
      <3>2. \A e \in Pages' : e.tab # slot[s].tab
        BY <3>1, <1>0, <1>4, <1>5 DEF SlotsApart
      <3> QED  BY <3>1, <3>2, <1>0, <1>1, <1>10, <1>14 DEF SlotsApart, ReleaseCloses
    <2> QED  BY <2>1, <2>2 DEF SlotsApart
  <1>16. ReleasesApart'
    <2>1. \A j \in Keys : ReleaseCloses(j)' => ReleaseCloses(j) /\ release'[j] = release[j] /\ release[j].tab # t
      BY <1>1, <1>2 DEF ReleaseCloses
    <2>2. \A j \in Keys : ReleaseCloses(j)' => \A e \in Pages' : e.tab # release[j].tab
      BY <2>1, <1>0, <1>4, <1>5 DEF ReleasesApart
    <2> QED  BY <2>1, <2>2, <1>0, <1>1 DEF ReleasesApart
  <1>17. \A e \in Doubled' : e \in Doubled \/ e = x
    BY <1>1, <1>4, <1>10 DEF Doubled, Key
  <1>18. Seen'
    <2>1. ASSUME NEW y \in tabs  PROVE Accounted(y)'
      <3>1. Accounted(y)
        BY <1>0 DEF Seen
      <3>2. CASE \E e \in Pages : e.tab = y
        <4>1. PICK e \in Pages : e.tab = y
          BY <3>2
        <4>2. CASE e.key = k
          BY <4>1, <4>2, <1>6, <1>7 DEF Accounted
        <4>3. CASE e.key # k
          BY <4>1, <4>3, <1>4 DEF Accounted
        <4> QED  BY <4>2, <4>3
      <3>3. CASE \E s \in Runs : SlotCloses(s) /\ slot[s].tab = y
        <4>1. PICK s \in Runs : SlotCloses(s) /\ slot[s].tab = y
          BY <3>3
        <4>2. CASE s = r
          BY <4>1, <4>2, <1>5 DEF Accounted, t
        <4>3. CASE s # r
          BY <4>1, <4>3, <1>8 DEF Accounted, SlotCloses
        <4> QED  BY <4>2, <4>3
      <3>4. CASE \E s \in Runs : Uses(s) /\ tab[s] = y
        <4>1. \A s \in Runs : Uses(s) => Uses(s)' /\ tab'[s] = tab[s]
          BY <1>1, <1>2, <1>10 DEF Uses
        <4> QED  BY <3>4, <4>1 DEF Accounted
      <3> QED  BY <1>1, <1>7, <3>1, <3>2, <3>3, <3>4 DEF Accounted, ReleaseCloses
    <2>2. \A e \in Doubled' : e.tab \in stuck'
      BY <1>0, <1>2, <1>5, <1>6, <1>7, <1>17 DEF Seen, PoolTyped
    <2>3. \A s \in Runs : phase'[s] = "kept" => tab'[s] \in stuck' \/ tab'[s] \notin live' \/ \E e \in Pages' : e.tab = tab'[s]
      <3> SUFFICES ASSUME NEW s \in Runs, phase[s] = "kept", NEW e \in Pages, e.tab = tab[s]
                   PROVE  e \in Pages' \/ e.tab \in stuck'
        BY <1>0, <1>1, <1>7, <1>10 DEF Seen
      <3> QED  BY <1>4, <1>6, <1>7
    <2>4. \A s \in Holding' : tab'[s] \in live' \cup gone'
      BY <1>0, <1>1, <1>10 DEF Seen, Holding
    <2> QED  BY <1>0, <1>1, <2>1, <2>2, <2>3, <2>4 DEF Seen
  <1>19. Room'
    <2>1. r \notin Failed /\ Failed' = Failed \cup {r}
      BY <1>1, <1>8 DEF Failed, SlotCloses
    <2>2. \A s \in LooseIn(Active)' : s \in LooseIn(Active)
      BY <1>1, <1>10 DEF LooseIn, Key
    <2>3. \A j \in KeysOf(Pages, Active)' : j \in KeysOf(Pages, Active) \/ j = k
      BY <1>1, <1>4, <1>5, <1>10 DEF KeysOf, Key
    <2>4. CASE x \in Doubled'
      <3>1. PICK s \in Active' : Key(s)' = x.key
        BY <2>4 DEF Doubled
      <3>2. s \in Active /\ Key(s) = k
        BY <3>1, <1>1, <1>5, <1>10 DEF Key
      <3>3. k \in KeysOf(Pages, Active)
        BY <3>2, <1>2 DEF KeysOf, PoolBounds
      <3>4. \A j \in KeysOf(Pages, Active)' : j \in KeysOf(Pages, Active)
        BY <2>3, <3>3
      <3> QED  BY <1>0, <1>4, <1>17, <2>1, <2>2, <3>4, RoomGrows
    <2>5. CASE x \notin Doubled'
      <3>1. \A e \in Doubled' : e \in Doubled
        BY <1>17, <2>5
      <3> QED  BY <1>0, <1>4, <2>1, <2>2, <2>3, <3>1, RoomGrows
    <2> QED  BY <2>4, <2>5
  <1> QED  BY <1>9, <1>11, <1>13, <1>15, <1>16, <1>18, <1>19 DEF PoolInv

\* A run arrives: the pages without a handle are forgotten, perhaps an idle one to make room, and the run waits or ends.
ArriveStep(r, new, idle) ==
  /\ phase[r] = "idle" /\ UNCHANGED <<plan, tab, reused, live, tabs, opened, suspect, release, faults, stuck, gone, lost>>
  /\ retained' \in Seq(Entry) /\ Distinct(retained') /\ \A e \in Pages' : e \in Pages /\ e.tab \in live
  /\ new \in SlotRecord /\ new.state \in {"ready", "none", "closing"} /\ slot' = [slot EXCEPT ![r] = new]
  /\ (Ended(r) /\ new = slot[r]) \/ Enqueued(r)
  /\ new.state = "closing" =>
       /\ Enqueued(r) /\ new.key = idle.key /\ new.tab = idle.tab /\ idle \in Pages
       /\ \A s \in Active : Key(s) # idle.key
       /\ \A e \in Pages' : e # idle
  /\ \A e \in Pages : e.tab \in live => e \in Pages' \/ (new.state = "closing" /\ e = idle)

LEMMA ArrivingKeeps ==
  ASSUME PoolBounds, PoolInv, NEW r \in Runs, NEW new, NEW idle, ArriveStep(r, new, idle), Room'
  PROVE  PoolInv'
  <1> USE DEF ArriveStep
  <1>0. PoolTyped /\ Queued /\ Apart /\ SlotsApart /\ ReleasesApart /\ Seen
    BY DEF PoolInv
  <1>1. slot[r].state = "none" /\ slot' \in [Runs -> SlotRecord] /\ \A s \in Runs : slot'[s] = IF s = r THEN new ELSE slot[s]
    BY <1>0 DEF SlotsApart, PoolTyped
  <1>2. \E w \in {"over", "queued"} :
          /\ phase' \in [Runs -> States] /\ \A s \in Runs : phase'[s] = IF s = r THEN w ELSE phase[s]
          /\ Active' = (IF w = "over" THEN Active \ {r} ELSE Active \cup {r}) /\ Queued' /\ tails' \in [Keys -> Seq(Runs)]
          /\ (new.state = "closing" => w = "queued")
    <2>1. CASE Ended(r) /\ new = slot[r]
      <3>1. Queued' /\ tails' \in [Keys -> Seq(Runs)]
        BY <1>0, <2>1, EndedQueues
      <3>2. phase' \in [Runs -> States] /\ (\A s \in Runs : phase'[s] = IF s = r THEN "over" ELSE phase[s]) /\ Active' = Active \ {r}
        BY <1>0, <2>1, ActiveIs DEF Ended, States
      <3> QED  BY <1>1, <2>1, <3>1, <3>2
    <2>2. CASE Enqueued(r)
      <3>1. Queued' /\ tails' \in [Keys -> Seq(Runs)]
        BY <1>0, <2>2, EnqueuedQueues
      <3>2. phase' \in [Runs -> States] /\ (\A s \in Runs : phase'[s] = IF s = r THEN "queued" ELSE phase[s]) /\ Active' = Active \cup {r}
        BY <1>0, <2>2, ActiveIs DEF Enqueued, States
      <3> QED  BY <3>1, <3>2
    <2> QED  BY <2>1, <2>2
  <1>3. PICK w \in {"over", "queued"} :
          /\ phase' \in [Runs -> States] /\ \A s \in Runs : phase'[s] = IF s = r THEN w ELSE phase[s]
          /\ Active' = (IF w = "over" THEN Active \ {r} ELSE Active \cup {r}) /\ Queued' /\ tails' \in [Keys -> Seq(Runs)]
          /\ (new.state = "closing" => w = "queued")
    BY <1>2
  <1>4. r \notin Active /\ \A s \in Active : s \in Runs
    BY DEF Active
  <1>5. /\ tab[r] = 0
        /\ \A s \in Runs : /\ s # r => phase'[s] = phase[s]
                          /\ (Uses(s)' <=> Uses(s)) /\ (Uses(s) => s \in Active /\ s # r)
    BY <1>0, <1>3 DEF Apart, Uses, Active
  <1>6. PoolTyped'
    BY <1>0, <1>1, <1>3 DEF PoolTyped
  <1>7. Apart'
    <2>1. \A e \in Pages' : e \in Pages /\ e.tab # 0 /\ e.tab \in 1 .. opened
      BY <1>0 DEF Apart, PoolTyped
    <2>2. \A s \in Runs : /\ (Uses(s)' => tab'[s] # 0) /\ (tab'[s] # 0 => Uses(s)' \/ phase'[s] = "over")
                          /\ phase'[s] = "probing" => Key(s) # NoKey
      BY <1>0, <1>3, <1>5 DEF Apart
    <2>3. \A s \in Runs : \A e \in Pages' : e.tab = tab'[s] => e \in Pages /\ s # r
      BY <1>5, <2>1
    <2> QED  BY <1>0, <1>5, <2>1, <2>2, <2>3 DEF Apart, Key
  <1>8. \A s \in Runs : s # r => (SlotCloses(s)' <=> SlotCloses(s)) /\ slot'[s] = slot[s] /\ phase'[s] = phase[s]
    BY <1>1, <1>3 DEF SlotCloses
  <1>9. ~SlotCloses(r) /\ (SlotCloses(r)' <=> new.state = "closing") /\ slot'[r] = new
    BY <1>1 DEF SlotCloses
  <1>10. ASSUME SlotCloses(r)'
         PROVE  /\ new.tab = idle.tab /\ idle \in Pages /\ new.key \in Keys /\ new.tab \in 1 .. opened /\ w = "queued"
                /\ \A e \in Pages' : e.tab # new.tab
                /\ \A s \in Runs : tab[s] # new.tab
                /\ \A s \in Runs : SlotCloses(s) => slot[s].tab # new.tab
                /\ \A j \in Keys : ReleaseCloses(j) => release[j].tab # new.tab
    <2>1. new.tab = idle.tab /\ new.key = idle.key /\ idle \in Pages /\ w = "queued" /\ \A s \in Active : Key(s) # idle.key
      BY <1>3, <1>9, <1>10
    <2>2. idle.tab \in 1 .. opened /\ idle.tab # 0 /\ idle.key \in Keys
      BY <1>0, <2>1, PagesAre DEF Apart, Entry, PoolTyped
    <2>3. \A e \in Pages' : e.tab # idle.tab
      BY <1>0, <1>9, <1>10, <2>1, PagesAre DEF PoolTyped, Apart
    <2>4. \A s \in Runs : tab[s] # idle.tab
      BY <1>0, <1>5, <2>1, <2>2 DEF Apart
    <2>5. /\ \A s \in Runs : SlotCloses(s) => slot[s].tab # idle.tab
          /\ \A j \in Keys : ReleaseCloses(j) => release[j].tab # idle.tab
      BY <1>0, <2>1 DEF SlotsApart, ReleasesApart
    <2> QED  BY <2>1, <2>2, <2>3, <2>4, <2>5
  <1>11. SlotsApart'
    <2>1. \A s \in Runs : phase'[s] = "idle" => slot'[s].state = "none"
      BY <1>0, <1>3, <1>8 DEF SlotsApart
    <2>2. ASSUME NEW s \in Runs, SlotCloses(s)'
          PROVE  /\ phase'[s] = "queued" /\ slot'[s].key \in Keys /\ slot'[s].tab \in 1 .. opened'
                 /\ \A e \in Pages' : e.tab # slot'[s].tab
                 /\ \A q \in Runs : tab'[q] # slot'[s].tab
                 /\ \A q \in Runs : SlotCloses(q)' /\ slot'[q].tab = slot'[s].tab => q = s
                 /\ \A j \in Keys : ReleaseCloses(j)' => release'[j].tab # slot'[s].tab
      <3>1. CASE s = r
        BY <2>2, <3>1, <1>3, <1>8, <1>9, <1>10 DEF ReleaseCloses
      <3>2. CASE s # r
        <4>1. SlotCloses(s) /\ slot'[s] = slot[s] /\ phase'[s] = phase[s]
          BY <2>2, <3>2, <1>8
        <4>2. \A q \in Runs : SlotCloses(q)' /\ slot'[q].tab = slot[s].tab => q = s
          <5>1. \A q \in Runs \ {r} : SlotCloses(q)' /\ slot'[q].tab = slot[s].tab => q = s
            BY <4>1, <1>0, <1>8 DEF SlotsApart
          <5>2. SlotCloses(r)' => slot'[r].tab # slot[s].tab
            BY <4>1, <1>9, <1>10
          <5> QED  BY <5>1, <5>2
        <4> QED  BY <4>1, <4>2, <1>0 DEF SlotsApart, ReleaseCloses
      <3> QED  BY <3>1, <3>2
    <2> QED  BY <2>1, <2>2 DEF SlotsApart
  <1>12. ReleasesApart'
    BY <1>0 DEF ReleasesApart, ReleaseCloses
  <1>13. \A e \in Doubled' : e \in Doubled
    BY <1>3, <1>4 DEF Doubled, Key
  <1>14. Seen'
    <2>1. ASSUME NEW y \in tabs  PROVE Accounted(y)'
      <3>1. Accounted(y) /\ y \in live \cup lost
        BY <1>0 DEF Seen
      <3>2. CASE \E e \in Pages : e.tab = y
        <4>1. PICK e \in Pages : e.tab = y
          BY <3>2
        <4>2. CASE new.state = "closing" /\ e = idle
          BY <4>1, <4>2, <1>9 DEF Accounted
        <4>3. CASE y \in live /\ ~(new.state = "closing" /\ e = idle)
          BY <4>1, <4>3 DEF Accounted
        <4> QED  BY <3>1, <4>2, <4>3 DEF Accounted
      <3>3. CASE \E s \in Runs : SlotCloses(s) /\ slot[s].tab = y
        BY <3>3, <1>8, <1>9 DEF Accounted
      <3>4. CASE \E s \in Runs : Uses(s) /\ tab[s] = y
        BY <3>4, <1>5 DEF Accounted
      <3> QED  BY <3>1, <3>2, <3>3, <3>4 DEF Accounted, ReleaseCloses
    <2>2. \A s \in Runs : phase'[s] = "kept" => tab'[s] \in stuck' \/ tab'[s] \notin live' \/ \E e \in Pages' : e.tab = tab'[s]
      <3> SUFFICES ASSUME NEW s \in Runs, phase[s] = "kept", NEW e \in Pages, e.tab = tab[s], e.tab \in live
                   PROVE  e \in Pages'
        BY <1>0, <1>3 DEF Seen
      <3>1. s \in Active /\ Key(s) = e.key
        BY <1>0 DEF Apart, Active
      <3> QED  BY <3>1
    <2>3. \A s \in Holding' : tab'[s] \in live' \cup gone'
      BY <1>0, <1>3 DEF Seen, Holding
    <2> QED  BY <1>0, <1>13, <2>1, <2>2, <2>3 DEF Seen
  <1> QED  BY <1>3, <1>6, <1>7, <1>11, <1>12, <1>14 DEF PoolInv

\* The first of some positions.
LEMMA FirstOf ==
  ASSUME NEW m \in Nat, NEW is \in SUBSET (1 .. m), is # {}
  PROVE  \E i \in is : \A j \in is : i <= j
  <1>1. Cardinality(is) \in Nat /\ (\A i \in is : Rank(is, i) \in 1 .. Cardinality(is))
    BY RankIsOrder
  <1>2. 1 \in 1 .. Cardinality(is)
    <2>1. PICK i \in is : Rank(is, i) \in 1 .. Cardinality(is)
      BY <1>1
    <2> QED  BY <1>1, <2>1
  <1>3. PICK i \in is : Rank(is, i) = 1
    BY <1>2, RankIsOrder
  <1>4. ASSUME NEW j \in is  PROVE i <= j
    <2>1. i \in Nat /\ j \in Nat
      OBVIOUS
    <2>2. j < i => Rank(is, j) < Rank(is, i)
      BY RankIsOrder
    <2>3. Rank(is, j) \in Nat /\ Rank(is, j) >= 1
      BY <1>1
    <2> QED  BY <1>3, <2>1, <2>2, <2>3
  <1> QED  BY <1>4

LEMMA SurfacesAre ==
  ASSUME NEW q \in Seq(Entry)
  PROVE  /\ Surfaces(q).keys = KeysOf(ToSet(q), Active)
         /\ Surfaces(q).occupied = Cardinality(KeysOf(ToSet(q), Active)) + Cardinality(LooseIn(Active))
  <1> DEFINE keys == {q[i].key : i \in DOMAIN q} \cup {Key(r) : r \in {x \in Active : Key(x) # NoKey}}
  <1>1. keys = KeysOf(ToSet(q), Active)
    <2>1. {q[i].key : i \in DOMAIN q} = {e.key : e \in ToSet(q)}
      BY DEF ToSet
    <2>2. {Key(r) : r \in {x \in Active : Key(x) # NoKey}} = {Key(r) : r \in Active} \ {NoKey}
      OBVIOUS
    <2> QED  BY <2>1, <2>2 DEF KeysOf
  <1>2. Surfaces(q) = [occupied |-> Cardinality(keys) + Cardinality(LooseIn(Active)), keys |-> keys]
    BY DEF Surfaces, LooseIn
  <1> HIDE DEF keys
  <1>3. Surfaces(q).keys = keys /\ Surfaces(q).occupied = Cardinality(keys) + Cardinality(LooseIn(Active))
    BY <1>2
  <1> QED  BY <1>1, <1>3

\* The page that is evicted is idle.
LEMMA CandidateIs ==
  ASSUME NEW q \in Seq(Entry), NEW r, Evictable(r, q) # {}
  PROVE  Candidate(r, q) \in ToSet(q) /\ \A s \in Active : Key(s) # Candidate(r, q).key
  <1>1. Evictable(r, q) \in SUBSET (1 .. Len(q)) /\ Len(q) \in Nat /\ DOMAIN q = 1 .. Len(q)
    BY DEF Evictable
  <1>2. \E i \in Evictable(r, q) : \A j \in Evictable(r, q) : i <= j
    BY <1>1, FirstOf
  <1>3. PICK i \in Evictable(r, q) : Candidate(r, q) = q[i]
    BY <1>2 DEF Candidate
  <1> QED  BY <1>1, <1>3 DEF Evictable, ToSet

\* A run that arrives is counted where there is room, or instead of the page that is evicted for it.
Arrives(r, k, e, K) ==
  /\ \A j \in K : j \in KeysOf(Pages, Active)
  /\ \/ Cardinality(K) + Cardinality(LooseIn(Active)) < Limit
     \/ e \in K /\ \A j \in KeysOf(Pages, Active)' : j # e \/ j = k
  /\ \/ /\ \A j \in KeysOf(Pages, Active)' : j \in K \/ j = k
        /\ \A s \in LooseIn(Active)' : s \in LooseIn(Active)
     \/ /\ \A j \in KeysOf(Pages, Active)' : j \in K /\ (e \in K => j # e \/ Cardinality(K) + Cardinality(LooseIn(Active)) < Limit)
        /\ \A s \in LooseIn(Active)' : s \in LooseIn(Active) \/ s = r

LEMMA RoomArrives ==
  ASSUME PoolBounds, PoolTyped, Room, retained' \in Seq(Entry), Failed' = Failed, NEW r, NEW k, NEW e, NEW K,
         \A d \in Doubled' : d \in Doubled, Arrives(r, k, e, K)
  PROVE  Room'
  <1> DEFINE K1 == KeysOf(Pages, Active)'
             L1 == LooseIn(Active)'
             L == LooseIn(Active)
  <1>1. /\ IsFiniteSet(Doubled) /\ IsFiniteSet(Failed) /\ Cardinality(Failed) \in Nat
        /\ IsFiniteSet(KeysOf(Pages, Active)) /\ IsFiniteSet(L)
    BY CountsAreFinite DEF PoolTyped
  <1>2. /\ Cardinality(Doubled') \in Nat /\ Cardinality(Doubled) \in Nat /\ Cardinality(Doubled') <= Cardinality(Doubled)
    BY <1>1, SmallerIsLess
  <1>3. /\ IsFiniteSet(K) /\ Cardinality(K) \in Nat /\ Cardinality(KeysOf(Pages, Active)) \in Nat
        /\ Cardinality(K) <= Cardinality(KeysOf(Pages, Active))
    BY <1>1, SmallerIsLess DEF Arrives
  <1>4. Limit \in Nat /\ Cardinality(L) \in Nat
    BY <1>1, FS_CardinalityType DEF PoolBounds
  <1>5. Cardinality(K1) \in Nat /\ Cardinality(L1) \in Nat
        /\ Cardinality(K1) + Cardinality(L1) <= IF Cardinality(K) + Cardinality(L) < Limit
                                                THEN Limit ELSE Cardinality(K) + Cardinality(L)
    <2> HIDE DEF Arrives, K1, L1, L
    <2>1. CASE (\A j \in K1 : j \in K \/ j = k) /\ (\A s \in L1 : s \in L)
      <3>1. Cardinality(L1) \in Nat /\ Cardinality(L1) <= Cardinality(L)
        BY <2>1, <1>1, SmallerIsLess
      <3>2. CASE Cardinality(K) + Cardinality(L) < Limit
        <4>1. Cardinality(K1) \in Nat /\ Cardinality(K1) <= Cardinality(K) + 1
          BY <2>1, <1>3, OneMore
        <4> QED  BY <3>1, <3>2, <4>1, <1>3, <1>4
      <3>3. CASE ~(Cardinality(K) + Cardinality(L) < Limit)
        <4>1. e \in K /\ \A j \in K1 : (j \in K /\ j # e) \/ j = k
          BY <2>1, <3>3 DEF Arrives, K1, L
        <4>2. Cardinality(K1) \in Nat /\ Cardinality(K1) <= Cardinality(K)
          BY <4>1, <1>3, OneForAnother
        <4> QED  BY <3>1, <3>3, <4>2, <1>3, <1>4
      <3> QED  BY <3>2, <3>3
    <2>2. CASE /\ \A j \in K1 : j \in K /\ (e \in K => j # e \/ Cardinality(K) + Cardinality(L) < Limit)
               /\ \A s \in L1 : s \in L \/ s = r
      <3>1. Cardinality(L1) \in Nat /\ Cardinality(L1) <= Cardinality(L) + 1
        BY <2>2, <1>1, OneMore
      <3>2. Cardinality(K1) \in Nat /\ Cardinality(K1) <= Cardinality(K)
        BY <2>2, <1>3, SmallerIsLess
      <3>3. CASE Cardinality(K) + Cardinality(L) < Limit
        BY <3>1, <3>2, <3>3, <1>3, <1>4
      <3>4. CASE ~(Cardinality(K) + Cardinality(L) < Limit)
        <4>1. e \in K /\ \A j \in K1 : j \in K \ {e}
          BY <2>2, <3>4 DEF Arrives, K1, L
        <4>2. IsFiniteSet(K \ {e}) /\ Cardinality(K \ {e}) = Cardinality(K) - 1
          BY <4>1, <1>3, FS_RemoveElement
        <4>3. Cardinality(K1) <= Cardinality(K \ {e})
          BY <4>1, <4>2, SmallerIsLess
        <4> QED  BY <3>1, <3>2, <3>4, <4>2, <4>3, <1>3, <1>4
      <3> QED  BY <3>3, <3>4
    <2> QED  BY <2>1, <2>2 DEF Arrives, K1, L1, L
  <1> QED  BY <1>1, <1>2, <1>3, <1>4, <1>5, SMTT(30) DEF Room

LEMMA RunOwnedKeeps ==
  ASSUME PoolBounds, PoolInv, NEW r \in Runs, RunOwned(r)
  PROVE  PoolInv'
  <1>0. PoolTyped /\ Queued /\ Apart /\ SlotsApart /\ Room
    BY DEF PoolInv
  <1> DEFINE kept == Usable
             K == KeysOf(ToSet(Usable), Active)
  <1>1. kept \in Seq(Entry) /\ Distinct(kept) /\ ToSet(kept) = {e \in Pages : e.tab \in live}
    BY <1>0, UsableIs DEF PoolTyped, Apart
  <1>2. /\ Surfaces(kept).keys = K
        /\ Surfaces(kept).occupied = Cardinality(K) + Cardinality(LooseIn(Active))
    BY <1>1, SurfacesAre
  <1>3. phase[r] = "idle" /\ slot[r].state = "none" /\ slot[r] \in SlotRecord
        /\ UNCHANGED <<plan, tab, reused, live, tabs, opened, suspect, release, faults, stuck, gone, lost>>
    BY <1>0 DEF RunOwned, SlotsApart, PoolTyped
  <1>4. \/ (~NeedsSlot(r, kept) \/ Surfaces(kept).occupied < Limit)
           /\ Enqueued(r) /\ retained' = kept /\ slot' = [slot EXCEPT ![r].state = "ready"]
        \/ NeedsSlot(r, kept) /\ Evictable(r, kept) = {} /\ Ended(r) /\ retained' = kept /\ slot' = slot
        \/ /\ NeedsSlot(r, kept) /\ Evictable(r, kept) # {} /\ Enqueued(r) /\ retained' = Without(kept, Candidate(r, kept).key)
           /\ slot' = [slot EXCEPT ![r] = [state |-> "closing", key |-> Candidate(r, kept).key, tab |-> Candidate(r, kept).tab]]
    BY DEF RunOwned, Usable
  <1>5. \A j \in K : j \in KeysOf(Pages, Active)
    BY <1>1 DEF KeysOf
  <1>6. r \notin Active /\ (\A s \in Active : s \in Runs) /\ (\A s \in Runs : Key(s)' = Key(s))
    BY <1>3 DEF Active, Key
  <1>7. Key(r) \in Keys \cup {NoKey}
    BY <1>0 DEF PoolTyped, Plans, Key
  <1> HIDE DEF kept, K
  <1>8. Enqueued(r) => Active' = Active \cup {r} /\ \A s \in Runs : phase'[s] = IF s = r THEN "queued" ELSE phase[s]
    BY <1>0, <1>3, ActiveIs DEF Enqueued, States
  <1>9. ASSUME \A e \in Pages' : e \in Pages, Enqueued(r)
        PROVE  \A d \in Doubled' : d \in Doubled
    BY <1>3, <1>6, <1>8, <1>9 DEF Doubled, Key
  <1>10. CASE (~NeedsSlot(r, kept) \/ Surfaces(kept).occupied < Limit)
              /\ Enqueued(r) /\ retained' = kept /\ slot' = [slot EXCEPT ![r].state = "ready"]
    <2> DEFINE new == [slot[r] EXCEPT !.state = "ready"]
    <2>1. new \in SlotRecord /\ new.state = "ready" /\ slot' = [slot EXCEPT ![r] = new]
      BY <1>3, <1>10 DEF SlotRecord
    <2> HIDE DEF new
    <2>2. retained' \in Seq(Entry) /\ Distinct(retained') /\ Pages' = {e \in Pages : e.tab \in live} /\ Pages' = ToSet(kept)
      BY <1>1, <1>10 DEF Pages
    <2>3. Failed' = Failed
      BY <1>0, <1>3, <2>1 DEF Failed, PoolTyped
    <2>4. \A d \in Doubled' : d \in Doubled
      BY <1>9, <1>10, <2>2
    <2>5. \A j \in KeysOf(Pages, Active)' : j \in K \/ (j = Key(r) /\ j # NoKey)
      BY <1>6, <1>8, <1>10, <2>2 DEF KeysOf, K, kept
    <2>6. \A s \in LooseIn(Active)' : s \in LooseIn(Active) \/ (s = r /\ Key(r) = NoKey)
      BY <1>6, <1>8, <1>10 DEF LooseIn
    <2>7. Room'
      <3>1. CASE ~NeedsSlot(r, kept)
        <4>1. Key(r) # NoKey /\ Key(r) \in K
          BY <3>1, <1>2 DEF NeedsSlot
        <4>2. /\ \A j \in KeysOf(Pages, Active)' : j \in KeysOf(Pages, Active)
              /\ \A s \in LooseIn(Active)' : s \in LooseIn(Active)
          BY <1>5, <2>5, <2>6, <4>1
        <4> QED  BY <1>0, <2>2, <2>3, <2>4, <4>2, RoomShrinks
      <3>2. CASE Surfaces(kept).occupied < Limit
        <4>1. Cardinality(K) + Cardinality(LooseIn(Active)) < Limit
          BY <1>2, <3>2
        <4>2. CASE Key(r) = NoKey
          <5>1. /\ \A j \in KeysOf(Pages, Active)' : j \in K
                /\ \A s \in LooseIn(Active)' : s \in LooseIn(Active) \/ s = r
            BY <2>5, <2>6, <4>2
          <5>2. Arrives(r, Key(r), Key(r), K)
            BY <1>5, <4>1, <5>1 DEF Arrives
          <5> QED  BY <1>0, <2>2, <2>3, <2>4, <5>2, RoomArrives
        <4>3. CASE Key(r) # NoKey
          <5>1. /\ \A j \in KeysOf(Pages, Active)' : j \in K \/ j = Key(r)
                /\ \A s \in LooseIn(Active)' : s \in LooseIn(Active)
            BY <2>5, <2>6, <4>3
          <5>2. Arrives(r, Key(r), Key(r), K)
            BY <1>5, <4>1, <5>1 DEF Arrives
          <5> QED  BY <1>0, <2>2, <2>3, <2>4, <5>2, RoomArrives
        <4> QED  BY <4>2, <4>3
      <3> QED  BY <1>10, <3>1, <3>2
    <2>8. ArriveStep(r, new, new)
      BY <1>3, <1>10, <2>1, <2>2 DEF ArriveStep
    <2> QED  BY <2>7, <2>8, ArrivingKeeps
  <1>11. CASE NeedsSlot(r, kept) /\ Evictable(r, kept) = {} /\ Ended(r) /\ retained' = kept /\ slot' = slot
    <2>1. retained' \in Seq(Entry) /\ Distinct(retained') /\ Pages' = {e \in Pages : e.tab \in live}
      BY <1>1, <1>11 DEF Pages
    <2>2. Active' = Active /\ (\A s \in Active : phase'[s] = phase[s]) /\ Failed' = Failed
      <3>1. (\A s \in Runs : phase'[s] = IF s = r THEN "over" ELSE phase[s]) /\ Active' = Active \ {r}
        BY <1>0, <1>3, <1>11, ActiveIs DEF Ended, States
      <3> QED  BY <3>1, <1>6, <1>11 DEF Failed
    <2>3. \A d \in Doubled' : d \in Doubled
      BY <1>3, <1>6, <2>1, <2>2 DEF Doubled, Key
    <2>4. /\ \A j \in KeysOf(Pages, Active)' : j \in KeysOf(Pages, Active)
          /\ \A s \in LooseIn(Active)' : s \in LooseIn(Active)
      BY <1>6, <2>1, <2>2 DEF KeysOf, LooseIn
    <2>5. Room'
      BY <1>0, <2>1, <2>2, <2>3, <2>4, RoomShrinks
    <2>6. slot' = [slot EXCEPT ![r] = slot[r]]
      BY <1>0, <1>11 DEF PoolTyped
    <2>7. ArriveStep(r, slot[r], slot[r])
      BY <1>3, <1>11, <2>1, <2>6 DEF ArriveStep
    <2> QED  BY <2>5, <2>7, ArrivingKeeps
  <1>12. CASE /\ NeedsSlot(r, kept) /\ Evictable(r, kept) # {} /\ Enqueued(r) /\ retained' = Without(kept, Candidate(r, kept).key)
              /\ slot' = [slot EXCEPT ![r] = [state |-> "closing", key |-> Candidate(r, kept).key, tab |-> Candidate(r, kept).tab]]
    <2> DEFINE idle == Candidate(r, kept)
               new == [state |-> "closing", key |-> idle.key, tab |-> idle.tab]
    <2>1. idle \in ToSet(kept) /\ \A s \in Active : Key(s) # idle.key
      BY <1>1, <1>12, CandidateIs
    <2>2. idle \in Pages /\ idle.tab \in live /\ idle.key \in Keys /\ idle.tab \in Nat
      <3>1. idle \in Pages /\ idle.tab \in live
        BY <1>1, <2>1
      <3>2. \A e \in Pages : e.key \in Keys /\ e.tab \in Nat
        BY <1>0, PagesAre DEF PoolTyped, Apart, Entry
      <3> QED  BY <3>1, <3>2
    <2>3. /\ Without(kept, idle.key) \in Seq(Entry) /\ Distinct(Without(kept, idle.key))
          /\ ToSet(Without(kept, idle.key)) = {e \in ToSet(kept) : e.key # idle.key}
      BY <1>1, WithoutIs
    <2>4. /\ retained' \in Seq(Entry) /\ Distinct(retained')
          /\ Pages' = {e \in ToSet(kept) : e.key # idle.key} /\ slot' = [slot EXCEPT ![r] = new]
      BY <1>12, <2>3 DEF Pages
    <2>5. new \in SlotRecord /\ new.state = "closing" /\ new.key = idle.key /\ new.tab = idle.tab
      BY <2>2 DEF SlotRecord
    <2> HIDE DEF idle, new
    <2>6. Failed' = Failed
      BY <1>0, <1>3, <2>4, <2>5 DEF Failed, PoolTyped
    <2>7. \A d \in Doubled' : d \in Doubled
      BY <1>1, <1>9, <1>12, <2>4
    <2>8. idle.key \in K /\ idle.key # NoKey
      BY <2>1, <2>2 DEF K, KeysOf, PoolBounds, kept
    <2>9. \A j \in KeysOf(Pages, Active)' : (j \in K /\ j # idle.key) \/ (j = Key(r) /\ j # NoKey)
      BY <1>6, <1>8, <1>12, <2>1, <2>4 DEF KeysOf, K, kept
    <2>10. \A s \in LooseIn(Active)' : s \in LooseIn(Active) \/ (s = r /\ Key(r) = NoKey)
      BY <1>6, <1>8, <1>12 DEF LooseIn
    <2>11. Room'
      <3>1. CASE Key(r) = NoKey
        <4>1. /\ \A j \in KeysOf(Pages, Active)' : j \in K /\ (idle.key \in K => j # idle.key \/ Cardinality(K) + Cardinality(LooseIn(Active)) < Limit)
              /\ \A j \in KeysOf(Pages, Active)' : j # idle.key \/ j = Key(r)
              /\ \A s \in LooseIn(Active)' : s \in LooseIn(Active) \/ s = r
          BY <2>9, <2>10, <3>1
        <4>2. Arrives(r, Key(r), idle.key, K)
          BY <1>5, <2>8, <4>1 DEF Arrives
        <4> QED  BY <1>0, <2>4, <2>6, <2>7, <4>2, RoomArrives
      <3>2. CASE Key(r) # NoKey
        <4>1. /\ \A j \in KeysOf(Pages, Active)' : (j \in K /\ j # idle.key) \/ j = Key(r)
              /\ \A s \in LooseIn(Active)' : s \in LooseIn(Active)
          BY <2>9, <2>10, <3>2
        <4>2. Arrives(r, Key(r), idle.key, K)
          BY <1>5, <2>8, <4>1 DEF Arrives
        <4> QED  BY <1>0, <2>4, <2>6, <2>7, <4>2, RoomArrives
      <3> QED  BY <3>1, <3>2
    <2>12. /\ \A e \in Pages' : e \in Pages /\ e.tab \in live /\ e # idle
           /\ \A e \in Pages : e.tab \in live => e \in Pages' \/ e = idle
      <3>1. \A e \in Pages : e.key = idle.key => e = idle
        BY <1>0, <2>2, PagesAre DEF PoolTyped, Apart
      <3> QED  BY <1>1, <2>4, <3>1
    <2>13. ArriveStep(r, new, idle)
      BY <1>3, <1>12, <2>1, <2>2, <2>4, <2>5, <2>12 DEF ArriveStep
    <2> QED  BY <2>11, <2>13, ArrivingKeeps
  <1> QED  BY <1>4, <1>10, <1>11, <1>12

-----------------------------------------------------------------------------
(* The pool.                                                                *)

LEMMA PoolInitIs ==
  ASSUME PoolBounds, NEW asks, NEW frees, plan \in [Runs -> Plans], PoolInit(asks, frees)
  PROVE  PoolInv
  <1> USE DEF PoolInit
  <1>1. Pages = {} /\ Active \in SUBSET {r \in Runs : FALSE} /\ \A r \in Runs : phase[r] \in {"idle", "over"}
    BY DEF Pages, ToSet, Active
  <1>2. Active = {} /\ Doubled = {} /\ KeysOf(Pages, Active) = {} /\ LooseIn(Active) = {} /\ Failed = {}
    BY <1>1 DEF Doubled, KeysOf, LooseIn, Failed, Open
  <1>3. PoolTyped
    <2>1. /\ phase \in [Runs -> States] /\ tab \in [Runs -> Nat] /\ reused \in [Runs -> BOOLEAN]
          /\ opened \in Nat /\ faults \in Nat /\ suspect \in BOOLEAN
      BY DEF PoolBounds, States
    <2>2. slot \in [Runs -> SlotRecord] /\ release \in [Keys -> ReleaseRecord]
      BY DEF SlotRecord, ReleaseRecord, Open
    <2>3. retained \in Seq(Entry) /\ tails \in [Keys -> Seq(Runs)]
      OBVIOUS
    <2>4. live \subseteq tabs /\ tabs \cup gone \cup lost \cup stuck \subseteq 1 .. opened
      OBVIOUS
    <2> QED  BY <2>1, <2>2, <2>3, <2>4 DEF PoolTyped
  <1>4. Queued
    BY <1>2 DEF Queued, ToSet, IsInjective
  <1>5. Apart
    BY <1>1 DEF Apart, Distinct, Uses
  <1>6. SlotsApart /\ ReleasesApart
    BY DEF SlotsApart, ReleasesApart, SlotCloses, ReleaseCloses, Open
  <1>7. Seen
    BY <1>1, <1>2 DEF Seen, Holding
  <1>8. Room
    <2>1. Cardinality({}) = 0 /\ Limit \in Nat
      BY FS_EmptySet DEF PoolBounds
    <2>2. Cardinality(Doubled) = 0 /\ Cardinality(Failed) = 0 /\ Cardinality(LooseIn(Active)) = 0
          /\ Cardinality(KeysOf(Pages, Active)) = 0
      BY <1>2, <2>1, Zenon
    <2> QED  BY <2>1, <2>2 DEF Room
  <1> QED  BY <1>3, <1>4, <1>5, <1>6, <1>7, <1>8 DEF PoolInv

\* The pages a turn works on are its own.
LEMMA PagesStayExclusive ==
  ASSUME PoolInv  PROVE PagesAreExclusive
  <1>1. PoolTyped /\ Apart /\ SlotsApart /\ ReleasesApart /\ Seen
    BY DEF PoolInv
  <1>2. ASSUME NEW r \in Holding
        PROVE  /\ tab[r] \in live \cup gone
               /\ \A s \in Holding : s = r \/ tab[s] # tab[r]
               /\ \A s \in Runs : slot[s].state = "closing" => slot[s].tab # tab[r]
               /\ \A k \in Keys : release[k].state = "closing" => release[k].tab # tab[r]
    <2>1. r \in Runs /\ tab[r] # 0
      BY <1>1, <1>2 DEF Holding, Apart, Uses
    <2>2. tab[r] \in live \cup gone
      BY <1>1, <1>2 DEF Seen
    <2>3. \A s \in Holding : s = r \/ tab[s] # tab[r]
      BY <1>1, <2>1 DEF Apart, Holding
    <2> QED  BY <1>1, <2>1, <2>2, <2>3 DEF SlotsApart, ReleasesApart, SlotCloses, ReleaseCloses
  <1> QED  BY <1>2 DEF PagesAreExclusive

\* Every tab is seen: Held and Closing are the places Accounted names.
LEMMA TabsStaySeen ==
  ASSUME PoolInv  PROVE tabs \subseteq Held \cup Closing \cup lost \cup stuck
  <1>1. PoolTyped /\ Apart /\ Seen
    BY DEF PoolInv
  <1>2. ASSUME NEW t \in tabs  PROVE t \in Held \cup Closing \cup lost \cup stuck
    <2>1. Accounted(t) /\ t # 0
      BY <1>1 DEF Seen, PoolTyped
    <2>2. CASE \E e \in Pages : e.tab = t
      BY <2>2 DEF Pages, ToSet, Held
    <2>3. CASE \E r \in Runs : Uses(r) /\ tab[r] = t
      BY <2>1, <2>3 DEF Uses, Held, Active
    <2>4. CASE \E r \in Runs : SlotCloses(r) /\ slot[r].tab = t
      BY <2>4 DEF SlotCloses, Closing
    <2>5. CASE \E k \in Keys : ReleaseCloses(k) /\ release[k].tab = t
      BY <2>5 DEF ReleaseCloses, Closing
    <2> QED  BY <2>1, <2>2, <2>3, <2>4, <2>5 DEF Accounted
  <1> QED  BY <1>2

\* Every page held is one of those Room counts: a conversation's, a run's without one, or one put back.
LEMMA PagesStayCounted ==
  ASSUME PoolBounds, PoolInv
  PROVE  Cardinality(Held) <= Limit + Cardinality(Failed)
  <1>1. PoolTyped /\ Queued /\ Apart /\ Room
    BY DEF PoolInv
  <1>2. /\ IsFiniteSet(Doubled) /\ Cardinality(Doubled) \in Nat /\ Cardinality(Failed) \in Nat
        /\ IsFiniteSet(KeysOf(Pages, Active)) /\ Cardinality(KeysOf(Pages, Active)) \in Nat
        /\ IsFiniteSet(LooseIn(Active)) /\ Cardinality(LooseIn(Active)) \in Nat
    BY <1>1, CountsAreFinite DEF PoolTyped
  <1> DEFINE ofKey(k, t) == \/ \E e \in Pages \ Doubled : e.key = k /\ e.tab = t
                            \/ \E r \in Active : Key(r) = k /\ tab[r] = t /\ t # 0
             D == {e.tab : e \in Doubled}
             L == {tab[r] : r \in LooseIn(Active)}
             C == {t \in Held : \E k \in KeysOf(Pages, Active) : ofKey(k, t)}
  <1>3. \A t \in Held : t \in D \cup L \cup C
    <2> SUFFICES ASSUME NEW t \in Held  PROVE t \in D \cup L \cup C
      OBVIOUS
    <2>1. CASE \E e \in Pages : e.tab = t
      BY <2>1 DEF KeysOf
    <2>2. CASE \E r \in Active : tab[r] = t /\ tab[r] # 0
      BY <2>2 DEF KeysOf, LooseIn
    <2>3. (\E e \in Pages : e.tab = t) \/ (\E r \in Active : tab[r] = t /\ tab[r] # 0)
      BY DEF Held, Pages, ToSet
    <2> QED  BY <2>1, <2>2, <2>3
  <1>4. ASSUME NEW k \in KeysOf(Pages, Active), NEW t, NEW u, ofKey(k, t), ofKey(k, u)
        PROVE  t = u
    <2>1. \A d, e \in Pages : d.key = e.key => d = e
      BY <1>1, PagesAre DEF PoolTyped, Apart
    <2>2. \A r \in Active : tab[r] # 0 => r \in Runs /\ phase[r] # "queued"
      BY <1>1 DEF Apart, Uses, Active
    <2>3. \A e \in Pages \ Doubled : \A r \in Active : Key(r) = e.key /\ tab[r] # 0 => tab[r] = e.tab
      BY <2>2 DEF Doubled
    <2>4. \A r, s \in Active : tab[r] # 0 /\ tab[s] # 0 /\ Key(r) = k /\ Key(s) = k => r = s
      <3> SUFFICES ASSUME NEW r \in Active, NEW s \in Active, tab[r] # 0, tab[s] # 0, Key(r) = k, Key(s) = k
                   PROVE  s = r
        OBVIOUS
      <3>1. k \in Keys
        <4>1. k # NoKey => k \in Keys
          BY <1>1, <2>2 DEF PoolTyped, Plans, Key
        <4>2. k # NoKey
          BY <1>1, PagesAre DEF KeysOf, PoolTyped, Apart, Entry, PoolBounds
        <4> QED  BY <4>1, <4>2
      <3> QED  BY <1>1, <2>2, <3>1, OneBegun
    <2> QED  BY <1>4, <2>1, <2>3, <2>4
  <1>5. IsFiniteSet(D) /\ Cardinality(D) \in Nat /\ Cardinality(D) <= Cardinality(Doubled)
    <2> DEFINE f == [e \in Doubled |-> e.tab]
    <2>1. DOMAIN f = Doubled /\ \A t \in D : \E e \in Doubled : f[e] = t
      OBVIOUS
    <2> HIDE DEF f, D
    <2> QED  BY <1>2, <2>1, Covered
  <1>6. IsFiniteSet(L) /\ Cardinality(L) \in Nat /\ Cardinality(L) <= Cardinality(LooseIn(Active))
    <2> DEFINE f == [r \in LooseIn(Active) |-> tab[r]]
    <2>1. DOMAIN f = LooseIn(Active) /\ \A t \in L : \E r \in LooseIn(Active) : f[r] = t
      OBVIOUS
    <2> HIDE DEF f, L
    <2> QED  BY <1>2, <2>1, Covered
  <1>7. IsFiniteSet(C) /\ Cardinality(C) \in Nat /\ Cardinality(C) <= Cardinality(KeysOf(Pages, Active))
    <2> HIDE DEF ofKey
    <2> DEFINE f == [k \in KeysOf(Pages, Active) |-> CHOOSE t \in Held : ofKey(k, t)]
    <2>1. ASSUME NEW t \in C  PROVE \E k \in KeysOf(Pages, Active) : f[k] = t
      <3>1. PICK k \in KeysOf(Pages, Active) : ofKey(k, t) /\ t \in Held
        OBVIOUS
      <3>2. f[k] \in Held /\ ofKey(k, f[k])
        BY <3>1
      <3>3. f[k] = t
        <4> HIDE DEF f
        <4> QED  BY <3>1, <3>2, <1>4
      <3> QED  BY <3>3
    <2>2. DOMAIN f = KeysOf(Pages, Active)
      OBVIOUS
    <2> HIDE DEF f, C
    <2> QED  BY <1>2, <2>1, <2>2, Covered
  <1> HIDE DEF D, L, C
  <1>8. IsFiniteSet(D \cup L) /\ Cardinality(D \cup L) <= Cardinality(D) + Cardinality(L) /\ Cardinality(D \cup L) \in Nat
    BY <1>5, <1>6, UnionIsLess
  <1>9. IsFiniteSet((D \cup L) \cup C) /\ Cardinality((D \cup L) \cup C) <= Cardinality(D \cup L) + Cardinality(C)
        /\ Cardinality((D \cup L) \cup C) \in Nat
    BY <1>7, <1>8, UnionIsLess
  <1>10. Cardinality(Held) <= Cardinality((D \cup L) \cup C) /\ Cardinality(Held) \in Nat
    BY <1>3, <1>9, SmallerIsLess
  <1> QED  BY <1>1, <1>2, <1>5, <1>6, <1>7, <1>8, <1>9, <1>10 DEF Room, PoolBounds
-----------------------------------------------------------------------------
(* Steps of the turn.                                                       *)

\* A step that sends nothing and leaves the answer alone.
QuietStep ==
  /\ ~At("over") /\ UNCHANGED <<job, sent, answer, calls, watch>>
  /\ turn' \in TurnRecord /\ page' \in PageRecord /\ turn'.part = turn.part /\ turn'.chunk <= job.chunks
  /\ turn'.outcome # "ok" /\ (turn'.at = "over" => turn'.outcome # "none")
  /\ turn'.at # "over" => turn'.outcome \in {"none", "expired"}
  /\ turn'.reuse = turn.reuse \/ sent = <<>>
  /\ turn'.baseline <= Len(sent) /\ turn'.at # "idle"
  /\ turn'.at \in Composing \cup {"chat", "effort"} => turn.at \in Composing \cup {"idle", "chat", "effort"}
  /\ turn'.at \in {"accept", "ack", "watch"} => turn.at \in {"accept", "ack", "watch"}
  /\ turn'.at = "watch" => turn.at = "watch" \/ Final
  /\ turn'.at = "ack" => turn.at = "ack" \/ ~Final
  /\ \A i \in Slips : Len(sent[i].text) > 1 =>
       /\ i = Len(sent)
       /\ \/ turn'.at = "over" \/ (turn'.at = "mangled" /\ Len(sent) > turn'.baseline)
          \/ turn'.at = "check" /\ Len(sent) > turn'.baseline /\ turn'.chunk = 2 /\ page'.composer = <<>>
  /\ Composed' /\ Restored'

LEMMA QuietSteps ==
  ASSUME TurnInv, QuietStep
  PROVE  TurnInv'
  <1> USE DEF QuietStep
  <1>1. TurnTyped /\ Delivered
    BY DEF TurnInv
  <1>2. TurnTyped'
    BY <1>1 DEF TurnTyped, At, WatchRecord
  <1>3. Slips' = Slips /\ Presses' = Presses /\ Pressed' = Pressed
    BY DEF Slips, Presses, Pressed
  <1>4. \A i \in DOMAIN Pressed' : IsMessage(Pressed[i], i)'
    <2>1. \A i \in DOMAIN Pressed : IsMessage(Pressed[i], i)
      BY <1>1 DEF Delivered
    <2>2. CASE sent = <<>>
      <3>1. sent \in Seq(Messages) /\ Presses = {} /\ Presses \in SUBSET DOMAIN sent
        BY <1>1, <2>2 DEF TurnTyped, Presses
      <3>2. Pressed = Picked(sent, Presses)
        BY DEF Pressed, Presses
      <3>3. Picked(sent, Presses) \in Seq(Messages) /\ Len(Picked(sent, Presses)) = Cardinality(Presses)
        BY <3>1, PickedElements
      <3>4. Cardinality(Presses) = 0
        BY <3>1, FS_EmptySet, Zenon
      <3>5. DOMAIN Pressed = {}
        BY <3>2, <3>3, <3>4
      <3> QED  BY <1>3, <3>5
    <2>3. CASE turn'.reuse = turn.reuse
      BY <1>3, <2>1, <2>3 DEF IsMessage, Prompt
    <2> QED  BY <2>2, <2>3
  <1>5. Delivered'
    <2>1. turn'.baseline <= Len(sent') /\ (turn'.at = "idle" => turn'.part = 1)
      OBVIOUS
    <2>2. turn'.at \in Composing \cup {"idle", "chat", "effort"} => Cardinality(Presses') = turn'.part - 1
      BY <1>1, <1>3 DEF Delivered
    <2>3. turn'.at \in {"accept", "ack", "watch"} => Cardinality(Presses') = turn'.part
      BY <1>1, <1>3 DEF Delivered
    <2>4. (turn'.at = "watch" => Final') /\ (turn'.at = "ack" => ~Final')
      BY <1>1 DEF Delivered, Final, At
    <2>5. Cardinality(Presses') <= job'.parts
      <3>1. turn.at \in Composing \cup {"idle", "chat", "effort", "accept", "ack", "watch"}
        BY <1>1 DEF TurnTyped, TurnRecord, Places, Composing, Connecting, At
      <3>2. turn.part \in Nat /\ job.parts \in Nat /\ turn.part <= job.parts
        BY <1>1 DEF TurnTyped, TurnRecord, Jobs
      <3> QED  BY <1>1, <1>3, <3>1, <3>2 DEF Delivered
    <2>6. turn'.outcome # "ok"
      OBVIOUS
    <2> QED  BY <1>3, <1>4, <2>1, <2>2, <2>3, <2>4, <2>5, <2>6 DEF Delivered, At, Submitted, Composing, Connecting
  <1>6. AnswersAreFinal' /\ watch'.base = watch'.shown
    BY DEF AnswersAreFinal, TurnInv
  <1> QED  BY <1>2, <1>5, <1>6 DEF TurnInv


\* The fields of a turn in its places.
LEMMA TurnIs ==
  ASSUME TurnInv
  PROVE  /\ turn \in TurnRecord /\ page \in PageRecord /\ job \in Jobs /\ sent \in Seq(Messages) /\ Len(sent) \in Nat
         /\ turn.part <= job.parts /\ turn.chunk <= job.chunks
         /\ (turn.at = "over" => turn.outcome # "none") /\ (turn.at # "over" => turn.outcome \in {"none", "expired"})
         /\ turn.baseline <= Len(sent)
         /\ Composed /\ Restored
         /\ \A i \in Slips : Len(sent[i].text) > 1 =>
              /\ i = Len(sent)
              /\ \/ turn.at = "over" \/ (turn.at = "mangled" /\ Len(sent) > turn.baseline)
                 \/ turn.at = "check" /\ Len(sent) > turn.baseline /\ turn.chunk = 2 /\ page.composer = <<>>
  BY DEF TurnInv, TurnTyped, Delivered, At, Submitted

LEMMA ChatReadyKeeps ==
  ASSUME TurnInv, ChatReady  PROVE TurnInv'
  <1>1. turn.at = "chat" /\ turn' = [turn EXCEPT !.at = "effort"] /\ UNCHANGED <<job, page, sent, answer, calls, watch>>
    BY DEF ChatReady, At, To, KeepAnswer
  <1>2. QuietStep
    BY <1>1, TurnIs DEF QuietStep, Composed, Restored, TurnRecord, Places, Composing, Connecting, At, Final, NeedsConnector, Target, IsNoop, Prompt, Slips
  <1> QED  BY <1>2, QuietSteps

LEMMA BeginsKeeps ==
  ASSUME TurnInv, NEW reuse \in BOOLEAN, Begins(reuse)  PROVE TurnInv'
  <1> DEFINE fresh == job.tools /\ ~reuse /\ job.parts = 1
  <1>1. /\ turn.at = "idle" /\ UNCHANGED <<job, page, sent, answer, calls, watch>>
        /\ turn' = [turn EXCEPT !.at = IF reuse THEN "effort" ELSE "chat", !.reuse = reuse, !.refresh = fresh]
    BY DEF Begins, At, To, KeepAnswer
  <1>2. fresh \in BOOLEAN
    OBVIOUS
  <1> HIDE DEF fresh
  <1>3. turn' \in TurnRecord
    BY <1>1, <1>2, TurnIs DEF TurnRecord, Places
  <1>4. Composed' /\ Restored'
    BY <1>1, TurnIs DEF Composed, Restored, Composing, Connecting, At, Slips
  <1>5. QuietStep
    BY <1>1, <1>3, <1>4, TurnIs DEF QuietStep, Composed, TurnRecord, Composing, Connecting, At, Slips
  <1> QED  BY <1>5, QuietSteps

LEMMA EffortSelectedKeeps ==
  ASSUME TurnInv, EffortSelected  PROVE TurnInv'
  <1>1. /\ turn.at = "effort" /\ page.effort = Target /\ UNCHANGED <<job, page, sent, answer, calls, watch>>
        /\ turn' = [turn EXCEPT !.at = "attach", !.baseline = Len(sent)]
    BY DEF EffortSelected, At, KeepAnswer
  <1>2. turn' \in TurnRecord
    BY <1>1, TurnIs DEF TurnRecord, Places
  <1>3. Composed'
    BY <1>1, TurnIs DEF Composed, Composing, Connecting, At, Final, NeedsConnector, Target, TurnRecord, Slips
  <1>4. Restored'
    BY <1>1, TurnIs DEF Restored, At, TurnRecord
  <1>5. QuietStep
    BY <1>1, <1>2, <1>3, <1>4, TurnIs DEF QuietStep, TurnRecord, Composing, At, Slips
  <1> QED  BY <1>5, QuietSteps


\* The prompt a composer holds, chunk by chunk.
LEMMA Chunks ==
  ASSUME job \in Jobs
  PROVE  /\ Prompt \in Texts /\ Len(Prompt) = job.chunks
         /\ SubSeq(Prompt, 1, 0) = <<>>
         /\ \A n \in 1 .. job.chunks : /\ SubSeq(Prompt, 1, n) = Append(SubSeq(Prompt, 1, n - 1), n)
                                       /\ SubSeq(Prompt, 1, n) # <<>> /\ Len(SubSeq(Prompt, 1, n)) = n
                                       /\ SubSeq(Prompt, 1, n) # SubSeq(Prompt, 1, n - 1)
         /\ SubSeq(Prompt, 1, job.chunks) = Prompt
  <1>1. job.chunks \in 1 .. 2
    BY DEF Jobs
  <1>2. Prompt \in Texts /\ Len(Prompt) = job.chunks /\ \A n \in 1 .. job.chunks : Prompt[n] = n
    BY <1>1 DEF Prompt, Texts
  <1>3. SubSeq(Prompt, 1, 0) = <<>>
    BY SubSeqEmpty
  <1>4. SubSeq(Prompt, 1, job.chunks) = Prompt
    BY <1>2, SubSeqFull DEF Texts
  <1>5. ASSUME NEW n \in 1 .. job.chunks
        PROVE  /\ SubSeq(Prompt, 1, n) = Append(SubSeq(Prompt, 1, n - 1), n)
               /\ SubSeq(Prompt, 1, n) # <<>> /\ Len(SubSeq(Prompt, 1, n)) = n
               /\ SubSeq(Prompt, 1, n) # SubSeq(Prompt, 1, n - 1)
    <2>1. n \in 1 .. 2 /\ n - 1 \in 0 .. 1 /\ n \in Int /\ n - 1 \in Int /\ 1 \in Int /\ n \in 0 .. 2
      BY <1>1
    <2>2. SubSeq(Prompt, 1, n) \in Seq(0 .. 2) /\ Len(SubSeq(Prompt, 1, n)) = n
      <3>1. \A i \in 1 .. n : Prompt[i] \in 0 .. 2
        BY <1>1, <1>2, <2>1
      <3> QED  BY <2>1, <3>1, SubSeqProperties
    <2>3. SubSeq(Prompt, 1, n - 1) \in Seq(0 .. 2) /\ Len(SubSeq(Prompt, 1, n - 1)) = n - 1
      <3>1. \A i \in 1 .. n - 1 : Prompt[i] \in 0 .. 2
        BY <1>1, <1>2, <2>1
      <3> HIDE DEF Prompt
      <3>2. /\ SubSeq(Prompt, 1, n - 1) \in Seq(0 .. 2)
            /\ Len(SubSeq(Prompt, 1, n - 1)) = IF 1 <= n - 1 THEN (n - 1) - 1 + 1 ELSE 0
        BY <2>1, <3>1, SubSeqProperties
      <3> QED  BY <2>1, <3>2
    <2>4. SubSeq(Prompt, 1, n) = SubSeq(Prompt, 1, n - 1) \o <<Prompt[n]>>
      <3>1. 1 \in 1 .. Len(Prompt) /\ n \in 1 .. Len(Prompt)
        BY <1>1, <1>2, <2>1
      <3> QED  BY <1>2, <3>1, SubSeqRecursiveSecond DEF Texts
    <2>5. Append(SubSeq(Prompt, 1, n - 1), n) = SubSeq(Prompt, 1, n - 1) \o <<n>>
      BY <2>1, <2>3, AppendIsConcat
    <2>6. SubSeq(Prompt, 1, n) # <<>>
      <3> DEFINE text == SubSeq(Prompt, 1, n)
      <3>1. Len(text) = n /\ Len(<<>>) = 0
        BY <2>2
      <3> HIDE DEF text
      <3>2. text # <<>>
        BY <2>1, <3>1
      <3> QED  BY <3>2 DEF text
    <2>7. SubSeq(Prompt, 1, n) # SubSeq(Prompt, 1, n - 1)
      BY <2>1, <2>2, <2>3
    <2>8. Prompt[n] = n
      BY <1>2
    <2> QED  BY <2>2, <2>4, <2>5, <2>6, <2>7, <2>8
  <1> QED  BY <1>2, <1>3, <1>4, <1>5

LEMMA SelectEffortKeeps ==
  ASSUME TurnInv, SelectEffort  PROVE TurnInv'
  <1>1. /\ turn.at = "effort" /\ UNCHANGED <<job, sent, answer, calls, watch>>
        /\ \E moved \in 0 .. 3 : page' = [page EXCEPT !.effort = moved]
        /\ turn' = turn \/ \E o \in {"failed", "expired"} : turn' = [turn EXCEPT !.at = "over", !.outcome = o]
    BY TurnIs DEF SelectEffort, At, Ends, KeepAnswer
  <1>2. turn' \in TurnRecord /\ page' \in PageRecord
    <2>1. turn' \in TurnRecord
      BY <1>1, TurnIs DEF TurnRecord, Places, Outcomes, Jobs, Target, Staging, Wanted
    <2>2. page' \in PageRecord
      BY <1>1, TurnIs DEF PageRecord, Jobs, Target, Staging, Wanted
    <2> QED  BY <2>1, <2>2
  <1>3. Composed'
    BY <1>1, TurnIs, ZenonT(40) DEF Composed, Composing, Connecting, At, Final, NeedsConnector, Target, TurnRecord, PageRecord, Slips
  <1>4. Restored'
    BY <1>1, TurnIs DEF Restored, At, TurnRecord, PageRecord
  <1>5. QuietStep
    BY <1>1, <1>2, <1>3, <1>4, TurnIs DEF QuietStep, TurnRecord, Composing, Connecting, At, Slips, Final
  <1> QED  BY <1>5, QuietSteps

LEMMA PersonalizeKeeps ==
  ASSUME TurnInv, Personalize  PROVE TurnInv'
  <1>1. /\ turn.at = "label" /\ UNCHANGED <<job, sent, answer, calls, watch>>
        /\ \E choice \in {0, 1} : page' = [page EXCEPT !.choice = choice]
        /\ turn' = [turn EXCEPT !.at = "rows"] \/ \E o \in {"failed", "persistent", "expired"} : turn' = [turn EXCEPT !.at = "over", !.outcome = o]
    BY TurnIs DEF Personalize, At, To, Ends, KeepAnswer
  <1>2. turn' \in TurnRecord /\ page' \in PageRecord
    <2>1. turn' \in TurnRecord
      BY <1>1, TurnIs, ZenonT(40) DEF TurnRecord, Places, Outcomes, Jobs, Target, Staging, Wanted
    <2>2. page' \in PageRecord
      BY <1>1, TurnIs DEF PageRecord, Jobs, Target, Staging, Wanted
    <2> QED  BY <2>1, <2>2
  <1>3. Composed'
    BY <1>1, TurnIs, ZenonT(40) DEF Composed, Composing, Connecting, At, Final, NeedsConnector, Target, TurnRecord, PageRecord, Slips
  <1>4. Restored'
    BY <1>1, TurnIs DEF Restored, At, TurnRecord, PageRecord
  <1>5. QuietStep
    BY <1>1, <1>2, <1>3, <1>4, TurnIs DEF QuietStep, TurnRecord, Composing, Connecting, At, Slips, Final
  <1> QED  BY <1>5, QuietSteps

LEMMA ProveKeeps ==
  ASSUME TurnInv, Prove  PROVE TurnInv'
  <1>1. /\ turn.at = "prove" /\ UNCHANGED <<job, page, sent, answer, calls, watch>>
        /\ \/ turn' = [turn EXCEPT !.at = "rows", !.proven = TRUE]
           \/ turn' = [turn EXCEPT !.at = IF turn.receipt = 2 THEN "toggle" ELSE "restore"]
           \/ turn.receipt # 2 /\ turn' = [turn EXCEPT !.at = "restore"]
           \/ turn.receipt = 2 /\ \E o \in {"failed", "persistent", "expired"} : turn' = [turn EXCEPT !.at = "over", !.outcome = o]
    BY TurnIs DEF Prove, At, To, Ends, KeepAnswer
  <1>2. turn' \in TurnRecord /\ page' \in PageRecord
    <2>1. turn' \in TurnRecord
      BY <1>1, TurnIs, ZenonT(40) DEF TurnRecord, Places, Outcomes, Jobs, Target, Staging, Wanted
    <2>2. page' \in PageRecord
      BY <1>1, TurnIs DEF PageRecord, Jobs, Target, Staging, Wanted
    <2> QED  BY <2>1, <2>2
  <1>3. Composed'
    BY <1>1, TurnIs, ZenonT(40) DEF Composed, Composing, Connecting, At, Final, NeedsConnector, Target, TurnRecord, PageRecord, Slips
  <1>4. Restored'
    BY <1>1, TurnIs DEF Restored, At, TurnRecord, PageRecord
  <1>5. QuietStep
    BY <1>1, <1>2, <1>3, <1>4, TurnIs DEF QuietStep, TurnRecord, Composing, Connecting, At, Slips, Final
  <1> QED  BY <1>5, QuietSteps

LEMMA ToggleKeeps ==
  ASSUME TurnInv, Toggle  PROVE TurnInv'
  <1>1. /\ turn.at = "toggle" /\ UNCHANGED <<job, sent, answer, calls, watch>>
        /\ \/ page' = [page EXCEPT !.choice = 1 - @] /\ turn' = [turn EXCEPT !.at = "prove", !.receipt = page.choice]
           \/ /\ \E choice \in {0, 1} : page' = [page EXCEPT !.choice = choice]
              /\ turn' = [turn EXCEPT !.at = "restore", !.receipt = page.choice]
           \/ page' = page /\ \E o \in {"failed", "persistent", "expired"} : turn' = [turn EXCEPT !.at = "over", !.outcome = o]
    BY TurnIs DEF Toggle, At, Ends, KeepAnswer
  <1>0. page.choice \in {0, 1} /\ page.choice \in 0 .. 2 /\ 1 - page.choice \in {0, 1} /\ page.choice # 2
    BY TurnIs DEF PageRecord
  <1>2. turn' \in TurnRecord /\ page' \in PageRecord
    <2>1. turn' \in TurnRecord
      BY <1>0, <1>1, TurnIs, ZenonT(40) DEF TurnRecord, Places, Outcomes, Jobs, Target, Staging, Wanted
    <2>2. page' \in PageRecord
      BY <1>0, <1>1, TurnIs DEF PageRecord, Jobs, Target, Staging, Wanted
    <2> QED  BY <2>1, <2>2
  <1>3. Composed'
    BY <1>1, TurnIs, ZenonT(40) DEF Composed, Composing, Connecting, At, Final, NeedsConnector, Target, TurnRecord, PageRecord, Slips
  <1>4. Restored'
    BY <1>0, <1>1, TurnIs DEF Restored, At, TurnRecord, PageRecord
  <1>5. QuietStep
    BY <1>1, <1>2, <1>3, <1>4, TurnIs DEF QuietStep, TurnRecord, Composing, Connecting, At, Slips, Final
  <1> QED  BY <1>5, QuietSteps

LEMMA RestoreKeeps ==
  ASSUME TurnInv, Restore  PROVE TurnInv'
  <1>1. /\ turn.at = "restore" /\ UNCHANGED <<job, sent, answer, calls, watch>>
        /\ \/ page' = [page EXCEPT !.choice = turn.receipt] /\ \E o \in {"failed", "persistent", "expired"} : turn' = [turn EXCEPT !.at = "over", !.outcome = o]
           \/ page' = page /\ \E o \in {"persistent", "expired"} : turn' = [turn EXCEPT !.at = "over", !.outcome = o]
    BY TurnIs DEF Restore, At, Ends, KeepAnswer
  <1>2. turn.receipt \in {0, 1}
    BY <1>1, TurnIs DEF TurnRecord, Restored, At
  <1>3. page' \in PageRecord
    BY <1>2, <1>1, TurnIs DEF PageRecord
  <1>4. turn' \in TurnRecord
    BY <1>1, TurnIs DEF TurnRecord, Places, Outcomes
  <1>5. Composed'
    BY <1>1, TurnIs, ZenonT(40) DEF Composed, Composing, Connecting, At, Final, NeedsConnector, Target, TurnRecord, PageRecord, Slips
  <1>6. Restored'
    BY <1>1, TurnIs DEF Restored, At, TurnRecord, PageRecord
  <1>7. QuietStep
    BY <1>1, <1>3, <1>4, <1>5, <1>6, TurnIs DEF QuietStep, TurnRecord, Composing, Connecting, At, Slips, Final
  <1> QED  BY <1>7, QuietSteps

LEMMA RefreshKeeps ==
  ASSUME TurnInv, Refresh  PROVE TurnInv'
  <1>1. /\ turn.at = "refresh" /\ UNCHANGED <<job, sent, answer, calls, watch>>
        /\ \E listed \in BOOLEAN : page' = [page EXCEPT !.composer = <<>>, !.pill = FALSE, !.choice = 0, !.listed = listed]
        /\ turn' = [turn EXCEPT !.at = "attach"]
    BY DEF Refresh, At, To, KeepAnswer
  <1>0. <<>> \in Texts
    BY DEF Texts
  <1>2. turn' \in TurnRecord /\ page' \in PageRecord
    <2>1. turn' \in TurnRecord
      BY <1>0, <1>1, TurnIs DEF TurnRecord, Places, Outcomes, Jobs, Target, Staging, Wanted
    <2>2. page' \in PageRecord
      BY <1>0, <1>1, TurnIs DEF PageRecord, Jobs, Target, Staging, Wanted
    <2> QED  BY <2>1, <2>2
  <1>3. Composed'
    BY <1>1, TurnIs DEF Composed, Composing, Connecting, At, Final, NeedsConnector, Target, TurnRecord, PageRecord, Slips
  <1>4. Restored'
    BY <1>1, TurnIs DEF Restored, At, TurnRecord, PageRecord
  <1>5. QuietStep
    BY <1>1, <1>2, <1>3, <1>4, TurnIs DEF QuietStep, TurnRecord, Composing, Connecting, At, Slips, Final
  <1> QED  BY <1>5, QuietSteps

LEMMA UnlistedKeeps ==
  ASSUME TurnInv, Unlisted  PROVE TurnInv'
  <1>1. /\ turn.at = "chat" /\ UNCHANGED <<job, turn, sent, answer, calls, watch>>
        /\ page' = [page EXCEPT !.listed = FALSE]
    BY DEF Unlisted, At, KeepAnswer
  <1>2. turn' \in TurnRecord /\ page' \in PageRecord
    <2>1. turn' \in TurnRecord
      BY <1>1, TurnIs DEF TurnRecord, Places, Outcomes, Jobs, Target, Staging, Wanted
    <2>2. page' \in PageRecord
      BY <1>1, TurnIs DEF PageRecord, Jobs, Target, Staging, Wanted
    <2> QED  BY <2>1, <2>2
  <1>3. Composed'
    BY <1>1, TurnIs DEF Composed, Composing, Connecting, At, Final, NeedsConnector, Target, TurnRecord, PageRecord, Slips
  <1>4. Restored'
    BY <1>1, TurnIs DEF Restored, At, TurnRecord, PageRecord
  <1>5. QuietStep
    BY <1>1, <1>2, <1>3, <1>4, TurnIs DEF QuietStep, TurnRecord, Composing, Connecting, At, Slips, Final
  <1> QED  BY <1>5, QuietSteps

LEMMA AcceptedKeeps ==
  ASSUME TurnInv, Accepted  PROVE TurnInv'
  <1>1. /\ turn.at = "accept" /\ UNCHANGED <<job, page, sent, answer, calls, watch>>
        /\ turn' = [turn EXCEPT !.at = IF Final THEN "watch" ELSE "ack", !.rebinds = 0]
    BY DEF Accepted, At, KeepAnswer
  <1>0. 0 \in 0 .. MaxRebinds
    BY DEF MaxRebinds
  <1>2. turn' \in TurnRecord /\ page' \in PageRecord
    <2>1. turn' \in TurnRecord
      BY <1>0, <1>1, TurnIs DEF TurnRecord, Places, Outcomes, Jobs, Target, Staging, Wanted
    <2>2. page' \in PageRecord
      BY <1>0, <1>1, TurnIs DEF PageRecord, Jobs, Target, Staging, Wanted
    <2> QED  BY <2>1, <2>2
  <1>3. Composed'
    BY <1>1, TurnIs DEF Composed, Composing, Connecting, At, Final, NeedsConnector, Target, TurnRecord, PageRecord, Slips
  <1>4. Restored'
    BY <1>1, TurnIs DEF Restored, At, TurnRecord, PageRecord
  <1>5. QuietStep
    BY <1>1, <1>2, <1>3, <1>4, TurnIs DEF QuietStep, TurnRecord, Composing, Connecting, At, Slips, Final
  <1> QED  BY <1>5, QuietSteps

LEMMA BreaksKeeps ==
  ASSUME TurnInv, Breaks  PROVE TurnInv'
  <1>1. /\ turn.at \notin {"idle", "over", "toggle", "restore", "label"} /\ UNCHANGED <<job, page, sent, answer, calls, watch>>
        /\ \/ turn.at = "prove" /\ turn.receipt # 2 /\ turn' = [turn EXCEPT !.at = "restore"]
           \/ ~(turn.at = "prove" /\ turn.receipt # 2) /\ \E o \in {"failed", "expired"} : turn' = [turn EXCEPT !.at = "over", !.outcome = o]
    BY TurnIs DEF Breaks, At, To, Ends, KeepAnswer
  <1>2. turn' \in TurnRecord /\ page' \in PageRecord
    <2>1. turn' \in TurnRecord
      BY <1>1, TurnIs DEF TurnRecord, Places, Outcomes, Jobs, Target, Staging, Wanted
    <2>2. page' \in PageRecord
      BY <1>1, TurnIs DEF PageRecord, Jobs, Target, Staging, Wanted
    <2> QED  BY <2>1, <2>2
  <1>3. Composed'
    BY <1>1, TurnIs DEF Composed, Composing, Connecting, At, Final, NeedsConnector, Target, TurnRecord, PageRecord, Slips
  <1>4. Restored'
    BY <1>1, TurnIs DEF Restored, At, TurnRecord, PageRecord
  <1>5. QuietStep
    BY <1>1, <1>2, <1>3, <1>4, TurnIs, ZenonT(40) DEF QuietStep, TurnRecord, Composing, Connecting, At, Slips, Final
  <1> QED  BY <1>5, QuietSteps

LEMMA LostKeeps ==
  ASSUME TurnInv, Lost  PROVE TurnInv'
  <1>1. /\ turn.at \in {"label", "toggle", "restore"} /\ UNCHANGED <<job, page, sent, answer, calls, watch>>
        /\ \E o \in {"failed", "persistent", "expired"} : turn' = [turn EXCEPT !.at = "over", !.outcome = o] /\ (turn.at = "restore" => o # "failed")
    BY TurnIs DEF Lost, At, Ends, KeepAnswer
  <1>2. turn' \in TurnRecord /\ page' \in PageRecord
    <2>1. turn' \in TurnRecord
      BY <1>1, TurnIs DEF TurnRecord, Places, Outcomes, Jobs, Target, Staging, Wanted
    <2>2. page' \in PageRecord
      BY <1>1, TurnIs DEF PageRecord, Jobs, Target, Staging, Wanted
    <2> QED  BY <2>1, <2>2
  <1>3. Composed'
    BY <1>1, TurnIs DEF Composed, Composing, Connecting, At, Final, NeedsConnector, Target, TurnRecord, PageRecord, Slips
  <1>4. Restored'
    BY <1>1, TurnIs DEF Restored, At, TurnRecord, PageRecord
  <1>5. QuietStep
    BY <1>1, <1>2, <1>3, <1>4, TurnIs DEF QuietStep, TurnRecord, Composing, Connecting, At, Slips, Final
  <1> QED  BY <1>5, QuietSteps

LEMMA TimesOutKeeps ==
  ASSUME TurnInv, TimesOut  PROVE TurnInv'
  <1>1. /\ turn.at \in Stages /\ turn.outcome = "none" /\ UNCHANGED <<job, page, sent, answer, calls, watch>>
        /\ turn' = [turn EXCEPT !.outcome = "expired"]
    BY DEF TimesOut, KeepAnswer
  <1>2. turn' \in TurnRecord /\ page' \in PageRecord
    BY <1>1, TurnIs DEF TurnRecord, Outcomes
  <1>3. Composed'
    BY <1>1, TurnIs DEF Composed, Composing, Connecting, At, Final, NeedsConnector, Target, TurnRecord, Slips, IsNoop, Prompt
  <1>4. Restored'
    BY <1>1, TurnIs DEF Restored, At, TurnRecord, Stages
  <1>5. QuietStep
    BY <1>1, <1>2, <1>3, <1>4, TurnIs DEF QuietStep, TurnRecord, Composing, Connecting, At, Slips, Final, Stages
  <1> QED  BY <1>5, QuietSteps

LEMMA AttachKeeps ==
  ASSUME TurnInv, Attach  PROVE TurnInv'
  <1>1. /\ turn.at = "attach" /\ UNCHANGED <<job, sent, answer, calls, watch>>
        /\ \E kept \in {FALSE, page.pill} :
             /\ page' = [page EXCEPT !.composer = <<>>, !.pill = kept]
             /\ turn' = [turn EXCEPT !.at = IF ~NeedsConnector \/ kept THEN "insert"
                                           ELSE IF job.label = "hidden" THEN "prove"
                                           ELSE IF job.label = "personalized" THEN "rows" ELSE "label",
                                     !.chunk = 1, !.retried = FALSE, !.receipt = 2, !.proven = FALSE]
    BY DEF Attach, At, KeepAnswer
  <1>2. PICK kept \in {FALSE, page.pill} :
             /\ page' = [page EXCEPT !.composer = <<>>, !.pill = kept]
             /\ turn' = [turn EXCEPT !.at = IF ~NeedsConnector \/ kept THEN "insert"
                                           ELSE IF job.label = "hidden" THEN "prove"
                                           ELSE IF job.label = "personalized" THEN "rows" ELSE "label",
                                     !.chunk = 1, !.retried = FALSE, !.receipt = 2, !.proven = FALSE]
    BY <1>1
  <1>3. <<>> \in Texts /\ kept \in BOOLEAN /\ (kept => page.pill /\ NeedsConnector)
    <2>1. page.pill \in BOOLEAN
      BY TurnIs DEF PageRecord
    <2>2. kept \in BOOLEAN /\ (kept => page.pill)
      BY <2>1, Zenon
    <2>3. page.pill => NeedsConnector
      BY TurnIs DEF Composed
    <2> QED  BY <2>2, <2>3 DEF Texts
  <1>4. turn' \in TurnRecord /\ page' \in PageRecord
    <2>1. page' \in PageRecord
      BY <1>2, <1>3, TurnIs DEF PageRecord
    <2>2. PICK where \in {"insert", "prove", "rows", "label"} :
             turn' = [turn EXCEPT !.at = where, !.chunk = 1, !.retried = FALSE, !.receipt = 2, !.proven = FALSE]
      BY <1>2
    <2>3. turn' \in TurnRecord
      <3>1. turn \in TurnRecord /\ where \in Places
        BY TurnIs DEF Places
      <3> DEFINE one == [turn EXCEPT !.at = where]
                 two == [one EXCEPT !.chunk = 1]
                 three == [two EXCEPT !.retried = FALSE]
                 four == [three EXCEPT !.receipt = 2]
                 five == [four EXCEPT !.proven = FALSE]
      <3>2. one \in TurnRecord
        BY <3>1 DEF TurnRecord
      <3>3. two \in TurnRecord
        <4> HIDE DEF one
        <4> QED  BY <3>2 DEF TurnRecord
      <3>4. three \in TurnRecord
        <4> HIDE DEF two
        <4> QED  BY <3>3 DEF TurnRecord
      <3>5. four \in TurnRecord
        <4> HIDE DEF three
        <4> QED  BY <3>4 DEF TurnRecord
      <3>6. five \in TurnRecord
        <4> HIDE DEF four
        <4> QED  BY <3>5 DEF TurnRecord
      <3> QED  BY <2>2, <3>6
    <2> QED  BY <2>1, <2>3
  <1>5. /\ turn'.at = IF ~NeedsConnector \/ kept THEN "insert"
                       ELSE IF job.label = "hidden" THEN "prove"
                       ELSE IF job.label = "personalized" THEN "rows" ELSE "label"
        /\ turn'.chunk = 1 /\ turn'.receipt = 2 /\ turn'.part = turn.part /\ turn'.reuse = turn.reuse
        /\ page'.composer = <<>> /\ page'.pill = kept /\ page'.effort = page.effort
        /\ turn'.baseline = turn.baseline /\ turn'.outcome = turn.outcome
    BY <1>2, TurnIs DEF TurnRecord, PageRecord
  <1>6. NeedsConnector' = NeedsConnector /\ Slips' = Slips /\ Target' = Target
    BY <1>1, <1>5 DEF NeedsConnector, Final, Slips, Target
  <1>7. Composed'
    <2>1. At("insert")' => IsNoop'
      <3>1. Prompt' = Prompt /\ SubSeq(Prompt, 1, 0) = <<>>
        BY <1>1, TurnIs, Chunks DEF Prompt
      <3> QED  BY <3>1, <1>5 DEF IsNoop
    <2>2. turn'.at \in {"insert", "prove", "rows", "label"} /\ page'.effort = Target
      BY <1>1, <1>5, TurnIs DEF Composed, Composing
    <2>3. turn'.at = "insert" => page'.pill = NeedsConnector
      <3>1. NeedsConnector \in BOOLEAN
        BY DEF NeedsConnector
      <3>2. turn'.at = "insert" => ~NeedsConnector \/ kept
        BY <1>5
      <3> QED  BY <1>3, <1>5, <3>1, <3>2
    <2>4. turn'.at # "insert" => NeedsConnector
      BY <1>5
    <2> QED  BY <1>3, <1>5, <1>6, <2>1, <2>2, <2>3, <2>4 DEF Composed, Composing, Connecting, At
  <1>8. Restored'
    BY <1>5 DEF Restored, At
  <1>9. QuietStep
    BY <1>1, <1>4, <1>5, <1>7, <1>8, TurnIs DEF QuietStep, TurnRecord, Composing, Connecting, At, Slips, Jobs
  <1> QED  BY <1>9, QuietSteps

LEMMA ChooseKeeps ==
  ASSUME TurnInv, Choose  PROVE TurnInv'
  <1>1. /\ turn.at = "rows" /\ UNCHANGED <<job, sent, answer, calls, watch>>
        /\ \/ page' = [page EXCEPT !.pill = TRUE] /\ turn' = [turn EXCEPT !.at = "insert"]
           \/ page' = page /\ turn' = [turn EXCEPT !.at = "refresh", !.refresh = FALSE]
           \/ page' = page /\ \E o \in {"failed", "expired"} : turn' = [turn EXCEPT !.at = "over", !.outcome = o]
    BY TurnIs DEF Choose, At, To, Ends, KeepAnswer
  <1>2. turn' \in TurnRecord /\ page' \in PageRecord
    <2>1. page' \in PageRecord
      BY <1>1, TurnIs DEF PageRecord
    <2>2. turn' \in TurnRecord
      BY <1>1, TurnIs DEF TurnRecord, Places, Outcomes
    <2> QED  BY <2>1, <2>2
  <1>3. NeedsConnector /\ NeedsConnector' /\ page.composer = <<>> /\ turn.chunk = 1
    BY <1>1, TurnIs DEF Composed, Connecting, NeedsConnector, Final, TurnRecord
  <1>4. At("insert")' => IsNoop'
    <2>1. Prompt' = Prompt /\ SubSeq(Prompt, 1, 0) = <<>> /\ turn'.chunk = 1 /\ page'.composer = <<>>
      BY <1>1, <1>3, TurnIs, Chunks DEF Prompt, TurnRecord, PageRecord
    <2> QED  BY <2>1 DEF IsNoop
  <1>5. Composed'
    BY <1>1, <1>3, <1>4, TurnIs DEF Composed, Composing, Connecting, At, Target, TurnRecord, PageRecord
  <1>6. Restored'
    BY <1>1, TurnIs DEF Restored, At, TurnRecord, PageRecord
  <1>7. QuietStep
    BY <1>1, <1>2, <1>5, <1>6, TurnIs DEF QuietStep, TurnRecord, Composing, Connecting, At, Slips
  <1> QED  BY <1>7, QuietSteps

LEMMA CheckKeeps ==
  ASSUME TurnInv, Check  PROVE TurnInv'
  <1> DEFINE done == page.composer = SubSeq(Prompt, 1, turn.chunk)
             last == turn.chunk = job.chunks
             on == [turn EXCEPT !.at = IF last THEN "verify" ELSE "insert", !.chunk = IF last THEN @ ELSE @ + 1, !.retried = FALSE]
  <1>1. /\ turn.at = "check" /\ UNCHANGED <<job, page, sent, answer, calls, watch>>
        /\ \/ done /\ turn' = on
           \/ ~done /\ IsNoop /\ turn' = [turn EXCEPT !.at = "insert", !.retried = TRUE]
           \/ ~done /\ turn' = [turn EXCEPT !.at = "mangled"]
    BY DEF Check, At, To, KeepAnswer
  <1>2. /\ turn.chunk \in 1 .. job.chunks /\ turn.chunk \in 1 .. 2 /\ job.chunks \in 1 .. 2 /\ Prompt' = Prompt
        /\ (~last => turn.chunk + 1 \in 1 .. 2 /\ turn.chunk + 1 <= job.chunks)
    BY <1>1, TurnIs DEF TurnRecord, Jobs, Prompt
  <1>3. done => page.composer # <<>>
    BY <1>2, TurnIs, Chunks
  <1>4. At("insert")' => IsNoop'
    <2>1. ASSUME done, ~last, turn' = on  PROVE IsNoop'
      <3>1. turn'.chunk - 1 = turn.chunk
        BY <1>2, <2>1, TurnIs DEF TurnRecord
      <3> QED  BY <1>1, <1>2, <2>1, <3>1 DEF IsNoop
    <2>2. ASSUME IsNoop, turn' = [turn EXCEPT !.at = "insert", !.retried = TRUE]  PROVE IsNoop'
      <3>1. turn'.chunk = turn.chunk
        BY <2>2, TurnIs DEF TurnRecord
      <3> QED  BY <1>1, <1>2, <2>2, <3>1 DEF IsNoop
    <2>3. turn' = on /\ last => turn'.at = "verify"
      BY TurnIs DEF TurnRecord
    <2>4. turn' = [turn EXCEPT !.at = "mangled"] => turn'.at = "mangled"
      BY TurnIs DEF TurnRecord
    <2> QED  BY <1>1, <2>1, <2>2, <2>3, <2>4 DEF At
  <1> HIDE DEF done
  <1>5. turn' \in TurnRecord
    BY <1>1, <1>2, TurnIs, ZenonT(40) DEF TurnRecord, Places
  <1>6. /\ turn'.part = turn.part /\ turn'.reuse = turn.reuse /\ turn'.baseline = turn.baseline
        /\ turn'.receipt = turn.receipt /\ turn'.proven = turn.proven /\ turn'.outcome = turn.outcome
        /\ turn'.chunk <= job.chunks /\ turn'.at \in {"verify", "insert", "mangled"}
        /\ (turn'.at = "mangled" \/ IsNoop \/ done)
    BY <1>1, <1>2, TurnIs DEF TurnRecord
  <1>7. Composed'
    <2>1. NeedsConnector' = NeedsConnector /\ Slips' = Slips /\ Target' = Target
      BY <1>1, <1>6 DEF NeedsConnector, Final, Slips, Target
    <2> QED  BY <1>1, <1>4, <1>6, <2>1, TurnIs DEF Composed, Composing, Connecting, At
  <1>8. Restored'
    BY <1>1, <1>6, TurnIs DEF Restored, At
  <1>9. turn'.at # "mangled" => \A i \in Slips : ~(Len(sent[i].text) > 1)
    <2>1. turn.chunk = 2 /\ page.composer = <<>> => ~done /\ ~IsNoop
      <3>1. SubSeq(Prompt, 1, 1) # <<>> \/ 2 \notin 1 .. job.chunks
        BY <1>2, TurnIs, Chunks
      <3> QED  BY <1>2, <1>3, <3>1 DEF IsNoop
    <2> QED  BY <1>1, <1>6, <2>1, TurnIs
  <1>10. QuietStep
    BY <1>1, <1>5, <1>6, <1>7, <1>8, <1>9, TurnIs DEF QuietStep, TurnRecord, Composing, Connecting, At
  <1> QED  BY <1>10, QuietSteps

LEMMA VerifyKeeps ==
  ASSUME TurnInv, Verify  PROVE TurnInv'
  <1>1. /\ turn.at = "verify" /\ UNCHANGED <<job, page, sent, answer, calls, watch>>
        /\ turn' = [turn EXCEPT !.at = IF page.composer = Prompt THEN "send" ELSE "mangled"]
    BY DEF Verify, At, To, KeepAnswer
  <1>2. turn' \in TurnRecord
    BY <1>1, TurnIs DEF TurnRecord, Places
  <1>3. Composed'
    <2>1. Prompt' = Prompt /\ NeedsConnector' = NeedsConnector /\ Slips' = Slips /\ Target' = Target
      BY <1>1, TurnIs DEF Prompt, NeedsConnector, Final, Slips, Target, TurnRecord
    <2>2. (turn'.at = "send" /\ page.composer = Prompt) \/ turn'.at = "mangled"
      BY <1>1, TurnIs DEF TurnRecord
    <2> QED  BY <1>1, <2>1, <2>2, TurnIs DEF Composed, Composing, Connecting, At
  <1>4. Restored'
    BY <1>1, TurnIs DEF Restored, At, TurnRecord
  <1>5. QuietStep
    BY <1>1, <1>2, <1>3, <1>4, TurnIs DEF QuietStep, TurnRecord, Composing, Connecting, At, Slips
  <1> QED  BY <1>5, QuietSteps

LEMMA ReattachKeeps ==
  ASSUME TurnInv, Reattach  PROVE TurnInv'
  <1>1. /\ turn.at = "mangled" /\ UNCHANGED <<job, sent, answer, calls, watch>>
        /\ \/ /\ ~(Len(sent) > turn.baseline) /\ page' = [page EXCEPT !.composer = <<>>]
              /\ turn' = [turn EXCEPT !.at = "attach", !.again = FALSE]
           \/ page' = page /\ \E o \in {"failed", "expired"} : turn' = [turn EXCEPT !.at = "over", !.outcome = o]
    BY TurnIs DEF Reattach, At, Ends, Submitted, KeepAnswer
  <1>2. <<>> \in Texts
    BY DEF Texts
  <1>3. turn' \in TurnRecord /\ page' \in PageRecord
    <2>1. turn' \in TurnRecord
      BY <1>1, <1>2, TurnIs DEF TurnRecord, Places, Outcomes
    <2>2. page' \in PageRecord
      BY <1>1, <1>2, TurnIs DEF PageRecord
    <2> QED  BY <2>1, <2>2
  <1>4. Composed'
    BY <1>1, TurnIs, ZenonT(40) DEF Composed, Composing, Connecting, At, Final, NeedsConnector, Target, TurnRecord, PageRecord, Slips
  <1>5. Restored'
    BY <1>1, TurnIs DEF Restored, At, TurnRecord, PageRecord
  <1>6. QuietStep
    BY <1>1, <1>3, <1>4, <1>5, TurnIs DEF QuietStep, TurnRecord, Composing, Connecting, At, Slips
  <1> QED  BY <1>6, QuietSteps


-----------------------------------------------------------------------------
(* Messages are sent.                                                       *)

\* A position beyond those picked changes nothing; the last position adds the last element.
Follows(s, x, is) ==
  /\ Picked(Append(s, x), is) = Picked(s, is)
  /\ Picked(Append(s, x), is \cup {Len(s) + 1}) = Append(Picked(s, is), x)
  /\ Cardinality(is) \in Nat /\ Cardinality(is \cup {Len(s) + 1}) = Cardinality(is) + 1

LEMMA PickedOfAppend ==
  ASSUME NEW S, NEW s \in Seq(S), NEW x \in S, NEW is \in SUBSET DOMAIN s
  PROVE  Follows(s, x, is)
  <1> DEFINE m == Len(s)
             C == Cardinality(is)
             js == is \cup {m + 1}
             t == Append(s, x)
             pick(n) == CHOOSE i \in is : Rank(is, i) = n
             pick2(n) == CHOOSE i \in js : Rank(js, i) = n
  <1>1. m \in Nat /\ DOMAIN s = 1 .. m /\ (\A i \in 1 .. m : t[i] = s[i]) /\ t[m + 1] = x
    OBVIOUS
  <1>2. /\ C \in Nat
        /\ \A i \in is : Rank(is, i) \in 1 .. C
        /\ \A i, j \in is : i < j => Rank(is, i) < Rank(is, j)
        /\ \A n \in 1 .. C : \E i \in is : Rank(is, i) = n
    BY <1>1, RankIsOrder
  <1>3. js \in SUBSET (1 .. m + 1) /\ m + 1 \in Nat /\ m + 1 \notin is
    BY <1>1
  <1>4. Cardinality(js) = C + 1
    <2>1. IsFiniteSet(1 .. m) /\ is \in SUBSET (1 .. m)
      BY <1>1, FS_Interval
    <2>2. IsFiniteSet(is)
      BY <2>1, FS_Subset
    <2> QED  BY <2>2, <1>3, FS_AddElement
  <1>5. \A i \in is : Rank(js, i) = Rank(is, i)
    <2> TAKE i \in is
    <2>1. {j \in js : j <= i} = {j \in is : j <= i}
      BY <1>1
    <2> QED  BY <2>1 DEF Rank
  <1>6. Rank(js, m + 1) = C + 1
    <2>1. {j \in js : j <= m + 1} = js
      BY <1>1
    <2> QED  BY <2>1, <1>4 DEF Rank
  <1>7. \A n \in 1 .. C : pick(n) \in is /\ Rank(is, pick(n)) = n
    BY <1>2
  <1>8. \A n \in 1 .. C + 1 : pick2(n) \in js /\ Rank(js, pick2(n)) = n
    <2>1. \A n \in 1 .. C + 1 : \E i \in js : Rank(js, i) = n
      <3>1. \A n \in 1 .. C + 1 : n \in 1 .. C \/ n = C + 1
        BY <1>2
      <3> QED  BY <3>1, <1>2, <1>5, <1>6
    <2> QED  BY <2>1
  <1> HIDE DEF pick, pick2
  <1>9. ASSUME NEW n \in 1 .. C  PROVE pick2(n) = pick(n)
    <2>1. n \in 1 .. C + 1 /\ n # C + 1
      BY <1>2
    <2>2. pick2(n) \in js /\ Rank(js, pick2(n)) = n
      BY <1>8, <2>1
    <2>3. pick2(n) \in is /\ Rank(is, pick2(n)) = n
      BY <2>1, <2>2, <1>5, <1>6
    <2>4. pick(n) \in is /\ Rank(is, pick(n)) = n
      BY <1>7
    <2>5. ~(pick(n) < pick2(n)) /\ ~(pick2(n) < pick(n))
      BY <2>3, <2>4, <1>2
    <2>6. pick(n) \in Nat /\ pick2(n) \in Nat
      BY <2>3, <2>4, <1>1
    <2> QED  BY <2>5, <2>6
  <1>10. pick2(C + 1) = m + 1
    <2>1. C + 1 \in 1 .. C + 1
      BY <1>2
    <2>2. pick2(C + 1) \in js /\ Rank(js, pick2(C + 1)) = C + 1
      BY <1>8, <2>1
    <2>3. \A i \in is : Rank(js, i) # C + 1
      <3> HIDE DEF C, js
      <3>1. \A n \in 1 .. C : n # C + 1
        BY <1>2
      <3> QED  BY <3>1, <1>2, <1>5
    <2> QED  BY <2>2, <2>3
  <1>11. Picked(s, is) = [n \in 1 .. C |-> s[pick(n)]]
    BY DEF Picked, pick
  <1>12. Picked(t, is) = [n \in 1 .. C |-> t[pick(n)]]
    BY DEF Picked, pick
  <1>13. Picked(t, js) = [n \in 1 .. C + 1 |-> t[pick2(n)]]
    BY <1>4 DEF Picked, pick2
  <1>14. \A n \in 1 .. C : t[pick(n)] = s[pick(n)] /\ s[pick(n)] \in S
    BY <1>1, <1>7
  <1> HIDE DEF C, m, js, t
  <1>15. Picked(t, is) = Picked(s, is)
    BY <1>11, <1>12, <1>14
  <1>16. Picked(t, js) = Append(Picked(s, is), x)
    <2>1. Picked(s, is) \in Seq(S) /\ Len(Picked(s, is)) = C
      BY <1>11, <1>14, <1>2
    <2>2. \A n \in 1 .. C : Append(Picked(s, is), x)[n] = s[pick(n)]
      <3>1. \A n \in 1 .. C : Append(Picked(s, is), x)[n] = Picked(s, is)[n]
        BY <2>1, AppendProperties
      <3>2. \A n \in 1 .. C : Picked(s, is)[n] = s[pick(n)]
        BY <1>11
      <3> QED  BY <3>1, <3>2
    <2>3. Append(Picked(s, is), x)[C + 1] = x /\ Append(Picked(s, is), x) \in Seq(S) /\ Len(Append(Picked(s, is), x)) = C + 1
      BY <2>1, AppendProperties
    <2>4. \A n \in 1 .. C : t[pick2(n)] = s[pick(n)]
      BY <1>9, <1>14
    <2>5. t[pick2(C + 1)] = x
      BY <1>1, <1>10
    <2>6. \A n \in 1 .. C + 1 : n \in 1 .. C \/ n = C + 1
      BY <1>2
    <2>7. \A n \in 1 .. C + 1 : t[pick2(n)] = Append(Picked(s, is), x)[n]
      BY <2>2, <2>3, <2>4, <2>5, <2>6
    <2>8. Picked(t, js) \in Seq(S) /\ Len(Picked(t, js)) = C + 1
      <3>1. \A n \in 1 .. C + 1 : t[pick2(n)] \in S
        BY <2>4, <2>5, <2>6, <1>14
      <3>2. C + 1 \in Nat
        BY <1>2
      <3> QED  BY <1>13, <3>1, <3>2
    <2>9. \A n \in 1 .. C + 1 : Picked(t, js)[n] = Append(Picked(s, is), x)[n]
      BY <1>13, <2>7
    <2> QED  BY <2>3, <2>8, <2>9, SeqEqual
  <1> QED  BY <1>2, <1>4, <1>15, <1>16 DEF C, m, js, t, Follows


\* The messages that were pressed are as they should be, whatever the page took for itself.
LEMMA PressedIs ==
  ASSUME sent \in Seq(Messages)
  PROVE  /\ Presses \in SUBSET DOMAIN sent /\ Pressed = Picked(sent, Presses)
         /\ Pressed \in Seq(Messages) /\ Len(Pressed) = Cardinality(Presses) /\ Cardinality(Presses) \in Nat
  <1>1. Presses \in SUBSET DOMAIN sent /\ Pressed = Picked(sent, Presses)
    BY DEF Presses, Pressed
  <1>2. Pressed \in Seq(Messages) /\ Len(Pressed) = Cardinality(Presses)
    BY <1>1, PickedElements
  <1> QED  BY <1>1, <1>2

LEMMA InsertKeeps ==
  ASSUME TurnInv, Insert  PROVE TurnInv'
  <1> DEFINE text == Append(page.composer, turn.chunk)
  <1>1. /\ turn.at = "insert" /\ UNCHANGED <<job, answer, calls, watch>> /\ turn' = [turn EXCEPT !.at = "check"]
        /\ \/ /\ \E now \in {text, page.composer, Append(page.composer, Bad)} : page' = [page EXCEPT !.composer = now]
              /\ sent' = sent
           \/ /\ page' = [page EXCEPT !.composer = <<>>, !.pill = FALSE]
              /\ sent' = Append(sent, Message(text, TRUE))
    BY DEF Insert, At, To
  <1>2. /\ page.composer \in Texts /\ turn.chunk \in 1 .. job.chunks /\ turn.chunk \in 0 .. 2
        /\ page.composer = SubSeq(Prompt, 1, turn.chunk - 1) /\ text = SubSeq(Prompt, 1, turn.chunk)
        /\ Len(text) = turn.chunk /\ text \in Texts /\ Append(page.composer, Bad) \in Texts
    <2>1. /\ page.composer \in Texts /\ turn.chunk \in 1 .. job.chunks /\ turn.chunk \in 0 .. 2
          /\ page.composer = SubSeq(Prompt, 1, turn.chunk - 1)
      BY <1>1, TurnIs DEF TurnRecord, PageRecord, Jobs, Composed, At, IsNoop
    <2>2. \A n \in 0 .. 2 : Append(page.composer, n) \in Texts
      BY <2>1, AppendProperties DEF Texts
    <2>3. Bad \in 0 .. 2
      BY DEF Bad
    <2> QED  BY <2>1, <2>2, <2>3, TurnIs, Chunks
  <1> HIDE DEF text
  <1>3. turn' \in TurnRecord
    BY <1>1, TurnIs DEF TurnRecord, Places
  <1>4. /\ turn'.at = "check" /\ turn'.part = turn.part /\ turn'.reuse = turn.reuse /\ turn'.baseline = turn.baseline
        /\ turn'.receipt = turn.receipt /\ turn'.proven = turn.proven /\ turn'.outcome = turn.outcome
        /\ turn'.chunk = turn.chunk
    BY <1>1, TurnIs DEF TurnRecord
  <1>5. \A i \in Slips : ~(Len(sent[i].text) > 1)
    BY <1>1, TurnIs
  <1>6. NeedsConnector' = NeedsConnector /\ Target' = Target
    BY <1>1, <1>4 DEF NeedsConnector, Final, Target
  <1>7. Restored'
    BY <1>1, <1>4, TurnIs DEF Restored, At
  <1>8. CASE sent' = sent /\ \E now \in {text, page.composer, Append(page.composer, Bad)} : page' = [page EXCEPT !.composer = now]
    <2>1. page' \in PageRecord /\ page'.pill = page.pill /\ page'.effort = page.effort
      <3>1. PICK now \in Texts : page' = [page EXCEPT !.composer = now]
        BY <1>2, <1>8
      <3> QED  BY <3>1, TurnIs DEF PageRecord
    <2>2. Composed'
      <3>1. Slips' = Slips
        BY <1>8 DEF Slips
      <3> QED  BY <1>1, <1>4, <1>6, <2>1, <3>1, TurnIs DEF Composed, Composing, Connecting, At
    <2>3. QuietStep
      BY <1>1, <1>3, <1>4, <1>5, <1>7, <1>8, <2>1, <2>2, TurnIs DEF QuietStep, Composing, Connecting, At
    <2> QED  BY <2>3, QuietSteps
  <1>9. CASE page' = [page EXCEPT !.composer = <<>>, !.pill = FALSE] /\ sent' = Append(sent, Message(text, TRUE))
    <2> DEFINE m == Message(text, TRUE)
    <2>1. m \in Messages /\ m.slip = TRUE /\ m.text = text
      BY <1>2, TurnIs DEF Message, Messages, PageRecord
    <2>2. sent' = Append(sent, m)
      BY <1>9
    <2> HIDE DEF m
    <2>3. page' \in PageRecord /\ page'.pill = FALSE /\ page'.effort = page.effort /\ page'.composer = <<>>
      <3>1. <<>> \in Texts
        BY DEF Texts
      <3> QED  BY <1>9, <3>1, TurnIs DEF PageRecord
    <2>4. /\ sent' \in Seq(Messages) /\ DOMAIN sent' = 1 .. Len(sent) + 1 /\ Len(sent') = Len(sent) + 1 /\ Len(sent) \in Nat
          /\ DOMAIN sent = 1 .. Len(sent)
          /\ \A i \in 1 .. Len(sent) : sent'[i] = sent[i]
          /\ sent'[Len(sent) + 1] = m
      BY <2>2, <2>1, TurnIs
    <2>5. Slips' = Slips \cup {Len(sent) + 1} /\ Presses' = Presses
      BY <2>1, <2>4 DEF Slips, Presses
    <2>6. Pressed' = Pressed
      <3>1. Picked(Append(sent, m), Presses) = Picked(sent, Presses)
        <4>1. sent \in Seq(Messages) /\ Presses \in SUBSET DOMAIN sent
          BY TurnIs, PressedIs
        <4>2. m \in Messages
          BY <2>1
        <4>3. Follows(sent, m, Presses)
          BY <4>1, <4>2, PickedOfAppend
        <4> QED  BY <4>3 DEF Follows
      <3>2. Pressed = Picked(sent, Presses) /\ Pressed' = Picked(sent', Presses')
        BY DEF Pressed, Presses
      <3> QED  BY <2>2, <2>5, <3>1, <3>2
    <2>7. TurnTyped'
      BY <1>1, <1>3, <1>4, <2>3, <2>4, TurnIs DEF TurnInv, TurnTyped, At, WatchRecord
    <2>8. Composed'
      BY <1>1, <1>4, <1>6, <2>3, <2>5, TurnIs DEF Composed, Composing, Connecting, At
    <2>9. \A i \in DOMAIN Pressed' : IsMessage(Pressed[i], i)'
      <3>1. \A i \in DOMAIN Pressed : IsMessage(Pressed[i], i)
        BY DEF TurnInv, Delivered
      <3>2. \E j \in DOMAIN sent' : sent'[j].slip
        BY <2>1, <2>4
      <3> QED  BY <1>1, <2>6, <3>1, <3>2 DEF IsMessage, Prompt
    <2>10. \A i \in Slips' : Len(sent'[i].text) > 1 => i = Len(sent') /\ turn.chunk = 2
      <3>1. \A i \in Slips : i \in 1 .. Len(sent)
        BY <2>4 DEF Slips
      <3>2. Len(m.text) > 1 => turn.chunk = 2
        BY <1>2, <2>1
      <3> QED  BY <1>5, <2>4, <2>5, <3>1, <3>2
    <2>11. turn.baseline <= Len(sent') /\ Len(sent') > turn.baseline
      BY <2>4, TurnIs DEF TurnRecord
    <2>12. Cardinality(Presses') = turn'.part - 1
      BY <1>1, <1>4, <2>5 DEF TurnInv, Delivered, Composing, At
    <2>13. turn'.outcome # "ok"
      BY <1>1, <1>4, TurnIs
    <2>14. Delivered'
      BY <1>4, <2>3, <2>9, <2>10, <2>11, <2>12, <2>13 DEF Delivered, At, Submitted
    <2>15. AnswersAreFinal' /\ watch'.base = watch'.shown
      BY <1>1, <2>13 DEF AnswersAreFinal, TurnInv
    <2> QED  BY <1>7, <2>7, <2>8, <2>14, <2>15 DEF TurnInv
  <1> QED  BY <1>1, <1>8, <1>9

LEMMA SendKeeps ==
  ASSUME PageBounds, TurnInv, Send  PROVE TurnInv'
  <1> DEFINE m == Message(page.composer, FALSE)
  <1>1. /\ turn.at = "send" /\ job' = job /\ sent' = Append(sent, m) /\ page' = [page EXCEPT !.composer = <<>>, !.pill = FALSE]
        /\ answer' = NoAnswer /\ watch' = NoWatch /\ turn' = [turn EXCEPT !.at = "accept", !.rebinds = 0]
        /\ calls' = [calls EXCEPT !.moves = job.moves]
    BY DEF Send, At
  <1>2. /\ m \in Messages /\ m.slip = FALSE /\ m.text = Prompt /\ m.effort = Target
        /\ m.pill = page.pill /\ (page.pill = NeedsConnector \/ Slips # {})
    BY <1>1, TurnIs DEF Message, Messages, PageRecord, Composed, Composing, At
  <1> HIDE DEF m
  <1>3. page' \in PageRecord /\ page'.pill = FALSE
    <2>1. <<>> \in Texts
      BY DEF Texts
    <2> QED  BY <1>1, <2>1, TurnIs DEF PageRecord
  <1>4. turn' \in TurnRecord
    <2>1. 0 \in 0 .. MaxRebinds
      BY DEF MaxRebinds
    <2> QED  BY <1>1, <2>1, TurnIs DEF TurnRecord, Places
  <1>5. /\ turn'.at = "accept" /\ turn'.part = turn.part /\ turn'.reuse = turn.reuse /\ turn'.baseline = turn.baseline
        /\ turn'.receipt = turn.receipt /\ turn'.proven = turn.proven /\ turn'.outcome = turn.outcome
        /\ turn'.chunk = turn.chunk
    BY <1>1, TurnIs DEF TurnRecord
  <1>6. /\ sent' \in Seq(Messages) /\ DOMAIN sent' = 1 .. Len(sent) + 1 /\ Len(sent') = Len(sent) + 1 /\ Len(sent) \in Nat
        /\ DOMAIN sent = 1 .. Len(sent)
        /\ \A i \in 1 .. Len(sent) : sent'[i] = sent[i]
        /\ sent'[Len(sent) + 1] = m
    BY <1>1, <1>2, TurnIs
  <1>7. Slips' = Slips /\ Presses' = Presses \cup {Len(sent) + 1}
    BY <1>2, <1>6 DEF Slips, Presses
  <1>8. /\ Pressed \in Seq(Messages) /\ Len(Pressed) = turn.part - 1 /\ turn.part \in 1 .. 2
        /\ Pressed' = Append(Pressed, m) /\ Cardinality(Presses') = turn.part
    <2>1. /\ Picked(Append(sent, m), Presses \cup {Len(sent) + 1}) = Append(Picked(sent, Presses), m)
          /\ Cardinality(Presses \cup {Len(sent) + 1}) = Cardinality(Presses) + 1
      <3>1. sent \in Seq(Messages) /\ Presses \in SUBSET DOMAIN sent
        BY TurnIs, PressedIs
      <3>2. m \in Messages
        BY <1>2
      <3>3. Follows(sent, m, Presses)
        BY <3>1, <3>2, PickedOfAppend
      <3> QED  BY <3>3 DEF Follows
    <2>2. Pressed = Picked(sent, Presses) /\ Pressed' = Picked(sent', Presses')
      BY DEF Pressed, Presses
    <2>3. Cardinality(Presses) = turn.part - 1
      BY <1>1 DEF TurnInv, Delivered, Composing, At
    <2>4. turn.part \in 1 .. 2
      BY TurnIs DEF TurnRecord
    <2>5. Pressed \in Seq(Messages) /\ Len(Pressed) = turn.part - 1
      BY <2>3, TurnIs, PressedIs
    <2>6. Cardinality(Presses') = turn.part
      BY <1>7, <2>1, <2>3, <2>4
    <2> QED  BY <1>1, <1>7, <2>1, <2>2, <2>4, <2>5, <2>6
  <1>9. TurnTyped'
    <2>1. Moves \in Nat /\ Calls \in Nat /\ Settle \in Nat /\ Grace \in Nat
      BY DEF PageBounds
    <2>2. calls \in CallsRecord /\ calls.made + calls.left = Calls
      BY DEF TurnInv, TurnTyped
    <2>3. /\ calls' \in CallsRecord /\ calls'.made = calls.made /\ calls'.left = calls.left /\ calls.made \in 0 .. Calls
      BY <1>1, <2>1, <2>2, TurnIs, SMTT(30) DEF CallsRecord, Jobs
    <2>4. answer' \in AnswerRecord /\ Len(answer'.blocks) <= 2
      BY <1>1 DEF NoAnswer, AnswerRecord
    <2>5. watch' \in WatchRecord' /\ watch'.revision = 0
      <3>1. <<>> \in Texts /\ <<0>> \in Texts
        BY DEF Texts
      <3>2. 0 \in 0 .. Grace /\ -1 \in -1 .. Settle /\ 0 \in 0 .. Calls /\ -1 \in -1 .. Calls
        BY <2>1
      <3> QED  BY <1>1, <3>1, <3>2 DEF NoWatch, WatchRecord
    <2>6. turn'.outcome \in {"none", "expired"}
      BY <1>1, <1>5, TurnIs
    <2> QED  BY <1>1, <1>3, <1>4, <1>5, <1>6, <2>1, <2>2, <2>3, <2>4, <2>5, <2>6, TurnIs DEF TurnTyped, At
  <1>10. Composed'
    BY <1>3, <1>5 DEF Composed, Composing, Connecting, At
  <1>11. Restored'
    BY <1>1, <1>5, TurnIs DEF Restored, At
  <1>12. \A i \in DOMAIN Pressed' : IsMessage(Pressed[i], i)'
    <2> SUFFICES ASSUME NEW i \in DOMAIN Pressed'  PROVE IsMessage(Pressed[i], i)'
      OBVIOUS
    <2>1. (\E j \in DOMAIN sent' : sent'[j].slip) <=> (\E j \in DOMAIN sent : sent[j].slip)
      BY <1>7 DEF Slips
    <2>2. CASE i \in DOMAIN Pressed
      <3>1. IsMessage(Pressed[i], i) /\ Pressed'[i] = Pressed[i]
        BY <1>2, <1>8, <2>2 DEF TurnInv, Delivered
      <3> QED  BY <1>1, <1>5, <2>1, <3>1 DEF IsMessage, Prompt
    <2>3. CASE i = turn.part
      <3>1. Pressed'[i] = m
        BY <1>2, <1>8, <2>3
      <3>2. turn.part < job.parts <=> turn.part # job.parts
        BY TurnIs DEF TurnRecord, Jobs
      <3>3. m.effort = IF i < job.parts THEN Staging ELSE Wanted
        BY <1>2, <2>3 DEF Target
      <3>4. NeedsConnector = (job.tools /\ i = job.parts /\ ~turn.reuse)
        BY <2>3 DEF NeedsConnector, Final
      <3>5. m.pill = NeedsConnector \/ \E j \in DOMAIN sent' : sent'[j].slip
        BY <1>2, <1>7 DEF Slips
      <3> QED  BY <1>1, <1>2, <1>5, <3>1, <3>3, <3>4, <3>5 DEF IsMessage, Prompt
    <2>4. DOMAIN Pressed' = 1 .. turn.part /\ DOMAIN Pressed = 1 .. turn.part - 1
      BY <1>2, <1>8
    <2>5. i \in DOMAIN Pressed \/ i = turn.part
      BY <1>8, <2>4
    <2> QED  BY <2>2, <2>3, <2>5
  <1>13. Delivered'
    <2>1. \A i \in Slips' : ~(Len(sent'[i].text) > 1)
      <3>1. \A i \in Slips : ~(Len(sent[i].text) > 1) /\ i \in 1 .. Len(sent)
        BY <1>1, <1>6, TurnIs DEF Slips
      <3> QED  BY <1>6, <1>7, <3>1
    <2>2. turn.baseline <= Len(sent')
      BY <1>6, TurnIs DEF TurnRecord
    <2>3. turn'.outcome # "ok"
      BY <1>1, <1>5, TurnIs
    <2> QED  BY <1>5, <1>8, <1>12, <2>1, <2>2, <2>3 DEF Delivered, At, Composing, Connecting
  <1>14. AnswersAreFinal' /\ watch'.base = watch'.shown
    BY <1>1, <1>5, TurnIs DEF AnswersAreFinal, NoWatch
  <1> QED  BY <1>9, <1>10, <1>11, <1>13, <1>14 DEF TurnInv


-----------------------------------------------------------------------------
(* The answer is written and polled.                                        *)

\* What a poll, or the page, may make of the turn.
Polled ==
  \/ turn' = turn
  \/ turn.at \in {"accept", "ack", "watch"} /\ \E n \in 0 .. MaxRebinds : turn' = [turn EXCEPT !.rebinds = n]
  \/ turn.at \in {"accept", "ack", "watch"} /\ \E o \in {"failed", "unread", "expired"} : turn' = [turn EXCEPT !.at = "over", !.outcome = o]
  \/ turn.at = "watch" /\ turn' = [turn EXCEPT !.at = "over", !.outcome = "ok"]
  \/ turn.at = "ack" /\ turn' = [turn EXCEPT !.at = "effort", !.part = @ + 1]

AnswerStep ==
  /\ UNCHANGED <<job, page, sent>> /\ Polled
  /\ answer' \in AnswerRecord /\ Len(answer'.blocks) <= 2 /\ calls' \in CallsRecord /\ watch' \in WatchRecord
  /\ calls'.made + calls'.left = Calls /\ watch'.revision <= calls'.made
  /\ AnswersAreFinal' /\ watch'.base = watch'.shown

LEMMA AnswerSteps ==
  ASSUME TurnInv, AnswerStep  PROVE TurnInv'
  <1>1. /\ UNCHANGED <<job, page, sent>> /\ Polled
        /\ answer' \in AnswerRecord /\ Len(answer'.blocks) <= 2 /\ calls' \in CallsRecord /\ watch' \in WatchRecord
        /\ calls'.made + calls'.left = Calls /\ watch'.revision <= calls'.made
        /\ AnswersAreFinal' /\ watch'.base = watch'.shown
    BY DEF AnswerStep
  <1>2. /\ turn.at = "ack" => turn.part < job.parts /\ turn.part = 1
        /\ turn.part \in 1 .. 2 /\ job.parts \in 1 .. 2 /\ turn.part <= job.parts
        /\ turn.at = "watch" => turn.part = job.parts
    BY TurnIs DEF TurnRecord, Jobs, TurnInv, Delivered, At, Final
  <1>3. turn' \in TurnRecord
    <2>1. CASE turn.at = "ack" /\ turn' = [turn EXCEPT !.at = "effort", !.part = @ + 1]
      <3>1. turn.part + 1 \in 1 .. 2 /\ "effort" \in Places
        BY <1>2, <2>1 DEF Places
      <3> QED  BY <2>1, <3>1, TurnIs DEF TurnRecord
    <2>2. CASE \E n \in 0 .. MaxRebinds : turn' = [turn EXCEPT !.rebinds = n]
      BY <2>2, TurnIs DEF TurnRecord
    <2>3. CASE \E o \in Outcomes : turn' = [turn EXCEPT !.at = "over", !.outcome = o]
      BY <2>3, TurnIs DEF TurnRecord, Places
    <2>4. "failed" \in Outcomes /\ "unread" \in Outcomes /\ "ok" \in Outcomes /\ "expired" \in Outcomes
      BY DEF Outcomes
    <2> QED  BY <1>1, <2>1, <2>2, <2>3, <2>4, TurnIs DEF Polled
  <1>4. /\ turn'.chunk = turn.chunk /\ turn'.reuse = turn.reuse /\ turn'.baseline = turn.baseline
        /\ turn'.receipt = turn.receipt /\ turn'.proven = turn.proven
        /\ \/ turn'.at = turn.at /\ turn'.part = turn.part /\ turn'.outcome = turn.outcome
           \/ /\ turn.at \in {"accept", "ack", "watch"} /\ turn'.at = "over" /\ turn'.part = turn.part
              /\ turn'.outcome \in {"failed", "unread", "expired"} \/ (turn.at = "watch" /\ turn'.outcome = "ok")
           \/ /\ turn.at = "ack" /\ turn'.at = "effort" /\ turn'.part = turn.part + 1 /\ turn'.outcome = turn.outcome
    BY <1>1, TurnIs DEF Polled, TurnRecord
  <1>5. TurnTyped'
    BY <1>1, <1>2, <1>3, <1>4, TurnIs DEF TurnTyped, At
  <1>6. Slips' = Slips /\ Presses' = Presses /\ Pressed' = Pressed
    BY <1>1 DEF Slips, Presses, Pressed
  <1>7. Composed'
    <2>1. turn'.part = turn.part => NeedsConnector' = NeedsConnector /\ Target' = Target
      BY <1>1, <1>4 DEF NeedsConnector, Final, Target
    <2>2. turn.at = "ack" => ~NeedsConnector
      BY <1>2 DEF NeedsConnector, Final
    <2>3. Prompt' = Prompt
      BY <1>1 DEF Prompt
    <2> QED  BY <1>1, <1>4, <1>6, <2>1, <2>2, <2>3, TurnIs DEF Composed, Composing, Connecting, At, IsNoop
  <1>8. \A i \in DOMAIN Pressed' : IsMessage(Pressed[i], i)'
    BY <1>1, <1>4, <1>6 DEF TurnInv, Delivered, IsMessage, Prompt
  <1>9. Delivered'
    <2>1. /\ turn.at \in Composing \cup {"idle", "chat", "effort"} => Cardinality(Presses) = turn.part - 1
          /\ turn.at \in {"accept", "ack", "watch"} => Cardinality(Presses) = turn.part
          /\ turn.at = "watch" => turn.part = job.parts
          /\ turn.at = "ack" => turn.part # job.parts
          /\ turn.at = "over" => Cardinality(Presses) <= job.parts
          /\ turn.outcome = "ok" => Cardinality(Presses) = job.parts
          /\ turn.at = "idle" => turn.part = 1
      BY DEF TurnInv, Delivered, At, Final
    <2>2. /\ turn'.at \in Composing \cup {"idle", "chat", "effort"} => Cardinality(Presses) = turn'.part - 1
          /\ turn'.at \in {"accept", "ack", "watch"} => Cardinality(Presses) = turn'.part
          /\ turn'.at = "watch" => turn'.part = job.parts
          /\ turn'.at = "ack" => turn'.part # job.parts
          /\ turn'.at = "over" => Cardinality(Presses) <= job.parts
          /\ turn'.outcome = "ok" => Cardinality(Presses) = job.parts
          /\ turn'.at = "idle" => turn'.part = 1
      BY <1>2, <1>4, <2>1, TurnIs DEF Composing, Connecting
    <2>3. \A i \in Slips : Len(sent[i].text) > 1 =>
            /\ i = Len(sent)
            /\ \/ turn'.at = "over" \/ (turn'.at = "mangled" /\ Len(sent) > turn'.baseline)
               \/ turn'.at = "check" /\ Len(sent) > turn'.baseline /\ turn'.chunk = 2 /\ page.composer = <<>>
      BY <1>4, TurnIs
    <2> QED  BY <1>1, <1>4, <1>6, <1>8, <2>2, <2>3, TurnIs DEF Delivered, At, Submitted, Final
  <1>10. Restored'
    BY <1>1, <1>4, TurnIs DEF Restored, At
  <1> QED  BY <1>1, <1>5, <1>7, <1>9, <1>10 DEF TurnInv

\* The answer, the calls and the trackers of a turn.
LEMMA AnswerIs ==
  ASSUME PageBounds, TurnInv
  PROVE  /\ answer \in AnswerRecord /\ Len(answer.blocks) <= 2 /\ calls \in CallsRecord /\ watch \in WatchRecord
         /\ calls.made + calls.left = Calls /\ watch.revision <= calls.made
         /\ AnswersAreFinal /\ watch.base = watch.shown
         /\ Calls \in Nat /\ Settle \in Nat /\ Grace \in Nat /\ Settle # 0 /\ Grace # 0
         /\ calls.made \in 0 .. Calls /\ calls.left \in 0 .. Calls
  BY DEF TurnInv, TurnTyped, CallsRecord, PageBounds

LEMMA WritesKeeps ==
  ASSUME PageBounds, TurnInv, NEW next, Writes(next), next \in AnswerRecord, Len(next.blocks) <= 2
  PROVE  TurnInv'
  <1>1. /\ turn.at \in {"accept", "ack", "watch"} /\ calls.moves > 0
        /\ answer' = next /\ calls' = [calls EXCEPT !.moves = @ - 1] /\ UNCHANGED <<job, turn, page, sent, watch>>
    BY DEF Writes, Answering
  <1>2. calls' \in CallsRecord /\ calls'.made = calls.made /\ calls'.left = calls.left
    <2>1. calls \in CallsRecord /\ calls.moves - 1 \in Nat
      BY <1>1, AnswerIs DEF CallsRecord
    <2> QED  BY <1>1, <2>1 DEF CallsRecord
  <1>3. turn'.outcome # "ok"
    BY <1>1, TurnIs
  <1>4. AnswerStep
    BY <1>1, <1>2, <1>3, AnswerIs DEF AnswerStep, Polled, AnswersAreFinal
  <1> QED  BY <1>4, AnswerSteps

LEMMA WriteKeeps ==
  ASSUME PageBounds, TurnInv, Write  PROVE TurnInv'
  <1>1. answer \in AnswerRecord /\ Len(answer.blocks) <= 2 /\ answer.blocks \in Seq({1, 2})
    BY AnswerIs DEF AnswerRecord
  <1>2. CASE Writes([answer EXCEPT !.present = TRUE, !.running = TRUE])
    <2> DEFINE next == [answer EXCEPT !.present = TRUE, !.running = TRUE]
    <2>1. next \in AnswerRecord /\ next.blocks = answer.blocks
      BY <1>1 DEF AnswerRecord
    <2> HIDE DEF next
    <2>2. Writes(next)
      BY <1>2 DEF next
    <2> QED  BY <1>1, <2>1, <2>2, WritesKeeps
  <1>3. CASE Len(answer.blocks) < 2 /\ Writes([answer EXCEPT !.blocks = Append(@, 1)])
    <2> DEFINE next == [answer EXCEPT !.blocks = Append(@, 1)]
    <2>1. Append(answer.blocks, 1) \in Seq({1, 2}) /\ Len(Append(answer.blocks, 1)) <= 2
      BY <1>1, <1>3, AppendProperties
    <2>2. next \in AnswerRecord /\ Len(next.blocks) <= 2
      BY <1>1, <2>1 DEF AnswerRecord
    <2> HIDE DEF next
    <2>3. Writes(next)
      BY <1>3 DEF next
    <2> QED  BY <2>2, <2>3, WritesKeeps
  <1>4. ASSUME NEW n \in 1 .. Len(answer.blocks), Writes([answer EXCEPT !.blocks[n] = 3 - @])
        PROVE  TurnInv'
    <2> DEFINE next == [answer EXCEPT !.blocks[n] = 3 - @]
               blocks == [answer.blocks EXCEPT ![n] = 3 - @]
    <2>1. 3 - answer.blocks[n] \in {1, 2}
      BY <1>1
    <2>2. blocks \in Seq({1, 2}) /\ Len(blocks) = Len(answer.blocks)
      BY <1>1, <2>1, ExceptSeq
    <2>3. next = [answer EXCEPT !.blocks = blocks]
      BY <1>1 DEF AnswerRecord
    <2> HIDE DEF next, blocks
    <2>4. next \in AnswerRecord /\ next.blocks = blocks
      BY <1>1, <2>2, <2>3 DEF AnswerRecord
    <2>5. Writes(next)
      BY <1>4 DEF next
    <2> QED  BY <1>1, <2>2, <2>4, <2>5, WritesKeeps
  <1>5. answer.blocks # <<>> => Len(answer.blocks) \in 1 .. Len(answer.blocks)
    BY <1>1
  <1>6. Len(answer.blocks) = 2 => 1 \in 1 .. Len(answer.blocks)
    BY <1>1
  <1> QED  BY <1>2, <1>3, <1>4, <1>5, <1>6 DEF Write

LEMMA StopKeeps ==
  ASSUME PageBounds, TurnInv, Stop  PROVE TurnInv'
  <1>1. answer \in AnswerRecord /\ Len(answer.blocks) <= 2
    BY AnswerIs
  <1>2. ASSUME NEW action \in BOOLEAN, Writes([answer EXCEPT !.running = FALSE, !.action = action])  PROVE TurnInv'
    <2> DEFINE next == [answer EXCEPT !.running = FALSE, !.action = action]
    <2>1. next \in AnswerRecord /\ next.blocks = answer.blocks
      BY <1>1 DEF AnswerRecord
    <2> HIDE DEF next
    <2>2. Writes(next)
      BY <1>2 DEF next
    <2> QED  BY <1>1, <2>1, <2>2, WritesKeeps
  <1>3. CASE Writes([answer EXCEPT !.present = FALSE])
    <2> DEFINE next == [answer EXCEPT !.present = FALSE]
    <2>1. next \in AnswerRecord /\ next.blocks = answer.blocks
      BY <1>1 DEF AnswerRecord
    <2> HIDE DEF next
    <2>2. Writes(next)
      BY <1>3 DEF next
    <2> QED  BY <1>1, <2>1, <2>2, WritesKeeps
  <1> QED  BY <1>2, <1>3 DEF Stop

LEMMA CallKeeps ==
  ASSUME PageBounds, TurnInv, Call  PROVE TurnInv'
  <1>1. /\ turn.at = "watch" /\ calls.left > 0 /\ calls' = [calls EXCEPT !.made = @ + 1, !.open = TRUE, !.left = @ - 1]
        /\ UNCHANGED <<job, turn, page, sent, answer, watch>>
    BY DEF Call, At
  <1>2. calls' \in CallsRecord /\ calls'.made = calls.made + 1 /\ calls'.made + calls'.left = Calls
    <2>1. calls \in CallsRecord /\ calls.made + 1 \in 0 .. Calls /\ calls.left - 1 \in 0 .. Calls
      BY <1>1, AnswerIs
    <2>2. calls' \in CallsRecord /\ calls'.made = calls.made + 1 /\ calls'.left = calls.left - 1
      BY <1>1, <2>1 DEF CallsRecord
    <2> QED  BY <2>2, AnswerIs, SMTT(30)
  <1>3. turn'.outcome # "ok" /\ watch.revision <= calls.made + 1
    BY <1>1, TurnIs, AnswerIs, SMTT(30) DEF WatchRecord
  <1>4. AnswerStep
    BY <1>1, <1>2, <1>3, AnswerIs DEF AnswerStep, Polled, AnswersAreFinal
  <1> QED  BY <1>4, AnswerSteps

LEMMA CallEndsKeeps ==
  ASSUME PageBounds, TurnInv, CallEnds  PROVE TurnInv'
  <1>1. calls.open /\ calls' = [calls EXCEPT !.open = FALSE] /\ UNCHANGED <<job, turn, page, sent, answer, watch>>
    BY DEF CallEnds
  <1>2. calls' \in CallsRecord /\ calls'.made = calls.made /\ calls'.left = calls.left
    BY <1>1, AnswerIs DEF CallsRecord
  <1>3. turn'.outcome # "ok"
    BY <1>1, AnswerIs DEF AnswersAreFinal
  <1>4. AnswerStep
    BY <1>1, <1>2, <1>3, AnswerIs DEF AnswerStep, Polled, AnswersAreFinal
  <1> QED  BY <1>4, AnswerSteps

LEMMA StallKeeps ==
  ASSUME PageBounds, TurnInv, Stall  PROVE TurnInv'
  <1>1. /\ turn.at \in {"accept", "ack", "watch"} /\ calls.moves > 0 /\ calls' = [calls EXCEPT !.moves = @ - 1]
        /\ \/ turn.rebinds < MaxRebinds /\ turn' = [turn EXCEPT !.rebinds = @ + 1] /\ watch' = [watch EXCEPT !.missing = 0, !.fence = -1]
           \/ watch' = watch /\ \E o \in {"failed", "unread", "expired"} : turn' = [turn EXCEPT !.at = "over", !.outcome = o]
        /\ UNCHANGED <<job, page, sent, answer>>
    BY TurnIs DEF Stall, Ends
  <1>2. calls' \in CallsRecord /\ calls'.made = calls.made /\ calls'.left = calls.left
    <2>1. calls \in CallsRecord /\ calls.moves - 1 \in Nat
      BY <1>1, AnswerIs DEF CallsRecord
    <2> QED  BY <1>1, <2>1 DEF CallsRecord
  <1>3. watch' \in WatchRecord /\ watch'.revision = watch.revision /\ watch'.base = watch.base /\ watch'.shown = watch.shown
    <2>1. 0 \in 0 .. Grace /\ -1 \in -1 .. Calls
      BY AnswerIs
    <2> QED  BY <1>1, <2>1, AnswerIs DEF WatchRecord
  <1>4. turn'.outcome # "ok" /\ Polled
    <2>1. turn.rebinds < MaxRebinds => turn.rebinds + 1 \in 0 .. MaxRebinds
      BY TurnIs DEF TurnRecord, MaxRebinds
    <2> QED  BY <1>1, <2>1, TurnIs DEF TurnRecord, Polled
  <1>5. AnswerStep
    BY <1>1, <1>2, <1>3, <1>4, AnswerIs DEF AnswerStep, AnswersAreFinal
  <1> QED  BY <1>5, AnswerSteps


\* The trackers keep their ranges, and none but the tool batches moves what an answer is held against.
Same(v, w) == v.revision = w.revision /\ v.base = w.base /\ v.shown = w.shown

LEMMA TextIs ==
  ASSUME PageBounds, TurnInv
  PROVE  Text \in Texts /\ Len(Text) \in 0 .. 2 /\ (answer.present => Text = answer.blocks) /\ (~answer.present => Text = <<>>)
  <1>1. answer.blocks \in Seq({1, 2}) /\ Len(answer.blocks) <= 2
    BY AnswerIs DEF AnswerRecord
  <1>2. answer.blocks \in Texts /\ Len(answer.blocks) \in 0 .. 2
    <2>1. \A i \in 1 .. Len(answer.blocks) : answer.blocks[i] \in 0 .. 2
      BY <1>1
    <2>2. Len(answer.blocks) \in Nat /\ answer.blocks = [i \in 1 .. Len(answer.blocks) |-> answer.blocks[i]]
      BY <1>1
    <2> DEFINE n == Len(answer.blocks)
               e == answer.blocks
    <2>3. n \in Nat /\ (\A i \in 1 .. n : e[i] \in 0 .. 2) /\ e = [i \in 1 .. n |-> e[i]]
      BY <2>1, <2>2
    <2> HIDE DEF n, e
    <2>4. [i \in 1 .. n |-> e[i]] \in Seq(0 .. 2)
      BY <2>3
    <2>5. e \in Texts
      BY <2>3, <2>4 DEF Texts
    <2>6. n \in 0 .. 2
      <3>1. n <= 2
        BY <1>1 DEF n
      <3> QED  BY <2>3, <3>1
    <2> QED  BY <2>5, <2>6 DEF e, n
  <1>3. <<>> \in Texts /\ Len(<<>>) = 0
    BY DEF Texts
  <1> QED  BY <1>2, <1>3 DEF Text

LEMMA OlderIs ==
  ASSUME PageBounds, NEW age \in 0 .. Grace, NEW holds
  PROVE  Older(age, holds) \in 0 .. Grace
  BY DEF Older, PageBounds

LEMMA HealthIs ==
  ASSUME PageBounds, TurnInv, NEW w \in WatchRecord, NEW soon \in BOOLEAN
  PROVE  Health(w, soon) \in WatchRecord /\ Same(Health(w, soon), w) /\ Health(w, soon).out = w.out
  <1>1. CASE soon
    <2>1. 0 \in 0 .. Grace
      BY DEF PageBounds
    <2> QED  BY <1>1, <2>1 DEF Health, WatchRecord, Same
  <1>2. CASE ~soon
    <2>1. PICK u : Health(w, soon) =
            [w EXCEPT !.missing = Older(@, ~answer.present),
                      !.empty = Older(@, answer.present /\ ~answer.running /\ Text = <<>> /\ answer.action),
                      !.unclosed = IF u /\ Text # w.text THEN 1 ELSE Older(@, u), !.text = Text]
      BY <1>2 DEF Health
    <2> DEFINE a == Older(w.missing, ~answer.present)
               b == Older(w.empty, answer.present /\ ~answer.running /\ Text = <<>> /\ answer.action)
               c == IF u /\ Text # w.text THEN 1 ELSE Older(w.unclosed, u)
    <2>2. Health(w, soon) = [w EXCEPT !.missing = a, !.empty = b, !.unclosed = c, !.text = Text]
      BY <2>1
    <2>3. a \in 0 .. Grace /\ b \in 0 .. Grace /\ c \in 0 .. Grace
      <3>1. w.missing \in 0 .. Grace /\ w.empty \in 0 .. Grace /\ w.unclosed \in 0 .. Grace /\ 1 \in 0 .. Grace
        BY DEF WatchRecord, PageBounds
      <3> QED  BY <3>1, OlderIs
    <2>4. Text \in Texts
      BY TextIs
    <2> HIDE DEF a, b, c
    <2> QED  BY <2>2, <2>3, <2>4 DEF WatchRecord, Same
  <1> QED  BY <1>1, <1>2

LEMMA JudgedIs ==
  ASSUME PageBounds, TurnInv, NEW w \in WatchRecord
  PROVE  /\ Judged(w) \in WatchRecord /\ Same(Judged(w), w)
         /\ IsReady(Judged(w)) => answer.present /\ ~calls.open /\ w.base # Text
  <1>1. /\ 0 \in 0 .. Grace /\ -1 \in -1 .. Settle /\ 0 \in -1 .. Settle /\ Settle # 0 /\ Settle # -1
        /\ w.since \in -1 .. Settle /\ (w.since < Settle => w.since + 1 \in -1 .. Settle)
        /\ w.silent \in 0 .. Grace /\ Text \in Texts
    BY TextIs DEF PageBounds, WatchRecord
  <1>2. CASE calls.open
    <2>1. Judged(w) = [w EXCEPT !.since = -1, !.silent = 0]
      BY <1>2 DEF Judged
    <2> QED  BY <1>1, <2>1 DEF WatchRecord, Same, IsReady
  <1>3. CASE ~calls.open /\ w.base = Text
    <2>1. PICK n \in 0 .. Grace : Judged(w) = [w EXCEPT !.since = -1, !.silent = n]
      <3>1. Judged(w) = [w EXCEPT !.since = -1, !.silent = Older(@, IsComplete)]
        BY <1>3 DEF Judged
      <3>2. Older(w.silent, IsComplete) \in 0 .. Grace
        BY <1>1, OlderIs
      <3> QED  BY <3>1, <3>2
    <2> QED  BY <1>1, <2>1 DEF WatchRecord, Same, IsReady
  <1>4. CASE ~calls.open /\ w.base # Text /\ ~IsComplete
    <2>1. Judged(w) = [w EXCEPT !.since = -1, !.silent = 0]
      BY <1>4 DEF Judged
    <2> QED  BY <1>1, <2>1 DEF WatchRecord, Same, IsReady
  <1>5. CASE ~calls.open /\ w.base # Text /\ IsComplete
    <2>1. \/ Judged(w) = [w EXCEPT !.candidate = Text, !.since = 0, !.silent = 0]
          \/ Judged(w) = [w EXCEPT !.since = IF @ < Settle THEN @ + 1 ELSE @, !.silent = 0]
      BY <1>5 DEF Judged
    <2>2. CASE Judged(w) = [w EXCEPT !.candidate = Text, !.since = 0, !.silent = 0]
      BY <1>1, <2>2 DEF WatchRecord, Same, IsReady
    <2>3. CASE Judged(w) = [w EXCEPT !.since = IF @ < Settle THEN @ + 1 ELSE @, !.silent = 0]
      <3>1. PICK n \in -1 .. Settle : Judged(w) = [w EXCEPT !.since = n, !.silent = 0]
        BY <1>1, <2>3
      <3> QED  BY <1>1, <1>5, <3>1 DEF WatchRecord, Same, IsComplete
    <2> QED  BY <2>1, <2>2, <2>3
  <1> QED  BY <1>2, <1>3, <1>4, <1>5

LEMMA StreamedIs ==
  ASSUME PageBounds, TurnInv, NEW w \in WatchRecord, IsPrefix(w.out, Text)
  PROVE  Streamed(w) \in WatchRecord /\ Same(Streamed(w), w)
  <1> DEFINE L == Len(w.out)
             S == Streamable(w)
             fits(i) == (i = L \/ i \in S) /\ (\A j \in S : j > L => j <= i) /\ i >= L
             n == CHOOSE i \in 0 .. Len(Text) : fits(i)
  <1>1. Text \in Texts /\ Len(Text) \in 0 .. 2 /\ L \in Nat /\ L <= Len(Text)
    BY TextIs DEF WatchRecord, Texts, IsPrefix
  <1>2. \A j \in S : j \in 1 .. Len(Text)
    BY DEF Streamable
  <1>3. \E i \in 0 .. Len(Text) : fits(i)
    <2> HIDE DEF L, S
    <2>1. \A j \in S : j = 1 \/ j = 2
      <3> DEFINE T == Len(Text)
      <3>1. T \in 0 .. 2 /\ \A j \in S : j \in 1 .. T
        BY <1>1, <1>2
      <3> HIDE DEF T
      <3> QED  BY <3>1
    <2>2. CASE 2 \in S /\ 2 > L
      <3>1. fits(2) /\ 2 \in 0 .. Len(Text)
        BY <1>1, <1>2, <2>1, <2>2
      <3> QED  BY <3>1
    <2>3. CASE ~(2 \in S /\ 2 > L) /\ 1 \in S /\ 1 > L
      <3>1. fits(1) /\ 1 \in 0 .. Len(Text)
        BY <1>1, <1>2, <2>1, <2>3
      <3> QED  BY <3>1
    <2>4. CASE ~(2 \in S /\ 2 > L) /\ ~(1 \in S /\ 1 > L)
      <3>1. fits(L) /\ L \in 0 .. Len(Text)
        BY <1>1, <1>2, <2>1, <2>4
      <3> QED  BY <3>1
    <2> QED  BY <2>2, <2>3, <2>4
  <1>4. n \in 0 .. Len(Text)
    <2> HIDE DEF fits
    <2> QED  BY <1>3
  <1>5. SubSeq(Text, 1, n) \in Texts
    <2> HIDE DEF n
    <2>1. n \in Int /\ \A i \in 1 .. n : Text[i] \in 0 .. 2
      BY <1>1, <1>4 DEF Texts
    <2> QED  BY <2>1, SubSeqProperties DEF Texts
  <1>6. Streamed(w) = [w EXCEPT !.latest = Text] \/ Streamed(w) = [w EXCEPT !.out = SubSeq(Text, 1, n), !.latest = Text]
    BY DEF Streamed
  <1> HIDE DEF n
  <1> QED  BY <1>1, <1>5, <1>6 DEF WatchRecord, Same

\* A poll first notices the batches that began since the one before.
Before == IF calls.made = watch.revision THEN watch ELSE [watch EXCEPT !.shown = Text]

LEMMA NoticedIs ==
  ASSUME PageBounds, TurnInv
  PROVE  /\ Noticed(Before) \in WatchRecord /\ Noticed(Before).revision = calls.made
         /\ Noticed(Before).base = Noticed(Before).shown /\ Noticed(Before).out = watch.out
  <1>1. watch \in WatchRecord /\ watch.base = watch.shown /\ calls.made \in 0 .. Calls /\ Text \in Texts
    BY AnswerIs, TextIs
  <1>2. CASE calls.made = watch.revision
    <2>1. Noticed(Before) = watch
      BY <1>2 DEF Noticed, Before
    <2> QED  BY <1>1, <1>2, <2>1
  <1>3. CASE calls.made # watch.revision
    <2> DEFINE v == [watch EXCEPT !.shown = Text]
    <2>1. v \in WatchRecord /\ v.shown = Text /\ v.out = watch.out /\ v.revision = watch.revision
      BY <1>1 DEF WatchRecord
    <2> HIDE DEF v
    <2>2. Before = v
      BY <1>3 DEF Before, v
    <2>3. Noticed(v) = [v EXCEPT !.revision = calls.made, !.base = Text, !.silent = 0, !.since = -1]
      BY <1>3, <2>1 DEF Noticed
    <2>4. 0 \in 0 .. Grace /\ -1 \in -1 .. Settle
      BY AnswerIs
    <2> QED  BY <1>1, <2>1, <2>2, <2>3, <2>4, ZenonT(40) DEF WatchRecord
  <1> QED  BY <1>2, <1>3

LEMMA PollKeeps ==
  ASSUME PageBounds, TurnInv, turn.outcome = "none", Poll  PROVE TurnInv'
  <1>1. /\ turn.at = "watch" /\ UNCHANGED <<job, page, sent, answer, calls>>
        /\ \E soon \in BOOLEAN :
             IF ~answer.present THEN PollNothing(Before, soon)
             ELSE IF KeepsPrefix(watch) THEN PollAnswer(Before, soon)
             ELSE UNCHANGED watch /\ Ends("failed")
    <2>1. calls.open \in BOOLEAN
      BY AnswerIs DEF CallsRecord
    <2>2. LiveProgress \subseteq BOOLEAN
      BY <2>1, Zenon DEF LiveProgress
    <2> QED  BY <2>2 DEF Poll, At, Before
  <1>2. PICK soon \in BOOLEAN :
             IF ~answer.present THEN PollNothing(Before, soon)
             ELSE IF KeepsPrefix(watch) THEN PollAnswer(Before, soon)
             ELSE UNCHANGED watch /\ Ends("failed")
    BY <1>1
  <1>3. turn.outcome # "ok" /\ 0 \in 0 .. MaxRebinds
    BY <1>1, TurnIs DEF MaxRebinds
  <1>4. ASSUME watch' \in WatchRecord, watch'.revision <= calls.made, watch'.base = watch'.shown, Polled,
               turn'.outcome = "ok" => /\ watch'.out = answer.blocks /\ watch'.out # watch'.shown
                                       /\ watch'.revision = calls.made /\ ~calls.open
        PROVE  TurnInv'
    <2>1. AnswersAreFinal'
      BY <1>1, <1>4 DEF AnswersAreFinal
    <2>2. AnswerStep
      BY <1>1, <1>4, <2>1, AnswerIs DEF AnswerStep
    <2> QED  BY <2>2, AnswerSteps
  <1>5. Ends("failed") => Polled /\ turn'.outcome # "ok"
    BY <1>1, TurnIs DEF Ends, Polled, TurnRecord
  <1>6. turn' = [turn EXCEPT !.rebinds = 0] => Polled /\ turn'.outcome # "ok"
    BY <1>1, <1>3, TurnIs DEF Polled, TurnRecord
  <1>7. CASE ~answer.present
    <2> DEFINE w == Health(Noticed(Before), soon)
    <2>1. watch' = w /\ (Ends("failed") \/ turn' = turn)
      BY <1>2, <1>7 DEF PollNothing
    <2>2. w \in WatchRecord /\ w.revision = calls.made /\ w.base = w.shown
      BY NoticedIs, HealthIs DEF Same
    <2> HIDE DEF w
    <2>3. Polled /\ turn'.outcome # "ok"
      BY <1>3, <1>5, <2>1 DEF Polled
    <2> QED  BY <1>4, <2>1, <2>2, <2>3, AnswerIs
  <1>8. CASE answer.present /\ KeepsPrefix(watch)
    <2> DEFINE u == Noticed(Before)
               v == Health(Streamed(u), soon)
               w == Judged(v)
    <2>1. u \in WatchRecord /\ u.revision = calls.made /\ u.base = u.shown /\ IsPrefix(u.out, Text)
      BY <1>8, NoticedIs DEF KeepsPrefix
    <2>2. Streamed(u) \in WatchRecord /\ Same(Streamed(u), u)
      <3> HIDE DEF u
      <3> QED  BY <2>1, StreamedIs
    <2>3. v \in WatchRecord /\ Same(v, Streamed(u))
      <3> HIDE DEF u
      <3> QED  BY <2>2, HealthIs
    <2>4. /\ w \in WatchRecord /\ Same(w, v)
          /\ IsReady(w) => answer.present /\ ~calls.open /\ v.base # Text
      <3> HIDE DEF v
      <3> QED  BY <2>3, JudgedIs
    <2>5. \/ watch' = w /\ Ends("failed")
          \/ watch' = [w EXCEPT !.fence = -1] /\ turn' = [turn EXCEPT !.rebinds = 0]
          \/ watch' = [w EXCEPT !.fence = IF @ = -1 THEN calls.made ELSE -1] /\ turn' = [turn EXCEPT !.rebinds = 0]
          \/ IsReady(w) /\ watch' = [w EXCEPT !.out = Text] /\ Ends("ok")
      BY <1>2, <1>8 DEF PollAnswer
    <2> HIDE DEF u, v, w
    <2>6. /\ w.revision = calls.made /\ w.base = w.shown
          /\ IsReady(w) => ~calls.open /\ w.base # Text
      BY <2>1, <2>2, <2>3, <2>4 DEF Same
    <2>7. CASE watch' = w /\ Ends("failed")
      BY <1>4, <1>5, <2>4, <2>6, <2>7, AnswerIs
    <2>8. CASE turn' = [turn EXCEPT !.rebinds = 0] /\ \E n \in -1 .. Calls : watch' = [w EXCEPT !.fence = n]
      <3>1. watch' \in WatchRecord /\ watch'.revision = calls.made /\ watch'.base = watch'.shown
        BY <2>4, <2>6, <2>8 DEF WatchRecord
      <3> QED  BY <1>4, <1>6, <2>8, <3>1, AnswerIs
    <2>9. CASE IsReady(w) /\ watch' = [w EXCEPT !.out = Text] /\ Ends("ok")
      <3>1. Text \in Texts /\ Text = answer.blocks
        BY <1>8, TextIs
      <3>2. watch' \in WatchRecord /\ watch'.revision = calls.made /\ watch'.base = w.base /\ watch'.shown = w.shown /\ watch'.out = Text
        BY <2>4, <2>6, <2>9, <3>1 DEF WatchRecord
      <3>3. Polled
        BY <1>1, <2>9 DEF Polled, Ends
      <3> QED  BY <1>4, <2>6, <2>9, <3>1, <3>2, <3>3, AnswerIs
    <2>10. -1 \in -1 .. Calls /\ calls.made \in -1 .. Calls
      BY AnswerIs
    <2> QED  BY <2>5, <2>7, <2>8, <2>9, <2>10
  <1>9. CASE answer.present /\ ~KeepsPrefix(watch)
    BY <1>2, <1>4, <1>5, <1>9, AnswerIs
  <1> QED  BY <1>7, <1>8, <1>9

LEMMA PollStageKeeps ==
  ASSUME PageBounds, TurnInv, turn.outcome = "none", PollStage  PROVE TurnInv'
  <1> DEFINE ill == Health(watch, FALSE)
             u == [ill EXCEPT !.missing = IF IsIll(ill) THEN 0 ELSE @]
             w == Judged(u)
  <1>1. /\ turn.at = "ack" /\ UNCHANGED <<job, page, sent, answer, calls>>
        /\ \/ watch' = ill /\ Ends("failed")
           \/ watch' = w /\ (\/ turn' = [turn EXCEPT !.rebinds = IF answer.present THEN 0 ELSE @]
                             \/ Ends("failed")
                             \/ turn' = [turn EXCEPT !.at = "effort", !.part = @ + 1])
    BY DEF PollStage, At
  <1>2. ill \in WatchRecord /\ Same(ill, watch)
    BY HealthIs, AnswerIs
  <1>3. u \in WatchRecord /\ Same(u, ill)
    <2>1. PICK n \in 0 .. Grace : u = [ill EXCEPT !.missing = n]
      <3> HIDE DEF ill
      <3>1. ill.missing \in 0 .. Grace /\ 0 \in 0 .. Grace
        BY <1>2, AnswerIs DEF WatchRecord
      <3> QED  BY <3>1
    <2> HIDE DEF u, ill
    <2> QED  BY <1>2, <2>1 DEF WatchRecord, Same
  <1>4. w \in WatchRecord /\ Same(w, u)
    <2> HIDE DEF u
    <2> QED  BY <1>3, JudgedIs
  <1> HIDE DEF ill, u, w
  <1>5. watch' \in WatchRecord /\ Same(watch', watch)
    BY <1>1, <1>2, <1>3, <1>4 DEF Same
  <1>6. Polled /\ turn'.outcome # "ok"
    <2>1. turn.outcome # "ok" /\ turn.rebinds \in 0 .. MaxRebinds /\ 0 \in 0 .. MaxRebinds
      BY <1>1, TurnIs DEF TurnRecord, MaxRebinds
    <2> QED  BY <1>1, <2>1, TurnIs DEF Polled, Ends, TurnRecord
  <1>7. AnswerStep
    BY <1>1, <1>5, <1>6, AnswerIs DEF AnswerStep, AnswersAreFinal, Same
  <1> QED  BY <1>7, AnswerSteps


-----------------------------------------------------------------------------
(* The worker.                                                              *)

LEMMA TurnInitIs ==
  ASSUME PageBounds, job \in Jobs, TurnInit  PROVE TurnInv
  <1>1. /\ turn = [at |-> "idle", part |-> 1, chunk |-> 1, reuse |-> FALSE, retried |-> FALSE, again |-> job.compaction,
                   baseline |-> 0, refresh |-> FALSE, rebinds |-> 0, receipt |-> 2, proven |-> FALSE, outcome |-> "none"]
        /\ page = [composer |-> <<>>, pill |-> FALSE, effort |-> 0, choice |-> 0, listed |-> TRUE]
        /\ sent = <<>> /\ answer = NoAnswer /\ watch = NoWatch
        /\ calls = [made |-> 0, open |-> FALSE, left |-> Calls, moves |-> job.moves]
    BY DEF TurnInit
  <1>2. /\ Moves \in Nat /\ Calls \in Nat /\ Settle \in Nat /\ Grace \in Nat
        /\ job.moves \in Nat /\ job.compaction \in BOOLEAN /\ job.parts \in 1 .. 2 /\ job.chunks \in 1 .. 2
        /\ <<>> \in Texts /\ <<0>> \in Texts
    BY DEF PageBounds, Jobs, Texts
  <1>3. turn \in TurnRecord
    <2>1. 0 \in 0 .. MaxRebinds
      BY DEF MaxRebinds
    <2> QED  BY <1>1, <1>2, <2>1 DEF TurnRecord, Places, Outcomes
  <1>4. page \in PageRecord
    BY <1>1, <1>2 DEF PageRecord
  <1>5. answer \in AnswerRecord /\ Len(answer.blocks) <= 2
    BY <1>1 DEF NoAnswer, AnswerRecord
  <1>6. calls \in CallsRecord /\ calls.made = 0 /\ calls.left = Calls
    BY <1>1, <1>2 DEF CallsRecord
  <1>7. watch \in WatchRecord /\ watch.revision = 0 /\ watch.base = watch.shown
    <2>1. 0 \in 0 .. Grace /\ -1 \in -1 .. Settle /\ 0 \in 0 .. Calls /\ -1 \in -1 .. Calls
      BY <1>2
    <2> QED  BY <1>1, <1>2, <2>1 DEF NoWatch, WatchRecord
  <1>8. sent \in Seq(Messages) /\ DOMAIN sent = {} /\ Len(sent) = 0
    BY <1>1
  <1>9. TurnTyped
    BY <1>1, <1>2, <1>3, <1>4, <1>5, <1>6, <1>7, <1>8 DEF TurnTyped, At
  <1>10. Presses = {} /\ Slips = {} /\ Cardinality(Presses) = 0 /\ DOMAIN Pressed = {}
    <2>1. Presses = {} /\ Slips = {}
      BY <1>8 DEF Presses, Slips
    <2>2. Cardinality(Presses) = 0
      BY <2>1, FS_EmptySet, Zenon
    <2>3. Pressed \in Seq(Messages) /\ Len(Pressed) = 0
      BY <1>8, <2>2, PressedIs
    <2> QED  BY <2>1, <2>2, <2>3
  <1>11. Composed /\ Restored
    BY <1>1 DEF Composed, Restored, Composing, Connecting, At
  <1>12. Delivered
    BY <1>1, <1>8, <1>10 DEF Delivered, At
  <1>13. AnswersAreFinal
    BY <1>1 DEF AnswersAreFinal
  <1> QED  BY <1>7, <1>9, <1>11, <1>12, <1>13 DEF TurnInv

LEMMA TurnRests ==
  ASSUME TurnInv, UNCHANGED tvars  PROVE TurnInv'
  <1>1. UNCHANGED <<job, turn, page, sent, answer, calls, watch>>
    BY DEF tvars
  <1> USE <1>1
  <1>2. TurnTyped'
    BY DEF TurnInv, TurnTyped, At
  <1>3. Slips' = Slips /\ Presses' = Presses /\ Pressed' = Pressed /\ Prompt' = Prompt /\ Target' = Target
    BY DEF Slips, Presses, Pressed, Prompt, Target
  <1>4. Composed' /\ Restored'
    BY <1>3 DEF TurnInv, Composed, Restored, At, NeedsConnector, Final, IsNoop
  <1>5. \A i \in DOMAIN Pressed' : IsMessage(Pressed[i], i)'
    BY <1>3 DEF TurnInv, Delivered, IsMessage
  <1>6. Delivered'
    BY <1>3, <1>5 DEF TurnInv, Delivered, At, Submitted, Final
  <1> QED  BY <1>2, <1>4, <1>6 DEF TurnInv, AnswersAreFinal

LEMMA PoolRests ==
  ASSUME PoolInv, UNCHANGED pvars  PROVE PoolInv'
  <1>1. UNCHANGED <<plan, phase, slot, tab, reused, tails, retained, live, tabs, opened, suspect, release, faults, stuck, gone, lost>>
    BY DEF pvars
  <1> USE <1>1
  <1>2. Active' = Active /\ Pages' = Pages /\ Failed' = Failed /\ Holding' = Holding /\ \A r : Key(r)' = Key(r)
    BY DEF Active, Pages, Failed, Holding, Key
  <1>3. Doubled' = Doubled
    BY <1>2 DEF Doubled
  <1>4. KeysOf(Pages, Active)' = KeysOf(Pages, Active) /\ LooseIn(Active)' = LooseIn(Active)
    BY <1>2 DEF KeysOf, LooseIn
  <1>5. PoolTyped' /\ Queued'
    BY <1>2 DEF PoolInv, PoolTyped, Queued
  <1>6. Apart' /\ SlotsApart' /\ ReleasesApart'
    BY <1>2 DEF PoolInv, Apart, SlotsApart, ReleasesApart, Distinct, Uses, SlotCloses, ReleaseCloses
  <1>7. Seen'
    BY <1>2, <1>3 DEF PoolInv, Seen, Accounted, Uses, SlotCloses, ReleaseCloses
  <1>8. Room'
    BY <1>2, <1>3, <1>4 DEF PoolInv, Room
  <1> QED  BY <1>5, <1>6, <1>7, <1>8 DEF PoolInv

\* Where a run is whose turn began to work on its page; no step takes it back.
Begun == {"working", "closing", "over"}
Expires == turn.outcome = "expired" => focus # Nobody /\ phase[focus] \in Begun

WorkerInv == PoolInv /\ TurnInv /\ focus \in Runs \cup {Nobody} /\ Expires

LEMMA WorkerInitIs ==
  ASSUME PoolBounds, PageBounds, WorkerBounds, Init  PROVE WorkerInv
  <1>1. PICK s \in Scenarios : plan = s.plan /\ focus = s.focus /\ job = s.job /\ PoolInit(s.asks, s.frees)
    BY DEF Init
  <1>2. s.plan \in [Runs -> Plans] /\ s.focus \in Runs \cup {Nobody} /\ s.job \in Jobs /\ s.asks \in SUBSET Runs /\ s.frees \in SUBSET Keys
    BY DEF WorkerBounds
  <1>3. PoolInv
    BY <1>1, <1>2, PoolInitIs
  <1>4. TurnInv
    BY <1>1, <1>2, TurnInitIs DEF Init
  <1>5. Expires
    BY DEF Init, TurnInit, Expires
  <1> QED  BY <1>1, <1>2, <1>3, <1>4, <1>5 DEF WorkerInv

\* No step takes a run back out of the phases of a turn that began.
LEMMA PhasesGoOn ==
  ASSUME PoolInv, Serve \/ Spoil \/ Free \/ Finish \/ \E k \in Keys : Release(k), NEW r \in Runs, phase[r] \in Begun
  PROVE  phase'[r] \in Begun
  <1>1. phase \in [Runs -> States]
    BY DEF PoolInv, PoolTyped
  <1>2. ASSUME NEW x \in Runs, NEW where, Goes(x, where), phase[x] \notin Begun \/ where \in Begun
        PROVE  phase'[r] \in Begun
    BY <1>1, <1>2 DEF Goes
  <1>3. ASSUME phase' = phase  PROVE phase'[r] \in Begun
    BY <1>3
  <1>4. ASSUME NEW x \in Runs, Ended(x)  PROVE phase'[r] \in Begun
    BY <1>1, <1>4 DEF Ended, Begun
  <1>5. ASSUME NEW x \in Runs, Unkept(x), phase[x] \notin Begun  PROVE phase'[r] \in Begun
    BY <1>2, <1>4, <1>5 DEF Unkept
  <1>6. CASE Serve
    <2>1. PICK x \in Runs : \/ RunOwned(x) \/ Evicted(x) \/ Start(x) \/ Reuse(x) \/ Unobservable(x) \/ Drop(x)
                            \/ Continue(x) \/ Connect(x) \/ OpenPage(x) \/ Closed(x)
      BY <1>6 DEF Serve
    <2>2. CASE RunOwned(x)
      <3>1. ASSUME Enqueued(x), phase[x] = "idle"  PROVE phase'[r] \in Begun
        BY <1>1, <3>1 DEF Enqueued, Begun
      <3>2. phase[x] = "idle" /\ (Enqueued(x) \/ Ended(x))
        BY <2>2 DEF RunOwned
      <3> QED  BY <1>4, <3>1, <3>2
    <2>3. CASE Evicted(x)
      <3>1. phase' = phase
        BY <2>3 DEF Evicted
      <3> QED  BY <1>3, <3>1
    <2>4. CASE Start(x)
      <3>1. phase[x] \notin Begun /\ (Goes(x, "probing") \/ Unkept(x))
        BY <2>4 DEF Start, Begun
      <3> QED  BY <1>2, <1>5, <3>1
    <2>5. CASE Reuse(x)
      <3>1. phase[x] \notin Begun /\ Goes(x, "kept")
        BY <2>5 DEF Reuse, Begun
      <3> QED  BY <1>2, <3>1
    <2>6. CASE Unobservable(x)
      <3>1. phase[x] \notin Begun /\ Goes(x, "dropping")
        BY <2>6 DEF Unobservable, Begun
      <3> QED  BY <1>2, <3>1
    <2>7. CASE Drop(x)
      <3>1. phase[x] \notin Begun /\ Unkept(x)
        BY <2>7 DEF Drop, Begun
      <3> QED  BY <1>5, <3>1
    <2>8. CASE Continue(x) \/ OpenPage(x)
      <3>1. phase[x] \notin Begun /\ Goes(x, "working")
        BY <2>8 DEF Continue, OpenPage, Begun
      <3> QED  BY <1>2, <3>1
    <2>9. CASE Connect(x)
      <3>1. phase[x] \notin Begun /\ Goes(x, "connected")
        BY <2>9 DEF Connect, Begun
      <3> QED  BY <1>2, <3>1
    <2>10. CASE Closed(x)
      BY <1>4, <2>10 DEF Closed
    <2> QED  BY <2>1, <2>2, <2>3, <2>4, <2>5, <2>6, <2>7, <2>8, <2>9, <2>10
  <1>7. CASE Spoil
    <2>1. phase' = phase \/ \E x \in Runs : Ended(x)
      BY <1>7 DEF Spoil, EvictionFails, Unprepared, NoPage, UserCloses, Disconnect
    <2> QED  BY <1>3, <1>4, <2>1
  <1>8. CASE Free \/ \E k \in Keys : Release(k)
    <2>1. phase' = phase
      BY <1>8 DEF Free, ReleasePage, Released, Release
    <2> QED  BY <1>3, <2>1
  <1>9. CASE Finish
    <2>1. \E x \in Runs : Ended(x) \/ Goes(x, "closing")
      BY <1>9 DEF Finish, Complete, Fail
    <2>2. "closing" \in Begun
      BY DEF Begun
    <2> QED  BY <1>2, <1>4, <2>1, <2>2
  <1> QED  BY <1>6, <1>7, <1>8, <1>9

LEMMA PoolStepKeeps ==
  ASSUME PoolBounds, PoolInv, Serve \/ Spoil \/ Free \/ Finish \/ \E k \in Keys : Release(k)
  PROVE  PoolInv'
  <1>1. CASE Serve
    BY <1>1, RunOwnedKeeps, EvictedKeeps, StartKeeps, ReuseKeeps, UnobservableKeeps, DropKeeps, ContinueKeeps,
       ConnectKeeps, OpenPageKeeps, ClosedKeeps DEF Serve
  <1>2. CASE Spoil
    <2>1. live \subseteq tabs
      BY DEF PoolInv, PoolTyped
    <2> QED  BY <1>2, <2>1, EvictionFailsKeeps, UnpreparedKeeps, NoPageKeeps, UserClosesKeeps, DisconnectKeeps DEF Spoil
  <1>3. CASE Free
    BY <1>3, ReleasePageKeeps, ReleasedKeeps DEF Free
  <1>4. CASE Finish
    BY <1>4, CompleteKeeps, FailKeeps DEF Finish
  <1>5. CASE \E k \in Keys : Release(k)
    BY <1>5, ReleaseKeeps
  <1> QED  BY <1>1, <1>2, <1>3, <1>4, <1>5

LEMMA TurnStepKeeps ==
  ASSUME PageBounds, WorkerInv, Drive \/ Disturb \/ Notice \/ TimeOut \/ Straggle
  PROVE  TurnInv'
  <1>1. TurnInv
    BY DEF WorkerInv
  <1>2. CASE Drive
    <2>1. reused[focus] \in BOOLEAN
      BY <1>2 DEF WorkerInv, PoolInv, PoolTyped, Drive, Works
    <2>2. CASE Begins(reused[focus])
      BY <1>1, <2>1, <2>2, BeginsKeeps
    <2>3. CASE TurnSteps
      BY <1>1, <2>3, ChatReadyKeeps, SelectEffortKeeps, EffortSelectedKeeps, AttachKeeps, PersonalizeKeeps, ProveKeeps,
         ToggleKeeps, RestoreKeeps, ChooseKeeps, RefreshKeeps, InsertKeeps, CheckKeeps, VerifyKeeps, ReattachKeeps,
         SendKeeps, AcceptedKeeps, PollKeeps, PollStageKeeps DEF TurnSteps
    <2> QED  BY <1>2, <2>2, <2>3 DEF Drive
  <1>3. CASE Disturb
    BY <1>1, <1>3, UnlistedKeeps, StallKeeps, BreaksKeeps, WriteKeeps, StopKeeps, CallKeeps, CallEndsKeeps DEF Disturb, PageSteps
  <1>4. CASE Notice
    BY <1>1, <1>4, BreaksKeeps, LostKeeps DEF Notice
  <1>5. CASE TimeOut
    BY <1>1, <1>5, TimesOutKeeps DEF TimeOut
  <1>6. CASE Straggle
    BY <1>1, <1>6, SelectEffortKeeps, PersonalizeKeeps, ToggleKeeps, RestoreKeeps, InsertKeeps, SendKeeps,
       BreaksKeeps, LostKeeps DEF Straggle, LateSteps
  <1> QED  BY <1>2, <1>3, <1>4, <1>5, <1>6

LEMMA WorkerStepKeeps ==
  ASSUME PoolBounds, PageBounds, WorkerInv, [Next]_vars  PROVE WorkerInv'
  <1>1. PoolInv /\ TurnInv /\ focus \in Runs \cup {Nobody} /\ Expires
    BY DEF WorkerInv
  <1>2. CASE (Serve \/ Spoil \/ Free \/ Finish \/ \E k \in Keys : Release(k)) /\ Pool
    <2>1. PoolInv' /\ TurnInv' /\ turn' = turn /\ focus' = focus
      BY <1>1, <1>2, PoolStepKeeps, TurnRests DEF Pool, tvars
    <2>2. Expires'
      <3>1. focus \in Runs /\ phase[focus] \in Begun => phase'[focus] \in Begun
        BY <1>1, <1>2, PhasesGoOn
      <3> QED  BY <1>1, <2>1, <3>1 DEF Expires
    <2> QED  BY <1>1, <2>1, <2>2 DEF WorkerInv
  <1>3. CASE (Drive \/ Disturb \/ Notice \/ TimeOut \/ Straggle) /\ Keep
    <2>1. PoolInv' /\ TurnInv' /\ phase' = phase /\ focus' = focus
      BY <1>1, <1>3, TurnStepKeeps, PoolRests DEF Keep, WorkerInv, pvars
    <2>2. focus # Nobody /\ phase[focus] \in Begun
      <3>1. CASE Drive \/ Disturb \/ Notice \/ TimeOut
        BY <3>1 DEF Drive, Disturb, Notice, TimeOut, Works, Begun
      <3>2. CASE Straggle
        BY <1>1, <3>2 DEF Straggle, Straggles, Expires
      <3> QED  BY <1>3, <3>1, <3>2
    <2> QED  BY <1>1, <2>1, <2>2 DEF WorkerInv, Expires
  <1>4. CASE UNCHANGED vars
    BY <1>1, <1>4, TurnRests, PoolRests DEF vars, WorkerInv, Expires, tvars, pvars
  <1> QED  BY <1>2, <1>3, <1>4 DEF Next

LEMMA WorkerInvariant == Spec => []WorkerInv
  <1>1. Init => WorkerInv
    BY PoolBounds, PageBounds, WorkerBounds, WorkerInitIs
  <1>2. WorkerInv /\ [Next]_vars => WorkerInv'
    BY PoolBounds, PageBounds, WorkerStepKeeps
  <1> QED  BY <1>1, <1>2, PTL DEF Spec

LEMMA WorkerIsTyped ==
  ASSUME WorkerInv  PROVE TypeOK
  <1>1. PoolTyped /\ Queued /\ Apart /\ TurnTyped
    BY DEF WorkerInv, PoolInv, TurnInv
  <1>2. PoolTypeOK
    <2>1. plan \in [Runs -> Plans] /\ phase \in [Runs -> States] /\ reused \in [Runs -> BOOLEAN]
      BY <1>1 DEF PoolTyped
    <2>2. tab \in [Runs -> 0 .. opened]
      BY <1>1 DEF PoolTyped, Apart
    <2>3. \A k \in Keys : ToSet(tails[k]) \subseteq {r \in Active : Key(r) = k} /\ IsInjective(tails[k])
      BY <1>1 DEF Queued
    <2>4. \A i, j \in DOMAIN retained : i # j => retained[i].key # retained[j].key
      BY <1>1 DEF Apart, Distinct
    <2>5. live \subseteq tabs /\ tabs \cup gone \cup lost \subseteq 1 .. opened
      BY <1>1 DEF PoolTyped
    <2> QED  BY <2>1, <2>2, <2>3, <2>4, <2>5 DEF PoolTypeOK, States
  <1>3. TurnTypeOK
    <2>1. job \in Jobs /\ job.parts \in Nat /\ job.chunks \in Nat
      BY <1>1 DEF TurnTyped, Jobs
    <2>2. /\ turn.part \in 1 .. job.parts /\ turn.chunk \in 1 .. job.chunks /\ turn.rebinds \in 0 .. MaxRebinds
          /\ turn.outcome \in Outcomes /\ (At("over") => turn.outcome # "none")
          /\ ~At("over") => turn.outcome \in {"none", "expired"}
      BY <1>1, <2>1 DEF TurnTyped, TurnRecord
    <2>3. page.effort \in 0 .. 3 /\ page.choice \in {0, 1} /\ page.composer \in Seq(0 .. 2)
      BY <1>1 DEF TurnTyped, PageRecord, Texts
    <2>4. answer.blocks \in Seq({1, 2}) /\ Len(answer.blocks) <= 2
      BY <1>1 DEF TurnTyped, AnswerRecord
    <2>5. /\ watch.since \in -1 .. Settle /\ watch.missing \in 0 .. Grace /\ watch.empty \in 0 .. Grace
          /\ watch.unclosed \in 0 .. Grace /\ watch.silent \in 0 .. Grace
      BY <1>1 DEF TurnTyped, WatchRecord
    <2>6. watch.revision <= calls.made /\ calls.made <= Calls
      BY <1>1, PageBounds DEF TurnTyped, CallsRecord, PageBounds
    <2> QED  BY <2>1, <2>2, <2>3, <2>4, <2>5, <2>6 DEF TurnTypeOK, Outcomes
  <1> QED  BY <1>2, <1>3 DEF TypeOK

\* What is in the account follows from what was sent and from where the turn is.
LEMMA AccountIs ==
  ASSUME TurnInv  PROVE MessagesAreWhole /\ ChoiceIsRestored
  <1>1. TurnTyped /\ Delivered /\ Restored
    BY DEF TurnInv
  <1>2. MessagesAreWhole
    <2>1. Len(Pressed) = Cardinality(Presses)
      BY <1>1, PressedIs DEF TurnTyped
    <2>2. Cardinality(Presses) <= job.parts
      <3>1. turn.part \in Nat /\ job.parts \in Nat /\ turn.part <= job.parts
        BY TurnIs DEF TurnRecord, Jobs
      <3>2. turn.at \in Composing \cup {"idle", "chat", "effort", "accept", "ack", "watch", "over"}
        BY TurnIs DEF TurnRecord, Places, Composing, Connecting
      <3> QED  BY <1>1, <3>1, <3>2 DEF Delivered, At
    <2>3. turn.outcome = "ok" => Cardinality(Presses) = job.parts
      BY <1>1 DEF Delivered
    <2>4. \A i \in DOMAIN Pressed : IsMessage(Pressed[i], i)
      BY <1>1 DEF Delivered
    <2>5. \A i \in DOMAIN sent : sent[i].slip /\ Len(sent[i].text) > 1 => i = Len(sent)
      BY <1>1 DEF Delivered, Slips
    <2> QED  BY <2>1, <2>2, <2>3, <2>4, <2>5 DEF MessagesAreWhole
  <1>3. ChoiceIsRestored
    BY <1>1, TurnIs DEF Restored, ChoiceIsRestored, At
  <1> QED  BY <1>2, <1>3

\* A turn that timed out has its page until it is closed, and for itself; then nobody has it.
LEMMA StragglersAre ==
  ASSUME WorkerInv  PROVE StragglersAreAlone
  <1> SUFFICES ASSUME Straggles, focus # Nobody, tab[focus] \in live
               PROVE  /\ phase[focus] \in {"working", "closing", "over"}
                      /\ \A r \in Holding : r = focus \/ tab[r] # tab[focus]
                      /\ phase[focus] # "working" => \A i \in DOMAIN retained : retained[i].tab # tab[focus]
    BY DEF StragglersAreAlone
  <1>1. focus \in Runs /\ phase[focus] \in Begun /\ Apart /\ PoolTyped
    BY DEF WorkerInv, PoolInv, Expires, Straggles
  <1>2. tab[focus] # 0
    BY <1>1 DEF PoolTyped
  <1>3. \A i \in DOMAIN retained : retained[i] \in Pages
    BY <1>1, PagesAre DEF PoolTyped, Pages, ToSet
  <1> QED  BY <1>1, <1>2, <1>3 DEF Apart, Begun, Holding

\* The variables of the worker keep their types, the queues and the retained pages their shapes, the clocks
\* their ranges.
THEOREM WorkerTypeCorrect == Spec => []TypeOK
  <1>1. WorkerInv => TypeOK
    BY WorkerIsTyped
  <1> QED  BY <1>1, WorkerInvariant, PTL

\* Whatever turns, releases, evictions, failures and closed tabs come between: a page at work is one turn's,
\* the worker loses sight of no tab but those whose own closing failed or whose connection broke, and it holds no more pages than its limit and the evictions that failed.
THEOREM PagesAccounted == Spec => []PagesAreAccounted
  <1>1. WorkerInv => PagesAreAccounted
    BY PoolBounds, PagesStayExclusive, TabsStaySeen, PagesStayCounted DEF WorkerInv, PagesAreAccounted, SurfacesAreCounted
  <1> QED  BY <1>1, WorkerInvariant, PTL

\* Whatever the page does with the edits, the connector and the choice: a turn sends each of its messages
\* once and whole, and leaves the personalization as it found it or says that it could not, unless the time of
\* a stage was over: what goes on of such a turn does so on a page no other turn has.
THEOREM AccountRight == Spec => []AccountIsRight
  <1>1. WorkerInv => AccountIsRight
    BY AccountIs, StragglersAre DEF WorkerInv, AccountIsRight
  <1> QED  BY <1>1, WorkerInvariant, PTL

\* However the page writes and rewrites: a turn returns the whole answer that is there, with every tool batch
\* noticed and over, and not the text that was there when the last one was.
THEOREM AnswersFinal == Spec => []AnswersAreFinal
  <1>1. WorkerInv => AnswersAreFinal
    BY DEF WorkerInv, TurnInv
  <1> QED  BY <1>1, WorkerInvariant, PTL

=============================================================================
