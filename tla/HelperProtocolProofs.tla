------------------------- MODULE HelperProtocolProofs -------------------------
(***************************************************************************)
(* Proofs about HelperProtocol: the types, and what StreamIsWhole says of  *)
(* a trace none of whose prompts failed.  The lines of the protocol name   *)
(* only the trace, so the argument is about whose a line can be: Dialogue  *)
(* says of one trace that the run line, the turn at work and the lines to  *)
(* the daemon are all of the turn that is pending there, if one is.        *)
(***************************************************************************)
EXTENDS HelperProtocol, FiniteSetTheorems, SequenceTheorems, TLAPS

-----------------------------------------------------------------------------
(* The inductive invariant.                                                 *)

\* What a turn of the helper writes, apart from its error.
Own == {"observed", "begin", "commit", "selected", "text", "result", "settled"}

\* The lines of a trace among the lines s of a pipe.
LinesOf(s, kind, t) == {i \in DOMAIN s : s[i].kind = kind /\ s[i].trace = t}
Has(s, kind, t) == LinesOf(s, kind, t) # {}
TextsOf(s, t) == Cardinality(LinesOf(s, "text", t))
ObservedUpTo(s, t, n) == \A i \in LinesOf(s, "observed", t) : s[i].n <= n
\* The result and the settlement are the last.
Ordered(s, t) ==
  /\ \A i \in LinesOf(s, "settled", t) : \A kind \in Own : \A j \in LinesOf(s, kind, t) : j <= i
  /\ \A i \in LinesOf(s, "result", t) : \A j \in LinesOf(s, "text", t) : j < i
\* The turns whose run line is on its way, of which there is one, and what a line behind it says
\* of the turn it is for: a line holds of a turn's progress p and its calls c.
Carried(s, t) == {s[i].of : i \in LinesOf(s, "run", t)}
OneRun(s, t) == \A i, j \in LinesOf(s, "run", t) : i = j
Holds(line, p, c) ==
  /\ line.kind = "progress" => line.snapshot.revision <= p.revision /\ line.snapshot.batch <= p.batch
  /\ line.kind = "committed" /\ line.n = 1 => c.committed
AllHold(s, t, p, c) == \A j \in DOMAIN s : s[j].trace = t => Holds(s[j], p, c)
BehindHold(s, t, p, c) ==
  \A i \in LinesOf(s, "run", t) : \A j \in DOMAIN s : j > i /\ s[j].trace = t => Holds(s[j], p[s[i].of], c[s[i].of])

\* A turn that replaced a pending one is never settled, and its trace never used again.
Dead(t) == \E r \in Runs : Trace(r) = t /\ run[r].at = "over" /\ run[r].result = "none"
Serving(r) == run[r].at = "pending" \/ Dead(Trace(r))
Begun(r) == run[r].at \in {"pending", "over"}

TypesInv ==
  /\ plan \in [trace : [Runs -> Traces], calls : [Runs -> Nat], deaths : Nat, aborts : Nat, prompts : BOOLEAN]
  /\ child \in {"none", "starting", "ready"} /\ proc \in {"none", "booting", "up", "gone"}
  /\ run \in [Runs -> Run] /\ progress \in [Runs -> Progress] /\ calls \in [Runs -> Calls]
  /\ work \in [Traces -> Work] /\ leases \subseteq Runs
  /\ history \in [Runs -> [text : Nat, observed : Nat, opened : BOOLEAN, unprepared : BOOLEAN]]
  /\ down \in Seq(Lines) /\ up \in Seq(Lines)

Fresh(r) ==
  /\ run[r].text = 0 /\ run[r].result = "none" /\ run[r].settled = "none"
  /\ ~run[r].preparing /\ ~run[r].prepared
  /\ calls[r] = NewCalls /\ progress[r] = NewProgress /\ history[r] = NewHistory

\* Nothing has happened to a turn that was not sent yet, and only turns that were sent are
\* worked on or on their way to the helper.
SentInv ==
  /\ \A r \in Runs : Begun(r) \/ Fresh(r)
  /\ \A t \in Traces : work[t].at # "none" => work[t].of \in Runs /\ Trace(work[t].of) = t /\ Begun(work[t].of)
  /\ \A t \in Traces : \A r \in Carried(down, t) : r \in Runs /\ Trace(r) = t /\ Begun(r)

\* The helper is sent nothing and works on nothing before its client has heard that it is ready.
ProcInv ==
  /\ (proc = "none") <=> (child = "none")
  /\ proc # "none" => Runs # {}
  /\ child # "ready" \/ proc \in {"none", "gone"} => down = <<>> /\ \A t \in Traces : work[t].at = "none"
  /\ \A r \in Runs : (run[r].at = "over" => ~run[r].prepared) /\ (run[r].at = "pending" => child = "ready")

\* Of the turns of a trace one is pending, and one is awaited.
TraceInv ==
  \A r, s \in Runs : r # s /\ Trace(r) = Trace(s) =>
    /\ ~(run[r].at = "pending" /\ run[s].at = "pending")
    /\ run[r].at # "idle" /\ run[s].at # "idle" => run[r].result # "none" \/ run[s].result # "none"
    /\ ~(run[r].at = "over" /\ run[r].result = "none" /\ run[s].at = "pending")

\* The round and the broker.
RoundInv ==
  \A r \in Runs :
    /\ progress[r].batch <= progress[r].revision
    /\ calls[r].boundary => progress[r].active > 0
    /\ ~calls[r].boundary => progress[r].observed >= progress[r].batch
    /\ calls[r].committed => calls[r].queued = 0 /\ progress[r].active = 0
    /\ calls[r].emitted <= progress[r].observed

\* A trace none of whose prompts failed.
\* Its run line is one, and nobody works on the trace while it is on its way.
RunIsOne(t) ==
  /\ OneRun(down, t)
  /\ \A r \in Carried(down, t) :
       work[t].at = "none" /\ Serving(r) /\ history[r].text = 0 /\ history[r].observed = 0

\* The turn at work is the pending one.
WorkIsOwned(t) ==
  \A r \in Runs : work[t].at # "none" /\ work[t].of = r =>
    /\ Serving(r) /\ history[r].observed = work[t].mirror.observed
    /\ work[t].mirror.observed <= work[t].mirror.batch
    /\ work[t].mirror.batch <= progress[r].batch /\ work[t].mirror.revision <= progress[r].revision
    /\ work[t].at = "done" => calls[r].committed

\* The lines to the daemon are those of the pending turn, its result and its settlement last.
RepliesAreOwned(t) ==
  /\ \A kind \in Own : Has(up, kind, t) => Pending(t) # {} \/ Dead(t)
  /\ Has(up, "result", t) \/ Has(up, "settled", t) => work[t].at = "none" /\ Carried(down, t) = {}
  /\ Ordered(up, t)

PendingIsTold(t) ==
  \A r \in Pending(t) :
    /\ run[r].text + TextsOf(up, t) = history[r].text
    /\ ObservedUpTo(up, t, history[r].observed)
    /\ Has(up, "result", t) => calls[r].committed

RunsAreTold(t) ==
  \A r \in Runs : Trace(r) = t =>
    /\ run[r].text <= history[r].text
    /\ progress[r].observed <= history[r].observed /\ history[r].observed <= progress[r].batch
    /\ run[r].result = "resolved" =>
         /\ run[r].text = history[r].text /\ calls[r].committed
         /\ work[t].at = "none" \/ work[t].of # r
         /\ r \notin Carried(down, t)

LinesHold(t) ==
  /\ BehindHold(down, t, progress, calls)
  /\ work[t].at # "none" => AllHold(down, t, progress[work[t].of], calls[work[t].of])

Dialogue(t) ==
  RunIsOne(t) /\ WorkIsOwned(t) /\ RepliesAreOwned(t) /\ PendingIsTold(t) /\ RunsAreTold(t) /\ LinesHold(t)

HelperInv ==
  /\ TypesInv /\ SentInv /\ ProcInv /\ TraceInv /\ RoundInv
  /\ \A t \in Traces : Unprepared(t) \/ Dialogue(t)
-----------------------------------------------------------------------------
(* Lemmas about lines and progress.                                         *)

LEMMA LineType ==
  ASSUME NEW kind \in Kinds, NEW t \in Traces
  PROVE  Line(kind, t) \in Lines
BY DEF Line, Lines, Runs, NoRun, Snapshot, NewProgress

LEMMA SnapshotType ==
  ASSUME NEW p \in Progress
  PROVE  Snapshot(p) \in [revision : Nat, batch : Nat, active : Nat]
BY DEF Snapshot, Progress

LEMMA MaxOfTwo ==
  ASSUME NEW m \in Nat, NEW n \in Nat
  PROVE  /\ Max({m, n}) \in {m, n}
         /\ Max({m, n}) >= m /\ Max({m, n}) >= n
<1>1. \E x \in {m, n} : \A y \in {m, n} : x >= y BY SMT
<1> QED BY <1>1 DEF Max

\* Progress stays progress, and never goes back.
LEMMA ProgressSteps ==
  ASSUME NEW p \in Progress, NEW n \in Nat
  PROVE  /\ Recorded(p, n) \in Progress
         /\ Recorded(p, n).batch = p.revision + 1 /\ Recorded(p, n).revision = p.revision + 1
         /\ Recorded(p, n).active = p.active + n /\ Recorded(p, n).observed = p.observed
         /\ Observed(p, n) \in Progress
         /\ Observed(p, n) = [p EXCEPT !.observed = IF n > p.observed THEN n ELSE p.observed]
         /\ p.active > 0 => Answered(p) \in Progress
<1>1. Max({p.observed, n}) = IF n > p.observed THEN n ELSE p.observed BY MaxOfTwo DEF Progress
<1>2. Observed(p, n) = [p EXCEPT !.observed = IF n > p.observed THEN n ELSE p.observed] BY <1>1 DEF Observed
<1>3. Observed(p, n) \in Progress BY <1>2 DEF Progress
<1>4. /\ Recorded(p, n).revision = p.revision + 1 /\ Recorded(p, n).batch = p.revision + 1
      /\ Recorded(p, n).observed = p.observed /\ Recorded(p, n).active = p.active + n
  BY DEF Recorded, Progress
<1>5. Recorded(p, n) \in Progress
  <2>1. p.revision + 1 \in Nat /\ p.active + n \in Nat BY DEF Progress
  <2> QED BY <2>1 DEF Recorded, Progress
<1>6. ASSUME p.active > 0 PROVE Answered(p) \in Progress
  <2>1. p.revision + 1 \in Nat /\ p.active - 1 \in Nat BY <1>6 DEF Progress
  <2> QED BY <2>1 DEF Answered, Progress
<1> QED BY <1>2, <1>3, <1>4, <1>5, <1>6

LEMMA AppliedType ==
  ASSUME NEW m \in Progress, NEW s \in [revision : Nat, batch : Nat, active : Nat]
  PROVE  /\ Applied(m, s) \in Progress /\ Applied(m, s).observed = m.observed
         /\ Applied(m, s).batch >= m.batch
         /\ \/ Applied(m, s).revision = m.revision /\ Applied(m, s).batch = m.batch
            \/ Applied(m, s).revision = s.revision /\ Applied(m, s).batch = s.batch
<1>1. CASE s.revision > m.revision /\ s.batch >= m.batch
  <2>1. Applied(m, s) = [m EXCEPT !.revision = s.revision, !.batch = s.batch, !.active = s.active]
    BY <1>1 DEF Applied
  <2> QED BY <1>1, <2>1 DEF Progress
<1>2. CASE ~(s.revision > m.revision /\ s.batch >= m.batch)
  <2>1. Applied(m, s) = m BY <1>2 DEF Applied
  <2> QED BY <2>1 DEF Progress
<1> QED BY <1>1, <1>2

\* What the text lines of a trace come to when lines are added behind and read in front.
LEMMA TextsFinite ==
  ASSUME NEW s \in Seq(Lines), NEW t
  PROVE  IsFiniteSet(LinesOf(s, "text", t)) /\ TextsOf(s, t) \in Nat
<1>1. IsFiniteSet(DOMAIN s) /\ LinesOf(s, "text", t) \subseteq DOMAIN s
  BY FS_Interval, LenProperties DEF LinesOf
<1> QED BY <1>1, FS_Subset, FS_CardinalityType DEF TextsOf

LEMMA TextsAppended ==
  ASSUME NEW s \in Seq(Lines), NEW l \in Lines, NEW t
  PROVE  TextsOf(Append(s, l), t) = TextsOf(s, t) + (IF l.kind = "text" /\ l.trace = t THEN 1 ELSE 0)
<1> DEFINE old == LinesOf(s, "text", t)
<1>1. DOMAIN Append(s, l) = 1 .. Len(s) + 1 /\ DOMAIN s = 1 .. Len(s) /\ Len(s) \in Nat
      /\ (\A i \in 1 .. Len(s) : Append(s, l)[i] = s[i]) /\ Append(s, l)[Len(s) + 1] = l
  BY AppendProperties, LenProperties
<1>2. LinesOf(Append(s, l), "text", t) = old \cup (IF l.kind = "text" /\ l.trace = t THEN {Len(s) + 1} ELSE {})
  BY <1>1 DEF LinesOf
<1>3. IsFiniteSet(old) BY TextsFinite
<1>4. Len(s) + 1 \notin old BY <1>1 DEF LinesOf
<1>5. Cardinality(old \cup {Len(s) + 1}) = Cardinality(old) + 1 BY <1>3, <1>4, FS_AddElement
<1>6. Cardinality(old) \in Nat BY <1>3, FS_CardinalityType
<1>7. CASE l.kind = "text" /\ l.trace = t BY <1>2, <1>5, <1>7 DEF TextsOf
<1>8. CASE ~(l.kind = "text" /\ l.trace = t)
  <2>1. LinesOf(Append(s, l), "text", t) = old BY <1>2, <1>8
  <2> HIDE DEF old
  <2> QED BY <1>8, <1>6, <2>1 DEF TextsOf, old
<1> QED BY <1>7, <1>8

LEMMA TextsRead ==
  ASSUME NEW s \in Seq(Lines), s # <<>>, NEW t
  PROVE  TextsOf(s, t) = TextsOf(Tail(s), t) + (IF Head(s).kind = "text" /\ Head(s).trace = t THEN 1 ELSE 0)
<1> DEFINE old == LinesOf(s, "text", t)
           new == LinesOf(Tail(s), "text", t)
           next == [i \in new |-> i + 1]
<1>1. /\ Tail(s) \in Seq(Lines) /\ DOMAIN s = 1 .. Len(s) /\ Len(s) \in Nat \ {0} /\ s[1] = Head(s)
      /\ DOMAIN Tail(s) = 1 .. Len(s) - 1 /\ \A i \in 1 .. Len(s) - 1 : Tail(s)[i] = s[i + 1]
  BY HeadTailProperties, LenProperties, EmptySeq
<1>2. IsFiniteSet(old) /\ IsFiniteSet(new) BY <1>1, TextsFinite
<1>3. new \subseteq Nat /\ \A i \in new : i + 1 \in old \ {1}
  BY <1>1 DEF LinesOf
<1>4. \A j \in old \ {1} : j - 1 \in new /\ j \in Nat
  BY <1>1 DEF LinesOf
<1>5. 1 \in old <=> Head(s).kind = "text" /\ Head(s).trace = t BY <1>1 DEF LinesOf
<1> HIDE DEF old, new
<1>6. next \in Bijection(new, old \ {1})
  <2>1. next \in [new -> old \ {1}] BY <1>3
  <2>2. \A i, j \in new : next[i] = next[j] => i = j BY <1>3
  <2>3. \A j \in old \ {1} : \E i \in new : next[i] = j
    <3> SUFFICES ASSUME NEW j \in old \ {1} PROVE \E i \in new : next[i] = j OBVIOUS
    <3>1. j - 1 \in new /\ j \in Nat BY <1>4
    <3>2. next[j - 1] = j BY <3>1
    <3> QED BY <3>1, <3>2
  <2> HIDE DEF next
  <2>4. next \in Injection(new, old \ {1}) BY <2>1, <2>2 DEF Injection, IsInjective
  <2>5. next \in Surjection(new, old \ {1}) BY <2>1, <2>3 DEF Surjection
  <2> QED BY <2>4, <2>5 DEF Bijection
<1>7. Cardinality(old \ {1}) = Cardinality(new)
  BY <1>2, <1>6, FS_Bijection DEF ExistsBijection
<1>8. Cardinality(old) = Cardinality(old \ {1}) + (IF 1 \in old THEN 1 ELSE 0)
  <2>1. CASE 1 \in old
    <3>1. Cardinality(old \ {1}) = Cardinality(old) - 1 /\ Cardinality(old) \in Nat
      BY <1>2, <2>1, FS_RemoveElement, FS_CardinalityType
    <3> QED BY <2>1, <3>1
  <2>2. CASE 1 \notin old
    <3>1. old \ {1} = old BY <2>2
    <3>2. Cardinality(old \ {1}) = Cardinality(old) BY <3>1
    <3>3. Cardinality(old) \in Nat BY <1>2, FS_CardinalityType
    <3> QED BY <2>2, <3>2, <3>3
  <2> QED BY <2>1, <2>2
<1> QED BY <1>5, <1>7, <1>8 DEF TextsOf, old, new

LEMMA SentOne ==
  ASSUME NEW l \in Lines, down \in Seq(Lines), Sent(<<l>>)
  PROVE  /\ down' \in Seq(Lines) /\ down' \in {down, Append(down, l)}
         /\ ~Alive => down' = down
<1>1. Append(down, l) = down \o <<l>> /\ Append(down, l) \in Seq(Lines) BY AppendIsConcat, AppendProperties
<1> QED BY <1>1 DEF Sent

LEMMA WritesOne ==
  ASSUME NEW a \in Lines, up \in Seq(Lines), Writes(<<a>>)
  PROVE  up' = Append(up, a) /\ up' \in Seq(Lines)
BY AppendIsConcat, AppendProperties DEF Writes

LEMMA WritesTwo ==
  ASSUME NEW a \in Lines, NEW b \in Lines, up \in Seq(Lines), Writes(<<a, b>>)
  PROVE  up' = Append(Append(up, a), b) /\ up' \in Seq(Lines)
<1>1. Append(up, a) \in Seq(Lines) /\ Len(Append(up, a)) = Len(up) + 1 BY AppendProperties
<1>2. Append(Append(up, a), b) \in Seq(Lines) /\ Len(Append(Append(up, a), b)) = Len(up) + 2
  BY <1>1, AppendProperties
<1>3. <<a, b>> \in Seq(Lines) /\ Len(<<a, b>>) = 2 OBVIOUS
<1>4. up' = up \o <<a, b>> /\ up' \in Seq(Lines) /\ Len(up') = Len(up) + 2
  BY <1>3, ConcatProperties DEF Writes
<1>5. \A i \in 1 .. Len(up) + 2 : up'[i] = Append(Append(up, a), b)[i]
  BY <1>1, <1>2, <1>3, <1>4, ConcatProperties, AppendProperties
<1> QED BY <1>2, <1>4, <1>5, SeqEqual

LEMMA WritesThree ==
  ASSUME NEW a \in Lines, NEW b \in Lines, NEW c \in Lines, up \in Seq(Lines), Writes(<<a, b, c>>)
  PROVE  up' = Append(Append(Append(up, a), b), c) /\ up' \in Seq(Lines)
<1> DEFINE one == Append(up, a)  two == Append(one, b)  three == Append(two, c)
<1>1. /\ one \in Seq(Lines) /\ Len(one) = Len(up) + 1 /\ one[Len(up) + 1] = a
      /\ \A i \in 1 .. Len(up) : one[i] = up[i]
  BY AppendProperties
<1> HIDE DEF one
<1>2. /\ two \in Seq(Lines) /\ Len(two) = Len(up) + 2 /\ two[Len(up) + 2] = b
      /\ \A i \in 1 .. Len(up) + 1 : two[i] = one[i]
  BY <1>1, AppendProperties
<1> HIDE DEF two
<1>3. /\ three \in Seq(Lines) /\ Len(three) = Len(up) + 3 /\ three[Len(up) + 3] = c
      /\ \A i \in 1 .. Len(up) + 2 : three[i] = two[i]
  BY <1>2, AppendProperties
<1> HIDE DEF three
<1>4. <<a, b, c>> \in Seq(Lines) /\ Len(<<a, b, c>>) = 3 OBVIOUS
<1>5. up' = up \o <<a, b, c>> /\ up' \in Seq(Lines) /\ Len(up') = Len(up) + 3
  BY <1>4, ConcatProperties DEF Writes
<1>6. /\ \A i \in 1 .. Len(up) : up'[i] = up[i]
      /\ up'[Len(up) + 1] = a /\ up'[Len(up) + 2] = b /\ up'[Len(up) + 3] = c
  BY <1>4, <1>5, ConcatProperties
<1>7. \A i \in 1 .. Len(up) + 3 : up'[i] = three[i]
  <2> SUFFICES ASSUME NEW i \in 1 .. Len(up) + 3 PROVE up'[i] = three[i] OBVIOUS
  <2>1. Len(up) \in Nat BY LenProperties
  <2>2. CASE i \in 1 .. Len(up)
    <3>1. i \in 1 .. Len(up) + 1 /\ i \in 1 .. Len(up) + 2 BY <2>1, <2>2
    <3>2. three[i] = two[i] /\ two[i] = one[i] /\ one[i] = up[i] BY <1>1, <1>2, <1>3, <2>2, <3>1
    <3> QED BY <1>6, <2>2, <3>2
  <2>3. CASE i = Len(up) + 1
    <3>1. i \in 1 .. Len(up) + 1 /\ i \in 1 .. Len(up) + 2 BY <2>1, <2>3
    <3>2. three[i] = two[i] /\ two[i] = one[i] BY <1>2, <1>3, <3>1
    <3> QED BY <1>1, <1>6, <2>3, <3>2
  <2>4. CASE i = Len(up) + 2
    <3>1. i \in 1 .. Len(up) + 2 BY <2>1, <2>4
    <3> QED BY <1>2, <1>3, <1>6, <2>4, <3>1
  <2>5. CASE i = Len(up) + 3 BY <1>3, <1>6, <2>5
  <2> QED BY <2>1, <2>2, <2>3, <2>4, <2>5
<1>8. up' = three BY <1>3, <1>5, <1>7, SeqEqual
<1> QED BY <1>5, <1>8 DEF three, two, one

LEMMA OneRunChanges ==
  ASSUME NEW f \in [Runs -> Run], NEW r \in Runs, NEW c \in Run
  PROVE  [f EXCEPT ![r] = c] \in [Runs -> Run]
OBVIOUS

LEMMA EndedType ==
  ASSUME NEW c \in Run
  PROVE  /\ EndedWithError(c) \in Run
         /\ EndedWithError(c).at = "over" /\ ~EndedWithError(c).prepared
         /\ EndedWithError(c).text = c.text /\ EndedWithError(c).preparing = c.preparing
         /\ EndedWithError(c).result = IF c.result = "none" THEN "rejected" ELSE c.result
BY DEF EndedWithError, Run

LEMMA PendingEndedType ==
  ASSUME TypesInv, NEW t \in Traces
  PROVE  /\ PendingEnded(t) \in [Runs -> Run]
         /\ \A r \in Runs : PendingEnded(t)[r] = IF r \in Pending(t) THEN EndedWithError(run[r]) ELSE run[r]
BY EndedType DEF PendingEnded, TypesInv

-----------------------------------------------------------------------------
(* The types.                                                               *)

\* What is read is a line.
LEMMA ReadType ==
  ASSUME NEW s \in Seq(Lines), s # <<>>
  PROVE  Head(s) \in Lines /\ Tail(s) \in Seq(Lines)
BY HeadTailProperties

LEMMA PlanType ==
  ASSUME TypesInv, NEW r \in Runs
  PROVE  LET Type == [trace : [Runs -> Traces], calls : [Runs -> Nat], deaths : Nat, aborts : Nat, prompts : BOOLEAN] IN
         /\ plan.aborts > 0 => [plan EXCEPT !.aborts = @ - 1] \in Type
         /\ plan.deaths > 0 => [plan EXCEPT !.deaths = @ - 1] \in Type
         /\ plan.calls[r] > 0 => [plan EXCEPT !.calls[r] = @ - 1] \in Type
<1>1. /\ plan.trace \in [Runs -> Traces] /\ plan.calls \in [Runs -> Nat] /\ plan.deaths \in Nat
      /\ plan.aborts \in Nat /\ plan.prompts \in BOOLEAN
      /\ plan = [trace |-> plan.trace, calls |-> plan.calls, deaths |-> plan.deaths, aborts |-> plan.aborts,
                 prompts |-> plan.prompts]
  BY DEF TypesInv
<1>2. plan.aborts > 0 => plan.aborts - 1 \in Nat BY <1>1
<1>3. plan.deaths > 0 => plan.deaths - 1 \in Nat BY <1>1
<1>4. plan.calls[r] > 0 => [plan.calls EXCEPT ![r] = @ - 1] \in [Runs -> Nat] BY <1>1
<1> QED BY <1>1, <1>2, <1>3, <1>4 DEF TypesInv

LEMMA TraceType == TypesInv => \A r \in Runs : Trace(r) \in Traces
BY DEF TypesInv, Trace

LEMMA ClientTypes ==
  ASSUME TypesInv, NEW r \in Runs, Begin(r) \/ Start(r) \/ Abort(r) \/ Prepare(r) \/ Forward(r)
  PROVE  TypesInv'
<1> USE DEF TypesInv
<1> USE TraceType
<1>1. CASE Begin(r)
  <2>1. run' \in [Runs -> Run]
    <3>1. \/ run' = [run EXCEPT ![r].at = "over", ![r].result = "rejected", ![r].settled = "resolved"]
          \/ run' = [run EXCEPT ![r].at = "starting"]
      BY <1>1 DEF Begin
    <3>2. run \in [Runs -> Run] /\ run[r] \in Run OBVIOUS
    <3>3. CASE run' = [run EXCEPT ![r].at = "over", ![r].result = "rejected", ![r].settled = "resolved"]
      <4> DEFINE c == [run[r] EXCEPT !.at = "over", !.result = "rejected", !.settled = "resolved"]
      <4>1. c \in Run BY <3>2 DEF Run
      <4>2. run' = [run EXCEPT ![r] = c] BY <3>2, <3>3
      <4> HIDE DEF c
      <4> QED BY <3>2, <4>1, <4>2, OneRunChanges
    <3>4. CASE run' = [run EXCEPT ![r].at = "starting"]
      <4> DEFINE c == [run[r] EXCEPT !.at = "starting"]
      <4>1. c \in Run BY <3>2 DEF Run
      <4>2. run' = [run EXCEPT ![r] = c] BY <3>2, <3>4
      <4> HIDE DEF c
      <4> QED BY <3>2, <4>1, <4>2, OneRunChanges
    <3> QED BY <3>1, <3>3, <3>4
  <2> QED BY <1>1, <2>1 DEF Begin
<1>2. CASE Start(r)
  <2> DEFINE l == [Line("run", Trace(r)) EXCEPT !.of = r]
  <2>1. l \in Lines
    <3>1. Line("run", Trace(r)) \in Lines BY LineType DEF Kinds
    <3> QED BY <3>1 DEF Lines
  <2>2. CASE Pending(Trace(r)) # {}
    <3>1. run' = [PendingEnded(Trace(r)) EXCEPT ![r].at = "over"] /\ down' = down
          /\ UNCHANGED <<plan, child, proc, up, progress, calls, work, leases, history>>
      BY <1>2, <2>2 DEF Start
    <3>2. run' \in [Runs -> Run]
      <4>1. Trace(r) \in Traces /\ PendingEnded(Trace(r)) \in [Runs -> Run] BY PendingEndedType
      <4> DEFINE ended == PendingEnded(Trace(r))
                 c == [ended[r] EXCEPT !.at = "over"]
      <4>2. ended \in [Runs -> Run] /\ ended[r] \in Run BY <4>1
      <4>3. run' = [ended EXCEPT ![r] = c] BY <3>1
      <4> HIDE DEF ended
      <4>4. c \in Run BY <4>2 DEF Run
      <4> HIDE DEF c
      <4> QED BY <4>2, <4>3, <4>4, OneRunChanges
    <3> QED BY <3>1, <3>2
  <2>3. CASE Pending(Trace(r)) = {} /\ run[r].aborted
    <3>1. run' = [run EXCEPT ![r] = EndedWithError(@)] /\ down' = down
          /\ UNCHANGED <<plan, child, proc, up, progress, calls, work, leases, history>>
      BY <1>2, <2>3 DEF Start
    <3>2. run' \in [Runs -> Run] BY <3>1, EndedType
    <3> QED BY <3>1, <3>2
  <2>4. CASE Pending(Trace(r)) = {} /\ ~run[r].aborted
    <3> HIDE DEF l
    <3>1. run' = [run EXCEPT ![r].at = "pending"] /\ Sent(<<l>>)
          /\ UNCHANGED <<plan, child, proc, up, progress, calls, work, leases, history>>
      BY <1>2, <2>4 DEF Start, l
    <3>2. down' \in Seq(Lines) BY <2>1, <3>1, SentOne
    <3>3. run' \in [Runs -> Run]
      <4> DEFINE c == [run[r] EXCEPT !.at = "pending"]
      <4>1. run \in [Runs -> Run] /\ run[r] \in Run OBVIOUS
      <4>2. c \in Run BY <4>1 DEF Run
      <4>3. run' = [run EXCEPT ![r] = c] BY <3>1
      <4> HIDE DEF c
      <4> QED BY <4>1, <4>2, <4>3, OneRunChanges
    <3> QED BY <3>1, <3>2, <3>3
  <2> QED BY <2>2, <2>3, <2>4
<1>3. CASE Abort(r)
  <2>1. Line("abort", Trace(r)) \in Lines BY LineType DEF Kinds
  <2>2. down' \in Seq(Lines) BY <1>3, <2>1, SentOne DEF Abort
  <2>3. plan' \in [trace : [Runs -> Traces], calls : [Runs -> Nat], deaths : Nat, aborts : Nat, prompts : BOOLEAN]
    BY <1>3, PlanType DEF Abort
  <2>4. run' \in [Runs -> Run] /\ calls' \in [Runs -> Calls]
    <3>1. /\ run' = [run EXCEPT ![r].aborted = TRUE]
          /\ calls' = [calls EXCEPT ![r].token = IF @ = "live" THEN "revoked" ELSE @]
      BY <1>3 DEF Abort
    <3> DEFINE c == [run[r] EXCEPT !.aborted = TRUE]
               d == [calls[r] EXCEPT !.token = IF @ = "live" THEN "revoked" ELSE @]
    <3>2. run \in [Runs -> Run] /\ run[r] \in Run /\ calls \in [Runs -> Calls] /\ calls[r] \in Calls OBVIOUS
    <3>3. run' = [run EXCEPT ![r] = c] BY <3>1
    <3>4. calls' = [calls EXCEPT ![r] = d] BY <3>1
    <3>5. c \in Run BY <3>2 DEF Run
    <3>6. d \in Calls BY <3>2 DEF Calls
    <3> HIDE DEF c, d
    <3>7. run' \in [Runs -> Run] BY <3>2, <3>3, <3>5, OneRunChanges
    <3>8. calls' \in [Runs -> Calls] BY <3>2, <3>4, <3>6
    <3> QED BY <3>7, <3>8
  <2> QED BY <1>3, <2>2, <2>3, <2>4 DEF Abort
<1>4. CASE Prepare(r)
  <2>1. Line("prepared", Trace(r)) \in Lines BY LineType DEF Kinds
  <2>2. UNCHANGED <<plan, child, proc, up, progress, work, leases>> BY <1>4 DEF Prepare
  <2>3. CASE /\ calls' = [calls EXCEPT ![r].token = IF Retired(r) THEN "revoked" ELSE "live"]
             /\ run' = [run EXCEPT ![r].preparing = FALSE, ![r].prepared = run[r].at = "pending"]
             /\ IF run[r].at = "pending" THEN Sent(<<Line("prepared", Trace(r))>>) ELSE UNCHANGED down
             /\ UNCHANGED history
    <3>1. down' \in Seq(Lines) BY <2>1, <2>3, SentOne
    <3>2. run' \in [Runs -> Run]
      <4> DEFINE c == [run[r] EXCEPT !.preparing = FALSE, !.prepared = run[r].at = "pending"]
      <4>1. run \in [Runs -> Run] /\ run[r] \in Run OBVIOUS
      <4>2. c \in Run BY <4>1 DEF Run
      <4>3. run' = [run EXCEPT ![r] = c] BY <2>3
      <4> HIDE DEF c
      <4> QED BY <4>1, <4>2, <4>3, OneRunChanges
    <3>3. calls' \in [Runs -> Calls]
      <4> SUFFICES ASSUME NEW o \in Runs PROVE calls'[o] \in Calls BY <2>3
      <4>1. calls[o] \in Calls OBVIOUS
      <4> QED BY <2>3, <4>1 DEF Calls
    <3> QED BY <2>2, <2>3, <3>1, <3>2, <3>3
  <2>4. CASE /\ run' = [PendingEnded(Trace(r)) EXCEPT ![r].preparing = FALSE]
             /\ history' = [history EXCEPT ![r].unprepared = TRUE]
             /\ UNCHANGED <<calls, down>>
    <3>1. run' \in [Runs -> Run]
      <4>1. Trace(r) \in Traces /\ PendingEnded(Trace(r)) \in [Runs -> Run] BY PendingEndedType
      <4> DEFINE ended == PendingEnded(Trace(r))
                 c == [ended[r] EXCEPT !.preparing = FALSE]
      <4>2. ended \in [Runs -> Run] /\ ended[r] \in Run BY <4>1
      <4>3. run' = [ended EXCEPT ![r] = c] BY <2>4
      <4> HIDE DEF ended
      <4>4. c \in Run BY <4>2 DEF Run
      <4> HIDE DEF c
      <4> QED BY <4>2, <4>3, <4>4, OneRunChanges
    <3>2. history' \in [Runs -> [text : Nat, observed : Nat, opened : BOOLEAN, unprepared : BOOLEAN]] BY <2>4
    <3> QED BY <2>2, <2>4, <3>1, <3>2
  <2> QED BY <1>4, <2>3, <2>4 DEF Prepare
<1>5. CASE Forward(r)
  <2> DEFINE l == [Line("progress", Trace(r)) EXCEPT !.snapshot = Snapshot(progress[r])]
  <2>1. l \in Lines
    <3>1. Line("progress", Trace(r)) \in Lines BY LineType DEF Kinds
    <3>2. Snapshot(progress[r]) \in [revision : Nat, batch : Nat, active : Nat] BY SnapshotType
    <3> QED BY <3>1, <3>2 DEF Lines
  <2> HIDE DEF l
  <2>2. Sent(<<l>>) BY <1>5 DEF Forward, l
  <2>3. down' \in Seq(Lines) BY <2>1, <2>2, SentOne
  <2>4. run' \in [Runs -> Run]
    <3>1. run' = [run EXCEPT ![r].sent = progress[r].revision] /\ progress[r].revision \in Nat
      BY <1>5 DEF Forward, Progress
    <3> SUFFICES ASSUME NEW o \in Runs PROVE run'[o] \in Run BY <3>1
    <3>2. run[o] \in Run OBVIOUS
    <3> QED BY <3>1, <3>2 DEF Run
  <2> QED BY <1>5, <2>3, <2>4 DEF Forward
<1> QED BY <1>1, <1>2, <1>3, <1>4, <1>5

LEMMA FailureTypes ==
  ASSUME TypesInv, NEW r \in Runs, LocalFailure(r)
  PROVE  run' \in [Runs -> Run] /\ down' \in Seq(Lines)
<1> USE DEF TypesInv
<1>1. run' \in [Runs -> Run]
  <2>1. run' = [run EXCEPT ![r].failed = TRUE] BY DEF LocalFailure
  <2> SUFFICES ASSUME NEW o \in Runs PROVE run'[o] \in Run BY <2>1
  <2>2. run[o] \in Run OBVIOUS
  <2> QED BY <2>1, <2>2 DEF Run
<1>2. Line("abort", Trace(r)) \in Lines BY TraceType, LineType DEF Kinds
<1>3. down' = down \/ Sent(<<Line("abort", Trace(r))>>) BY DEF LocalFailure
<1> QED BY <1>1, <1>2, <1>3, SentOne

LEMMA HearsTypes ==
  ASSUME TypesInv, Hears
  PROVE  TypesInv'
<1> USE DEF TypesInv
<1>1. up # <<>> /\ up' = Tail(up)
  BY DEF Hears, HearReady, HearNothing, HearText, HearSelected, HearObserved, HearBegin, HearCommit, HearResult,
         HearError, HearSettled, HearFor, Hear
<1>2. Head(up) \in Lines /\ up' \in Seq(Lines) BY <1>1, ReadType
<1>3. CASE HearReady BY <1>2, <1>3 DEF HearReady
<1>4. CASE HearNothing BY <1>2, <1>4 DEF HearNothing
<1>5. ASSUME NEW r \in Runs PROVE run[r] \in Run /\ calls[r] \in Calls /\ progress[r] \in Progress /\ Trace(r) \in Traces
  BY TraceType
<1>6. ASSUME NEW r \in Runs, HearText(r) PROVE TypesInv'
  <2>1. run' \in [Runs -> Run]
    <3>1. run' = [run EXCEPT ![r].text = @ + 1] BY <1>6 DEF HearText
    <3> SUFFICES ASSUME NEW o \in Runs PROVE run'[o] \in Run BY <3>1
    <3>2. run[o] \in Run OBVIOUS
    <3>3. run[o].text + 1 \in Nat BY <3>2 DEF Run
    <3> QED BY <3>1, <3>2, <3>3 DEF Run
  <2> QED BY <1>2, <1>6, <2>1 DEF HearText
<1>7. ASSUME NEW r \in Runs, HearSelected(r) PROVE TypesInv'
  <2>1. run' \in [Runs -> Run]
    <3>1. run' = [run EXCEPT ![r].preparing = TRUE] BY <1>7 DEF HearSelected
    <3> SUFFICES ASSUME NEW o \in Runs PROVE run'[o] \in Run BY <3>1
    <3>2. run[o] \in Run OBVIOUS
    <3> QED BY <3>1, <3>2 DEF Run
  <2> QED BY <1>2, <1>7, <2>1 DEF HearSelected
<1>8. ASSUME NEW r \in Runs, HearObserved(r) PROVE TypesInv'
  <2>1. Head(up).n \in Nat BY <1>2 DEF Lines
  <2>2. Observed(progress[r], Head(up).n) \in Progress BY <1>5, <2>1, ProgressSteps
  <2>3. \/ progress' = [progress EXCEPT ![r] = Observed(@, Head(up).n)] /\ UNCHANGED <<run, down>>
        \/ LocalFailure(r) /\ UNCHANGED progress
    BY <1>8 DEF HearObserved
  <2>4. UNCHANGED <<plan, child, proc, calls, work, leases, history>> BY <1>8 DEF HearObserved
  <2>5. CASE progress' = [progress EXCEPT ![r] = Observed(@, Head(up).n)] /\ UNCHANGED <<run, down>>
    <3>1. progress' \in [Runs -> Progress] BY <2>2, <2>5
    <3> QED BY <1>2, <2>4, <2>5, <3>1
  <2>6. CASE LocalFailure(r) /\ UNCHANGED progress BY <1>2, <2>4, <2>6, FailureTypes
  <2> QED BY <2>3, <2>5, <2>6
<1>9. ASSUME NEW r \in Runs, HearBegin(r) PROVE TypesInv'
  <2> DEFINE n == IF Quiet(r) \/ calls[r].committed THEN calls[r].revision + 1 ELSE 0
             l == [Line("began", Trace(r)) EXCEPT !.request = Head(up).request, !.n = n]
  <2>1. UNCHANGED <<plan, child, proc, progress, calls, work, leases, history>> BY <1>9 DEF HearBegin
  <2>2. l \in Lines
    <3>1. Line("began", Trace(r)) \in Lines BY <1>5, LineType DEF Kinds
    <3>2. Head(up).request \in 0 .. 2 BY <1>2 DEF Lines
    <3>3. n \in Nat BY <1>5 DEF Calls
    <3> HIDE DEF n
    <3> QED BY <3>1, <3>2, <3>3 DEF Lines
  <2>3. CASE calls[r].token # "live" BY <1>2, <1>9, <2>1, <2>3, FailureTypes DEF HearBegin, Throws
  <2>4. CASE calls[r].token = "live"
    <3>1. run' = run /\ (down' = down \/ Sent(<<l>>)) BY <1>9, <2>4 DEF HearBegin
    <3> HIDE DEF l
    <3>2. down' \in Seq(Lines) BY <2>2, <3>1, SentOne
    <3> QED BY <1>2, <2>1, <3>1, <3>2
  <2> QED BY <2>3, <2>4
<1>10. ASSUME NEW r \in Runs, HearCommit(r) PROVE TypesInv'
  <2> DEFINE committed == Commits(r, Head(up).n)
             l == [Line("committed", Trace(r)) EXCEPT !.request = Head(up).request, !.n = IF committed THEN 1 ELSE 0]
  <2>1. UNCHANGED <<plan, child, proc, progress, work, leases, history>> BY <1>10 DEF HearCommit
  <2>2. l \in Lines
    <3>1. Line("committed", Trace(r)) \in Lines BY <1>5, LineType DEF Kinds
    <3>2. Head(up).request \in 0 .. 2 BY <1>2 DEF Lines
    <3> QED BY <3>1, <3>2 DEF Lines
  <2>3. CASE calls[r].token # "live" BY <1>2, <1>10, <2>1, <2>3, FailureTypes DEF HearCommit, Throws
  <2>4. CASE calls[r].token = "live"
    <3>1. run' = run /\ (down' = down \/ Sent(<<l>>)) /\ calls' = [calls EXCEPT ![r].committed = committed]
      BY <1>10, <2>4 DEF HearCommit
    <3>2. committed \in BOOLEAN BY <1>5 DEF Commits, Calls
    <3>3. calls' \in [Runs -> Calls]
      <4> HIDE DEF committed
      <4> DEFINE d == [calls[r] EXCEPT !.committed = committed]
      <4>1. calls \in [Runs -> Calls] /\ calls[r] \in Calls BY <1>5
      <4>2. d \in Calls BY <3>2, <4>1 DEF Calls
      <4>3. calls' = [calls EXCEPT ![r] = d] BY <3>1
      <4> HIDE DEF d
      <4> QED BY <4>1, <4>2, <4>3
    <3> HIDE DEF l
    <3>4. down' \in Seq(Lines) BY <2>2, <3>1, SentOne
    <3> QED BY <1>2, <2>1, <3>1, <3>3, <3>4
  <2> QED BY <2>3, <2>4
<1>11. ASSUME NEW r \in Runs, HearResult(r) PROVE TypesInv'
  <2>1. run' \in [Runs -> Run]
    <3>1. run' = [run EXCEPT ![r].result = IF @ # "none" THEN @ ELSE IF run[r].failed THEN "rejected" ELSE "resolved"]
      BY <1>11 DEF HearResult
    <3> DEFINE c == [run[r] EXCEPT !.result = IF run[r].result # "none" THEN run[r].result
                                              ELSE IF run[r].failed THEN "rejected" ELSE "resolved"]
    <3>2. run[r] \in Run BY <1>5
    <3>3. c \in Run BY <3>2 DEF Run
    <3>4. run' = [run EXCEPT ![r] = c] BY <3>1
    <3> HIDE DEF c
    <3> QED BY <1>5, <3>3, <3>4, OneRunChanges
  <2> QED BY <1>2, <1>11, <2>1 DEF HearResult
<1>12. ASSUME NEW r \in Runs, HearError(r) PROVE TypesInv'
  <2>1. run' \in [Runs -> Run]
    <3>1. run' = [run EXCEPT ![r].result = IF @ = "none" THEN "rejected" ELSE @] BY <1>12 DEF HearError
    <3> DEFINE c == [run[r] EXCEPT !.result = IF run[r].result = "none" THEN "rejected" ELSE run[r].result]
    <3>2. run[r] \in Run BY <1>5
    <3>3. c \in Run BY <3>2 DEF Run
    <3>4. run' = [run EXCEPT ![r] = c] BY <3>1
    <3> HIDE DEF c
    <3> QED BY <1>5, <3>3, <3>4, OneRunChanges
  <2> QED BY <1>2, <1>12, <2>1 DEF HearError
<1>13. ASSUME NEW r \in Runs, HearSettled(r) PROVE TypesInv'
  <2> DEFINE settled == [run[r] EXCEPT !.at = "over", !.prepared = FALSE, !.settled = "resolved"]
  <2>1. settled \in Run
    <3>1. run[r] \in Run BY <1>5
    <3> QED BY <3>1 DEF Run
  <2>2. run' = [run EXCEPT ![r] = IF run[r].result = "none" THEN EndedWithError(run[r]) ELSE settled]
    BY <1>13 DEF HearSettled
  <2> HIDE DEF settled
  <2>3. run' \in [Runs -> Run] BY <1>5, <2>1, <2>2, EndedType
  <2> QED BY <1>2, <1>13, <2>3 DEF HearSettled
<1> QED BY <1>3, <1>4, <1>6, <1>7, <1>8, <1>9, <1>10, <1>11, <1>12, <1>13 DEF Hears

LEMMA CallNumbers ==
  ASSUME NEW c \in Calls
  PROVE  c.queued + 1 \in Nat /\ c.revision + 1 \in Nat
BY DEF Calls

LEMMA RoundTypes ==
  ASSUME TypesInv, NEW r \in Runs, Call(r) \/ Batch(r) \/ Emit(r) \/ Answer(r) \/ Retire(r)
  PROVE  TypesInv'
<1> USE DEF TypesInv
<1>1. ASSUME NEW o \in Runs PROVE run[o] \in Run /\ calls[o] \in Calls /\ progress[o] \in Progress
  OBVIOUS
<1>2. CASE Call(r)
  <2>1. calls' = [calls EXCEPT ![r].queued = @ + 1, ![r].revision = @ + 1] BY <1>2 DEF Call
  <2>2. calls' \in [Runs -> Calls]
    <3> SUFFICES ASSUME NEW o \in Runs PROVE calls'[o] \in Calls BY <2>1
    <3>1. calls[o] \in Calls OBVIOUS
    <3>2. calls[o].queued + 1 \in Nat /\ calls[o].revision + 1 \in Nat BY <3>1, CallNumbers
    <3> QED BY <2>1, <3>1, <3>2 DEF Calls
  <2>3. plan' \in [trace : [Runs -> Traces], calls : [Runs -> Nat], deaths : Nat, aborts : Nat, prompts : BOOLEAN]
    BY <1>2, PlanType DEF Call
  <2> QED BY <1>2, <2>2, <2>3 DEF Call
<1>3. CASE Batch(r)
  <2>1. progress' = [progress EXCEPT ![r] = Recorded(progress[r], calls[r].queued)]
        /\ calls' = [calls EXCEPT ![r].boundary = TRUE, ![r].queued = 0]
    BY <1>3 DEF Batch
  <2>2. Recorded(progress[r], calls[r].queued) \in Progress
    <3>1. calls[r].queued \in Nat BY <1>1 DEF Calls
    <3> QED BY <1>1, <3>1, ProgressSteps
  <2>3. progress' \in [Runs -> Progress] BY <2>1, <2>2
  <2>4. calls' \in [Runs -> Calls]
    <3> SUFFICES ASSUME NEW o \in Runs PROVE calls'[o] \in Calls BY <2>1
    <3>1. calls[o] \in Calls OBVIOUS
    <3> QED BY <2>1, <3>1 DEF Calls
  <2> QED BY <1>3, <2>3, <2>4 DEF Batch
<1>4. CASE Emit(r)
  <2>1. calls' = [calls EXCEPT ![r].boundary = FALSE, ![r].emitted = progress[r].batch] BY <1>4 DEF Emit
  <2>2. calls' \in [Runs -> Calls]
    <3> SUFFICES ASSUME NEW o \in Runs PROVE calls'[o] \in Calls BY <2>1
    <3>1. progress[r].batch \in Nat BY <1>1 DEF Progress
    <3>2. calls[o] \in Calls OBVIOUS
    <3> QED BY <2>1, <3>1, <3>2 DEF Calls
  <2> QED BY <1>4, <2>2 DEF Emit
<1>5. CASE Answer(r)
  <2>1. progress' = [progress EXCEPT ![r] = Answered(progress[r])]
        /\ calls' = [calls EXCEPT ![r].revision = @ + 1] /\ progress[r].active > 0
    BY <1>5 DEF Answer
  <2>2. Answered(progress[r]) \in Progress BY <1>1, <2>1, ProgressSteps
  <2>3. progress' \in [Runs -> Progress] BY <2>1, <2>2
  <2>4. calls' \in [Runs -> Calls]
    <3> SUFFICES ASSUME NEW o \in Runs PROVE calls'[o] \in Calls BY <2>1
    <3>1. calls[o] \in Calls OBVIOUS
    <3>2. calls[o].revision + 1 \in Nat BY <3>1, CallNumbers
    <3> QED BY <2>1, <3>1, <3>2 DEF Calls
  <2> QED BY <1>5, <2>3, <2>4 DEF Answer
<1>6. CASE Retire(r)
  <2>1. run' = [run EXCEPT ![r].aborted = TRUE]
        /\ calls' = [calls EXCEPT ![r].token = IF @ = "live" THEN "revoked" ELSE @]
    BY <1>6 DEF Retire
  <2>2. run' \in [Runs -> Run] /\ calls' \in [Runs -> Calls]
    <3> SUFFICES ASSUME NEW o \in Runs PROVE run'[o] \in Run /\ calls'[o] \in Calls BY <2>1
    <3>1. run[o] \in Run /\ calls[o] \in Calls OBVIOUS
    <3>2. run'[o] \in Run BY <2>1, <3>1 DEF Run
    <3>3. calls'[o] \in Calls BY <2>1, <3>1 DEF Calls
    <3> QED BY <3>2, <3>3
  <2> QED BY <1>6, <2>2 DEF Retire
<1> QED BY <1>2, <1>3, <1>4, <1>5, <1>6

LEMMA ProcessTypes ==
  ASSUME TypesInv, ProcInv, Boot \/ Die \/ Exit
  PROVE  TypesInv'
<1> USE DEF TypesInv
<1>1. CASE Boot
  <2>1. Traces # {}
    <3>1. Runs # {} BY <1>1 DEF Boot, ProcInv
    <3> QED BY <3>1, TraceType
  <2>2. (CHOOSE t \in Traces : TRUE) \in Traces BY <2>1
  <2>3. Line("ready", CHOOSE t \in Traces : TRUE) \in Lines BY <2>2, LineType DEF Kinds
  <2>4. up' \in Seq(Lines) BY <1>1, <2>3, AppendProperties DEF Boot
  <2> QED BY <1>1, <2>4 DEF Boot
<1>2. CASE Die
  <2>1. NoWork \in Work BY DEF NoWork, Work, Steps, Progress, NewProgress
  <2>2. work' \in [Traces -> Work] BY <1>2, <2>1 DEF Die
  <2>3. plan' \in [trace : [Runs -> Traces], calls : [Runs -> Nat], deaths : Nat, aborts : Nat, prompts : BOOLEAN]
    <3>1. Runs # {} BY <1>2 DEF Die, Alive, ProcInv
    <3> QED BY <1>2, <3>1, PlanType DEF Die
  <2>4. UNCHANGED <<child, up, run, progress, calls, leases, history>> /\ down' = <<>> /\ proc' = "gone"
    BY <1>2 DEF Die
  <2> QED BY <2>2, <2>3, <2>4
<1>3. CASE Exit
  <2>1. run' = [o \in Runs |-> Exited(run[o])] BY <1>3 DEF Exit
  <2>2. run' \in [Runs -> Run]
    <3> SUFFICES ASSUME NEW o \in Runs PROVE run'[o] \in Run BY <2>1
    <3>1. run[o] \in Run OBVIOUS
    <3> QED BY <2>1, <3>1, EndedType DEF Exited
  <2>3. plan' \in [trace : [Runs -> Traces], calls : [Runs -> Nat], deaths : Nat, aborts : Nat, prompts : BOOLEAN]
    <3>1. Runs # {} BY <1>3 DEF Exit, ProcInv
    <3>2. plan' = [plan EXCEPT !.deaths = IF proc = "gone" THEN @ ELSE @ - 1] /\ (proc = "gone" \/ plan.deaths > 0)
      BY <1>3 DEF Exit
    <3>3. CASE proc = "gone"
      <4>1. plan' = [plan EXCEPT !.deaths = @] BY <3>2, <3>3
      <4> QED BY <4>1
    <3>4. CASE proc # "gone" BY <3>1, <3>2, <3>4, PlanType
    <3> QED BY <3>3, <3>4
  <2>4. up' \in Seq(Lines) /\ down' \in Seq(Lines) BY <1>3 DEF Exit
  <2> QED BY <1>3, <2>2, <2>3, <2>4 DEF Exit
<1> QED BY <1>1, <1>2, <1>3

LEMMA NoWorkType == NoWork \in Work
BY DEF NoWork, Work, Steps, Progress, NewProgress

LEMMA ReadsTypes ==
  ASSUME TypesInv, Reads
  PROVE  TypesInv'
<1> USE DEF TypesInv
<1>1. PICK t \in Traces : ReadRun(t) \/ ReadAbort(t) \/ ReadPrepared(t) \/ ReadBegan(t) \/ ReadCommitted(t) \/ ReadProgress(t)
  BY DEF Reads
<1>2. /\ down # <<>> /\ down' = Tail(down)
      /\ UNCHANGED <<plan, child, proc, run, progress, calls, leases, history>>
  BY <1>1 DEF ReadRun, ReadAbort, ReadPrepared, ReadBegan, ReadCommitted, ReadProgress, Read
<1>3. Head(down) \in Lines /\ down' \in Seq(Lines) BY <1>2, ReadType
<1>4. Line("error", t) \in Lines BY LineType DEF Kinds
<1>5. Append(up, Line("error", t)) \in Seq(Lines) BY <1>4, AppendProperties
<1>6. work[t] \in Work OBVIOUS
<1>7. ASSUME NEW w \in Work, work' = [work EXCEPT ![t] = w] PROVE work' \in [Traces -> Work] BY <1>7
<1>8. CASE ReadRun(t)
  <2> DEFINE w == [NoWork EXCEPT !.of = Head(down).of, !.at = "lease"]
  <2>1. w \in Work
    <3>1. Head(down).of \in Runs \cup {NoRun} BY <1>3 DEF Lines
    <3> QED BY <3>1, NoWorkType DEF Work, Steps
  <2>2. \/ work' = [work EXCEPT ![t] = w] /\ up' = up
        \/ work' = work /\ up' = Append(up, Line("error", t))
    BY <1>8 DEF ReadRun
  <2> HIDE DEF w
  <2> QED BY <1>2, <1>3, <1>5, <1>7, <2>1, <2>2
<1>9. CASE ReadAbort(t)
  <2> DEFINE w == [work[t] EXCEPT !.aborted = TRUE, !.told = IF @ = "none" THEN "cancelled" ELSE @,
                                  !.at = IF @ \in {"begin", "commit"} THEN "failed" ELSE @]
  <2>1. w \in Work BY <1>6 DEF Work, Steps
  <2>2. up' = up /\ (work' = work \/ work' = [work EXCEPT ![t] = w]) BY <1>9 DEF ReadAbort
  <2> HIDE DEF w
  <2> QED BY <1>2, <1>3, <1>7, <2>1, <2>2
<1>10. CASE ReadPrepared(t)
  <2> DEFINE w == [work[t] EXCEPT !.told = IF @ = "none" THEN "given" ELSE @]
  <2>1. w \in Work BY <1>6 DEF Work
  <2>2. \/ up' = up /\ work' = [work EXCEPT ![t] = w]
        \/ up' = Append(up, Line("error", t)) /\ work' = work
    BY <1>10 DEF ReadPrepared
  <2> HIDE DEF w
  <2> QED BY <1>2, <1>3, <1>5, <1>7, <2>1, <2>2
<1>11. CASE ReadBegan(t)
  <2> DEFINE w == [work[t] EXCEPT !.at = "answer", !.fence = Head(down).n]
  <2>1. w \in Work
    <3>1. Head(down).n \in Nat BY <1>3 DEF Lines
    <3> QED BY <1>6, <3>1 DEF Work, Steps
  <2>2. up' = up /\ (work' = work \/ work' = [work EXCEPT ![t] = w]) BY <1>11 DEF ReadBegan
  <2> HIDE DEF w
  <2> QED BY <1>2, <1>3, <1>7, <2>1, <2>2
<1>12. CASE ReadCommitted(t)
  <2> DEFINE w == [work[t] EXCEPT !.at = IF Head(down).n = 1 THEN "done" ELSE "answer",
                                  !.fence = IF Head(down).n = 1 THEN @ ELSE 0]
  <2>1. w \in Work BY <1>6 DEF Work, Steps
  <2>2. up' = up /\ (work' = work \/ work' = [work EXCEPT ![t] = w]) BY <1>12 DEF ReadCommitted
  <2> HIDE DEF w
  <2> QED BY <1>2, <1>3, <1>7, <2>1, <2>2
<1>13. CASE ReadProgress(t)
  <2> DEFINE w == [work[t] EXCEPT !.mirror = Applied(@, Head(down).snapshot)]
  <2>1. w \in Work
    <3>1. Head(down).snapshot \in [revision : Nat, batch : Nat, active : Nat] BY <1>3 DEF Lines
    <3>2. work[t].mirror \in Progress BY <1>6 DEF Work
    <3>3. Applied(work[t].mirror, Head(down).snapshot) \in Progress BY <3>1, <3>2, AppliedType
    <3> QED BY <1>6, <3>3 DEF Work
  <2>2. up' = up /\ (work' = work \/ work' = [work EXCEPT ![t] = w]) BY <1>13 DEF ReadProgress
  <2> HIDE DEF w
  <2> QED BY <1>2, <1>3, <1>7, <2>1, <2>2
<1> QED BY <1>1, <1>8, <1>9, <1>10, <1>11, <1>12, <1>13

\* What the helper's turn of a trace writes in a step: at most three lines.
LEMMA WritesType ==
  ASSUME up \in Seq(Lines), NEW s \in Seq(Lines), Writes(s)
  PROVE  up' \in Seq(Lines)
BY ConcatProperties DEF Writes

LEMMA Tuples ==
  ASSUME NEW a \in Lines, NEW b \in Lines, NEW c \in Lines
  PROVE  <<a>> \o <<b>> = <<a, b>> /\ <<a, b>> \o <<c>> = <<a, b, c>>
<1>1. /\ <<a>> \in Seq(Lines) /\ <<b>> \in Seq(Lines) /\ <<c>> \in Seq(Lines)
      /\ <<a, b>> \in Seq(Lines) /\ <<a, b, c>> \in Seq(Lines)
  OBVIOUS
<1>2. /\ Len(<<a>>) = 1 /\ Len(<<b>>) = 1 /\ Len(<<c>>) = 1 /\ Len(<<a, b>>) = 2 /\ Len(<<a, b, c>>) = 3
  OBVIOUS
<1>3. /\ <<a>> \o <<b>> \in Seq(Lines) /\ Len(<<a>> \o <<b>>) = 2
      /\ (<<a>> \o <<b>>)[1] = a /\ (<<a>> \o <<b>>)[2] = b
  BY <1>1, <1>2, ConcatProperties
<1>4. <<a>> \o <<b>> = <<a, b>>
  <2>1. \A i \in 1 .. 2 : (<<a>> \o <<b>>)[i] = <<a, b>>[i] BY <1>3
  <2> QED BY <1>1, <1>2, <1>3, <2>1, SeqEqual
<1>5. /\ <<a, b>> \o <<c>> \in Seq(Lines) /\ Len(<<a, b>> \o <<c>>) = 3
      /\ (<<a, b>> \o <<c>>)[1] = a /\ (<<a, b>> \o <<c>>)[2] = b /\ (<<a, b>> \o <<c>>)[3] = c
  BY <1>1, <1>2, ConcatProperties
<1>6. <<a, b>> \o <<c>> = <<a, b, c>>
  <2>1. \A i \in 1 .. 3 : (<<a, b>> \o <<c>>)[i] = <<a, b, c>>[i] BY <1>5
  <2> QED BY <1>1, <1>2, <1>5, <2>1, SeqEqual
<1> QED BY <1>4, <1>6

LEMMA OverType ==
  ASSUME TypesInv, NEW t \in Traces, NEW kind \in Kinds, Over(t, <<Line(kind, t)>>)
  PROVE  up' = Append(Append(up, Line(kind, t)), Line("settled", t)) /\ up' \in Seq(Lines)
<1>1. Line(kind, t) \in Lines /\ Line("settled", t) \in Lines BY LineType DEF Kinds
<1> DEFINE a == Line(kind, t)  b == Line("settled", t)
<1>2. Writes(<<a>> \o <<b>>) BY DEF Over
<1>3. <<a>> \o <<b>> = <<a, b>> BY <1>1, Tuples
<1>4. Writes(<<a, b>>) BY <1>2, <1>3
<1> HIDE DEF a, b
<1>5. up' = Append(Append(up, a), b) /\ up' \in Seq(Lines)
  <2>1. a \in Lines /\ b \in Lines BY <1>1 DEF a, b
  <2> QED BY <1>4, <2>1, WritesTwo DEF TypesInv
<1> QED BY <1>5 DEF a, b

LEMMA OverTypeTwo ==
  ASSUME TypesInv, NEW t \in Traces, NEW one \in Kinds, NEW two \in Kinds, Over(t, <<Line(one, t), Line(two, t)>>)
  PROVE  /\ up' = Append(Append(Append(up, Line(one, t)), Line(two, t)), Line("settled", t))
         /\ up' \in Seq(Lines)
<1>1. Line(one, t) \in Lines /\ Line(two, t) \in Lines /\ Line("settled", t) \in Lines BY LineType DEF Kinds
<1> DEFINE a == Line(one, t)  b == Line(two, t)  c == Line("settled", t)
<1>2. Writes(<<a, b>> \o <<c>>) BY DEF Over
<1>3. <<a, b>> \o <<c>> = <<a, b, c>> BY <1>1, Tuples
<1>4. Writes(<<a, b, c>>) BY <1>2, <1>3
<1> HIDE DEF a, b, c
<1>5. up' = Append(Append(Append(up, a), b), c) /\ up' \in Seq(Lines)
  <2>1. a \in Lines /\ b \in Lines /\ c \in Lines BY <1>1 DEF a, b, c
  <2> QED BY <1>4, <2>1, WritesThree DEF TypesInv
<1> QED BY <1>5 DEF a, b, c

LEMMA HistoryText ==
  ASSUME NEW h \in [text : Nat, observed : Nat, opened : BOOLEAN, unprepared : BOOLEAN]
  PROVE  [h EXCEPT !.text = @ + 1] \in [text : Nat, observed : Nat, opened : BOOLEAN, unprepared : BOOLEAN]
<1>1. h.text + 1 \in Nat OBVIOUS
<1> QED BY <1>1

LEMMA WorksTypes ==
  ASSUME TypesInv, SentInv, NEW t \in Traces, Works(t)
  PROVE  TypesInv'
<1> USE DEF TypesInv
<1>1. /\ work[t].at # "none" /\ UNCHANGED <<plan, child, proc, down, run, progress, calls>>
  BY DEF Works, Lease, Select, Open, Fail, Say, Observe, Ask, Ready, Complete, At
<1>2. work[t] \in Work /\ work[t].of \in Runs BY <1>1 DEF SentInv
<1>3. ASSUME NEW w \in Work, work' = [work EXCEPT ![t] = w] PROVE work' \in [Traces -> Work] BY <1>3
<1>4. leases \cup {work[t].of} \subseteq Runs /\ leases \ {work[t].of} \subseteq Runs BY <1>2
<1>5. ASSUME NEW kind \in Kinds PROVE Line(kind, t) \in Lines BY LineType
<1>6. ASSUME NEW lines, Over(t, lines)
      PROVE  work' = [work EXCEPT ![t] = NoWork] /\ leases' \subseteq Runs
  BY <1>4, <1>6 DEF Over
<1>7. history[work[t].of] \in [text : Nat, observed : Nat, opened : BOOLEAN, unprepared : BOOLEAN] BY <1>2
<1>8. ASSUME NEW h \in [text : Nat, observed : Nat, opened : BOOLEAN, unprepared : BOOLEAN],
             history' = [history EXCEPT ![work[t].of] = h]
      PROVE  history' \in [Runs -> [text : Nat, observed : Nat, opened : BOOLEAN, unprepared : BOOLEAN]]
  BY <1>2, <1>8
<1>9. ASSUME history' = Wrote(t, 1)
      PROVE  history' \in [Runs -> [text : Nat, observed : Nat, opened : BOOLEAN, unprepared : BOOLEAN]]
  <2> DEFINE h == [history[work[t].of] EXCEPT !.text = @ + 1]
  <2>1. h \in [text : Nat, observed : Nat, opened : BOOLEAN, unprepared : BOOLEAN] BY <1>7, HistoryText
  <2>2. history' = [history EXCEPT ![work[t].of] = h] BY <1>9 DEF Wrote
  <2> HIDE DEF h
  <2> QED BY <1>8, <2>1, <2>2
<1>10. CASE Lease(t)
  <2> DEFINE w == [work[t] EXCEPT !.at = "select"]
  <2>1. w \in Work BY <1>2 DEF Work, Steps
  <2>2. history' = history BY <1>10 DEF Lease
  <2>3. CASE leases' = leases \cup {work[t].of} /\ Writes(<<Line("selected", t)>>) /\ work' = [work EXCEPT ![t].at = "select"]
    <3>1. work' = [work EXCEPT ![t] = w] BY <2>3
    <3> HIDE DEF w
    <3>2. up' \in Seq(Lines) BY <1>5, <2>3, WritesOne DEF Kinds
    <3> QED BY <1>1, <1>3, <1>4, <2>1, <2>2, <2>3, <3>1, <3>2
  <2>4. CASE Over(t, <<Line("error", t)>>)
    <3>1. up' \in Seq(Lines) BY <2>4, OverType DEF Kinds
    <3> QED BY <1>1, <1>3, <1>6, <2>2, <2>4, <3>1, NoWorkType
  <2> QED BY <1>10, <2>3, <2>4 DEF Lease
<1>11. CASE Select(t)
  <2> DEFINE w == [work[t] EXCEPT !.at = "page"]
  <2>1. w \in Work BY <1>2 DEF Work, Steps
  <2>2. \/ work' = [work EXCEPT ![t] = w] /\ up' = up
        \/ Writes(<<Line("error", t), Line("settled", t)>>) /\ work' = [work EXCEPT ![t] = NoWork]
    BY <1>11 DEF Select
  <2> HIDE DEF w
  <2>3. up' \in Seq(Lines) BY <1>5, <2>2, WritesTwo DEF Kinds
  <2>4. work' \in [Traces -> Work] BY <1>3, <2>1, <2>2, NoWorkType
  <2> QED BY <1>1, <1>11, <2>3, <2>4 DEF Select
<1>12. CASE Open(t)
  <2> DEFINE w == [work[t] EXCEPT !.at = "answer"]
             h == [history[work[t].of] EXCEPT !.opened = TRUE]
  <2>1. w \in Work /\ h \in [text : Nat, observed : Nat, opened : BOOLEAN, unprepared : BOOLEAN]
    BY <1>2, <1>7 DEF Work, Steps
  <2>2. work' = [work EXCEPT ![t] = w] /\ history' = [history EXCEPT ![work[t].of] = h] /\ UNCHANGED <<up, leases>>
    BY <1>12 DEF Open
  <2> HIDE DEF w, h
  <2> QED BY <1>1, <1>3, <1>8, <2>1, <2>2
<1>13. CASE Fail(t)
  <2>1. Over(t, <<Line("error", t)>>) /\ history' = history BY <1>13 DEF Fail
  <2>2. up' \in Seq(Lines) BY <2>1, OverType DEF Kinds
  <2> QED BY <1>1, <1>3, <1>6, <2>1, <2>2, NoWorkType
<1>14. CASE Say(t)
  <2> DEFINE w == [work[t] EXCEPT !.written = @ + 1, !.fence = 0]
  <2>1. w \in Work
    <3>1. work[t].written + 1 \in Nat BY <1>2 DEF Work
    <3> QED BY <1>2, <3>1 DEF Work
  <2>2. work' = [work EXCEPT ![t] = w] /\ history' = Wrote(t, 1) /\ Writes(<<Line("text", t)>>) /\ leases' = leases
    BY <1>14 DEF Say
  <2> HIDE DEF w
  <2>3. up' \in Seq(Lines) BY <1>5, <2>2, WritesOne DEF Kinds
  <2> QED BY <1>1, <1>3, <1>9, <2>1, <2>2, <2>3
<1>15. CASE Observe(t)
  <2> DEFINE batch == work[t].mirror.batch
             w == [work[t] EXCEPT !.mirror = Observed(@, batch), !.fence = 0]
             h == [history[work[t].of] EXCEPT !.observed = batch]
             l == [Line("observed", t) EXCEPT !.n = batch]
  <2>1. work[t].mirror \in Progress BY <1>2 DEF Work
  <2>2. batch \in Nat BY <2>1 DEF Progress
  <2>3. Observed(work[t].mirror, batch) \in Progress BY <2>1, <2>2, ProgressSteps
  <2>4. w \in Work BY <1>2, <2>3 DEF Work
  <2>5. h \in [text : Nat, observed : Nat, opened : BOOLEAN, unprepared : BOOLEAN] BY <1>7, <2>2
  <2>6. l \in Lines
    <3>1. Line("observed", t) \in Lines BY <1>5 DEF Kinds
    <3> QED BY <2>2, <3>1 DEF Lines
  <2>7. /\ work' = [work EXCEPT ![t] = w] /\ history' = [history EXCEPT ![work[t].of] = h]
        /\ Writes(<<l>>) /\ leases' = leases
    BY <1>15 DEF Observe
  <2> HIDE DEF w, h, l
  <2>8. up' \in Seq(Lines) BY <2>6, <2>7, WritesOne
  <2> QED BY <1>1, <1>3, <1>8, <2>4, <2>5, <2>7, <2>8
<1>16. CASE Ask(t)
  <2> DEFINE at == IF work[t].fence = 0 THEN "begin" ELSE "commit"
             request == NextRequest(work[t].request)
             w == [work[t] EXCEPT !.at = at, !.request = request]
             n == IF at = "commit" THEN work[t].fence - 1 ELSE 0
             l == [Line(at, t) EXCEPT !.request = request, !.n = n]
  <2>1. at \in {"begin", "commit"} /\ (at = "commit" => work[t].fence # 0) OBVIOUS
  <2>2. request \in 0 .. 2 /\ work[t].fence \in Nat
    <3>1. work[t].request \in 0 .. 2 /\ work[t].fence \in Nat BY <1>2 DEF Work
    <3> QED BY <3>1 DEF NextRequest
  <2>3. n \in Nat
    <3> HIDE DEF at
    <3> QED BY <2>1, <2>2
  <2>4. work' = [work EXCEPT ![t] = w] /\ Writes(<<l>>) /\ UNCHANGED <<leases, history>>
    BY <1>16 DEF Ask
  <2> HIDE DEF at, request, n
  <2>5. w \in Work BY <1>2, <2>1, <2>2 DEF Work, Steps
  <2>6. l \in Lines
    <3>1. Line(at, t) \in Lines BY <1>5, <2>1 DEF Kinds
    <3> QED BY <2>2, <2>3, <3>1 DEF Lines
  <2> HIDE DEF w, l
  <2>7. up' \in Seq(Lines) BY <2>4, <2>6, WritesOne
  <2> QED BY <1>1, <1>3, <2>4, <2>5, <2>7
<1>17. CASE Complete(t)
  <2>1. history' = Wrote(t, 1) BY <1>17 DEF Complete
  <2>2. ASSUME NEW last \in {"result", "error"}, Over(t, <<Line("text", t), Line(last, t)>>) PROVE TypesInv'
    <3>1. work' = [work EXCEPT ![t] = NoWork] /\ leases' \subseteq Runs BY <1>6, <2>2
    <3>2. "text" \in Kinds /\ last \in Kinds BY DEF Kinds
    <3>3. up' \in Seq(Lines) BY <2>2, <3>2, OverTypeTwo
    <3> QED BY <1>1, <1>3, <1>9, <2>1, <3>1, <3>3, NoWorkType
  <2>3. Over(t, <<Line("text", t), Line("result", t)>>) \/ Over(t, <<Line("text", t), Line("error", t)>>)
    BY <1>17 DEF Complete, LastLines
  <2> QED BY <2>2, <2>3
<1> QED BY <1>10, <1>11, <1>12, <1>13, <1>14, <1>15, <1>16, <1>17 DEF Works

-----------------------------------------------------------------------------
(* The lines of a pipe, when one is written behind and one read in front.   *)

LEMMA Written ==
  ASSUME NEW s \in Seq(Lines), NEW l \in Lines, NEW kind, NEW t
  PROVE  /\ LinesOf(Append(s, l), kind, t) =
              LinesOf(s, kind, t) \cup (IF l.kind = kind /\ l.trace = t THEN {Len(s) + 1} ELSE {})
         /\ DOMAIN s = 1 .. Len(s) /\ DOMAIN Append(s, l) = 1 .. Len(s) + 1 /\ Len(s) \in Nat
         /\ Append(s, l)[Len(s) + 1] = l /\ \A i \in DOMAIN s : Append(s, l)[i] = s[i]
         /\ LinesOf(s, kind, t) \subseteq 1 .. Len(s)
<1>1. DOMAIN Append(s, l) = 1 .. Len(s) + 1 /\ DOMAIN s = 1 .. Len(s) /\ Len(s) \in Nat
      /\ (\A i \in 1 .. Len(s) : Append(s, l)[i] = s[i]) /\ Append(s, l)[Len(s) + 1] = l
  BY AppendProperties, LenProperties
<1>2. LinesOf(Append(s, l), kind, t) =
        LinesOf(s, kind, t) \cup (IF l.kind = kind /\ l.trace = t THEN {Len(s) + 1} ELSE {})
  BY <1>1 DEF LinesOf
<1> QED BY <1>1, <1>2 DEF LinesOf

LEMMA WrittenReply ==
  ASSUME NEW s \in Seq(Lines), NEW l \in Lines, NEW t
  PROVE  /\ \A kind : Has(Append(s, l), kind, t) <=> Has(s, kind, t) \/ (l.kind = kind /\ l.trace = t)
         /\ Ordered(s, t) /\ (l.trace = t => /\ l.kind \in Own => ~Has(s, "settled", t)
                                             /\ l.kind = "text" => ~Has(s, "result", t))
              => Ordered(Append(s, l), t)
         /\ \A n : ObservedUpTo(s, t, n) /\ (l.trace = t /\ l.kind = "observed" => l.n <= n)
                     => ObservedUpTo(Append(s, l), t, n)
<1>1. ASSUME NEW kind PROVE Has(Append(s, l), kind, t) <=> Has(s, kind, t) \/ (l.kind = kind /\ l.trace = t)
  <2>1. LinesOf(Append(s, l), kind, t) =
          LinesOf(s, kind, t) \cup (IF l.kind = kind /\ l.trace = t THEN {Len(s) + 1} ELSE {})
    BY Written
  <2> QED BY <2>1 DEF Has
<1>2. ASSUME Ordered(s, t),
             l.trace = t => (l.kind \in Own => ~Has(s, "settled", t)) /\ (l.kind = "text" => ~Has(s, "result", t))
      PROVE  Ordered(Append(s, l), t)
  <2>1. ASSUME NEW i \in LinesOf(Append(s, l), "settled", t), NEW kind \in Own,
               NEW j \in LinesOf(Append(s, l), kind, t)
        PROVE  j <= i
    <3>1. /\ i \in LinesOf(s, "settled", t) \/ (l.kind = "settled" /\ l.trace = t /\ i = Len(s) + 1)
          /\ j \in LinesOf(s, kind, t) \/ (l.kind = kind /\ l.trace = t /\ j = Len(s) + 1)
          /\ Len(s) \in Nat
          /\ LinesOf(s, "settled", t) \subseteq 1 .. Len(s) /\ LinesOf(s, kind, t) \subseteq 1 .. Len(s)
      BY Written
    <3>2. CASE i \in LinesOf(s, "settled", t)
      <4>1. Has(s, "settled", t) BY <3>2 DEF Has
      <4>2. j \in LinesOf(s, kind, t) BY <1>2, <3>1, <4>1
      <4> QED BY <1>2, <3>2, <4>2 DEF Ordered
    <3>3. CASE i = Len(s) + 1 BY <3>1, <3>3
    <3> QED BY <3>1, <3>2, <3>3
  <2>2. ASSUME NEW i \in LinesOf(Append(s, l), "result", t), NEW j \in LinesOf(Append(s, l), "text", t)
        PROVE  j < i
    <3>1. /\ i \in LinesOf(s, "result", t) \/ (l.kind = "result" /\ l.trace = t /\ i = Len(s) + 1)
          /\ j \in LinesOf(s, "text", t) \/ (l.kind = "text" /\ l.trace = t /\ j = Len(s) + 1)
          /\ Len(s) \in Nat
          /\ LinesOf(s, "result", t) \subseteq 1 .. Len(s) /\ LinesOf(s, "text", t) \subseteq 1 .. Len(s)
      BY Written
    <3>2. CASE i \in LinesOf(s, "result", t)
      <4>1. Has(s, "result", t) BY <3>2 DEF Has
      <4>2. j \in LinesOf(s, "text", t) BY <1>2, <3>1, <4>1
      <4> QED BY <1>2, <3>2, <4>2 DEF Ordered
    <3>3. CASE l.kind = "result" /\ l.trace = t /\ i = Len(s) + 1
      <4>1. j \in LinesOf(s, "text", t) BY <3>1, <3>3
      <4> QED BY <3>1, <3>3, <4>1
    <3> QED BY <3>1, <3>2, <3>3
  <2> QED BY <2>1, <2>2 DEF Ordered
<1>3. ASSUME NEW n, ObservedUpTo(s, t, n), l.trace = t /\ l.kind = "observed" => l.n <= n
      PROVE  ObservedUpTo(Append(s, l), t, n)
  <2> SUFFICES ASSUME NEW i \in LinesOf(Append(s, l), "observed", t) PROVE Append(s, l)[i].n <= n
    BY DEF ObservedUpTo
  <2>1. /\ i \in LinesOf(s, "observed", t) \/ (l.kind = "observed" /\ l.trace = t /\ i = Len(s) + 1)
        /\ LinesOf(s, "observed", t) \subseteq DOMAIN s
        /\ Append(s, l)[Len(s) + 1] = l /\ \A k \in DOMAIN s : Append(s, l)[k] = s[k]
    BY Written
  <2> QED BY <1>3, <2>1 DEF ObservedUpTo
<1> QED BY <1>1, <1>2, <1>3

LEMMA WrittenRequest ==
  ASSUME NEW s \in Seq(Lines), NEW l \in Lines, NEW t, NEW p, NEW c
  PROVE  /\ Carried(Append(s, l), t) = Carried(s, t) \cup (IF l.kind = "run" /\ l.trace = t THEN {l.of} ELSE {})
         /\ OneRun(s, t) /\ (l.kind = "run" /\ l.trace = t => Carried(s, t) = {}) => OneRun(Append(s, l), t)
         /\ \A q, d : AllHold(s, t, q, d) /\ (l.trace = t => Holds(l, q, d)) => AllHold(Append(s, l), t, q, d)
         /\ BehindHold(s, t, p, c) /\ (l.trace = t => \A r \in Carried(s, t) : Holds(l, p[r], c[r]))
              => BehindHold(Append(s, l), t, p, c)
<1>1. /\ LinesOf(Append(s, l), "run", t) =
           LinesOf(s, "run", t) \cup (IF l.kind = "run" /\ l.trace = t THEN {Len(s) + 1} ELSE {})
      /\ DOMAIN s = 1 .. Len(s) /\ DOMAIN Append(s, l) = 1 .. Len(s) + 1 /\ Len(s) \in Nat
      /\ Append(s, l)[Len(s) + 1] = l /\ \A i \in DOMAIN s : Append(s, l)[i] = s[i]
      /\ LinesOf(s, "run", t) \subseteq 1 .. Len(s)
  BY Written
<1>2. Carried(Append(s, l), t) = Carried(s, t) \cup (IF l.kind = "run" /\ l.trace = t THEN {l.of} ELSE {})
  BY <1>1 DEF Carried
<1>3. ASSUME OneRun(s, t), l.kind = "run" /\ l.trace = t => Carried(s, t) = {} PROVE OneRun(Append(s, l), t)
  <2>1. CASE l.kind = "run" /\ l.trace = t
    <3>1. LinesOf(s, "run", t) = {} BY <1>3, <2>1 DEF Carried
    <3> QED BY <1>1, <3>1 DEF OneRun
  <2>2. CASE ~(l.kind = "run" /\ l.trace = t)
    <3>1. LinesOf(Append(s, l), "run", t) = LinesOf(s, "run", t) BY <1>1, <2>2
    <3> QED BY <1>3, <3>1 DEF OneRun
  <2> QED BY <2>1, <2>2
<1>4. ASSUME NEW q, NEW d, AllHold(s, t, q, d), l.trace = t => Holds(l, q, d) PROVE AllHold(Append(s, l), t, q, d)
  <2> SUFFICES ASSUME NEW j \in DOMAIN Append(s, l), Append(s, l)[j].trace = t PROVE Holds(Append(s, l)[j], q, d)
    BY DEF AllHold
  <2>1. j \in DOMAIN s \/ j = Len(s) + 1 BY <1>1
  <2> QED BY <1>1, <1>4, <2>1 DEF AllHold
<1>5. ASSUME BehindHold(s, t, p, c), l.trace = t => \A r \in Carried(s, t) : Holds(l, p[r], c[r])
      PROVE  BehindHold(Append(s, l), t, p, c)
  <2> DEFINE u == Append(s, l)
  <2> SUFFICES ASSUME NEW i \in LinesOf(u, "run", t), NEW j \in DOMAIN u, j > i, u[j].trace = t
               PROVE  Holds(u[j], p[u[i].of], c[u[i].of])
    BY DEF BehindHold
  <2>1. i \in LinesOf(s, "run", t) /\ u[i] = s[i]
    <3>1. i # Len(s) + 1 BY <1>1
    <3> QED BY <1>1, <3>1
  <2>2. j \in DOMAIN s \/ j = Len(s) + 1 BY <1>1
  <2>3. CASE j \in DOMAIN s
    <3>1. u[j] = s[j] BY <1>1, <2>3
    <3> QED BY <1>5, <2>1, <2>3, <3>1 DEF BehindHold
  <2>4. CASE j = Len(s) + 1
    <3>1. u[j] = l BY <1>1, <2>4
    <3>2. s[i].of \in Carried(s, t) BY <2>1 DEF Carried
    <3> QED BY <1>5, <2>1, <3>1, <3>2
  <2> QED BY <2>2, <2>3, <2>4
<1> QED BY <1>2, <1>3, <1>4, <1>5

LEMMA ReadOff ==
  ASSUME NEW s \in Seq(Lines), s # <<>>, NEW kind, NEW t
  PROVE  /\ DOMAIN s = 1 .. Len(s) /\ Len(s) \in Nat \ {0} /\ s[1] = Head(s)
         /\ DOMAIN Tail(s) = 1 .. Len(s) - 1 /\ \A i \in DOMAIN Tail(s) : i + 1 \in DOMAIN s /\ Tail(s)[i] = s[i + 1]
         /\ \A i \in LinesOf(Tail(s), kind, t) : i \in Nat \ {0} /\ i + 1 \in LinesOf(s, kind, t)
         /\ \A i \in LinesOf(s, kind, t) : i # 1 => i - 1 \in LinesOf(Tail(s), kind, t)
         /\ 1 \in LinesOf(s, kind, t) <=> Head(s).kind = kind /\ Head(s).trace = t
<1>1. /\ DOMAIN s = 1 .. Len(s) /\ Len(s) \in Nat \ {0} /\ s[1] = Head(s)
      /\ DOMAIN Tail(s) = 1 .. Len(s) - 1 /\ \A i \in 1 .. Len(s) - 1 : Tail(s)[i] = s[i + 1]
  BY HeadTailProperties, LenProperties, EmptySeq
<1>2. \A i \in DOMAIN Tail(s) : i + 1 \in DOMAIN s /\ Tail(s)[i] = s[i + 1] BY <1>1
<1>3. \A i \in LinesOf(Tail(s), kind, t) : i \in Nat \ {0} /\ i + 1 \in LinesOf(s, kind, t) BY <1>1, <1>2 DEF LinesOf
<1>4. \A i \in LinesOf(s, kind, t) : i # 1 => i - 1 \in LinesOf(Tail(s), kind, t) BY <1>1 DEF LinesOf
<1>5. 1 \in LinesOf(s, kind, t) <=> Head(s).kind = kind /\ Head(s).trace = t BY <1>1 DEF LinesOf
<1> QED BY <1>1, <1>2, <1>3, <1>4, <1>5

LEMMA ReadReply ==
  ASSUME NEW s \in Seq(Lines), s # <<>>, NEW t
  PROVE  /\ \A kind : Has(s, kind, t) <=> Has(Tail(s), kind, t) \/ (Head(s).kind = kind /\ Head(s).trace = t)
         /\ Ordered(s, t) => /\ Ordered(Tail(s), t)
                             /\ Head(s).kind = "settled" /\ Head(s).trace = t => \A kind \in Own : ~Has(Tail(s), kind, t)
                             /\ Head(s).kind = "result" /\ Head(s).trace = t => ~Has(Tail(s), "text", t)
         /\ \A n : ObservedUpTo(s, t, n) => /\ ObservedUpTo(Tail(s), t, n)
                                            /\ Head(s).kind = "observed" /\ Head(s).trace = t => Head(s).n <= n
<1>1. ASSUME NEW kind PROVE Has(s, kind, t) <=> Has(Tail(s), kind, t) \/ (Head(s).kind = kind /\ Head(s).trace = t)
  <2>1. /\ \A i \in LinesOf(Tail(s), kind, t) : i + 1 \in LinesOf(s, kind, t)
        /\ \A i \in LinesOf(s, kind, t) : i # 1 => i - 1 \in LinesOf(Tail(s), kind, t)
        /\ 1 \in LinesOf(s, kind, t) <=> Head(s).kind = kind /\ Head(s).trace = t
    BY ReadOff
  <2> QED BY <2>1 DEF Has
<1>2. ASSUME Ordered(s, t) PROVE Ordered(Tail(s), t)
  <2>1. ASSUME NEW i \in LinesOf(Tail(s), "settled", t), NEW kind \in Own, NEW j \in LinesOf(Tail(s), kind, t)
        PROVE  j <= i
    <3>1. i + 1 \in LinesOf(s, "settled", t) /\ j + 1 \in LinesOf(s, kind, t) /\ i \in Nat /\ j \in Nat BY ReadOff
    <3>2. j + 1 <= i + 1 BY <1>2, <3>1 DEF Ordered
    <3> QED BY <3>1, <3>2
  <2>2. ASSUME NEW i \in LinesOf(Tail(s), "result", t), NEW j \in LinesOf(Tail(s), "text", t)
        PROVE  j < i
    <3>1. i + 1 \in LinesOf(s, "result", t) /\ j + 1 \in LinesOf(s, "text", t) /\ i \in Nat /\ j \in Nat BY ReadOff
    <3>2. j + 1 < i + 1 BY <1>2, <3>1 DEF Ordered
    <3> QED BY <3>1, <3>2
  <2> QED BY <2>1, <2>2 DEF Ordered
<1>3. ASSUME Ordered(s, t), Head(s).kind = "settled", Head(s).trace = t, NEW kind \in Own
      PROVE  ~Has(Tail(s), kind, t)
  <2> SUFFICES ASSUME NEW j \in LinesOf(Tail(s), kind, t) PROVE FALSE BY DEF Has
  <2>1. j + 1 \in LinesOf(s, kind, t) /\ j \in Nat \ {0} /\ 1 \in LinesOf(s, "settled", t) BY <1>3, ReadOff
  <2>2. j + 1 <= 1 BY <1>3, <2>1 DEF Ordered
  <2> QED BY <2>1, <2>2
<1>4. ASSUME Ordered(s, t), Head(s).kind = "result", Head(s).trace = t PROVE ~Has(Tail(s), "text", t)
  <2> SUFFICES ASSUME NEW j \in LinesOf(Tail(s), "text", t) PROVE FALSE BY DEF Has
  <2>1. j + 1 \in LinesOf(s, "text", t) /\ j \in Nat \ {0} /\ 1 \in LinesOf(s, "result", t) BY <1>4, ReadOff
  <2>2. j + 1 < 1 BY <1>4, <2>1 DEF Ordered
  <2> QED BY <2>1, <2>2
<1>5. ASSUME NEW n, ObservedUpTo(s, t, n)
      PROVE  ObservedUpTo(Tail(s), t, n) /\ (Head(s).kind = "observed" /\ Head(s).trace = t => Head(s).n <= n)
  <2>1. ASSUME NEW i \in LinesOf(Tail(s), "observed", t) PROVE Tail(s)[i].n <= n
    <3>1. i + 1 \in LinesOf(s, "observed", t) /\ Tail(s)[i] = s[i + 1]
      <4>1. i \in DOMAIN Tail(s) BY DEF LinesOf
      <4> QED BY <4>1, ReadOff
    <3> QED BY <1>5, <3>1 DEF ObservedUpTo
  <2>2. ASSUME Head(s).kind = "observed", Head(s).trace = t PROVE Head(s).n <= n
    <3>1. 1 \in LinesOf(s, "observed", t) /\ s[1] = Head(s) BY <2>2, ReadOff
    <3> QED BY <1>5, <3>1 DEF ObservedUpTo
  <2> QED BY <2>1, <2>2 DEF ObservedUpTo
<1> QED BY <1>1, <1>2, <1>3, <1>4, <1>5

LEMMA ReadRequest ==
  ASSUME NEW s \in Seq(Lines), s # <<>>, NEW t, NEW p, NEW c
  PROVE  /\ Carried(Tail(s), t) \subseteq Carried(s, t)
         /\ OneRun(s, t) => OneRun(Tail(s), t)
         /\ Head(s).kind = "run" /\ Head(s).trace = t =>
              /\ Head(s).of \in Carried(s, t) /\ (OneRun(s, t) => Carried(Tail(s), t) = {})
              /\ BehindHold(s, t, p, c) => AllHold(Tail(s), t, p[Head(s).of], c[Head(s).of])
         /\ \A q, d : AllHold(s, t, q, d) =>
              AllHold(Tail(s), t, q, d) /\ (Head(s).trace = t => Holds(Head(s), q, d))
         /\ BehindHold(s, t, p, c) => BehindHold(Tail(s), t, p, c)
<1>1. /\ DOMAIN s = 1 .. Len(s) /\ Len(s) \in Nat \ {0} /\ s[1] = Head(s)
      /\ DOMAIN Tail(s) = 1 .. Len(s) - 1 /\ \A i \in DOMAIN Tail(s) : i + 1 \in DOMAIN s /\ Tail(s)[i] = s[i + 1]
      /\ \A i \in LinesOf(Tail(s), "run", t) : i \in Nat \ {0} /\ i + 1 \in LinesOf(s, "run", t)
      /\ 1 \in LinesOf(s, "run", t) <=> Head(s).kind = "run" /\ Head(s).trace = t
  BY ReadOff
<1>2. \A i \in LinesOf(Tail(s), "run", t) : i \in DOMAIN Tail(s) BY DEF LinesOf
<1>3. Carried(Tail(s), t) \subseteq Carried(s, t)
  <2> SUFFICES ASSUME NEW i \in LinesOf(Tail(s), "run", t) PROVE Tail(s)[i].of \in Carried(s, t) BY DEF Carried
  <2>1. i + 1 \in LinesOf(s, "run", t) /\ Tail(s)[i] = s[i + 1] BY <1>1, <1>2
  <2> QED BY <2>1 DEF Carried
<1>4. ASSUME OneRun(s, t) PROVE OneRun(Tail(s), t)
  <2> SUFFICES ASSUME NEW i \in LinesOf(Tail(s), "run", t), NEW j \in LinesOf(Tail(s), "run", t) PROVE i = j
    BY DEF OneRun
  <2>1. i \in Nat /\ j \in Nat /\ i + 1 = j + 1 BY <1>1, <1>4 DEF OneRun
  <2> QED BY <2>1
<1>5. ASSUME Head(s).kind = "run", Head(s).trace = t
      PROVE  /\ Head(s).of \in Carried(s, t) /\ (OneRun(s, t) => Carried(Tail(s), t) = {})
             /\ BehindHold(s, t, p, c) => AllHold(Tail(s), t, p[Head(s).of], c[Head(s).of])
  <2>1. 1 \in LinesOf(s, "run", t) BY <1>1, <1>5
  <2>2. Head(s).of \in Carried(s, t) BY <1>1, <2>1 DEF Carried
  <2>3. ASSUME OneRun(s, t) PROVE Carried(Tail(s), t) = {}
    <3> SUFFICES ASSUME NEW i \in LinesOf(Tail(s), "run", t) PROVE FALSE BY DEF Carried
    <3>1. i + 1 = 1 /\ i \in Nat \ {0} BY <1>1, <2>1, <2>3 DEF OneRun
    <3> QED BY <3>1
  <2>4. ASSUME BehindHold(s, t, p, c) PROVE AllHold(Tail(s), t, p[Head(s).of], c[Head(s).of])
    <3> SUFFICES ASSUME NEW j \in DOMAIN Tail(s), Tail(s)[j].trace = t
                 PROVE  Holds(Tail(s)[j], p[Head(s).of], c[Head(s).of])
      BY DEF AllHold
    <3>1. j + 1 \in DOMAIN s /\ Tail(s)[j] = s[j + 1] /\ j + 1 > 1 BY <1>1
    <3> QED BY <1>1, <2>1, <2>4, <3>1 DEF BehindHold
  <2> QED BY <2>2, <2>3, <2>4
<1>6. ASSUME NEW q, NEW d, AllHold(s, t, q, d)
      PROVE  AllHold(Tail(s), t, q, d) /\ (Head(s).trace = t => Holds(Head(s), q, d))
  <2>1. 1 \in DOMAIN s /\ s[1] = Head(s) BY <1>1
  <2> QED BY <1>1, <1>6, <2>1 DEF AllHold
<1>7. ASSUME BehindHold(s, t, p, c) PROVE BehindHold(Tail(s), t, p, c)
  <2> DEFINE u == Tail(s)
  <2> SUFFICES ASSUME NEW i \in LinesOf(u, "run", t), NEW j \in DOMAIN u, j > i, u[j].trace = t
               PROVE  Holds(u[j], p[u[i].of], c[u[i].of])
    BY DEF BehindHold
  <2>1. i + 1 \in LinesOf(s, "run", t) /\ u[i] = s[i + 1] /\ i \in Nat BY <1>1, <1>2
  <2>2. j + 1 \in DOMAIN s /\ u[j] = s[j + 1] /\ j + 1 > i + 1 BY <1>1, <2>1
  <2> QED BY <1>7, <2>1, <2>2 DEF BehindHold
<1> QED BY <1>3, <1>4, <1>5, <1>6, <1>7

\* Of no lines, every one holds.
LEMMA NoLines ==
  ASSUME NEW t, NEW p, NEW c
  PROVE  /\ \A kind : ~Has(<<>>, kind, t)
         /\ Ordered(<<>>, t) /\ TextsOf(<<>>, t) = 0 /\ \A n : ObservedUpTo(<<>>, t, n)
         /\ Carried(<<>>, t) = {} /\ OneRun(<<>>, t) /\ BehindHold(<<>>, t, p, c)
         /\ \A q, d : AllHold(<<>>, t, q, d)
<1>1. DOMAIN <<>> = {} BY EmptySeq
<1>2. \A kind : LinesOf(<<>>, kind, t) = {} BY <1>1 DEF LinesOf
<1>3. TextsOf(<<>>, t) = 0 BY <1>2, FS_EmptySet DEF TextsOf
<1> QED BY <1>1, <1>2, <1>3 DEF Has, Ordered, ObservedUpTo, Carried, OneRun, BehindHold, AllHold

LEMMA NoTexts ==
  ASSUME NEW s \in Seq(Lines), NEW t
  PROVE  ~Has(s, "text", t) <=> TextsOf(s, t) = 0
BY TextsFinite, FS_EmptySet DEF Has, TextsOf

\* A line that holds goes on to hold.
LEMMA HoldsOn ==
  ASSUME NEW s, NEW t, NEW p \in Progress, NEW q \in Progress, NEW c \in Calls, NEW d \in Calls,
         p.revision <= q.revision, p.batch <= q.batch, c.committed => d.committed,
         \A j \in DOMAIN s : s[j] \in Lines
  PROVE  AllHold(s, t, p, c) => AllHold(s, t, q, d)
<1> SUFFICES ASSUME NEW l \in Lines, Holds(l, p, c) PROVE Holds(l, q, d) BY DEF AllHold
<1>1. /\ p.revision \in Nat /\ q.revision \in Nat /\ p.batch \in Nat /\ q.batch \in Nat
      /\ l.snapshot.revision \in Nat /\ l.snapshot.batch \in Nat
  BY DEF Progress, Lines
<1> QED BY <1>1 DEF Holds

LEMMA HoldsOnBehind ==
  ASSUME NEW s \in Seq(Lines), NEW t, NEW p, NEW q, NEW c, NEW d,
         \A r \in Carried(s, t) :
           /\ p[r] \in Progress /\ q[r] \in Progress /\ c[r] \in Calls /\ d[r] \in Calls
           /\ p[r].revision <= q[r].revision /\ p[r].batch <= q[r].batch /\ (c[r].committed => d[r].committed)
  PROVE  BehindHold(s, t, p, c) => BehindHold(s, t, q, d)
<1> SUFFICES ASSUME BehindHold(s, t, p, c), NEW i \in LinesOf(s, "run", t), NEW j \in DOMAIN s, j > i, s[j].trace = t
             PROVE  Holds(s[j], q[s[i].of], d[s[i].of])
  BY DEF BehindHold
<1> DEFINE r == s[i].of  l == s[j]
<1>1. r \in Carried(s, t) BY DEF Carried
<1>2. Holds(l, p[r], c[r]) BY DEF BehindHold
<1>3. l \in Lines BY ElementOfSeq, LenProperties
<1> HIDE DEF r, l
<1>4. /\ p[r].revision \in Nat /\ q[r].revision \in Nat /\ p[r].batch \in Nat /\ q[r].batch \in Nat
      /\ l.snapshot.revision \in Nat /\ l.snapshot.batch \in Nat
  BY <1>1, <1>3 DEF Progress, Lines
<1>5. Holds(l, q[r], d[r]) BY <1>1, <1>2, <1>4 DEF Holds
<1> QED BY <1>5 DEF r, l

-----------------------------------------------------------------------------
(* What a step of the daemon does.                                          *)

\* To the result of a turn: nothing, or it is there, or the turn is over with it.
Keeps(r) == run'[r].at = run[r].at /\ run'[r].result = run[r].result
Told(r) == run[r].at = "pending" /\ run'[r].at = "pending" /\ run'[r].result # "none"
Ended(r) == run[r].at = "pending" /\ run'[r].at = "over" /\ run'[r].result # "none"

\* The helper is sent a line that holds of the turn it is for, which is pending.
Requests(r) ==
  \/ down' = down
  \/ /\ Alive /\ child = "ready" /\ run[r].at = "pending"
     /\ \E l \in Lines : /\ l.kind # "run" /\ l.trace = Trace(r) /\ Holds(l, progress'[r], calls'[r])
                         /\ down' = Append(down, l)

DaemonStep(r) ==
  /\ UNCHANGED <<child, proc, work, leases>> /\ plan'.trace = plan.trace
  /\ \A o \in Runs \ {r} : progress'[o] = progress[o] /\ calls'[o] = calls[o]
  /\ \A o \in Runs : Trace(o) # Trace(r) => run'[o] = run[o]
  /\ \A o \in Runs : Keeps(o) \/ Told(o) \/ Ended(o)
  /\ \A o \in Runs \ {r} : run'[o] = run[o] \/ Ended(o)
  /\ \A o \in Runs : run'[o].at = "over" /\ run'[o].prepared => run[o].at = "over" /\ run[o].prepared
  /\ \/ history' = history
     \/ history' = [history EXCEPT ![r].unprepared = TRUE]
  /\ progress'[r].revision >= progress[r].revision /\ progress'[r].batch >= progress[r].batch
  /\ calls[r].committed => calls'[r].committed
  /\ Requests(r)
  /\ Begun(r) \/ Fresh(r)'

LEMMA FailureSends ==
  ASSUME TypesInv, ProcInv, NEW r \in Runs, run[r].at = "pending", LocalFailure(r)
  PROVE  Requests(r) /\ run' = [run EXCEPT ![r].failed = TRUE]
<1>1. CASE run[r].failed BY <1>1 DEF LocalFailure, Requests
<1>2. CASE ~run[r].failed
  <2> DEFINE l == Line("abort", Trace(r))
  <2>1. Trace(r) \in Traces BY TraceType
  <2>2. l \in Lines BY <2>1, LineType DEF Kinds
  <2>3. l.kind = "abort" /\ l.trace = Trace(r) BY DEF Line
  <2>4. Sent(<<l>>) BY <1>2 DEF LocalFailure
  <2>5. child = "ready" BY DEF ProcInv
  <2> HIDE DEF l
  <2>6. Holds(l, progress'[r], calls'[r]) BY <2>3 DEF Holds
  <2>7. down' \in {down, Append(down, l)} /\ (~Alive => down' = down) BY <2>2, <2>4, SentOne DEF TypesInv
  <2>8. Requests(r) BY <2>2, <2>3, <2>5, <2>6, <2>7 DEF Requests
  <2> QED BY <2>8 DEF LocalFailure
<1> QED BY <1>1, <1>2

\* A line that is sent, of a kind that says nothing, or whose word is kept.
LEMMA SendsLine ==
  ASSUME TypesInv, ProcInv, NEW r \in Runs, run[r].at = "pending",
         NEW l \in Lines, l.kind # "run", l.trace = Trace(r), Holds(l, progress'[r], calls'[r]),
         Sent(<<l>>) \/ down' = down
  PROVE  Requests(r)
<1>1. down' \in {down, Append(down, l)} /\ (~Alive => down' = down) BY SentOne DEF TypesInv
<1>2. child = "ready" BY DEF ProcInv
<1> QED BY <1>1, <1>2 DEF Requests

LEMMA ClientSteps ==
  ASSUME TypesInv, SentInv, ProcInv, NEW r \in Runs, Abort(r) \/ Prepare(r) \/ Forward(r)
  PROVE  DaemonStep(r)
<1>1. Trace(r) \in Traces /\ run[r] \in Run /\ progress[r] \in Progress /\ calls[r] \in Calls
  BY TraceType DEF TypesInv
<1>2. progress[r].revision \in Nat /\ progress[r].batch \in Nat BY <1>1 DEF Progress
<1>3. Begun(r) \/ Fresh(r) BY DEF SentInv
<1>4. CASE Abort(r)
  <2> DEFINE l == Line("abort", Trace(r))
  <2>1. /\ plan' = [plan EXCEPT !.aborts = @ - 1] /\ run' = [run EXCEPT ![r].aborted = TRUE]
        /\ calls' = [calls EXCEPT ![r].token = IF @ = "live" THEN "revoked" ELSE @]
        /\ UNCHANGED <<child, proc, up, progress, work, leases, history>>
    BY <1>4 DEF Abort
  <2>2. l \in Lines /\ l.kind = "abort" /\ l.trace = Trace(r) BY <1>1, LineType DEF Kinds, Line
  <2>3. Holds(l, progress'[r], calls'[r]) BY <2>2 DEF Holds
  <2>4. down' = down \/ (run[r].at = "pending" /\ Sent(<<l>>)) BY <1>4 DEF Abort
  <2> HIDE DEF l
  <2>5. Requests(r)
    <3>1. CASE down' = down BY <3>1 DEF Requests
    <3>2. CASE run[r].at = "pending" /\ Sent(<<l>>) BY <2>2, <2>3, <3>2, SendsLine
    <3> QED BY <2>4, <3>1, <3>2
  <2>6. plan'.trace = plan.trace BY <2>1 DEF TypesInv
  <2>7. \A o \in Runs \ {r} : progress'[o] = progress[o] /\ calls'[o] = calls[o] BY <2>1 DEF TypesInv
  <2>8. \A o \in Runs : /\ Trace(o) # Trace(r) => run'[o] = run[o]
                        /\ Keeps(o) /\ run'[o].prepared = run[o].prepared
    BY <2>1 DEF TypesInv, Keeps
  <2>11. \A o \in Runs \ {r} : run'[o] = run[o] BY <2>1 DEF TypesInv
  <2>9. ASSUME ~Begun(r) PROVE Fresh(r)'
    <3>1. calls[r].token = "none" BY <1>3, <2>9 DEF Fresh, NewCalls
    <3>2. calls'[r] = calls[r] BY <2>1, <3>1 DEF TypesInv, Calls
    <3>3. /\ run'[r].text = run[r].text /\ run'[r].result = run[r].result /\ run'[r].settled = run[r].settled
          /\ run'[r].preparing = run[r].preparing /\ run'[r].prepared = run[r].prepared
      BY <2>1 DEF TypesInv
    <3> QED BY <1>3, <2>1, <2>9, <3>2, <3>3 DEF Fresh
  <2>10. calls'[r].committed = calls[r].committed BY <2>1 DEF TypesInv
  <2> QED BY <1>2, <2>1, <2>5, <2>6, <2>7, <2>8, <2>9, <2>10, <2>11 DEF DaemonStep, Keeps
<1>5. CASE Prepare(r)
  <2> DEFINE l == Line("prepared", Trace(r))
  <2>1. UNCHANGED <<plan, child, proc, up, progress, work, leases>> /\ run[r].preparing BY <1>5 DEF Prepare
  <2>2. Begun(r) BY <1>3, <2>1 DEF Fresh
  <2>3. l \in Lines /\ l.kind = "prepared" /\ l.trace = Trace(r) BY <1>1, LineType DEF Kinds, Line
  <2>4. Holds(l, progress'[r], calls'[r]) BY <2>3 DEF Holds
  <2>5. CASE /\ calls' = [calls EXCEPT ![r].token = IF Retired(r) THEN "revoked" ELSE "live"]
             /\ run' = [run EXCEPT ![r].preparing = FALSE, ![r].prepared = run[r].at = "pending"]
             /\ IF run[r].at = "pending" THEN Sent(<<l>>) ELSE UNCHANGED down
             /\ UNCHANGED history
    <3> HIDE DEF l
    <3>1. Requests(r)
      <4>1. CASE down' = down BY <4>1 DEF Requests
      <4>2. CASE run[r].at = "pending" BY <2>3, <2>4, <2>5, <4>2, SendsLine
      <4> QED BY <2>5, <4>1, <4>2
    <3>2. \A o \in Runs \ {r} : progress'[o] = progress[o] /\ calls'[o] = calls[o] BY <2>1, <2>5 DEF TypesInv
    <3>3. \A o \in Runs : (Trace(o) # Trace(r) => run'[o] = run[o]) /\ Keeps(o)
      BY <2>5 DEF TypesInv, Keeps
    <3>4. \A o \in Runs \ {r} : run'[o] = run[o] BY <2>5 DEF TypesInv
    <3>5. run'[r].prepared = (run[r].at = "pending") /\ run'[r].at = run[r].at BY <2>5 DEF TypesInv
    <3>6. calls'[r].committed = calls[r].committed BY <2>5 DEF TypesInv
    <3>7. \A o \in Runs : run'[o].at = "over" /\ run'[o].prepared => run[o].at = "over" /\ run[o].prepared
      BY <3>4, <3>5
    <3>8. \A o \in Runs : Keeps(o) \/ Told(o) \/ Ended(o) BY <3>3
    <3>9. plan'.trace = plan.trace /\ UNCHANGED <<child, proc, work, leases>> /\ history' = history BY <2>1, <2>5
    <3>10. progress'[r].revision >= progress[r].revision /\ progress'[r].batch >= progress[r].batch BY <1>2, <2>1
    <3>11. \A o \in Runs : Trace(o) # Trace(r) => run'[o] = run[o] BY <3>3
    <3>12. calls[r].committed => calls'[r].committed BY <3>6
    <3> QED BY <2>2, <3>1, <3>2, <3>4, <3>7, <3>8, <3>9, <3>10, <3>11, <3>12 DEF DaemonStep
  <2>6. CASE /\ run' = [PendingEnded(Trace(r)) EXCEPT ![r].preparing = FALSE]
             /\ history' = [history EXCEPT ![r].unprepared = TRUE]
             /\ UNCHANGED <<calls, down>>
    <3>1. ASSUME NEW o \in Runs
          PROVE  LET ended == IF o \in Pending(Trace(r)) THEN EndedWithError(run[o]) ELSE run[o] IN
                 /\ run'[o].at = ended.at /\ run'[o].result = ended.result /\ run'[o].prepared = ended.prepared
                 /\ Trace(o) # Trace(r) => run'[o] = run[o]
      <4>1. /\ PendingEnded(Trace(r)) \in [Runs -> Run]
            /\ PendingEnded(Trace(r))[o] = IF o \in Pending(Trace(r)) THEN EndedWithError(run[o]) ELSE run[o]
        BY <1>1, PendingEndedType
      <4>2. Trace(o) # Trace(r) => o \notin Pending(Trace(r)) /\ o # r BY DEF Pending
      <4> QED BY <2>6, <4>1, <4>2
    <3>2. ASSUME NEW o \in Runs
          PROVE  (Keeps(o) /\ run'[o].prepared = run[o].prepared) \/ (Ended(o) /\ ~run'[o].prepared)
      <4>1. CASE o \in Pending(Trace(r))
        <5>1. run[o] \in Run /\ run[o].at = "pending" BY <4>1 DEF Pending, TypesInv
        <5> QED BY <3>1, <4>1, <5>1, EndedType DEF Ended
      <4>2. CASE o \notin Pending(Trace(r)) BY <3>1, <4>2 DEF Keeps
      <4> QED BY <4>1, <4>2
    <3>5. ASSUME NEW o \in Runs \ {r} PROVE run'[o] = run[o] \/ Ended(o)
      <4>1. CASE o \in Pending(Trace(r)) 
        <5>1. run[o] \in Run /\ run[o].at = "pending" BY <4>1 DEF Pending, TypesInv
        <5> QED BY <3>1, <4>1, <5>1, EndedType DEF Ended
      <4>2. CASE o \notin Pending(Trace(r))
        <5>1. PendingEnded(Trace(r)) \in [Runs -> Run] /\ PendingEnded(Trace(r))[o] = run[o]
          BY <1>1, <4>2, PendingEndedType
        <5> QED BY <2>6, <5>1
      <4> QED BY <4>1, <4>2
    <3>3. \A o \in Runs : Keeps(o) \/ Told(o) \/ Ended(o) BY <3>2
    <3>4. \A o \in Runs : run'[o].at = "over" /\ run'[o].prepared => run[o].at = "over" /\ run[o].prepared
      BY <3>2 DEF Keeps, Ended
    <3> QED BY <1>2, <2>1, <2>2, <2>6, <3>1, <3>3, <3>4, <3>5 DEF DaemonStep, Requests
  <2> QED BY <1>5, <2>5, <2>6 DEF Prepare
<1>6. CASE Forward(r)
  <2> DEFINE l == [Line("progress", Trace(r)) EXCEPT !.snapshot = Snapshot(progress[r])]
  <2>1. /\ run' = [run EXCEPT ![r].sent = progress[r].revision] /\ run[r].at = "pending"
        /\ UNCHANGED <<plan, child, proc, up, progress, calls, work, leases, history>>
    BY <1>6 DEF Forward
  <2>2. l.kind = "progress" /\ l.trace = Trace(r) /\ l.snapshot = Snapshot(progress[r]) BY DEF Line
  <2>3. l \in Lines
    <3>1. Line("progress", Trace(r)) \in Lines BY <1>1, LineType DEF Kinds
    <3>2. Snapshot(progress[r]) \in [revision : Nat, batch : Nat, active : Nat] BY <1>1, SnapshotType
    <3> QED BY <3>1, <3>2 DEF Lines
  <2>4. Sent(<<l>>) BY <1>6 DEF Forward
  <2> HIDE DEF l
  <2>5. Holds(l, progress'[r], calls'[r]) BY <1>2, <2>1, <2>2 DEF Holds, Snapshot
  <2>6. Requests(r) BY <2>1, <2>2, <2>3, <2>4, <2>5, SendsLine
  <2>7. \A o \in Runs : (Trace(o) # Trace(r) => run'[o] = run[o]) /\ Keeps(o) /\ run'[o].prepared = run[o].prepared
    BY <2>1 DEF TypesInv, Keeps
  <2>8. \A o \in Runs \ {r} : run'[o] = run[o] BY <2>1 DEF TypesInv
  <2> QED BY <1>2, <2>1, <2>6, <2>7, <2>8 DEF DaemonStep, Keeps, Begun
<1> QED BY <1>4, <1>5, <1>6

LEMMA OneTurn ==
  ASSUME TypesInv, NEW r \in Runs, NEW c, run' = [run EXCEPT ![r] = c],
         \/ c.at = run[r].at /\ c.result = run[r].result
         \/ run[r].at = "pending" /\ c.at \in {"pending", "over"} /\ c.result # "none",
         c.prepared => c.at # "over" \/ (run[r].at = "over" /\ run[r].prepared)
  PROVE  /\ \A o \in Runs : Trace(o) # Trace(r) => run'[o] = run[o]
         /\ \A o \in Runs : Keeps(o) \/ Told(o) \/ Ended(o)
         /\ \A o \in Runs \ {r} : run'[o] = run[o]
         /\ \A o \in Runs : run'[o].at = "over" /\ run'[o].prepared => run[o].at = "over" /\ run[o].prepared
<1>1. run'[r] = c /\ \A o \in Runs \ {r} : run'[o] = run[o] BY DEF TypesInv
<1> QED BY <1>1 DEF Keeps, Told, Ended

LEMMA SameTurns ==
  ASSUME run' = run
  PROVE  /\ \A o \in Runs : run'[o] = run[o]
         /\ \A o \in Runs : Keeps(o) \/ Told(o) \/ Ended(o)
         /\ \A o \in Runs : run'[o].at = "over" /\ run'[o].prepared => run[o].at = "over" /\ run[o].prepared
BY DEF Keeps

HearsOf(r) ==
  \/ HearText(r) \/ HearSelected(r) \/ HearObserved(r) \/ HearBegin(r) \/ HearCommit(r) \/ HearResult(r)
  \/ HearError(r) \/ HearSettled(r)

LEMMA HearsPending ==
  ASSUME TypesInv, NEW r \in Runs, HearsOf(r)
  PROVE  /\ run[r].at = "pending" /\ up # <<>> /\ up' = Tail(up) /\ Head(up) \in Lines /\ Trace(r) = Head(up).trace
         /\ UNCHANGED <<plan, child, proc, work, leases, history>>
<1>1. /\ up # <<>> /\ up' = Tail(up) /\ r \in Pending(Head(up).trace)
      /\ UNCHANGED <<plan, child, proc, work, leases, history>>
  BY DEF HearsOf, HearText, HearSelected, HearObserved, HearBegin, HearCommit, HearResult, HearError,
         HearSettled, HearFor, Hear
<1>2. Head(up) \in Lines BY <1>1, ReadType DEF TypesInv
<1> QED BY <1>1, <1>2 DEF Pending

LEMMA HearsSteps ==
  ASSUME TypesInv, SentInv, ProcInv, NEW r \in Runs, HearsOf(r)
  PROVE  DaemonStep(r)
<1>1. Trace(r) \in Traces /\ run[r] \in Run /\ progress[r] \in Progress /\ calls[r] \in Calls
  BY TraceType DEF TypesInv
<1>2. progress[r].revision \in Nat /\ progress[r].batch \in Nat BY <1>1 DEF Progress
<1>3. /\ run[r].at = "pending" /\ Head(up) \in Lines
      /\ UNCHANGED <<plan, child, proc, work, leases, history>>
  BY HearsPending
<1>4. Begun(r) BY <1>3 DEF Begun
<1>5. ASSUME /\ \A o \in Runs : Trace(o) # Trace(r) => run'[o] = run[o]
             /\ \A o \in Runs : Keeps(o) \/ Told(o) \/ Ended(o)
             /\ \A o \in Runs \ {r} : run'[o] = run[o]
             /\ \A o \in Runs : run'[o].at = "over" /\ run'[o].prepared => run[o].at = "over" /\ run[o].prepared,
             UNCHANGED <<down, progress, calls>>
      PROVE  DaemonStep(r)
  BY <1>2, <1>3, <1>4, <1>5 DEF DaemonStep, Requests
<1>6. ASSUME LocalFailure(r), UNCHANGED <<progress, calls>> PROVE DaemonStep(r)
  <2> DEFINE c == [run[r] EXCEPT !.failed = TRUE]
  <2>1. Requests(r) /\ run' = [run EXCEPT ![r] = c] BY <1>3, <1>6, FailureSends
  <2>2. c.at = run[r].at /\ c.result = run[r].result /\ c.at = "pending" BY <1>1, <1>3 DEF Run
  <2> HIDE DEF c
  <2>3. /\ \A o \in Runs : Trace(o) # Trace(r) => run'[o] = run[o]
        /\ \A o \in Runs : Keeps(o) \/ Told(o) \/ Ended(o)
        /\ \A o \in Runs \ {r} : run'[o] = run[o]
        /\ \A o \in Runs : run'[o].at = "over" /\ run'[o].prepared => run[o].at = "over" /\ run[o].prepared
    BY <2>1, <2>2, OneTurn
  <2> QED BY <1>2, <1>3, <1>4, <1>6, <2>1, <2>3 DEF DaemonStep
<1>7. CASE HearText(r)
  <2> DEFINE c == [run[r] EXCEPT !.text = @ + 1]
  <2>1. run' = [run EXCEPT ![r] = c] /\ UNCHANGED <<down, progress, calls>> BY <1>7 DEF HearText
  <2>2. c.at = run[r].at /\ c.result = run[r].result /\ c.at = "pending" BY <1>1, <1>3 DEF Run
  <2> HIDE DEF c
  <2> QED BY <1>5, <2>1, <2>2, OneTurn
<1>8. CASE HearSelected(r)
  <2> DEFINE c == [run[r] EXCEPT !.preparing = TRUE]
  <2>1. run' = [run EXCEPT ![r] = c] /\ UNCHANGED <<down, progress, calls>> BY <1>8 DEF HearSelected
  <2>2. c.at = run[r].at /\ c.result = run[r].result /\ c.at = "pending" BY <1>1, <1>3 DEF Run
  <2> HIDE DEF c
  <2> QED BY <1>5, <2>1, <2>2, OneTurn
<1>9. CASE HearObserved(r)
  <2>1. \/ progress' = [progress EXCEPT ![r] = Observed(progress[r], Head(up).n)] /\ UNCHANGED <<run, down, calls>>
        \/ LocalFailure(r) /\ UNCHANGED <<progress, calls>>
    BY <1>9 DEF HearObserved
  <2>2. CASE progress' = [progress EXCEPT ![r] = Observed(progress[r], Head(up).n)] /\ UNCHANGED <<run, down, calls>>
    <3>1. Head(up).n \in Nat BY <1>3 DEF Lines
    <3>2. Observed(progress[r], Head(up).n) =
            [progress[r] EXCEPT !.observed = IF Head(up).n > progress[r].observed THEN Head(up).n ELSE progress[r].observed]
      BY <1>1, <3>1, ProgressSteps
    <3>3. progress'[r] = Observed(progress[r], Head(up).n) /\ \A o \in Runs \ {r} : progress'[o] = progress[o]
      BY <2>2 DEF TypesInv
    <3>4. progress'[r].revision = progress[r].revision /\ progress'[r].batch = progress[r].batch
      BY <1>1, <3>2, <3>3 DEF Progress
    <3> QED BY <1>2, <1>3, <1>4, <2>2, <3>3, <3>4, SameTurns DEF DaemonStep, Requests
  <2> QED BY <1>6, <2>1, <2>2
<1>10. CASE HearBegin(r)
  <2> DEFINE n == IF Quiet(r) \/ calls[r].committed THEN calls[r].revision + 1 ELSE 0
             l == [Line("began", Trace(r)) EXCEPT !.request = Head(up).request, !.n = n]
  <2>1. UNCHANGED <<progress, calls>> BY <1>10 DEF HearBegin
  <2>2. CASE calls[r].token # "live" BY <1>6, <1>10, <2>1, <2>2 DEF HearBegin, Throws
  <2>3. CASE calls[r].token = "live"
    <3>1. run' = run /\ (down' = down \/ Sent(<<l>>)) BY <1>10, <2>3 DEF HearBegin
    <3>2. l \in Lines
      <4>1. Line("began", Trace(r)) \in Lines BY <1>1, LineType DEF Kinds
      <4>2. Head(up).request \in 0 .. 2 BY <1>3 DEF Lines
      <4>3. n \in Nat BY <1>1 DEF Calls
      <4> HIDE DEF n
      <4> QED BY <4>1, <4>2, <4>3 DEF Lines
    <3>3. l.kind = "began" /\ l.trace = Trace(r) BY DEF Line
    <3> HIDE DEF l
    <3>4. Holds(l, progress'[r], calls'[r]) BY <3>3 DEF Holds
    <3>5. Requests(r) BY <1>3, <3>1, <3>2, <3>3, <3>4, SendsLine
    <3> QED BY <1>2, <1>3, <1>4, <2>1, <3>1, <3>5, SameTurns DEF DaemonStep
  <2> QED BY <2>2, <2>3
<1>11. CASE HearCommit(r)
  <2> DEFINE committed == Commits(r, Head(up).n)
             l == [Line("committed", Trace(r)) EXCEPT !.request = Head(up).request, !.n = IF committed THEN 1 ELSE 0]
  <2>1. UNCHANGED progress BY <1>11 DEF HearCommit
  <2>2. CASE calls[r].token # "live" BY <1>6, <1>11, <2>1, <2>2 DEF HearCommit, Throws
  <2>3. CASE calls[r].token = "live"
    <3>1. run' = run /\ (down' = down \/ Sent(<<l>>)) /\ calls' = [calls EXCEPT ![r].committed = committed]
      BY <1>11, <2>3 DEF HearCommit
    <3>2. l \in Lines
      <4>1. Line("committed", Trace(r)) \in Lines BY <1>1, LineType DEF Kinds
      <4>2. Head(up).request \in 0 .. 2 BY <1>3 DEF Lines
      <4> QED BY <4>1, <4>2 DEF Lines
    <3>3. l.kind = "committed" /\ l.trace = Trace(r) /\ (l.n = 1 => committed) BY DEF Line
    <3>4. calls'[r].committed = committed /\ \A o \in Runs \ {r} : calls'[o] = calls[o]
      BY <1>1, <3>1 DEF TypesInv, Calls
    <3>5. calls[r].committed => calls'[r].committed BY <3>4 DEF Commits
    <3> HIDE DEF l, committed
    <3>6. Holds(l, progress'[r], calls'[r]) BY <3>3, <3>4 DEF Holds
    <3>7. Requests(r) BY <1>3, <3>1, <3>2, <3>3, <3>6, SendsLine
    <3> QED BY <1>2, <1>3, <1>4, <2>1, <3>1, <3>4, <3>5, <3>7, SameTurns DEF DaemonStep
  <2> QED BY <2>2, <2>3
<1>12. CASE HearResult(r)
  <2> DEFINE c == [run[r] EXCEPT !.result = IF @ # "none" THEN @ ELSE IF run[r].failed THEN "rejected" ELSE "resolved"]
  <2>1. run' = [run EXCEPT ![r] = c] /\ UNCHANGED <<down, progress, calls>> BY <1>12 DEF HearResult
  <2>2. c.at = "pending" /\ c.result # "none" BY <1>1, <1>3 DEF Run
  <2> HIDE DEF c
  <2> QED BY <1>3, <1>5, <2>1, <2>2, OneTurn
<1>13. CASE HearError(r)
  <2> DEFINE c == [run[r] EXCEPT !.result = IF @ = "none" THEN "rejected" ELSE @]
  <2>1. run' = [run EXCEPT ![r] = c] /\ UNCHANGED <<down, progress, calls>> BY <1>13 DEF HearError
  <2>2. c.at = "pending" /\ c.result # "none" BY <1>1, <1>3 DEF Run
  <2> HIDE DEF c
  <2> QED BY <1>3, <1>5, <2>1, <2>2, OneTurn
<1>14. CASE HearSettled(r)
  <2> DEFINE settled == [run[r] EXCEPT !.at = "over", !.prepared = FALSE, !.settled = "resolved"]
             c == IF run[r].result = "none" THEN EndedWithError(run[r]) ELSE settled
  <2>1. run' = [run EXCEPT ![r] = c] /\ UNCHANGED <<down, progress, calls>> BY <1>14 DEF HearSettled
  <2>2. settled.at = "over" /\ ~settled.prepared /\ settled.result = run[r].result BY <1>1 DEF Run
  <2> HIDE DEF settled
  <2>3. c.at = "over" /\ c.result # "none" /\ ~c.prepared BY <1>1, <2>2, EndedType
  <2> HIDE DEF c
  <2> QED BY <1>3, <1>5, <2>1, <2>3, OneTurn
<1> QED BY <1>7, <1>8, <1>9, <1>10, <1>11, <1>12, <1>13, <1>14 DEF HearsOf

LEMMA RoundSteps ==
  ASSUME TypesInv, SentInv, ProcInv, RoundInv, NEW r \in Runs, Call(r) \/ Batch(r) \/ Emit(r) \/ Answer(r) \/ Retire(r)
  PROVE  DaemonStep(r)
<1>1. run[r] \in Run /\ progress[r] \in Progress /\ calls[r] \in Calls BY DEF TypesInv
<1>2. progress[r].revision \in Nat /\ progress[r].batch \in Nat BY <1>1 DEF Progress
<1>3. Begun(r)
  <2> SUFFICES ASSUME Fresh(r) PROVE FALSE BY DEF SentInv
  <2>1. /\ run[r].result = "none" /\ calls[r].token = "none" /\ calls[r].queued = 0 /\ ~calls[r].boundary
        /\ progress[r].active = 0
    BY DEF Fresh, NewCalls, NewProgress
  <2> QED BY <2>1 DEF Call, Batch, Emit, Answer, Retire
<1>4. UNCHANGED <<child, proc, down, up, work, leases, history>> BY DEF Call, Batch, Emit, Answer, Retire
<1>5. plan'.trace = plan.trace BY DEF Call, Batch, Emit, Answer, Retire, TypesInv
<1>6. Requests(r) BY <1>4 DEF Requests
<1>7. /\ progress'[r].revision >= progress[r].revision /\ progress'[r].batch >= progress[r].batch
      /\ \A o \in Runs \ {r} : progress'[o] = progress[o]
  <2>1. CASE progress' = progress BY <1>2, <2>1
  <2>2. CASE progress' = [progress EXCEPT ![r] = Recorded(progress[r], calls[r].queued)]
    <3>1. progress'[r] = Recorded(progress[r], calls[r].queued) /\ \A o \in Runs \ {r} : progress'[o] = progress[o]
      BY <2>2 DEF TypesInv
    <3>2. calls[r].queued \in Nat BY <1>1 DEF Calls
    <3>3. progress'[r].batch = progress[r].revision + 1 /\ progress'[r].revision = progress[r].revision + 1
      BY <1>1, <3>1, <3>2, ProgressSteps
    <3>4. progress[r].batch <= progress[r].revision BY DEF RoundInv
    <3> QED BY <1>2, <3>1, <3>3, <3>4
  <2>3. CASE progress' = [progress EXCEPT ![r] = Answered(progress[r])]
    <3>1. progress'[r] = Answered(progress[r]) /\ \A o \in Runs \ {r} : progress'[o] = progress[o]
      BY <2>3 DEF TypesInv
    <3>2. progress'[r].batch = progress[r].batch /\ progress'[r].revision = progress[r].revision + 1
      BY <1>1, <3>1 DEF Answered, Progress
    <3> QED BY <1>2, <3>1, <3>2
  <2> QED BY <2>1, <2>2, <2>3 DEF Call, Batch, Emit, Answer, Retire
<1>8. /\ \A o \in Runs \ {r} : calls'[o] = calls[o]
      /\ calls[r].committed => calls'[r].committed
  <2>1. CASE calls' = [calls EXCEPT ![r].queued = @ + 1, ![r].revision = @ + 1] BY <1>1, <2>1 DEF TypesInv
  <2>2. CASE calls' = [calls EXCEPT ![r].boundary = TRUE, ![r].queued = 0] BY <1>1, <2>2 DEF TypesInv
  <2>3. CASE calls' = [calls EXCEPT ![r].boundary = FALSE, ![r].emitted = progress[r].batch]
    BY <1>1, <2>3 DEF TypesInv
  <2>4. CASE calls' = [calls EXCEPT ![r].revision = @ + 1] BY <1>1, <2>4 DEF TypesInv
  <2>5. CASE calls' = [calls EXCEPT ![r].token = IF @ = "live" THEN "revoked" ELSE @] BY <1>1, <2>5 DEF TypesInv
  <2> QED BY <2>1, <2>2, <2>3, <2>4, <2>5 DEF Call, Batch, Emit, Answer, Retire
<1>9. /\ \A o \in Runs : Trace(o) # Trace(r) => run'[o] = run[o]
      /\ \A o \in Runs \ {r} : run'[o] = run[o]
      /\ \A o \in Runs : Keeps(o) \/ Told(o) \/ Ended(o)
      /\ \A o \in Runs : run'[o].at = "over" /\ run'[o].prepared => run[o].at = "over" /\ run[o].prepared
  <2>1. CASE run' = run BY <2>1, SameTurns
  <2>2. CASE run' = [run EXCEPT ![r].aborted = TRUE]
    <3> DEFINE c == [run[r] EXCEPT !.aborted = TRUE]
    <3>1. run' = [run EXCEPT ![r] = c] BY <2>2
    <3>2. c.at = run[r].at /\ c.result = run[r].result /\ c.prepared = run[r].prepared BY <1>1 DEF Run
    <3> HIDE DEF c
    <3> QED BY <3>1, <3>2, OneTurn
  <2> QED BY <2>1, <2>2 DEF Call, Batch, Emit, Answer, Retire
<1> QED BY <1>3, <1>4, <1>5, <1>6, <1>7, <1>8, <1>9 DEF DaemonStep

-----------------------------------------------------------------------------
(* The invariants that hold of every trace.                                 *)

LEMMA SentKept ==
  ASSUME SentInv, plan'.trace = plan.trace,
         \A o \in Runs : Begun(o) => Begun(o)',
         \A o \in Runs : Begun(o)' \/ Fresh(o)',
         \A t \in Traces : work'[t].at # "none" =>
           work'[t].of \in Carried(down, t) \/ (work[t].at # "none" /\ work'[t].of = work[t].of),
         \A t \in Traces : \A o \in Carried(down', t) :
           o \in Carried(down, t) \/ (o \in Runs /\ Trace(o) = t /\ Begun(o)')
  PROVE  SentInv'
<1>1. \A o \in Runs : Trace(o)' = Trace(o) BY DEF Trace
<1> QED BY <1>1 DEF SentInv

LEMMA DaemonSent ==
  ASSUME TypesInv, SentInv, NEW r \in Runs, DaemonStep(r)
  PROVE  /\ SentInv' /\ \A t \in Traces : Carried(down', t) \subseteq Carried(down, t)
         /\ \A o \in Runs : Begun(o) => Begun(o)'
<1>1. ASSUME NEW t \in Traces PROVE Carried(down', t) \subseteq Carried(down, t)
  <2>1. CASE down' = down BY <2>1
  <2>2. ASSUME NEW l \in Lines, l.kind # "run", down' = Append(down, l) PROVE Carried(down', t) \subseteq Carried(down, t)
    <3>1. down \in Seq(Lines) BY DEF TypesInv
    <3>2. Carried(Append(down, l), t) = Carried(down, t) \cup (IF l.kind = "run" /\ l.trace = t THEN {l.of} ELSE {})
      BY <3>1, WrittenRequest
    <3> QED BY <2>2, <3>2
  <2> QED BY <2>1, <2>2 DEF DaemonStep, Requests
<1>2. \A o \in Runs : Begun(o) => Begun(o)' BY DEF DaemonStep, Keeps, Told, Ended, Begun
<1>3. ASSUME NEW o \in Runs, ~Begun(o) PROVE Fresh(o)'
  <2>1. CASE o = r BY <1>3, <2>1 DEF DaemonStep
  <2>2. CASE o # r
    <3>1. ~Ended(o) BY <1>3 DEF Ended, Begun
    <3>2. /\ run'[o] = run[o] /\ progress'[o] = progress[o] /\ calls'[o] = calls[o] /\ history'[o] = history[o]
      BY <2>2, <3>1 DEF DaemonStep, TypesInv
    <3> QED BY <1>3, <3>2 DEF SentInv, Fresh
  <2> QED BY <2>1, <2>2
<1>4. plan'.trace = plan.trace /\ work' = work BY DEF DaemonStep
<1>5. \A o \in Runs : Begun(o)' \/ Fresh(o)' BY <1>2, <1>3
<1>6. SentInv' BY <1>1, <1>2, <1>4, <1>5, SentKept
<1> QED BY <1>1, <1>2, <1>6

LEMMA DaemonProc ==
  ASSUME ProcInv, NEW r \in Runs, DaemonStep(r)
  PROVE  ProcInv'
<1>1. UNCHANGED <<child, proc, work>> BY DEF DaemonStep
<1>2. child # "ready" \/ proc \in {"none", "gone"} => down' = down BY DEF DaemonStep, Requests, Alive
<1>3. ASSUME NEW o \in Runs
      PROVE  (run'[o].at = "over" => ~run'[o].prepared) /\ (run'[o].at = "pending" => child' = "ready")
  <2>1. run'[o].at = "pending" => run[o].at = "pending" BY DEF DaemonStep, Keeps, Told, Ended
  <2> QED BY <1>1, <2>1 DEF DaemonStep, ProcInv
<1> QED BY <1>1, <1>2, <1>3 DEF ProcInv

LEMMA TraceKept ==
  ASSUME TraceInv, plan'.trace = plan.trace, \A o \in Runs : Keeps(o) \/ Told(o) \/ Ended(o)
  PROVE  TraceInv'
<1> SUFFICES ASSUME NEW r \in Runs, NEW s \in Runs, r # s, Trace(r) = Trace(s)
             PROVE  /\ ~(run'[r].at = "pending" /\ run'[s].at = "pending")
                    /\ run'[r].at # "idle" /\ run'[s].at # "idle" => run'[r].result # "none" \/ run'[s].result # "none"
                    /\ ~(run'[r].at = "over" /\ run'[r].result = "none" /\ run'[s].at = "pending")
  BY DEF TraceInv, Trace
<1>1. ASSUME NEW o \in Runs
      PROVE  /\ run'[o].at = "pending" => run[o].at = "pending"
             /\ run'[o].at # "idle" => run[o].at # "idle"
             /\ run'[o].result = "none" => run[o].result = "none" /\ run[o].at = run'[o].at
  BY DEF Keeps, Told, Ended
<1> QED BY <1>1 DEF TraceInv

LEMMA DaemonTrace ==
  ASSUME TraceInv, NEW r \in Runs, DaemonStep(r)
  PROVE  TraceInv'
BY TraceKept DEF DaemonStep

\* A run that begins fails at once, or its trace has no other that is awaited.
BeginsWith(r, c) ==
  /\ run' = [run EXCEPT ![r] = c] /\ run[r].at = "idle" /\ Fresh(r)
  /\ UNCHANGED <<plan, down, up, progress, calls, work, leases, history>>
  /\ c.text = 0 /\ ~c.preparing /\ ~c.prepared
  /\ \/ c.at = "over" /\ c.result = "rejected"
     \/ /\ c.at = "starting" /\ c.result = "none" /\ c.settled = "none"
        /\ \A o \in Runs \ {r} : Trace(o) = Trace(r) /\ run[o].at # "idle" => run[o].result # "none"

LEMMA BeginSteps ==
  ASSUME TypesInv, SentInv, NEW r \in Runs, Begin(r)
  PROVE  \E c : BeginsWith(r, c)
<1>1. run[r].at = "idle" /\ UNCHANGED <<plan, down, up, progress, calls, work, leases, history>> BY DEF Begin
<1>2. Fresh(r) BY <1>1 DEF SentInv, Begun
<1>3. run[r] \in Run BY DEF TypesInv
<1>4. CASE \E o \in Runs \ {r} : Trace(o) = Trace(r) /\ run[o].at # "idle" /\ run[o].result = "none"
  <2> DEFINE c == [run[r] EXCEPT !.at = "over", !.result = "rejected", !.settled = "resolved"]
  <2>1. run' = [run EXCEPT ![r] = c] BY <1>4 DEF Begin
  <2>2. c.at = "over" /\ c.result = "rejected" /\ c.text = 0 /\ ~c.preparing /\ ~c.prepared BY <1>2, <1>3 DEF Run, Fresh
  <2> HIDE DEF c
  <2>3. BeginsWith(r, c) BY <1>1, <1>2, <2>1, <2>2 DEF BeginsWith
  <2> QED BY <2>3
<1>5. CASE ~\E o \in Runs \ {r} : Trace(o) = Trace(r) /\ run[o].at # "idle" /\ run[o].result = "none"
  <2> DEFINE c == [run[r] EXCEPT !.at = "starting"]
  <2>1. run' = [run EXCEPT ![r] = c] BY <1>5 DEF Begin
  <2>2. /\ c.at = "starting" /\ c.result = "none" /\ c.settled = "none" /\ c.text = 0
        /\ ~c.preparing /\ ~c.prepared
    BY <1>2, <1>3 DEF Run, Fresh
  <2> HIDE DEF c
  <2>3. BeginsWith(r, c) BY <1>1, <1>2, <1>5, <2>1, <2>2 DEF BeginsWith
  <2> QED BY <2>3
<1> QED BY <1>4, <1>5

LEMMA BeginKept ==
  ASSUME TypesInv, SentInv, ProcInv, TraceInv, NEW r \in Runs, Begin(r)
  PROVE  SentInv' /\ ProcInv' /\ TraceInv'
<1>1. PICK c : BeginsWith(r, c) BY BeginSteps
<1>2. run'[r] = c /\ \A o \in Runs \ {r} : run'[o] = run[o] BY <1>1 DEF BeginsWith, TypesInv
<1>3. UNCHANGED <<plan, down, up, progress, calls, work, history>> BY <1>1 DEF BeginsWith
<1>4. SentInv'
  <2>1. \A o \in Runs : Begun(o) => Begun(o)' BY <1>1, <1>2 DEF BeginsWith, Begun
  <2>2. ASSUME NEW o \in Runs PROVE Begun(o)' \/ Fresh(o)'
    <3>1. CASE o = r BY <1>1, <1>2, <3>1 DEF BeginsWith, Begun, Fresh
    <3>2. CASE o # r
      <4>1. run'[o] = run[o] BY <1>2, <3>2
      <4> QED BY <1>3, <4>1 DEF SentInv, Begun, Fresh
    <3> QED BY <3>1, <3>2
  <2> QED BY <1>3, <2>1, <2>2, SentKept
<1>5. ProcInv'
  <2>1. (child' = child /\ proc' = proc) \/ (child = "none" /\ child' = "starting" /\ proc' = "booting")
    BY DEF Begin
  <2>2. down' = down /\ work' = work BY <1>3
  <2>3. ASSUME NEW o \in Runs
        PROVE  (run'[o].at = "over" => ~run'[o].prepared) /\ (run'[o].at = "pending" => child' = "ready")
    BY <1>1, <1>2, <2>1 DEF BeginsWith, ProcInv
  <2> QED BY <2>1, <2>2, <2>3 DEF ProcInv
<1>6. TraceInv'
  <2> SUFFICES ASSUME NEW o \in Runs, NEW s \in Runs, o # s, Trace(o) = Trace(s)
               PROVE  /\ ~(run'[o].at = "pending" /\ run'[s].at = "pending")
                      /\ run'[o].at # "idle" /\ run'[s].at # "idle" => run'[o].result # "none" \/ run'[s].result # "none"
                      /\ ~(run'[o].at = "over" /\ run'[o].result = "none" /\ run'[s].at = "pending")
    BY <1>3 DEF TraceInv, Trace
  <2> QED BY <1>1, <1>2 DEF BeginsWith, TraceInv
<1> QED BY <1>4, <1>5, <1>6

\* A turn that starts replaces those pending of its trace and is lost, is over at once, or is sent.
Replaces(r) ==
  /\ UNCHANGED down
  /\ run'[r].at = "over" /\ run'[r].result = "none" /\ run'[r].text = 0 /\ ~run'[r].prepared
  /\ \A o \in Runs \ {r} : run'[o] = IF o \in Pending(Trace(r)) THEN EndedWithError(run[o]) ELSE run[o]
Refuses(r) ==
  /\ UNCHANGED down /\ Pending(Trace(r)) = {}
  /\ run' = [run EXCEPT ![r] = EndedWithError(run[r])]
IsSent(r) ==
  /\ Pending(Trace(r)) = {} /\ run' = [run EXCEPT ![r].at = "pending"]
  /\ \/ down' = down
     \/ /\ Alive
        /\ \E l \in Lines : /\ l.kind = "run" /\ l.trace = Trace(r) /\ l.of = r
                            /\ down' = Append(down, l)

LEMMA StartSteps ==
  ASSUME TypesInv, SentInv, NEW r \in Runs, Start(r)
  PROVE  /\ run[r].at = "starting" /\ child = "ready" /\ Fresh(r)
         /\ UNCHANGED <<plan, child, proc, up, progress, calls, work, leases, history>>
         /\ Replaces(r) \/ Refuses(r) \/ IsSent(r)
<1>1. /\ run[r].at = "starting" /\ child = "ready" /\ Trace(r) \in Traces
      /\ UNCHANGED <<plan, child, proc, up, progress, calls, work, leases, history>>
  BY TraceType DEF Start
<1>2. Fresh(r) BY <1>1 DEF SentInv, Begun
<1>3. CASE Pending(Trace(r)) # {}
  <2>1. run' = [PendingEnded(Trace(r)) EXCEPT ![r].at = "over"] /\ UNCHANGED down BY <1>3 DEF Start
  <2>2. /\ PendingEnded(Trace(r)) \in [Runs -> Run]
        /\ \A o \in Runs : PendingEnded(Trace(r))[o] = IF o \in Pending(Trace(r)) THEN EndedWithError(run[o]) ELSE run[o]
    BY <1>1, PendingEndedType
  <2>3. PendingEnded(Trace(r))[r] = run[r] BY <1>1, <2>2 DEF Pending
  <2>4. run'[r] = [run[r] EXCEPT !.at = "over"] BY <2>1, <2>2, <2>3
  <2>5. run'[r].at = "over" /\ run'[r].result = "none" /\ run'[r].text = 0 /\ ~run'[r].prepared
    BY <1>2, <2>4 DEF TypesInv, Run, Fresh
  <2>6. \A o \in Runs \ {r} : run'[o] = IF o \in Pending(Trace(r)) THEN EndedWithError(run[o]) ELSE run[o]
    BY <2>1, <2>2
  <2> QED BY <1>1, <1>2, <2>1, <2>5, <2>6 DEF Replaces
<1>4. CASE Pending(Trace(r)) = {} /\ run[r].aborted BY <1>1, <1>2, <1>4 DEF Start, Refuses
<1>5. CASE Pending(Trace(r)) = {} /\ ~run[r].aborted
  <2> DEFINE l == [Line("run", Trace(r)) EXCEPT !.of = r]
  <2>1. l \in Lines
    <3>1. Line("run", Trace(r)) \in Lines BY <1>1, LineType DEF Kinds
    <3> QED BY <3>1 DEF Lines
  <2>2. l.kind = "run" /\ l.trace = Trace(r) /\ l.of = r BY DEF Line
  <2>3. run' = [run EXCEPT ![r].at = "pending"] /\ Sent(<<l>>) BY <1>5 DEF Start
  <2> HIDE DEF l
  <2>4. down' \in {down, Append(down, l)} /\ (~Alive => down' = down) BY <2>1, <2>3, SentOne DEF TypesInv
  <2> QED BY <1>1, <1>2, <1>5, <2>1, <2>2, <2>3, <2>4 DEF IsSent
<1> QED BY <1>3, <1>4, <1>5

LEMMA StartKept ==
  ASSUME TypesInv, SentInv, ProcInv, TraceInv, NEW r \in Runs, Start(r)
  PROVE  SentInv' /\ ProcInv' /\ TraceInv'
<1>1. /\ run[r].at = "starting" /\ child = "ready" /\ Fresh(r) /\ Trace(r) \in Traces
      /\ UNCHANGED <<plan, child, proc, up, progress, calls, work, leases, history>>
      /\ Replaces(r) \/ Refuses(r) \/ IsSent(r)
  BY StartSteps, TraceType
<1>2. \A o \in Runs : run[o] \in Run /\ Trace(o)' = Trace(o) BY <1>1 DEF TypesInv, Trace
<1>3. \A o \in Runs \ {r} : \/ run'[o] = run[o]
                            \/ /\ o \in Pending(Trace(r)) /\ Replaces(r)
                               /\ run'[o].at = "over" /\ run'[o].result # "none" /\ ~run'[o].prepared
  <2> SUFFICES ASSUME NEW o \in Runs \ {r}
               PROVE  \/ run'[o] = run[o]
                      \/ /\ o \in Pending(Trace(r)) /\ Replaces(r)
                         /\ run'[o].at = "over" /\ run'[o].result # "none" /\ ~run'[o].prepared
    OBVIOUS
  <2>1. CASE Replaces(r) BY <1>2, <2>1, EndedType DEF Replaces
  <2>2. CASE Refuses(r) BY <2>2 DEF Refuses, TypesInv
  <2>3. CASE IsSent(r) BY <2>3 DEF IsSent, TypesInv
  <2> QED BY <1>1, <2>1, <2>2, <2>3
<1>4. \/ Replaces(r) /\ run'[r].at = "over" /\ run'[r].result = "none" /\ ~run'[r].prepared
      \/ Refuses(r) /\ run'[r].at = "over" /\ run'[r].result # "none" /\ ~run'[r].prepared
      \/ IsSent(r) /\ run'[r].at = "pending" /\ run'[r].result = "none" /\ Pending(Trace(r)) = {}
  <2>1. CASE Replaces(r) BY <2>1 DEF Replaces
  <2>2. CASE Refuses(r)
    <3>1. run'[r] = EndedWithError(run[r]) BY <2>2 DEF Refuses, TypesInv
    <3> QED BY <1>2, <2>2, <3>1, EndedType
  <2>3. CASE IsSent(r)
    <3>1. run'[r] = [run[r] EXCEPT !.at = "pending"] BY <2>3 DEF IsSent, TypesInv
    <3>2. run'[r].at = "pending" /\ run'[r].result = "none" BY <1>1, <1>2, <3>1 DEF Run, Fresh
    <3> QED BY <2>3, <3>2 DEF IsSent
  <2> QED BY <1>1, <2>1, <2>2, <2>3
<1>5. Begun(r)' BY <1>4 DEF Begun
<1>6. \A t \in Traces : \A o \in Carried(down', t) : o \in Carried(down, t) \/ (o = r /\ Trace(r) = t)
  <2> SUFFICES ASSUME NEW t \in Traces, NEW o \in Carried(down', t), o \notin Carried(down, t)
               PROVE  o = r /\ Trace(r) = t
    OBVIOUS
  <2>1. PICK l \in Lines : l.kind = "run" /\ l.trace = Trace(r) /\ l.of = r /\ down' = Append(down, l)
    BY <1>1 DEF Replaces, Refuses, IsSent
  <2>2. Carried(Append(down, l), t) = Carried(down, t) \cup (IF l.kind = "run" /\ l.trace = t THEN {l.of} ELSE {})
    <3>1. down \in Seq(Lines) BY DEF TypesInv
    <3> QED BY <3>1, WrittenRequest
  <2> QED BY <2>1, <2>2
<1>7. SentInv'
  <2>1. \A o \in Runs : Begun(o) => Begun(o)' BY <1>3, <1>5 DEF Begun
  <2>2. ASSUME NEW o \in Runs PROVE Begun(o)' \/ Fresh(o)'
    <3>1. CASE o = r BY <1>5, <3>1
    <3>2. CASE o # r /\ run'[o] = run[o] BY <1>1, <3>2 DEF SentInv, Begun, Fresh
    <3>3. CASE o # r /\ run'[o].at = "over" BY <3>3 DEF Begun
    <3> QED BY <1>3, <3>1, <3>2, <3>3
  <2> QED BY <1>1, <1>5, <1>6, <2>1, <2>2, SentKept
<1>8. ProcInv'
  <2>1. proc \in {"none", "gone"} => down' = down BY <1>1 DEF Replaces, Refuses, IsSent, Alive
  <2>2. ASSUME NEW o \in Runs
        PROVE  (run'[o].at = "over" => ~run'[o].prepared) /\ (run'[o].at = "pending" => child' = "ready")
    BY <1>1, <1>3, <1>4 DEF ProcInv
  <2> QED BY <1>1, <2>1, <2>2 DEF ProcInv
<1>9. TraceInv'
  <2> SUFFICES ASSUME NEW o \in Runs, NEW s \in Runs, o # s, Trace(o) = Trace(s)
               PROVE  /\ ~(run'[o].at = "pending" /\ run'[s].at = "pending")
                      /\ run'[o].at # "idle" /\ run'[s].at # "idle" => run'[o].result # "none" \/ run'[s].result # "none"
                      /\ ~(run'[o].at = "over" /\ run'[o].result = "none" /\ run'[s].at = "pending")
    BY <1>2 DEF TraceInv
  <2>1. CASE o # r /\ s # r BY <1>3, <2>1 DEF TraceInv
  <2>2. ASSUME NEW q \in Runs, q # r, Trace(q) = Trace(r)
        PROVE  /\ run'[q].at = "pending" => run'[r].at = "over" /\ run'[r].result # "none"
               /\ run'[q].at = "over" /\ run'[q].result = "none" => FALSE
               /\ run'[q].at # "idle" => run'[q].result # "none"
    <3>1. run[q].at # "idle" => run[q].result # "none" BY <1>1, <2>2 DEF TraceInv, Fresh
    <3>2. run'[q].at # "idle" => run'[q].result # "none" BY <1>3, <2>2, <3>1
    <3>3. ASSUME run'[q].at = "pending" PROVE run'[r].at = "over" /\ run'[r].result # "none"
      <4>1. run'[q] = run[q] /\ q \in Pending(Trace(r)) BY <1>3, <2>2, <3>3 DEF Pending
      <4>2. ~Replaces(r)
        <5>1. run[q] \in Run BY <1>2
        <5> QED BY <2>2, <3>3, <4>1, <5>1, EndedType DEF Replaces
      <4> QED BY <1>4, <4>1, <4>2
    <3> QED BY <3>2, <3>3
  <2>3. CASE o = r BY <1>4, <2>2, <2>3
  <2>4. CASE s = r BY <1>4, <2>2, <2>4
  <2> QED BY <2>1, <2>3, <2>4
<1> QED BY <1>7, <1>8, <1>9

-----------------------------------------------------------------------------
(* What a step of the helper does.                                          *)

\* It reads a line: a turn starts, the turn at work takes it in, or nothing comes of it.
Starts(t, line) ==
  /\ work[t].at = "none" /\ line.kind = "run" /\ up' = up
  /\ work'[t].of = line.of /\ work'[t].at = "lease" /\ work'[t].mirror = NewProgress
TakesIn(t, line) ==
  /\ work[t].at # "none" /\ line.kind # "run" /\ up' = up
  /\ work'[t].of = work[t].of /\ work'[t].at # "none"
  /\ \/ work'[t].mirror = work[t].mirror
     \/ line.kind = "progress" /\ work'[t].mirror = Applied(work[t].mirror, line.snapshot)
  /\ work'[t].at = "done" => work[t].at = "done" \/ (line.kind = "committed" /\ line.n = 1)
ReadsLine(t) ==
  /\ proc = "up" /\ down # <<>> /\ Head(down).trace = t /\ down' = Tail(down)
  /\ UNCHANGED <<plan, child, proc, run, progress, calls, leases, history>>
  /\ \A u \in Traces \ {t} : work'[u] = work[u]
  /\ \/ Starts(t, Head(down)) \/ TakesIn(t, Head(down))
     \/ work'[t] = work[t] /\ (up' = up \/ up' = Append(up, Line("error", t)))

LEMMA ReadsSteps ==
  ASSUME TypesInv, Reads
  PROVE  \E t \in Traces : ReadsLine(t)
<1>1. PICK t \in Traces : ReadRun(t) \/ ReadAbort(t) \/ ReadPrepared(t) \/ ReadBegan(t) \/ ReadCommitted(t) \/ ReadProgress(t)
  BY DEF Reads
<1>2. /\ proc = "up" /\ down # <<>> /\ Head(down).trace = t /\ down' = Tail(down)
      /\ UNCHANGED <<plan, child, proc, run, progress, calls, leases, history>>
  BY <1>1 DEF ReadRun, ReadAbort, ReadPrepared, ReadBegan, ReadCommitted, ReadProgress, Read
<1>3. work[t] \in Work BY DEF TypesInv
<1>4. ASSUME NEW w, work' = [work EXCEPT ![t] = w]
      PROVE  work'[t] = w /\ \A u \in Traces \ {t} : work'[u] = work[u]
  BY <1>4 DEF TypesInv
<1>5. /\ \A u \in Traces \ {t} : work'[u] = work[u]
      /\ \/ Starts(t, Head(down)) \/ TakesIn(t, Head(down))
         \/ work'[t] = work[t] /\ (up' = up \/ up' = Append(up, Line("error", t)))
  <2>1. CASE ReadRun(t)
    <3> DEFINE w == [NoWork EXCEPT !.of = Head(down).of, !.at = "lease"]
    <3>1. Head(down).kind = "run" BY <2>1 DEF ReadRun, Read
    <3>2. w.of = Head(down).of /\ w.at = "lease" /\ w.mirror = NewProgress BY DEF NoWork
    <3>3. \/ work[t].at = "none" /\ work' = [work EXCEPT ![t] = w] /\ up' = up
          \/ work' = work /\ up' = Append(up, Line("error", t))
      BY <2>1 DEF ReadRun
    <3> HIDE DEF w
    <3> QED BY <1>4, <3>1, <3>2, <3>3 DEF Starts
  <2>2. CASE ReadAbort(t)
    <3> DEFINE w == [work[t] EXCEPT !.aborted = TRUE, !.told = IF @ = "none" THEN "cancelled" ELSE @,
                                    !.at = IF @ \in {"begin", "commit"} THEN "failed" ELSE @]
    <3>1. Head(down).kind = "abort" /\ up' = up BY <2>2 DEF ReadAbort, Read
    <3>2. w.of = work[t].of /\ w.mirror = work[t].mirror /\ w.at = IF work[t].at \in {"begin", "commit"} THEN "failed" ELSE work[t].at
      BY <1>3 DEF Work
    <3>3. work' = work \/ (work[t].at # "none" /\ work' = [work EXCEPT ![t] = w]) BY <2>2 DEF ReadAbort
    <3> HIDE DEF w
    <3> QED BY <1>4, <3>1, <3>2, <3>3 DEF TakesIn
  <2>3. CASE ReadPrepared(t)
    <3> DEFINE w == [work[t] EXCEPT !.told = IF @ = "none" THEN "given" ELSE @]
    <3>1. Head(down).kind = "prepared" BY <2>3 DEF ReadPrepared, Read
    <3>2. w.of = work[t].of /\ w.mirror = work[t].mirror /\ w.at = work[t].at BY <1>3 DEF Work
    <3>3. \/ work[t].at # "none" /\ work' = [work EXCEPT ![t] = w] /\ up' = up
          \/ work' = work /\ up' = Append(up, Line("error", t))
      BY <2>3 DEF ReadPrepared
    <3> HIDE DEF w
    <3> QED BY <1>4, <3>1, <3>2, <3>3 DEF TakesIn
  <2>4. CASE ReadBegan(t)
    <3> DEFINE w == [work[t] EXCEPT !.at = "answer", !.fence = Head(down).n]
    <3>1. Head(down).kind = "began" /\ up' = up BY <2>4 DEF ReadBegan, Read
    <3>2. w.of = work[t].of /\ w.mirror = work[t].mirror /\ w.at = "answer" BY <1>3 DEF Work
    <3>3. work' = work \/ (work[t].at = "begin" /\ work' = [work EXCEPT ![t] = w]) BY <2>4 DEF ReadBegan, Waits
    <3> HIDE DEF w
    <3> QED BY <1>4, <3>1, <3>2, <3>3 DEF TakesIn
  <2>5. CASE ReadCommitted(t)
    <3> DEFINE w == [work[t] EXCEPT !.at = IF Head(down).n = 1 THEN "done" ELSE "answer",
                                    !.fence = IF Head(down).n = 1 THEN @ ELSE 0]
    <3>1. Head(down).kind = "committed" /\ up' = up BY <2>5 DEF ReadCommitted, Read
    <3>2. w.of = work[t].of /\ w.mirror = work[t].mirror /\ w.at = IF Head(down).n = 1 THEN "done" ELSE "answer"
      BY <1>3 DEF Work
    <3>3. work' = work \/ (work[t].at = "commit" /\ work' = [work EXCEPT ![t] = w]) BY <2>5 DEF ReadCommitted, Waits
    <3> HIDE DEF w
    <3> QED BY <1>4, <3>1, <3>2, <3>3 DEF TakesIn
  <2>6. CASE ReadProgress(t)
    <3> DEFINE w == [work[t] EXCEPT !.mirror = Applied(@, Head(down).snapshot)]
    <3>1. Head(down).kind = "progress" /\ up' = up BY <2>6 DEF ReadProgress, Read
    <3>2. w.of = work[t].of /\ w.mirror = Applied(work[t].mirror, Head(down).snapshot) /\ w.at = work[t].at
      BY <1>3 DEF Work
    <3>3. work' = work \/ (work[t].at # "none" /\ work' = [work EXCEPT ![t] = w]) BY <2>6 DEF ReadProgress
    <3> HIDE DEF w
    <3> QED BY <1>4, <3>1, <3>2, <3>3 DEF TakesIn
  <2> QED BY <1>1, <2>1, <2>2, <2>3, <2>4, <2>5, <2>6
<1>6. ReadsLine(t) BY <1>2, <1>5 DEF ReadsLine
<1> QED BY <1>6

\* The turn at work writes lines of its trace: none or one that carries nothing, a piece of text,
\* a boundary, or its last ones.
GoesOn(t) ==
  /\ work'[t].at # "none" /\ work'[t].of = work[t].of
  /\ work'[t].at = "done" => work[t].at = "done"
SaysNothing(t) ==
  /\ GoesOn(t) /\ work'[t].mirror = work[t].mirror
  /\ history'[work[t].of].text = history[work[t].of].text
  /\ history'[work[t].of].observed = history[work[t].of].observed
  /\ \/ up' = up
     \/ \E l \in Lines : /\ l.trace = t /\ l.kind \in {"selected", "begin", "commit"}
                         /\ up' = Append(up, l)
SaysText(t) ==
  /\ GoesOn(t) /\ work'[t].mirror = work[t].mirror
  /\ history'[work[t].of].text = history[work[t].of].text + 1
  /\ history'[work[t].of].observed = history[work[t].of].observed
  /\ up' = Append(up, Line("text", t))
SaysObserved(t) ==
  /\ GoesOn(t)
  /\ work[t].mirror.batch > work[t].mirror.observed
  /\ work'[t].mirror = [work[t].mirror EXCEPT !.observed = work[t].mirror.batch]
  /\ history'[work[t].of].text = history[work[t].of].text
  /\ history'[work[t].of].observed = work[t].mirror.batch
  /\ \E l \in Lines : /\ l.trace = t /\ l.kind = "observed" /\ l.n = work[t].mirror.batch
                      /\ up' = Append(up, l)
Fails(t) ==
  /\ work'[t] = NoWork /\ UNCHANGED history
  /\ up' = Append(Append(up, Line("error", t)), Line("settled", t))
Completes(t) ==
  /\ work'[t] = NoWork /\ work[t].at = "done"
  /\ history'[work[t].of].text = history[work[t].of].text + 1
  /\ history'[work[t].of].observed = history[work[t].of].observed
  /\ \E last \in {"result", "error"} :
       up' = Append(Append(Append(up, Line("text", t)), Line(last, t)), Line("settled", t))
WorksStep(t) ==
  /\ work[t].at # "none"
  /\ UNCHANGED <<plan, child, proc, down, run, progress, calls>>
  /\ \A u \in Traces \ {t} : work'[u] = work[u]
  /\ \A o \in Runs : /\ o # work[t].of => history'[o] = history[o]
                     /\ history'[o].unprepared = history[o].unprepared
  /\ SaysNothing(t) \/ SaysText(t) \/ SaysObserved(t) \/ Fails(t) \/ Completes(t)

LEMMA WorksSteps ==
  ASSUME TypesInv, SentInv, NEW t \in Traces, Works(t)
  PROVE  WorksStep(t)
<1>1. /\ work[t].at # "none" /\ UNCHANGED <<plan, child, proc, down, run, progress, calls>>
  BY DEF Works, Lease, Select, Open, Fail, Say, Observe, Ask, Ready, Complete, At
<1>2. work[t] \in Work /\ work[t].of \in Runs BY <1>1 DEF SentInv, TypesInv
<1>3. ASSUME NEW w, work' = [work EXCEPT ![t] = w]
      PROVE  work'[t] = w /\ \A u \in Traces \ {t} : work'[u] = work[u]
  BY <1>3 DEF TypesInv
<1>4. ASSUME NEW kind \in Kinds
      PROVE  Line(kind, t) \in Lines /\ Line(kind, t).kind = kind /\ Line(kind, t).trace = t
  BY LineType DEF Line
<1>5. history[work[t].of] \in [text : Nat, observed : Nat, opened : BOOLEAN, unprepared : BOOLEAN]
  BY <1>2 DEF TypesInv
<1>6. ASSUME NEW h, history' = [history EXCEPT ![work[t].of] = h], h.unprepared = history[work[t].of].unprepared
      PROVE  /\ history'[work[t].of] = h
             /\ \A o \in Runs : /\ o # work[t].of => history'[o] = history[o]
                                /\ history'[o].unprepared = history[o].unprepared
  BY <1>2, <1>6 DEF TypesInv
<1>7. ASSUME history' = Wrote(t, 1)
      PROVE  /\ history'[work[t].of].text = history[work[t].of].text + 1
             /\ history'[work[t].of].observed = history[work[t].of].observed
             /\ \A o \in Runs : /\ o # work[t].of => history'[o] = history[o]
                                /\ history'[o].unprepared = history[o].unprepared
  <2> DEFINE h == [history[work[t].of] EXCEPT !.text = @ + 1]
  <2>1. history' = [history EXCEPT ![work[t].of] = h] BY <1>7 DEF Wrote
  <2>2. /\ h.unprepared = history[work[t].of].unprepared /\ h.observed = history[work[t].of].observed
        /\ h.text = history[work[t].of].text + 1
    BY <1>5
  <2> HIDE DEF h
  <2> QED BY <1>6, <2>1, <2>2
<1>8. ASSUME NEW lines, Over(t, lines)
      PROVE  work'[t] = NoWork /\ \A u \in Traces \ {t} : work'[u] = work[u]
  <2>1. work' = [work EXCEPT ![t] = NoWork] BY <1>8 DEF Over
  <2> QED BY <1>3, <2>1
<1>9. ASSUME Over(t, <<Line("error", t)>>), history' = history PROVE WorksStep(t)
  <2>1. up' = Append(Append(up, Line("error", t)), Line("settled", t)) BY <1>9, OverType DEF Kinds
  <2> QED BY <1>1, <1>8, <1>9, <2>1 DEF WorksStep, Fails
<1>10. CASE Lease(t)
  <2> DEFINE w == [work[t] EXCEPT !.at = "select"]
             l == Line("selected", t)
  <2>1. history' = history BY <1>10 DEF Lease
  <2>2. CASE Writes(<<l>>) /\ work' = [work EXCEPT ![t] = w]
    <3>1. w.at = "select" /\ w.of = work[t].of /\ w.mirror = work[t].mirror BY <1>2 DEF Work
    <3>2. l \in Lines /\ l.kind = "selected" /\ l.trace = t BY <1>4 DEF Kinds
    <3> HIDE DEF w, l
    <3>3. up' = Append(up, l) BY <2>2, <3>2, WritesOne DEF TypesInv
    <3>4. SaysNothing(t) BY <1>3, <2>1, <2>2, <3>1, <3>2, <3>3 DEF SaysNothing, GoesOn
    <3> QED BY <1>1, <1>3, <2>1, <2>2, <3>4 DEF WorksStep
  <2> QED BY <1>9, <1>10, <2>1, <2>2 DEF Lease
<1>11. CASE Select(t)
  <2> DEFINE w == [work[t] EXCEPT !.at = "page"]
  <2>1. history' = history BY <1>11 DEF Select
  <2>2. CASE work' = [work EXCEPT ![t] = w] /\ up' = up
    <3>1. w.at = "page" /\ w.of = work[t].of /\ w.mirror = work[t].mirror BY <1>2 DEF Work
    <3> HIDE DEF w
    <3>2. SaysNothing(t) BY <1>3, <2>1, <2>2, <3>1 DEF SaysNothing, GoesOn
    <3> QED BY <1>1, <1>3, <2>1, <2>2, <3>2 DEF WorksStep
  <2>3. CASE Writes(<<Line("error", t), Line("settled", t)>>) /\ work' = [work EXCEPT ![t] = NoWork]
    <3>1. up' = Append(Append(up, Line("error", t)), Line("settled", t))
      <4>1. "error" \in Kinds /\ "settled" \in Kinds BY DEF Kinds
      <4> QED BY <1>4, <2>3, <4>1, WritesTwo DEF TypesInv
    <3>2. Fails(t) BY <1>3, <2>1, <2>3, <3>1 DEF Fails
    <3> QED BY <1>1, <1>3, <2>1, <2>3, <3>2 DEF WorksStep
  <2> QED BY <1>11, <2>2, <2>3 DEF Select
<1>12. CASE Open(t)
  <2> DEFINE w == [work[t] EXCEPT !.at = "answer"]
             h == [history[work[t].of] EXCEPT !.opened = TRUE]
  <2>1. work' = [work EXCEPT ![t] = w] /\ history' = [history EXCEPT ![work[t].of] = h] /\ up' = up
    BY <1>12 DEF Open
  <2>2. w.at = "answer" /\ w.of = work[t].of /\ w.mirror = work[t].mirror BY <1>2 DEF Work
  <2>3. /\ h.unprepared = history[work[t].of].unprepared /\ h.observed = history[work[t].of].observed
        /\ h.text = history[work[t].of].text
    BY <1>5
  <2> HIDE DEF w, h
  <2>4. SaysNothing(t) BY <1>3, <1>6, <2>1, <2>2, <2>3 DEF SaysNothing, GoesOn
  <2> QED BY <1>1, <1>3, <1>6, <2>1, <2>3, <2>4 DEF WorksStep
<1>13. CASE Fail(t) BY <1>9, <1>13 DEF Fail
<1>14. CASE Say(t)
  <2> DEFINE w == [work[t] EXCEPT !.written = @ + 1, !.fence = 0]
  <2>1. work' = [work EXCEPT ![t] = w] /\ history' = Wrote(t, 1) /\ Writes(<<Line("text", t)>>) /\ work[t].at = "answer"
    BY <1>14 DEF Say, At
  <2>2. w.at = "answer" /\ w.of = work[t].of /\ w.mirror = work[t].mirror BY <1>2, <2>1 DEF Work
  <2> HIDE DEF w
  <2>3. up' = Append(up, Line("text", t))
    <3>1. "text" \in Kinds BY DEF Kinds
    <3> QED BY <1>4, <2>1, <3>1, WritesOne DEF TypesInv
  <2>4. SaysText(t) BY <1>3, <1>7, <2>1, <2>2, <2>3 DEF SaysText, GoesOn
  <2> QED BY <1>1, <1>3, <1>7, <2>1, <2>4 DEF WorksStep
<1>15. CASE Observe(t)
  <2> DEFINE mirror == work[t].mirror
             w == [work[t] EXCEPT !.mirror = Observed(mirror, mirror.batch), !.fence = 0]
             h == [history[work[t].of] EXCEPT !.observed = mirror.batch]
             l == [Line("observed", t) EXCEPT !.n = mirror.batch]
  <2>1. mirror \in Progress BY <1>2 DEF Work
  <2>2. mirror.batch \in Nat /\ mirror.observed \in Nat BY <2>1 DEF Progress
  <2>3. work[t].at = "answer" /\ mirror.batch > mirror.observed BY <1>15 DEF Observe, At, Boundary
  <2>4. Observed(mirror, mirror.batch) = [mirror EXCEPT !.observed = mirror.batch]
    <3>1. Observed(mirror, mirror.batch) = [mirror EXCEPT !.observed = IF mirror.batch > mirror.observed THEN mirror.batch ELSE mirror.observed]
      BY <2>1, <2>2, ProgressSteps
    <3> QED BY <2>3, <3>1
  <2>5. /\ w.at = "answer" /\ w.of = work[t].of /\ w.mirror = [mirror EXCEPT !.observed = mirror.batch]
    BY <1>2, <2>3, <2>4 DEF Work
  <2>6. /\ h.unprepared = history[work[t].of].unprepared /\ h.observed = mirror.batch
        /\ h.text = history[work[t].of].text
    BY <1>5
  <2>7. l \in Lines /\ l.kind = "observed" /\ l.trace = t /\ l.n = mirror.batch
    <3>1. Line("observed", t) \in Lines BY <1>4 DEF Kinds
    <3> QED BY <2>2, <3>1 DEF Lines, Line
  <2>8. work' = [work EXCEPT ![t] = w] /\ history' = [history EXCEPT ![work[t].of] = h] /\ Writes(<<l>>)
    BY <1>15 DEF Observe
  <2> HIDE DEF w, h, l
  <2>9. up' = Append(up, l) BY <2>7, <2>8, WritesOne DEF TypesInv
  <2>11. work'[t] = w /\ history'[work[t].of] = h BY <1>3, <1>6, <2>6, <2>8
  <2>12. GoesOn(t) BY <2>5, <2>11 DEF GoesOn
  <2>10. SaysObserved(t) BY <2>3, <2>5, <2>6, <2>7, <2>9, <2>11, <2>12 DEF SaysObserved
  <2> QED BY <1>1, <1>3, <1>6, <2>6, <2>8, <2>10 DEF WorksStep
<1>16. CASE Ask(t)
  <2> DEFINE at == IF work[t].fence = 0 THEN "begin" ELSE "commit"
             request == NextRequest(work[t].request)
             w == [work[t] EXCEPT !.at = at, !.request = request]
             n == IF at = "commit" THEN work[t].fence - 1 ELSE 0
             l == [Line(at, t) EXCEPT !.request = request, !.n = n]
  <2>1. at \in {"begin", "commit"} /\ (at = "commit" => work[t].fence # 0) OBVIOUS
  <2>2. request \in 0 .. 2 /\ work[t].fence \in Nat
    <3>1. work[t].request \in 0 .. 2 /\ work[t].fence \in Nat BY <1>2 DEF Work
    <3> QED BY <3>1 DEF NextRequest
  <2>3. n \in Nat
    <3> HIDE DEF at
    <3> QED BY <2>1, <2>2
  <2>4. work' = [work EXCEPT ![t] = w] /\ Writes(<<l>>) /\ history' = history
    BY <1>16 DEF Ask
  <2> HIDE DEF at, request, n
  <2>5. w.at \in {"begin", "commit"} /\ w.of = work[t].of /\ w.mirror = work[t].mirror BY <1>2, <2>1 DEF Work
  <2>6. l \in Lines /\ l.kind \in {"begin", "commit"} /\ l.trace = t
    <3>1. Line(at, t) \in Lines BY <1>4, <2>1 DEF Kinds
    <3>2. l \in Lines BY <2>2, <2>3, <3>1 DEF Lines
    <3>3. l.kind = at /\ l.trace = t BY DEF Line
    <3> QED BY <2>1, <3>2, <3>3
  <2> HIDE DEF w, l
  <2>7. up' = Append(up, l) BY <2>4, <2>6, WritesOne DEF TypesInv
  <2>8. SaysNothing(t) BY <1>3, <2>4, <2>5, <2>6, <2>7 DEF SaysNothing, GoesOn
  <2> QED BY <1>1, <1>3, <2>4, <2>8 DEF WorksStep
<1>17. CASE Complete(t)
  <2>1. history' = Wrote(t, 1) /\ work[t].at = "done" BY <1>17 DEF Complete, At
  <2>2. ASSUME NEW last \in {"result", "error"}, Over(t, <<Line("text", t), Line(last, t)>>) PROVE WorksStep(t)
    <3>1. "text" \in Kinds /\ last \in Kinds BY DEF Kinds
    <3>2. up' = Append(Append(Append(up, Line("text", t)), Line(last, t)), Line("settled", t))
      BY <2>2, <3>1, OverTypeTwo
    <3>3. Completes(t) BY <1>7, <1>8, <2>1, <2>2, <3>2 DEF Completes
    <3> QED BY <1>1, <1>7, <1>8, <2>1, <2>2, <3>3 DEF WorksStep
  <2>3. Over(t, <<Line("text", t), Line("result", t)>>) \/ Over(t, <<Line("text", t), Line("error", t)>>)
    BY <1>17 DEF Complete, LastLines
  <2> QED BY <2>2, <2>3
<1> QED BY <1>10, <1>11, <1>12, <1>13, <1>14, <1>15, <1>16, <1>17 DEF Works

-----------------------------------------------------------------------------
(* The invariants of every trace, in the other steps.                       *)

\* Steps that touch no turn, and send the helper nothing.
LEMMA PlainKept ==
  ASSUME SentInv, ProcInv, TraceInv, UNCHANGED <<plan, down, run, progress, calls, work, history>>,
         (proc' = "none") <=> (child' = "none"), proc' # "none" => proc # "none",
         child = "ready" => child' = "ready", proc' \in {"none", "gone"} => proc' = proc
  PROVE  SentInv' /\ ProcInv' /\ TraceInv'
<1>1. SentInv'
  <2>1. \A o \in Runs : (Begun(o) => Begun(o)') /\ (Fresh(o) => Fresh(o)') BY DEF Begun, Fresh
  <2> QED BY <2>1, SentKept DEF SentInv
<1>2. ProcInv' BY DEF ProcInv
<1>3. TraceInv' BY DEF TraceInv, Trace
<1> QED BY <1>1, <1>2, <1>3

LEMMA ExitKept ==
  ASSUME TypesInv, SentInv, ProcInv, TraceInv, Exit
  PROVE  SentInv' /\ ProcInv' /\ TraceInv' /\ \A t \in Traces : work[t].at = "none"
<1>1. /\ child' = "none" /\ proc' = "none" /\ up' = <<>> /\ down' = <<>>
      /\ run' = [r \in Runs |-> Exited(run[r])] /\ plan'.trace = plan.trace
      /\ UNCHANGED <<progress, calls, work, history>>
  BY DEF Exit, TypesInv
<1>2. \A t \in Traces : work[t].at = "none" BY DEF Exit, ProcInv
<1>3. \A o \in Runs : \/ run'[o] = run[o] /\ run[o].at \in {"idle", "over"}
                      \/ /\ run[o].at \in {"starting", "pending"} /\ run'[o].at = "over"
                         /\ run'[o].result # "none" /\ ~run'[o].prepared
  <2> SUFFICES ASSUME NEW o \in Runs
               PROVE  \/ run'[o] = run[o] /\ run[o].at \in {"idle", "over"}
                      \/ /\ run[o].at \in {"starting", "pending"} /\ run'[o].at = "over"
                         /\ run'[o].result # "none" /\ ~run'[o].prepared
    OBVIOUS
  <2>1. run[o] \in Run /\ run'[o] = Exited(run[o]) BY <1>1 DEF TypesInv
  <2>2. run[o].at \in {"idle", "over", "starting", "pending"} BY <2>1 DEF Run
  <2>3. CASE run[o].at \in {"starting", "pending"} BY <2>1, <2>3, EndedType DEF Exited
  <2> QED BY <2>1, <2>2, <2>3 DEF Exited
<1>4. \A t \in Traces : Carried(down', t) = {} BY <1>1, NoLines
<1>5. SentInv'
  <2>1. \A o \in Runs : Begun(o) => Begun(o)' BY <1>3 DEF Begun
  <2>2. ASSUME NEW o \in Runs PROVE Begun(o)' \/ Fresh(o)'
    <3>1. CASE run'[o] = run[o] BY <1>1, <3>1 DEF SentInv, Begun, Fresh
    <3>2. CASE run'[o].at = "over" BY <3>2 DEF Begun
    <3> QED BY <1>3, <3>1, <3>2
  <2> QED BY <1>1, <1>4, <2>1, <2>2, SentKept
<1>6. ProcInv' BY <1>1, <1>2, <1>3 DEF ProcInv
<1>7. TraceInv'
  <2> SUFFICES ASSUME NEW o \in Runs, NEW s \in Runs, o # s, Trace(o) = Trace(s)
               PROVE  /\ ~(run'[o].at = "pending" /\ run'[s].at = "pending")
                      /\ run'[o].at # "idle" /\ run'[s].at # "idle" => run'[o].result # "none" \/ run'[s].result # "none"
                      /\ ~(run'[o].at = "over" /\ run'[o].result = "none" /\ run'[s].at = "pending")
    BY <1>1 DEF TraceInv, Trace
  <2>1. run'[s].at # "pending" /\ run'[o].at # "pending" BY <1>3
  <2>2. run'[o].at # "idle" /\ run'[s].at # "idle" => run'[o].result # "none" \/ run'[s].result # "none"
    BY <1>3 DEF TraceInv
  <2> QED BY <2>1, <2>2
<1> QED BY <1>2, <1>5, <1>6, <1>7

LEMMA DieKept ==
  ASSUME TypesInv, SentInv, ProcInv, TraceInv, Die
  PROVE  SentInv' /\ ProcInv' /\ TraceInv'
<1>1. /\ plan'.trace = plan.trace /\ proc' = "gone" /\ proc # "none" /\ down' = <<>>
      /\ \A t \in Traces : work'[t].at = "none"
      /\ UNCHANGED <<child, up, run, progress, calls, leases, history>>
  BY DEF Die, TypesInv, Alive, NoWork
<1>2. \A t \in Traces : Carried(down', t) = {} BY <1>1, NoLines
<1>3. SentInv'
  <2>1. \A o \in Runs : (Begun(o) => Begun(o)') /\ (Fresh(o) => Fresh(o)') BY <1>1 DEF Begun, Fresh
  <2> QED BY <1>1, <1>2, <2>1, SentKept DEF SentInv
<1>4. ProcInv' BY <1>1 DEF ProcInv
<1>5. TraceInv' BY <1>1 DEF TraceInv, Trace
<1> QED BY <1>3, <1>4, <1>5

LEMMA ReadsKept ==
  ASSUME TypesInv, SentInv, ProcInv, TraceInv, NEW t \in Traces, ReadsLine(t)
  PROVE  SentInv' /\ ProcInv' /\ TraceInv'
<1>1. /\ proc = "up" /\ down # <<>> /\ Head(down).trace = t /\ down' = Tail(down)
      /\ UNCHANGED <<plan, child, proc, run, progress, calls, leases, history>>
      /\ \A u \in Traces \ {t} : work'[u] = work[u]
  BY DEF ReadsLine
<1>2. child = "ready" BY <1>1 DEF ProcInv
<1>3. down \in Seq(Lines) BY DEF TypesInv
<1>4. \A u \in Traces : Carried(down', u) \subseteq Carried(down, u) BY <1>1, <1>3, ReadRequest
<1>5. work'[t].at # "none" =>
        work'[t].of \in Carried(down, t) \/ (work[t].at # "none" /\ work'[t].of = work[t].of)
  <2>1. CASE Starts(t, Head(down))
    <3>1. Head(down).of \in Carried(down, t) BY <1>1, <1>3, <2>1, ReadRequest DEF Starts
    <3> QED BY <2>1, <3>1 DEF Starts
  <2>2. CASE TakesIn(t, Head(down)) BY <2>2 DEF TakesIn
  <2>3. CASE work'[t] = work[t] BY <2>3
  <2> QED BY <2>1, <2>2, <2>3 DEF ReadsLine
<1>6. SentInv'
  <2>1. \A o \in Runs : (Begun(o) => Begun(o)') /\ (Fresh(o) => Fresh(o)') BY <1>1 DEF Begun, Fresh
  <2>2. \A u \in Traces : work'[u].at # "none" =>
           work'[u].of \in Carried(down, u) \/ (work[u].at # "none" /\ work'[u].of = work[u].of)
    BY <1>1, <1>5
  <2>3. \A o \in Runs : Begun(o)' \/ Fresh(o)' BY <2>1 DEF SentInv
  <2> QED BY <1>1, <1>4, <2>1, <2>2, <2>3, SentKept
<1>7. ProcInv' BY <1>1, <1>2 DEF ProcInv
<1>8. TraceInv' BY <1>1 DEF TraceInv, Trace
<1> QED BY <1>6, <1>7, <1>8

LEMMA WorksKept ==
  ASSUME TypesInv, SentInv, ProcInv, TraceInv, NEW t \in Traces, WorksStep(t)
  PROVE  SentInv' /\ ProcInv' /\ TraceInv'
<1>1. /\ UNCHANGED <<plan, child, proc, down, run, progress, calls>> /\ work[t].at # "none"
      /\ \A u \in Traces \ {t} : work'[u] = work[u]
      /\ \A o \in Runs : o # work[t].of => history'[o] = history[o]
  BY DEF WorksStep
<1>2. child = "ready" /\ proc \notin {"none", "gone"} BY <1>1 DEF ProcInv
<1>3. work'[t].at # "none" => work'[t].of = work[t].of
  BY DEF WorksStep, SaysNothing, SaysText, SaysObserved, Fails, Completes, GoesOn, NoWork
<1>4. Begun(work[t].of) BY <1>1 DEF SentInv
<1>5. SentInv'
  <2>1. \A o \in Runs : Begun(o) => Begun(o)' BY <1>1 DEF Begun
  <2>2. ASSUME NEW o \in Runs PROVE Begun(o)' \/ Fresh(o)'
    <3>1. CASE o = work[t].of BY <1>4, <2>1, <3>1
    <3>2. CASE o # work[t].of BY <1>1, <3>2 DEF SentInv, Begun, Fresh
    <3> QED BY <3>1, <3>2
  <2>3. \A u \in Traces : work'[u].at # "none" =>
           work'[u].of \in Carried(down, u) \/ (work[u].at # "none" /\ work'[u].of = work[u].of)
    BY <1>1, <1>3
  <2>4. plan'.trace = plan.trace /\ down' = down BY <1>1
  <2>5. \A u \in Traces : \A o \in Carried(down', u) : o \in Carried(down, u) BY <2>4
  <2> QED BY <2>1, <2>2, <2>3, <2>4, <2>5, SentKept
<1>6. ProcInv' BY <1>1, <1>2 DEF ProcInv
<1>7. TraceInv' BY <1>1 DEF TraceInv, Trace
<1> QED BY <1>5, <1>6, <1>7

-----------------------------------------------------------------------------
(* The round.                                                               *)

LEMMA RoundKept ==
  ASSUME TypesInv, RoundInv, NEW r \in Runs,
         \A o \in Runs \ {r} : progress'[o] = progress[o] /\ calls'[o] = calls[o],
         /\ progress'[r].batch <= progress'[r].revision
         /\ calls'[r].boundary => progress'[r].active > 0
         /\ ~calls'[r].boundary => progress'[r].observed >= progress'[r].batch
         /\ calls'[r].committed => calls'[r].queued = 0 /\ progress'[r].active = 0
         /\ calls'[r].emitted <= progress'[r].observed
  PROVE  RoundInv'
BY DEF RoundInv

LEMMA RoundSame ==
  ASSUME RoundInv, UNCHANGED <<progress, calls>>
  PROVE  RoundInv'
BY DEF RoundInv

LEMMA ClientRound ==
  ASSUME TypesInv, RoundInv, NEW r \in Runs, Abort(r) \/ Prepare(r)
  PROVE  RoundInv'
<1>1. progress' = progress BY DEF Abort, Prepare
<1>2. \/ calls' = calls
      \/ calls' = [calls EXCEPT ![r].token = IF @ = "live" THEN "revoked" ELSE @]
      \/ calls' = [calls EXCEPT ![r].token = IF Retired(r) THEN "revoked" ELSE "live"]
  BY DEF Abort, Prepare
<1>3. /\ \A o \in Runs \ {r} : calls'[o] = calls[o]
      /\ calls'[r].boundary = calls[r].boundary /\ calls'[r].committed = calls[r].committed
      /\ calls'[r].queued = calls[r].queued /\ calls'[r].emitted = calls[r].emitted
  <2>1. calls[r] \in Calls BY DEF TypesInv
  <2>2. CASE calls' = calls BY <2>2
  <2>3. ASSUME NEW token, calls' = [calls EXCEPT ![r].token = token]
        PROVE  /\ \A o \in Runs \ {r} : calls'[o] = calls[o]
               /\ calls'[r].boundary = calls[r].boundary /\ calls'[r].committed = calls[r].committed
               /\ calls'[r].queued = calls[r].queued /\ calls'[r].emitted = calls[r].emitted
    BY <2>1, <2>3 DEF TypesInv, Calls
  <2> QED BY <1>2, <2>2, <2>3
<1> QED BY <1>1, <1>3, RoundKept DEF RoundInv

LEMMA HearsRound ==
  ASSUME TypesInv, RoundInv, NEW r \in Runs, HearsOf(r)
  PROVE  RoundInv'
<1>1. progress[r] \in Progress /\ calls[r] \in Calls BY DEF TypesInv
<1>2. CASE HearObserved(r)
  <2>1. calls' = calls /\ (progress' = progress \/ progress' = [progress EXCEPT ![r] = Observed(progress[r], Head(up).n)])
    BY <1>2 DEF HearObserved
  <2>2. CASE progress' = [progress EXCEPT ![r] = Observed(progress[r], Head(up).n)]
    <3> DEFINE n == Head(up).n  observed == IF n > progress[r].observed THEN n ELSE progress[r].observed
    <3>1. n \in Nat
      <4>1. Head(up) \in Lines BY HearsPending
      <4> QED BY <4>1 DEF Lines
    <3>2. progress'[r] = [progress[r] EXCEPT !.observed = observed] /\ \A o \in Runs \ {r} : progress'[o] = progress[o]
      <4>1. Observed(progress[r], n) = [progress[r] EXCEPT !.observed = observed] BY <1>1, <3>1, ProgressSteps
      <4> QED BY <2>2, <4>1 DEF TypesInv
    <3>3. /\ progress'[r].revision = progress[r].revision /\ progress'[r].batch = progress[r].batch
          /\ progress'[r].active = progress[r].active /\ progress'[r].observed = observed
      BY <1>1, <3>2 DEF Progress
    <3>4. /\ progress[r].revision \in Nat /\ progress[r].batch \in Nat /\ progress[r].observed \in Nat
          /\ calls[r].emitted \in Nat
      BY <1>1 DEF Progress, Calls
    <3>5. progress'[r].observed >= progress[r].observed BY <3>1, <3>3, <3>4
    <3>6. progress'[r].observed \in Nat BY <3>1, <3>3, <3>4
    <3> HIDE DEF observed, n
    <3>7. /\ progress[r].batch <= progress[r].revision
          /\ calls[r].boundary => progress[r].active > 0
          /\ ~calls[r].boundary => progress[r].observed >= progress[r].batch
          /\ calls[r].committed => calls[r].queued = 0 /\ progress[r].active = 0
          /\ calls[r].emitted <= progress[r].observed
      BY DEF RoundInv
    <3>8. /\ progress'[r].batch <= progress'[r].revision
          /\ calls'[r].boundary => progress'[r].active > 0
          /\ calls'[r].committed => calls'[r].queued = 0 /\ progress'[r].active = 0
      BY <2>1, <3>3, <3>7
    <3>9. ~calls'[r].boundary => progress'[r].observed >= progress'[r].batch BY <2>1, <3>3, <3>4, <3>5, <3>6, <3>7
    <3>10. calls'[r].emitted <= progress'[r].observed BY <2>1, <3>4, <3>5, <3>6, <3>7
    <3> QED BY <2>1, <3>2, <3>8, <3>9, <3>10, RoundKept
  <2> QED BY <2>1, <2>2, RoundSame
<1>3. CASE HearCommit(r)
  <2>1. progress' = progress BY <1>3 DEF HearCommit
  <2>2. CASE calls' = calls BY <2>1, <2>2, RoundSame
  <2>3. CASE calls' = [calls EXCEPT ![r].committed = Commits(r, Head(up).n)]
    <3>1. /\ \A o \in Runs \ {r} : calls'[o] = calls[o]
          /\ calls'[r].boundary = calls[r].boundary /\ calls'[r].committed = Commits(r, Head(up).n)
          /\ calls'[r].queued = calls[r].queued /\ calls'[r].emitted = calls[r].emitted
      BY <1>1, <2>3 DEF TypesInv
    <3>2. Quiet(r) => calls[r].queued = 0 /\ progress[r].active = 0 BY <1>1 DEF Quiet, Calls, Progress
    <3>3. calls'[r].committed => calls'[r].queued = 0 /\ progress'[r].active = 0
      BY <2>1, <3>1, <3>2 DEF Commits, RoundInv
    <3> QED BY <2>1, <3>1, <3>3, RoundKept DEF RoundInv
  <2> QED BY <1>3, <2>2, <2>3 DEF HearCommit
<1>4. CASE HearText(r) \/ HearSelected(r) \/ HearBegin(r) \/ HearResult(r) \/ HearError(r) \/ HearSettled(r)
  <2>1. UNCHANGED <<progress, calls>>
    BY <1>4 DEF HearText, HearSelected, HearBegin, HearResult, HearError, HearSettled
  <2> QED BY <2>1, RoundSame
<1> QED BY <1>2, <1>3, <1>4 DEF HearsOf

LEMMA RoundGoesOn ==
  ASSUME TypesInv, RoundInv, NEW r \in Runs, Call(r) \/ Batch(r) \/ Emit(r) \/ Answer(r) \/ Retire(r)
  PROVE  RoundInv'
<1>1. progress[r] \in Progress /\ calls[r] \in Calls BY DEF TypesInv
<1>2. /\ progress[r].revision \in Nat /\ progress[r].batch \in Nat /\ progress[r].observed \in Nat
      /\ progress[r].active \in Nat /\ calls[r].emitted \in Nat /\ calls[r].queued \in Nat
  BY <1>1 DEF Progress, Calls
<1>3. /\ progress[r].batch <= progress[r].revision
      /\ calls[r].boundary => progress[r].active > 0
      /\ ~calls[r].boundary => progress[r].observed >= progress[r].batch
      /\ calls[r].committed => calls[r].queued = 0 /\ progress[r].active = 0
      /\ calls[r].emitted <= progress[r].observed
  BY DEF RoundInv
<1>4. CASE Call(r)
  <2>1. calls' = [calls EXCEPT ![r].queued = @ + 1, ![r].revision = @ + 1] /\ progress' = progress /\ ~calls[r].committed
    BY <1>4 DEF Call
  <2>2. /\ \A o \in Runs \ {r} : calls'[o] = calls[o]
        /\ calls'[r].boundary = calls[r].boundary /\ calls'[r].committed = calls[r].committed
        /\ calls'[r].emitted = calls[r].emitted
    BY <1>1, <2>1 DEF TypesInv
  <2> QED BY <1>3, <2>1, <2>2, RoundKept
<1>5. CASE Batch(r)
  <2>1. /\ progress' = [progress EXCEPT ![r] = Recorded(progress[r], calls[r].queued)]
        /\ calls' = [calls EXCEPT ![r].boundary = TRUE, ![r].queued = 0] /\ calls[r].queued > 0
    BY <1>5 DEF Batch
  <2>2. /\ progress'[r] = Recorded(progress[r], calls[r].queued) /\ \A o \in Runs \ {r} : progress'[o] = progress[o]
        /\ \A o \in Runs \ {r} : calls'[o] = calls[o]
        /\ calls'[r].boundary /\ calls'[r].committed = calls[r].committed /\ calls'[r].emitted = calls[r].emitted
    BY <1>1, <2>1 DEF TypesInv
  <2>3. /\ progress'[r].batch = progress[r].revision + 1 /\ progress'[r].revision = progress[r].revision + 1
        /\ progress'[r].active = progress[r].active + calls[r].queued /\ progress'[r].observed = progress[r].observed
    <3>1. LET p == Recorded(progress[r], calls[r].queued) IN
          /\ p.batch = progress[r].revision + 1 /\ p.revision = progress[r].revision + 1
          /\ p.active = progress[r].active + calls[r].queued /\ p.observed = progress[r].observed
      BY <1>1, <1>2, ProgressSteps
    <3> QED BY <2>2, <3>1
  <2>4. progress'[r].active > 0 /\ progress'[r].batch <= progress'[r].revision BY <1>2, <2>1, <2>3
  <2>5. ~calls'[r].committed BY <1>3, <2>1, <2>2
  <2> QED BY <1>3, <2>2, <2>3, <2>4, <2>5, RoundKept
<1>6. CASE Emit(r)
  <2>1. /\ calls' = [calls EXCEPT ![r].boundary = FALSE, ![r].emitted = progress[r].batch] /\ progress' = progress
        /\ progress[r].observed >= progress[r].batch
    BY <1>6 DEF Emit, IsObserved
  <2>2. /\ \A o \in Runs \ {r} : calls'[o] = calls[o]
        /\ ~calls'[r].boundary /\ calls'[r].committed = calls[r].committed /\ calls'[r].queued = calls[r].queued
        /\ calls'[r].emitted = progress[r].batch
    BY <1>1, <2>1 DEF TypesInv
  <2>3. calls'[r].emitted <= progress'[r].observed BY <1>2, <2>1, <2>2
  <2> QED BY <1>3, <2>1, <2>2, <2>3, RoundKept
<1>7. CASE Answer(r)
  <2>1. /\ progress' = [progress EXCEPT ![r] = Answered(progress[r])] /\ progress[r].active > 0 /\ ~calls[r].boundary
        /\ calls' = [calls EXCEPT ![r].revision = @ + 1]
    BY <1>7 DEF Answer
  <2>2. /\ progress'[r] = Answered(progress[r]) /\ \A o \in Runs \ {r} : progress'[o] = progress[o]
        /\ \A o \in Runs \ {r} : calls'[o] = calls[o]
        /\ calls'[r].boundary = calls[r].boundary /\ calls'[r].committed = calls[r].committed
        /\ calls'[r].emitted = calls[r].emitted /\ calls'[r].queued = calls[r].queued
    BY <1>1, <2>1 DEF TypesInv
  <2>3. /\ progress'[r].batch = progress[r].batch /\ progress'[r].revision = progress[r].revision + 1
        /\ progress'[r].observed = progress[r].observed
    BY <1>1, <2>2 DEF Answered, Progress
  <2>4. progress'[r].batch <= progress'[r].revision BY <1>2, <1>3, <2>3
  <2>5. ~calls'[r].committed BY <1>2, <1>3, <2>1, <2>2
  <2> QED BY <1>3, <2>1, <2>2, <2>3, <2>4, <2>5, RoundKept
<1>8. CASE Retire(r)
  <2>1. calls' = [calls EXCEPT ![r].token = IF @ = "live" THEN "revoked" ELSE @] /\ progress' = progress BY <1>8 DEF Retire
  <2>2. /\ \A o \in Runs \ {r} : calls'[o] = calls[o]
        /\ calls'[r].boundary = calls[r].boundary /\ calls'[r].committed = calls[r].committed
        /\ calls'[r].queued = calls[r].queued /\ calls'[r].emitted = calls[r].emitted
    BY <1>1, <2>1 DEF TypesInv
  <2> QED BY <1>3, <2>1, <2>2, RoundKept
<1> QED BY <1>4, <1>5, <1>6, <1>7, <1>8

-----------------------------------------------------------------------------
(* The dialogue of a trace: what most steps leave of it.                    *)

\* No turn is sent or put to work, none writes; the ones that are pending or dead stay so, or
\* nothing of the trace is left anywhere.
TurnsGoOn(t) ==
  \A o \in Runs : Trace(o) = t =>
    /\ history'[o].text = history[o].text /\ history'[o].observed = history[o].observed
    /\ run'[o].at = "pending" => run[o].at = "pending"
    /\ progress[o].revision <= progress'[o].revision /\ progress[o].batch <= progress'[o].batch
    /\ calls[o].committed => calls'[o].committed
StillServed(t) ==
  \/ /\ Dead(t) => Dead(t)'
     /\ \A o \in Runs : Trace(o) = t /\ run[o].at = "pending" => run'[o].at = "pending" \/ Dead(t)'
  \/ work'[t].at = "none" /\ Carried(down', t) = {} /\ \A kind \in Own : ~Has(up', kind, t)
WorkGoesOn(t) ==
  work'[t].at # "none" =>
    LET r == work[t].of  old == work[t].mirror  new == work'[t].mirror IN
    /\ work[t].at # "none" /\ work'[t].of = r
    /\ new.observed = old.observed /\ old.observed <= new.batch
    /\ new.batch <= progress'[r].batch /\ new.revision <= progress'[r].revision
    /\ work'[t].at = "done" => calls'[r].committed
RequestsGoOn(t) ==
  /\ Carried(down', t) \subseteq Carried(down, t) /\ OneRun(down', t) /\ BehindHold(down', t, progress', calls')
  /\ work'[t].at # "none" => AllHold(down', t, progress'[work[t].of], calls'[work[t].of])
RepliesGoOn(t) ==
  /\ \A kind \in Own : Has(up', kind, t) => Has(up, kind, t)
  /\ Ordered(up', t) /\ \A n \in Nat : ObservedUpTo(up, t, n) => ObservedUpTo(up', t, n)
ToldInTime(t) ==
  \A o \in Runs : Trace(o) = t =>
    /\ run'[o].text <= history[o].text /\ progress'[o].observed <= history[o].observed
    /\ run'[o].at = "pending" => run'[o].text + TextsOf(up', t) = history[o].text
    /\ run'[o].result = "resolved" =>
         /\ run'[o].text = history[o].text /\ calls'[o].committed
         /\ work'[t].at = "none" \/ work'[t].of # o
         /\ o \notin Carried(down', t)
GoesOnWell(t) ==
  /\ TurnsGoOn(t) /\ StillServed(t) /\ WorkGoesOn(t) /\ RequestsGoOn(t) /\ RepliesGoOn(t) /\ ToldInTime(t)

LEMMA DialogueKept ==
  ASSUME TypesInv, TypesInv', SentInv, NEW t \in Traces, Dialogue(t), plan'.trace = plan.trace, GoesOnWell(t)
  PROVE  Dialogue(t)'
<1>1. \A o \in Runs : Trace(o)' = Trace(o) BY DEF Trace
<1>2. \A o \in Carried(down, t) : o \in Runs /\ Trace(o) = t BY DEF SentInv
<1>3. work[t].at # "none" => work[t].of \in Runs /\ Trace(work[t].of) = t BY DEF SentInv
<1>4. \/ work'[t].at = "none" /\ Carried(down', t) = {} /\ \A kind \in Own : ~Has(up', kind, t)
      \/ \A o \in Runs : Trace(o) = t /\ Serving(o) => Serving(o)'
  BY <1>1 DEF GoesOnWell, StillServed, Serving
<1>5. RunIsOne(t)'
  <2> SUFFICES ASSUME NEW o \in Carried(down', t)
               PROVE  work'[t].at = "none" /\ Serving(o)' /\ history'[o].text = 0 /\ history'[o].observed = 0
    BY DEF GoesOnWell, RequestsGoOn, RunIsOne
  <2>1. o \in Carried(down, t) /\ o \in Runs /\ Trace(o) = t BY <1>2 DEF GoesOnWell, RequestsGoOn
  <2>2. work[t].at = "none" /\ Serving(o) /\ history[o].text = 0 /\ history[o].observed = 0
    BY <2>1 DEF Dialogue, RunIsOne
  <2>3. history'[o].text = 0 /\ history'[o].observed = 0 BY <2>1, <2>2 DEF GoesOnWell, TurnsGoOn
  <2>4. work'[t].at = "none" BY <2>2 DEF GoesOnWell, WorkGoesOn
  <2>5. Serving(o)' BY <1>4, <2>1, <2>2
  <2> QED BY <2>3, <2>4, <2>5
<1>6. WorkIsOwned(t)'
  <2> SUFFICES ASSUME NEW r \in Runs, work'[t].at # "none", work'[t].of = r
               PROVE  /\ Serving(r)' /\ history'[r].observed = work'[t].mirror.observed
                      /\ work'[t].mirror.observed <= work'[t].mirror.batch
                      /\ work'[t].mirror.batch <= progress'[r].batch
                      /\ work'[t].mirror.revision <= progress'[r].revision
                      /\ work'[t].at = "done" => calls'[r].committed
    BY DEF WorkIsOwned
  <2>1. /\ work[t].at # "none" /\ work[t].of = r
        /\ work'[t].mirror.observed = work[t].mirror.observed /\ work[t].mirror.observed <= work'[t].mirror.batch
        /\ work'[t].mirror.batch <= progress'[r].batch /\ work'[t].mirror.revision <= progress'[r].revision
        /\ work'[t].at = "done" => calls'[r].committed
    BY DEF GoesOnWell, WorkGoesOn
  <2>2. Trace(r) = t BY <1>3, <2>1
  <2>3. Serving(r) /\ history[r].observed = work[t].mirror.observed BY <2>1 DEF Dialogue, WorkIsOwned
  <2>4. Serving(r)' BY <1>4, <2>2, <2>3
  <2>5. history'[r].observed = history[r].observed BY <2>2 DEF GoesOnWell, TurnsGoOn
  <2> QED BY <2>1, <2>3, <2>4, <2>5
<1>7. RepliesAreOwned(t)'
  <2>1. ASSUME NEW kind \in Own, Has(up', kind, t) PROVE Pending(t)' # {} \/ Dead(t)'
    <3>1. Pending(t) # {} \/ Dead(t) BY <2>1 DEF GoesOnWell, RepliesGoOn, Dialogue, RepliesAreOwned
    <3>2. /\ Dead(t) => Dead(t)'
          /\ \A o \in Runs : Trace(o) = t /\ run[o].at = "pending" => run'[o].at = "pending" \/ Dead(t)'
      BY <2>1 DEF GoesOnWell, StillServed
    <3> QED BY <1>1, <3>1, <3>2 DEF Pending
  <2>2. ASSUME Has(up', "result", t) \/ Has(up', "settled", t) PROVE work'[t].at = "none" /\ Carried(down', t) = {}
    <3>1. Has(up, "result", t) \/ Has(up, "settled", t) BY <2>2 DEF GoesOnWell, RepliesGoOn, Own
    <3>2. work[t].at = "none" /\ Carried(down, t) = {} BY <3>1 DEF Dialogue, RepliesAreOwned
    <3> QED BY <3>2 DEF GoesOnWell, WorkGoesOn, RequestsGoOn
  <2>3. Ordered(up', t) BY DEF GoesOnWell, RepliesGoOn
  <2> QED BY <2>1, <2>2, <2>3 DEF RepliesAreOwned
<1>8. PendingIsTold(t)'
  <2> SUFFICES ASSUME NEW o \in Runs, Trace(o) = t, run'[o].at = "pending"
               PROVE  /\ run'[o].text + TextsOf(up', t) = history'[o].text
                      /\ ObservedUpTo(up', t, history'[o].observed)
                      /\ Has(up', "result", t) => calls'[o].committed
    BY <1>1 DEF PendingIsTold, Pending
  <2>1. run[o].at = "pending" /\ history'[o].text = history[o].text /\ history'[o].observed = history[o].observed
    BY DEF GoesOnWell, TurnsGoOn
  <2>2. o \in Pending(t) BY <2>1 DEF Pending
  <2>3. ObservedUpTo(up, t, history[o].observed) /\ (Has(up, "result", t) => calls[o].committed)
    BY <2>2 DEF Dialogue, PendingIsTold
  <2>4. history[o].observed \in Nat BY DEF TypesInv
  <2>5. ObservedUpTo(up', t, history'[o].observed) BY <2>1, <2>3, <2>4 DEF GoesOnWell, RepliesGoOn
  <2>6. Has(up', "result", t) => calls'[o].committed BY <2>3 DEF GoesOnWell, RepliesGoOn, TurnsGoOn, Own
  <2>7. run'[o].text + TextsOf(up', t) = history'[o].text BY <2>1 DEF GoesOnWell, ToldInTime
  <2> QED BY <2>5, <2>6, <2>7
<1>9. RunsAreTold(t)'
  <2> SUFFICES ASSUME NEW o \in Runs, Trace(o) = t
               PROVE  /\ run'[o].text <= history'[o].text
                      /\ progress'[o].observed <= history'[o].observed /\ history'[o].observed <= progress'[o].batch
                      /\ run'[o].result = "resolved" =>
                           /\ run'[o].text = history'[o].text /\ calls'[o].committed
                           /\ work'[t].at = "none" \/ work'[t].of # o
                           /\ o \notin Carried(down', t)
    BY <1>1 DEF RunsAreTold
  <2>1. /\ history'[o].text = history[o].text /\ history'[o].observed = history[o].observed
        /\ progress[o].batch <= progress'[o].batch
    BY DEF GoesOnWell, TurnsGoOn
  <2>2. history[o].observed <= progress[o].batch BY DEF Dialogue, RunsAreTold
  <2>3. history[o].observed \in Nat /\ progress[o].batch \in Nat /\ progress'[o].batch \in Nat BY DEF TypesInv, Progress
  <2>4. history'[o].observed <= progress'[o].batch BY <2>1, <2>2, <2>3
  <2>5. /\ run'[o].text <= history[o].text /\ progress'[o].observed <= history[o].observed
        /\ run'[o].result = "resolved" =>
             /\ run'[o].text = history[o].text /\ calls'[o].committed
             /\ work'[t].at = "none" \/ work'[t].of # o
             /\ o \notin Carried(down', t)
    BY DEF GoesOnWell, ToldInTime
  <2> QED BY <2>1, <2>4, <2>5
<1>10. LinesHold(t)'
  <2>1. BehindHold(down', t, progress', calls') BY DEF GoesOnWell, RequestsGoOn
  <2>2. ASSUME work'[t].at # "none" PROVE AllHold(down', t, progress'[work'[t].of], calls'[work'[t].of])
    BY <2>2 DEF GoesOnWell, RequestsGoOn, WorkGoesOn
  <2> QED BY <2>1, <2>2 DEF LinesHold
<1> QED BY <1>5, <1>6, <1>7, <1>8, <1>9, <1>10 DEF Dialogue


\* While a turn is pending it is the only one of its trace that the helper can serve.
LEMMA OnlyServing ==
  ASSUME TraceInv, NEW r \in Runs, run[r].at = "pending", NEW q \in Runs, Trace(q) = Trace(r), Serving(q)
  PROVE  q = r
<1>1. ASSUME Dead(Trace(r)) PROVE FALSE
  <2>1. PICK s \in Runs : Trace(s) = Trace(r) /\ run[s].at = "over" /\ run[s].result = "none" BY <1>1 DEF Dead
  <2>2. s # r BY <2>1
  <2> QED BY <2>1, <2>2 DEF TraceInv
<1>2. run[q].at = "pending" BY <1>1 DEF Serving
<1> QED BY <1>2 DEF TraceInv

\* What lines say goes on to hold as progress and calls grow.
LEMMA GrownHolds ==
  ASSUME TypesInv, TypesInv', SentInv, NEW t \in Traces, LinesHold(t), TurnsGoOn(t)
  PROVE  /\ BehindHold(down, t, progress', calls')
         /\ work[t].at # "none" => AllHold(down, t, progress'[work[t].of], calls'[work[t].of])
<1>1. /\ down \in Seq(Lines) /\ \A o \in Runs : /\ progress[o] \in Progress /\ progress'[o] \in Progress
                                               /\ calls[o] \in Calls /\ calls'[o] \in Calls
  BY DEF TypesInv
<1>2. \A o \in Runs : Trace(o) = t => /\ progress[o].revision <= progress'[o].revision
                                      /\ progress[o].batch <= progress'[o].batch
                                      /\ calls[o].committed => calls'[o].committed
  BY DEF TurnsGoOn
<1>3. BehindHold(down, t, progress', calls')
  <2>1. \A o \in Carried(down, t) : o \in Runs /\ Trace(o) = t BY DEF SentInv
  <2>2. BehindHold(down, t, progress, calls) BY DEF LinesHold
  <2>3. \A o \in Carried(down, t) :
          /\ progress[o] \in Progress /\ progress'[o] \in Progress /\ calls[o] \in Calls /\ calls'[o] \in Calls
          /\ progress[o].revision <= progress'[o].revision /\ progress[o].batch <= progress'[o].batch
          /\ calls[o].committed => calls'[o].committed
    BY <1>1, <1>2, <2>1
  <2> QED BY <1>1, <2>2, <2>3, HoldsOnBehind
<1>4. ASSUME work[t].at # "none" PROVE AllHold(down, t, progress'[work[t].of], calls'[work[t].of])
  <2>1. work[t].of \in Runs /\ Trace(work[t].of) = t BY <1>4 DEF SentInv
  <2>2. AllHold(down, t, progress[work[t].of], calls[work[t].of]) BY <1>4 DEF LinesHold
  <2>3. \A j \in DOMAIN down : down[j] \in Lines BY <1>1, ElementOfSeq, LenProperties
  <2> QED BY <1>1, <1>2, <2>1, <2>2, <2>3, HoldsOn
<1> QED BY <1>3, <1>4

\* The helper is sent a line that holds of every turn it may serve, reads one, or reads none.
LEMMA RequestsKept ==
  ASSUME TypesInv, TypesInv', SentInv, NEW t \in Traces, Dialogue(t), TurnsGoOn(t), WorkGoesOn(t),
         \/ down' = down \/ down' = <<>> \/ (down # <<>> /\ down' = Tail(down))
         \/ \E l \in Lines :
              /\ down' = Append(down, l)
              /\ l.trace = t => /\ l.kind # "run"
                                /\ \A q \in Runs : Trace(q) = t /\ Serving(q) => Holds(l, progress'[q], calls'[q])
  PROVE  RequestsGoOn(t)
<1>1. /\ BehindHold(down, t, progress', calls')
      /\ work[t].at # "none" => AllHold(down, t, progress'[work[t].of], calls'[work[t].of])
  BY GrownHolds DEF Dialogue
<1>2. OneRun(down, t) /\ down \in Seq(Lines) BY DEF Dialogue, RunIsOne, TypesInv
<1>3. CASE down' = down
  <2>1. BehindHold(down', t, progress', calls') BY <1>1, <1>3
  <2>2. work'[t].at # "none" => work[t].at # "none" BY DEF WorkGoesOn
  <2>3. OneRun(down', t) /\ Carried(down', t) \subseteq Carried(down, t) BY <1>2, <1>3
  <2>4. work[t].at # "none" => AllHold(down', t, progress'[work[t].of], calls'[work[t].of]) BY <1>1, <1>3
  <2> QED BY <2>1, <2>2, <2>3, <2>4 DEF RequestsGoOn
<1>4. CASE down' = <<>>
  <2>1. Carried(<<>>, t) = {} /\ OneRun(<<>>, t) /\ BehindHold(<<>>, t, progress', calls')
    BY NoLines
  <2>2. AllHold(<<>>, t, progress'[work[t].of], calls'[work[t].of])
    BY NoLines
  <2> QED BY <1>4, <2>1, <2>2 DEF RequestsGoOn
<1>5. CASE down # <<>> /\ down' = Tail(down)
  <2>1. Carried(Tail(down), t) \subseteq Carried(down, t) /\ OneRun(Tail(down), t) BY <1>2, <1>5, ReadRequest
  <2>2. BehindHold(Tail(down), t, progress', calls') BY <1>1, <1>2, <1>5, ReadRequest
  <2>3. work[t].at # "none" => AllHold(Tail(down), t, progress'[work[t].of], calls'[work[t].of])
    BY <1>1, <1>2, <1>5, ReadRequest
  <2> QED BY <1>5, <2>1, <2>2, <2>3 DEF RequestsGoOn, WorkGoesOn
<1>6. ASSUME NEW l \in Lines, down' = Append(down, l),
             l.trace = t => /\ l.kind # "run"
                            /\ \A q \in Runs : Trace(q) = t /\ Serving(q) => Holds(l, progress'[q], calls'[q])
      PROVE  RequestsGoOn(t)
  <2>1. \A o \in Carried(down, t) : o \in Runs /\ Trace(o) = t /\ Serving(o)
    BY DEF SentInv, Dialogue, RunIsOne
  <2>2. work[t].at # "none" => work[t].of \in Runs /\ Trace(work[t].of) = t /\ Serving(work[t].of)
    BY DEF SentInv, Dialogue, WorkIsOwned
  <2>3. l.trace = t => \A o \in Carried(down, t) : Holds(l, progress'[o], calls'[o]) BY <1>6, <2>1
  <2>4. l.trace = t /\ work[t].at # "none" => Holds(l, progress'[work[t].of], calls'[work[t].of]) BY <1>6, <2>2
  <2>5. Carried(Append(down, l), t) \subseteq Carried(down, t) /\ OneRun(Append(down, l), t)
    BY <1>2, <1>6, WrittenRequest
  <2>6. BehindHold(Append(down, l), t, progress', calls') BY <1>1, <1>2, <2>3, WrittenRequest
  <2>7. work[t].at # "none" => AllHold(Append(down, l), t, progress'[work[t].of], calls'[work[t].of])
    BY <1>1, <1>2, <2>4, WrittenRequest
  <2> QED BY <1>6, <2>5, <2>6, <2>7 DEF RequestsGoOn, WorkGoesOn
<1> QED BY <1>3, <1>4, <1>5, <1>6

\* A line is read by the daemon, or none.
LEMMA RepliesKept ==
  ASSUME TypesInv, NEW t \in Traces, Dialogue(t), up' = up \/ (up # <<>> /\ up' = Tail(up)) \/ up' = <<>>
  PROVE  RepliesGoOn(t)
<1>1. Ordered(up, t) /\ up \in Seq(Lines) BY DEF Dialogue, RepliesAreOwned, TypesInv
<1>2. CASE up' = up BY <1>1, <1>2 DEF RepliesGoOn
<1>3. CASE up # <<>> /\ up' = Tail(up)
  <2>1. \A kind \in Own : Has(Tail(up), kind, t) => Has(up, kind, t) BY <1>1, <1>3, ReadReply
  <2>2. Ordered(Tail(up), t) BY <1>1, <1>3, ReadReply
  <2>3. \A n \in Nat : ObservedUpTo(up, t, n) => ObservedUpTo(Tail(up), t, n) BY <1>1, <1>3, ReadReply
  <2> QED BY <1>3, <2>1, <2>2, <2>3 DEF RepliesGoOn
<1>4. CASE up' = <<>> BY <1>4, NoLines DEF RepliesGoOn
<1> QED BY <1>2, <1>3, <1>4

LEMMA KeepsServed ==
  ASSUME plan'.trace = plan.trace, NEW t \in Traces,
         \A o \in Runs : Trace(o) = t => /\ run'[o].at = run[o].at
                                         /\ run[o].at = "over" => run'[o].result = run[o].result
  PROVE  StillServed(t)
BY DEF StillServed, Dead, Trace

\* No text arrives, or nobody is there to hear it, and no result does.
LEMMA NothingTold ==
  ASSUME TypesInv, TypesInv', NEW t \in Traces, Dialogue(t), TurnsGoOn(t), WorkGoesOn(t), RequestsGoOn(t),
         TextsOf(up', t) = TextsOf(up, t) \/ \A o \in Runs : Trace(o) = t => run'[o].at # "pending",
         \A o \in Runs : Trace(o) = t =>
           /\ run'[o].text = run[o].text
           /\ progress'[o].observed = progress[o].observed \/ progress'[o].observed <= history[o].observed
           /\ run'[o].result = "resolved" => run[o].result = "resolved"
  PROVE  ToldInTime(t)
<1> SUFFICES ASSUME NEW o \in Runs, Trace(o) = t
             PROVE  /\ run'[o].text <= history[o].text /\ progress'[o].observed <= history[o].observed
                    /\ run'[o].at = "pending" => run'[o].text + TextsOf(up', t) = history[o].text
                    /\ run'[o].result = "resolved" =>
                         /\ run'[o].text = history[o].text /\ calls'[o].committed
                         /\ work'[t].at = "none" \/ work'[t].of # o
                         /\ o \notin Carried(down', t)
  BY DEF ToldInTime
<1>1. /\ run[o].text <= history[o].text /\ progress[o].observed <= history[o].observed
      /\ run[o].result = "resolved" =>
           /\ run[o].text = history[o].text /\ calls[o].committed
           /\ work[t].at = "none" \/ work[t].of # o
           /\ o \notin Carried(down, t)
  BY DEF Dialogue, RunsAreTold
<1>2. run'[o].text = run[o].text /\ (run'[o].result = "resolved" => run[o].result = "resolved") OBVIOUS
<1>3. progress'[o].observed <= history[o].observed BY <1>1
<1>4. run'[o].at = "pending" => run'[o].text + TextsOf(up', t) = history[o].text
  <2>1. run'[o].at = "pending" => o \in Pending(t) BY DEF TurnsGoOn, Pending
  <2> QED BY <1>2, <2>1 DEF Dialogue, PendingIsTold
<1>5. calls[o].committed => calls'[o].committed BY DEF TurnsGoOn
<1>6. work[t].at = "none" \/ work[t].of # o => work'[t].at = "none" \/ work'[t].of # o BY DEF WorkGoesOn
<1>7. o \notin Carried(down, t) => o \notin Carried(down', t) BY DEF RequestsGoOn
<1> QED BY <1>1, <1>2, <1>3, <1>4, <1>5, <1>6, <1>7

-----------------------------------------------------------------------------
(* The dialogue in the steps of the daemon.                                 *)

LEMMA DaemonGoesOn ==
  ASSUME TypesInv, TypesInv', SentInv, TraceInv, NEW t \in Traces, Dialogue(t), NEW r \in Runs, DaemonStep(r)
  PROVE  TurnsGoOn(t) /\ WorkGoesOn(t) /\ RequestsGoOn(t)
<1>1. \A o \in Runs : progress[o] \in Progress /\ history[o] \in [text : Nat, observed : Nat, opened : BOOLEAN, unprepared : BOOLEAN]
  BY DEF TypesInv
<1>2. \A o \in Runs : /\ progress[o].revision <= progress'[o].revision /\ progress[o].batch <= progress'[o].batch
                      /\ calls[o].committed => calls'[o].committed
  <2>1. \A o \in Runs : progress[o].revision \in Nat /\ progress[o].batch \in Nat
                        /\ progress'[o].revision \in Nat /\ progress'[o].batch \in Nat
    BY DEF TypesInv, Progress
  <2>2. \A o \in Runs \ {r} : progress'[o] = progress[o] /\ calls'[o] = calls[o] BY DEF DaemonStep
  <2>3. /\ progress'[r].revision >= progress[r].revision /\ progress'[r].batch >= progress[r].batch
        /\ calls[r].committed => calls'[r].committed
    BY DEF DaemonStep
  <2> QED BY <2>1, <2>2, <2>3
<1>3. \A o \in Runs : history'[o].text = history[o].text /\ history'[o].observed = history[o].observed
  <2>1. history' = history \/ history' = [history EXCEPT ![r].unprepared = TRUE] BY DEF DaemonStep
  <2>2. CASE history' = history BY <2>2
  <2>3. CASE history' = [history EXCEPT ![r].unprepared = TRUE]
    <3>1. history \in [Runs -> [text : Nat, observed : Nat, opened : BOOLEAN, unprepared : BOOLEAN]] BY DEF TypesInv
    <3>2. \A o \in Runs : history'[o] = IF o = r THEN [history[r] EXCEPT !.unprepared = TRUE] ELSE history[o]
      BY <2>3, <3>1
    <3> QED BY <1>1, <3>2
  <2> QED BY <2>1, <2>2, <2>3
<1>4. \A o \in Runs : run'[o].at = "pending" => run[o].at = "pending"
  BY DEF DaemonStep, Keeps, Told, Ended
<1>5. TurnsGoOn(t) BY <1>2, <1>3, <1>4 DEF TurnsGoOn
<1>6. WorkGoesOn(t)
  <2> SUFFICES ASSUME NEW q \in Runs, work[t].at # "none", work[t].of = q
               PROVE  /\ work[t].mirror.observed <= work[t].mirror.batch
                      /\ work[t].mirror.batch <= progress'[q].batch
                      /\ work[t].mirror.revision <= progress'[q].revision
                      /\ work[t].at = "done" => calls'[q].committed
    <3>1. work' = work BY DEF DaemonStep
    <3>2. work[t].at # "none" => work[t].of \in Runs BY DEF SentInv
    <3> QED BY <3>1, <3>2 DEF WorkGoesOn
  <2>1. /\ work[t].mirror.observed <= work[t].mirror.batch
        /\ work[t].mirror.batch <= progress[q].batch /\ work[t].mirror.revision <= progress[q].revision
        /\ work[t].at = "done" => calls[q].committed
    BY DEF Dialogue, WorkIsOwned
  <2>2. work[t].mirror.batch \in Nat /\ work[t].mirror.revision \in Nat
    <3>1. work[t].mirror \in Progress BY DEF TypesInv, Work
    <3> QED BY <3>1 DEF Progress
  <2>3. /\ progress[q].revision \in Nat /\ progress[q].batch \in Nat
        /\ progress'[q].revision \in Nat /\ progress'[q].batch \in Nat
    BY DEF TypesInv, Progress
  <2> QED BY <1>2, <2>1, <2>2, <2>3
<1>7. RequestsGoOn(t)
  <2>1. CASE down' = down
    <3>1. \/ down' = down \/ down' = <<>> \/ (down # <<>> /\ down' = Tail(down))
          \/ \E l \in Lines :
               /\ down' = Append(down, l)
               /\ l.trace = t => /\ l.kind # "run"
                                 /\ \A q \in Runs : Trace(q) = t /\ Serving(q) => Holds(l, progress'[q], calls'[q])
      BY <2>1
    <3> QED BY <1>5, <1>6, <3>1, RequestsKept
  <2>2. ASSUME run[r].at = "pending",
               NEW l \in Lines, l.kind # "run", l.trace = Trace(r), Holds(l, progress'[r], calls'[r]),
               down' = Append(down, l)
        PROVE  RequestsGoOn(t)
    <3>1. \A q \in Runs : Trace(q) = l.trace /\ Serving(q) => Holds(l, progress'[q], calls'[q])
      BY <2>2, OnlyServing
    <3> QED BY <1>5, <1>6, <2>2, <3>1, RequestsKept
  <2> QED BY <2>1, <2>2 DEF DaemonStep, Requests
<1> QED BY <1>5, <1>6, <1>7

\* A step about a turn says nothing to the other traces.
LEMMA DaemonElsewhere ==
  ASSUME TypesInv, TypesInv', SentInv, TraceInv, NEW t \in Traces, Dialogue(t), NEW r \in Runs, DaemonStep(r),
         Trace(r) # t, up' = up \/ (up # <<>> /\ up' = Tail(up) /\ Head(up).trace # t)
  PROVE  Dialogue(t)'
<1>1. TurnsGoOn(t) /\ WorkGoesOn(t) /\ RequestsGoOn(t) BY DaemonGoesOn
<1>2. RepliesGoOn(t) BY RepliesKept
<1>3. plan'.trace = plan.trace /\ \A o \in Runs : Trace(o) = t => run'[o] = run[o] /\ progress'[o] = progress[o]
  <2>1. plan'.trace = plan.trace /\ \A o \in Runs : Trace(o) # Trace(r) => run'[o] = run[o] BY DEF DaemonStep
  <2>2. \A o \in Runs \ {r} : progress'[o] = progress[o] BY DEF DaemonStep
  <2> QED BY <2>1, <2>2
<1>4. StillServed(t) BY <1>3, KeepsServed
<1>5. TextsOf(up', t) = TextsOf(up, t)
  <2>1. up \in Seq(Lines) BY DEF TypesInv
  <2>2. CASE up # <<>> /\ up' = Tail(up) /\ Head(up).trace # t
    <3>1. TextsOf(up, t) = TextsOf(Tail(up), t) + 0 BY <2>1, <2>2, TextsRead
    <3>2. TextsOf(Tail(up), t) \in Nat
      <4>1. Tail(up) \in Seq(Lines) BY <2>1, <2>2, HeadTailProperties
      <4> QED BY <4>1, TextsFinite
    <3> QED BY <2>2, <3>1, <3>2
  <2> QED BY <2>2
<1>6. ToldInTime(t) BY <1>1, <1>3, <1>5, NothingTold
<1>7. GoesOnWell(t) BY <1>1, <1>2, <1>4, <1>6 DEF GoesOnWell
<1> QED BY <1>3, <1>7, DialogueKept

\* Nor does one that hears nothing and leaves the states of the turns.
LEMMA DaemonUnheard ==
  ASSUME TypesInv, TypesInv', SentInv, TraceInv, NEW t \in Traces, Dialogue(t), NEW r \in Runs, DaemonStep(r),
         up' = up,
         \A o \in Runs : /\ run'[o].at = run[o].at /\ run'[o].result = run[o].result /\ run'[o].text = run[o].text
                         /\ progress'[o].observed = progress[o].observed
  PROVE  Dialogue(t)'
<1>1. TurnsGoOn(t) /\ WorkGoesOn(t) /\ RequestsGoOn(t) BY DaemonGoesOn
<1>2. RepliesGoOn(t) BY RepliesKept
<1>3. plan'.trace = plan.trace BY DEF DaemonStep
<1>4. StillServed(t) BY <1>3, KeepsServed
<1>5. ToldInTime(t) BY <1>1, NothingTold
<1>6. GoesOnWell(t) BY <1>1, <1>2, <1>4, <1>5 DEF GoesOnWell
<1> QED BY <1>3, <1>6, DialogueKept

LEMMA ClientDialogue ==
  ASSUME TypesInv, TypesInv', SentInv, ProcInv, TraceInv, NEW t \in Traces, Dialogue(t), NEW r \in Runs,
         Abort(r) \/ Prepare(r) \/ Forward(r)
  PROVE  Unprepared(t)' \/ Dialogue(t)'
<1>1. DaemonStep(r) BY ClientSteps
<1>2. up' = up /\ progress' = progress /\ plan'.trace = plan.trace BY <1>1 DEF Abort, Prepare, Forward, DaemonStep
<1>3. CASE Trace(r) # t BY <1>1, <1>2, <1>3, DaemonElsewhere
<1>4. CASE history' = [history EXCEPT ![r].unprepared = TRUE] /\ Trace(r) = t
  <2>1. history'[r].unprepared BY <1>4 DEF TypesInv
  <2>2. Trace(r)' = Trace(r) BY <1>2 DEF Trace
  <2> QED BY <1>4, <2>1, <2>2 DEF Unprepared
<1>5. ASSUME NEW c, run' = [run EXCEPT ![r] = c], c.at = run[r].at, c.result = run[r].result, c.text = run[r].text
      PROVE  Dialogue(t)'
  <2>1. \A o \in Runs : run'[o].at = run[o].at /\ run'[o].result = run[o].result /\ run'[o].text = run[o].text
    BY <1>5 DEF TypesInv
  <2> QED BY <1>1, <1>2, <2>1, DaemonUnheard
<1>6. run[r] \in Run BY DEF TypesInv
<1>7. CASE Abort(r)
  <2> DEFINE c == [run[r] EXCEPT !.aborted = TRUE]
  <2>1. run' = [run EXCEPT ![r] = c] BY <1>7 DEF Abort
  <2>2. c.at = run[r].at /\ c.result = run[r].result /\ c.text = run[r].text BY <1>6 DEF Run
  <2> HIDE DEF c
  <2> QED BY <1>5, <2>1, <2>2
<1>8. CASE Forward(r)
  <2> DEFINE c == [run[r] EXCEPT !.sent = progress[r].revision]
  <2>1. run' = [run EXCEPT ![r] = c] BY <1>8 DEF Forward
  <2>2. c.at = run[r].at /\ c.result = run[r].result /\ c.text = run[r].text BY <1>6 DEF Run
  <2> HIDE DEF c
  <2> QED BY <1>5, <2>1, <2>2
<1>9. CASE Prepare(r) /\ Trace(r) = t
  <2> DEFINE c == [run[r] EXCEPT !.preparing = FALSE, !.prepared = run[r].at = "pending"]
  <2>1. run' = [run EXCEPT ![r] = c] \/ history' = [history EXCEPT ![r].unprepared = TRUE] BY <1>9 DEF Prepare
  <2>2. c.at = run[r].at /\ c.result = run[r].result /\ c.text = run[r].text BY <1>6 DEF Run
  <2> HIDE DEF c
  <2> QED BY <1>4, <1>5, <1>9, <2>1, <2>2
<1> QED BY <1>3, <1>7, <1>8, <1>9

LEMMA RoundDialogue ==
  ASSUME TypesInv, TypesInv', SentInv, ProcInv, TraceInv, RoundInv, NEW t \in Traces, Dialogue(t), NEW r \in Runs,
         Call(r) \/ Batch(r) \/ Emit(r) \/ Answer(r) \/ Retire(r)
  PROVE  Dialogue(t)'
<1>1. DaemonStep(r) /\ up' = up BY RoundSteps DEF Call, Batch, Emit, Answer, Retire
<1>2. \A o \in Runs : run'[o].at = run[o].at /\ run'[o].result = run[o].result /\ run'[o].text = run[o].text
  <2>1. run' = run \/ run' = [run EXCEPT ![r].aborted = TRUE] BY DEF Call, Batch, Emit, Answer, Retire
  <2>2. CASE run' = run BY <2>2
  <2>3. CASE run' = [run EXCEPT ![r].aborted = TRUE]
    <3>1. run \in [Runs -> Run] BY DEF TypesInv
    <3>2. \A o \in Runs : run[o] \in Run BY <3>1
    <3>3. \A o \in Runs \ {r} : run'[o] = run[o] BY <2>3, <3>1
    <3>4. run'[r] = [run[r] EXCEPT !.aborted = TRUE] BY <2>3, <3>1
    <3>5. run'[r].at = run[r].at /\ run'[r].result = run[r].result /\ run'[r].text = run[r].text BY <3>2, <3>4 DEF Run
    <3> QED BY <3>3, <3>5
  <2> QED BY <2>1, <2>2, <2>3
<1>3. \A o \in Runs : progress'[o].observed = progress[o].observed
  <2>1. \A o \in Runs \ {r} : progress'[o] = progress[o] BY <1>1 DEF DaemonStep
  <2>2. progress[r] \in Progress /\ calls[r].queued \in Nat BY DEF TypesInv, Calls
  <2>3. CASE progress' = progress BY <2>3
  <2>4. CASE progress' = [progress EXCEPT ![r] = Recorded(progress[r], calls[r].queued)]
    <3>1. progress'[r] = Recorded(progress[r], calls[r].queued) BY <2>4 DEF TypesInv
    <3>2. progress'[r].observed = progress[r].observed BY <2>2, <3>1, ProgressSteps
    <3> QED BY <2>1, <3>2
  <2>5. CASE progress' = [progress EXCEPT ![r] = Answered(progress[r])]
    <3>1. progress'[r] = Answered(progress[r]) BY <2>5 DEF TypesInv
    <3>2. progress'[r].observed = progress[r].observed BY <2>2, <3>1 DEF Answered, Progress
    <3> QED BY <2>1, <3>2
  <2> QED BY <2>3, <2>4, <2>5 DEF Call, Batch, Emit, Answer, Retire
<1> QED BY <1>1, <1>2, <1>3, DaemonUnheard

\* A line that is heard: the turns as the step leaves them say what was told.
LEMMA HeardDialogue ==
  ASSUME TypesInv, TypesInv', SentInv, TraceInv, NEW t \in Traces, Dialogue(t), NEW r \in Runs, DaemonStep(r),
         up # <<>>, up' = Tail(up), StillServed(t), ToldInTime(t)
  PROVE  Dialogue(t)'
<1>1. TurnsGoOn(t) /\ WorkGoesOn(t) /\ RequestsGoOn(t) BY DaemonGoesOn
<1>2. RepliesGoOn(t) BY RepliesKept
<1>3. plan'.trace = plan.trace BY DEF DaemonStep
<1>4. GoesOnWell(t) BY <1>1, <1>2 DEF GoesOnWell
<1> QED BY <1>3, <1>4, DialogueKept

LEMMA HearsDialogue ==
  ASSUME TypesInv, TypesInv', SentInv, ProcInv, TraceInv, NEW t \in Traces, Dialogue(t), NEW r \in Runs, HearsOf(r)
  PROVE  Dialogue(t)'
<1>1. DaemonStep(r) /\ run[r].at = "pending" /\ up # <<>> /\ up' = Tail(up) /\ Head(up).trace = Trace(r) /\ Head(up) \in Lines
  BY HearsSteps, HearsPending
<1>2. CASE Trace(r) # t BY <1>1, <1>2, DaemonElsewhere
<1>3. CASE Trace(r) = t
  <2>1. TurnsGoOn(t) /\ WorkGoesOn(t) /\ RequestsGoOn(t) /\ plan'.trace = plan.trace
    BY <1>1, DaemonGoesOn DEF DaemonStep
  <2>2. /\ up \in Seq(Lines) /\ Tail(up) \in Seq(Lines) /\ run \in [Runs -> Run] /\ progress \in [Runs -> Progress]
        /\ run[r] \in Run /\ progress[r] \in Progress /\ history[r].text \in Nat /\ history[r].observed \in Nat
    BY <1>1, HeadTailProperties DEF TypesInv
  <2>3. TextsOf(up, t) = TextsOf(Tail(up), t) + (IF Head(up).kind = "text" THEN 1 ELSE 0)
        /\ TextsOf(Tail(up), t) \in Nat /\ run[r].text \in Nat
    BY <1>1, <1>3, <2>2, TextsRead, TextsFinite DEF Run
  <2>4. r \in Pending(t) BY <1>1, <1>3 DEF Pending
  <2>5. /\ run[r].text + TextsOf(up, t) = history[r].text /\ ObservedUpTo(up, t, history[r].observed)
        /\ Has(up, "result", t) => calls[r].committed
    BY <2>4 DEF Dialogue, PendingIsTold
  <2>6. /\ run[r].text <= history[r].text
        /\ run[r].result = "resolved" => run[r].text = history[r].text
    BY <1>3 DEF Dialogue, RunsAreTold
  <2>7. Head(up).kind # "text" => TextsOf(up', t) = TextsOf(up, t) BY <1>1, <2>3
  <2>8. ASSUME NEW c, run' = [run EXCEPT ![r] = c], Head(up).kind # "text", c.at = "pending", c.text = run[r].text,
               c.result = "resolved" => run[r].result = "resolved", progress' = progress
        PROVE  Dialogue(t)'
    <3>1. run'[r] = c /\ \A o \in Runs \ {r} : run'[o] = run[o] BY <2>2, <2>8
    <3>2. \A o \in Runs : Trace(o) = t => /\ run'[o].at = run[o].at
                                          /\ run[o].at = "over" => run'[o].result = run[o].result
      BY <1>1, <2>8, <3>1
    <3>3. \A o \in Runs : run'[o].text = run[o].text /\ (run'[o].result = "resolved" => run[o].result = "resolved")
      BY <2>8, <3>1
    <3>4. StillServed(t) BY <2>1, <3>2, KeepsServed
    <3>5. ToldInTime(t) BY <2>1, <2>7, <2>8, <3>3, NothingTold
    <3> QED BY <1>1, <3>4, <3>5, HeardDialogue
  <2>9. ASSUME run' = run, Head(up).kind # "text",
               \A o \in Runs : progress'[o].observed = progress[o].observed \/ progress'[o].observed <= history[o].observed
        PROVE  Dialogue(t)'
    <3>1. StillServed(t) BY <2>1, <2>9, KeepsServed
    <3>2. ToldInTime(t) BY <2>1, <2>7, <2>9, NothingTold
    <3> QED BY <1>1, <3>1, <3>2, HeardDialogue
  <2>10. ASSUME LocalFailure(r), Head(up).kind # "text", progress' = progress PROVE Dialogue(t)'
    <3> DEFINE c == [run[r] EXCEPT !.failed = TRUE]
    <3>1. run' = [run EXCEPT ![r] = c] BY <2>10 DEF LocalFailure
    <3>2. c.at = "pending" /\ c.text = run[r].text /\ c.result = run[r].result BY <1>1, <2>2 DEF Run
    <3> HIDE DEF c
    <3> QED BY <2>8, <2>10, <3>1, <3>2
  <2>11. CASE HearText(r)
    <3> DEFINE c == [run[r] EXCEPT !.text = run[r].text + 1]
    <3>1. run' = [run EXCEPT ![r] = c] /\ progress' = progress /\ calls' = calls /\ Head(up).kind = "text"
      BY <2>11 DEF HearText, HearFor, Hear
    <3>2. c.at = "pending" /\ c.text = run[r].text + 1 /\ c.result = run[r].result BY <1>1, <2>2 DEF Run
    <3> HIDE DEF c
    <3>3. run'[r] = c /\ \A o \in Runs \ {r} : run'[o] = run[o] BY <2>2, <3>1
    <3>4. StillServed(t)
      <4>1. \A o \in Runs : Trace(o) = t => /\ run'[o].at = run[o].at
                                            /\ run[o].at = "over" => run'[o].result = run[o].result
        BY <1>1, <3>2, <3>3
      <4> QED BY <2>1, <4>1, KeepsServed
    <3>5. run[r].text + 1 + TextsOf(up', t) = history[r].text
      <4>1. TextsOf(up', t) = TextsOf(Tail(up), t) BY <1>1
      <4>2. TextsOf(up, t) = TextsOf(up', t) + 1 /\ TextsOf(up', t) \in Nat BY <2>3, <3>1, <4>1
      <4>3. run[r].text + TextsOf(up, t) = history[r].text BY <2>5
      <4> QED BY <2>3, <4>2, <4>3
    <3>6. run[r].text + 1 <= history[r].text /\ run[r].result # "resolved"
      <4>1. TextsOf(up', t) \in Nat BY <1>1, <2>3
      <4>2. run[r].text + 1 <= history[r].text BY <2>2, <2>3, <3>5, <4>1
      <4>3. run[r].text # history[r].text BY <2>2, <2>3, <4>2
      <4> QED BY <2>6, <4>2, <4>3
    <3>7. ToldInTime(t)
      <4> SUFFICES ASSUME NEW o \in Runs, Trace(o) = t
                   PROVE  /\ run'[o].text <= history[o].text /\ progress'[o].observed <= history[o].observed
                          /\ run'[o].at = "pending" => run'[o].text + TextsOf(up', t) = history[o].text
                          /\ run'[o].result = "resolved" =>
                               /\ run'[o].text = history[o].text /\ calls'[o].committed
                               /\ work'[t].at = "none" \/ work'[t].of # o
                               /\ o \notin Carried(down', t)
        BY DEF ToldInTime
      <4>1. progress'[o].observed <= history[o].observed BY <3>1 DEF Dialogue, RunsAreTold
      <4>2. CASE o = r BY <3>2, <3>3, <3>5, <3>6, <4>1, <4>2
      <4>3. CASE o # r
        <5>1. run'[o] = run[o] /\ run[o].at # "pending" BY <1>1, <1>3, <3>3, <4>3 DEF TraceInv
        <5>2. /\ run[o].text <= history[o].text
              /\ run[o].result = "resolved" =>
                   /\ run[o].text = history[o].text /\ calls[o].committed
                   /\ work[t].at = "none" \/ work[t].of # o
                   /\ o \notin Carried(down, t)
          BY DEF Dialogue, RunsAreTold
        <5>3. work' = work BY <1>1 DEF DaemonStep
        <5>4. Carried(down', t) \subseteq Carried(down, t) BY <2>1 DEF RequestsGoOn
        <5> QED BY <3>1, <4>1, <5>1, <5>2, <5>3, <5>4
      <4> QED BY <4>2, <4>3
    <3> QED BY <1>1, <3>4, <3>7, HeardDialogue
  <2>12. CASE HearSelected(r)
    <3> DEFINE c == [run[r] EXCEPT !.preparing = TRUE]
    <3>1. run' = [run EXCEPT ![r] = c] /\ progress' = progress /\ Head(up).kind = "selected"
      BY <2>12 DEF HearSelected, HearFor, Hear
    <3>2. c.at = "pending" /\ c.text = run[r].text /\ c.result = run[r].result BY <1>1, <2>2 DEF Run
    <3> HIDE DEF c
    <3> QED BY <2>8, <3>1, <3>2
  <2>13. CASE HearObserved(r)
    <3>1. Head(up).kind = "observed" BY <2>13 DEF HearObserved, HearFor, Hear
    <3>2. CASE LocalFailure(r) /\ progress' = progress BY <2>10, <3>1, <3>2
    <3>3. CASE progress' = [progress EXCEPT ![r] = Observed(progress[r], Head(up).n)] /\ run' = run
      <4> DEFINE n == Head(up).n
      <4>1. n \in Nat /\ n <= history[r].observed
        <5>1. ObservedUpTo(up, t, history[r].observed) BY <2>5
        <5>2. \A m : ObservedUpTo(up, t, m) => (Head(up).kind = "observed" /\ Head(up).trace = t => Head(up).n <= m)
          BY <1>1, <2>2, ReadReply
        <5>3. Head(up).n <= history[r].observed BY <1>1, <1>3, <3>1, <5>1, <5>2
        <5> QED BY <1>1, <5>3 DEF Lines
      <4>2. progress'[r] = [progress[r] EXCEPT !.observed = IF n > progress[r].observed THEN n ELSE progress[r].observed]
        <5>1. progress'[r] = Observed(progress[r], n) BY <2>2, <3>3
        <5> QED BY <2>2, <4>1, <5>1, ProgressSteps
      <4>3. progress'[r].observed \in {n, progress[r].observed}
        <5> HIDE DEF n
        <5> QED BY <2>2, <4>2 DEF Progress
      <4>4. \A o \in Runs \ {r} : progress'[o] = progress[o] BY <2>2, <3>3
      <4> HIDE DEF n
      <4>5. \A o \in Runs : progress'[o].observed = progress[o].observed \/ progress'[o].observed <= history[o].observed
        BY <4>1, <4>3, <4>4
      <4> QED BY <2>9, <3>1, <3>3, <4>5
    <3> QED BY <2>13, <3>2, <3>3 DEF HearObserved
  <2>14. CASE HearBegin(r)
    <3>1. Head(up).kind = "begin" /\ progress' = progress BY <2>14 DEF HearBegin, HearFor, Hear
    <3>2. LocalFailure(r) \/ run' = run BY <2>14 DEF HearBegin, Throws
    <3> QED BY <2>9, <2>10, <3>1, <3>2
  <2>15. CASE HearCommit(r)
    <3>1. Head(up).kind = "commit" /\ progress' = progress BY <2>15 DEF HearCommit, HearFor, Hear
    <3>2. LocalFailure(r) \/ run' = run BY <2>15 DEF HearCommit, Throws
    <3> QED BY <2>9, <2>10, <3>1, <3>2
  <2>16. CASE HearResult(r)
    <3> DEFINE c == [run[r] EXCEPT !.result = IF @ # "none" THEN @ ELSE IF run[r].failed THEN "rejected" ELSE "resolved"]
    <3>1. run' = [run EXCEPT ![r] = c] /\ progress' = progress /\ calls' = calls /\ Head(up).kind = "result"
      BY <2>16 DEF HearResult, HearFor, Hear
    <3>2. c.at = "pending" /\ c.text = run[r].text /\ run[r].at # "over" BY <1>1, <2>2 DEF Run
    <3> HIDE DEF c
    <3>3. run'[r] = c /\ \A o \in Runs \ {r} : run'[o] = run[o] BY <2>2, <3>1
    <3>4. StillServed(t)
      <4>1. \A o \in Runs : Trace(o) = t => /\ run'[o].at = run[o].at
                                            /\ run[o].at = "over" => run'[o].result = run[o].result
        BY <1>1, <3>2, <3>3
      <4> QED BY <2>1, <4>1, KeepsServed
    <3>5. Has(up, "result", t) /\ ~Has(Tail(up), "text", t)
      <4>1. Ordered(up, t) BY DEF Dialogue, RepliesAreOwned
      <4> QED BY <1>1, <1>3, <2>2, <3>1, <4>1, ReadReply
    <3>6. TextsOf(up', t) = 0 /\ run[r].text = history[r].text
      <4>1. TextsOf(Tail(up), t) = 0 BY <2>2, <3>5, NoTexts
      <4> QED BY <1>1, <2>2, <2>3, <2>5, <3>1, <4>1
    <3>7. work[t].at = "none" /\ Carried(down, t) = {} /\ calls[r].committed
      BY <2>5, <3>5 DEF Dialogue, RepliesAreOwned
    <3>8. work' = work /\ Carried(down', t) \subseteq Carried(down, t) BY <1>1, <2>1 DEF DaemonStep, RequestsGoOn
    <3>9. ToldInTime(t)
      <4> SUFFICES ASSUME NEW o \in Runs, Trace(o) = t
                   PROVE  /\ run'[o].text <= history[o].text /\ progress'[o].observed <= history[o].observed
                          /\ run'[o].at = "pending" => run'[o].text + TextsOf(up', t) = history[o].text
                          /\ run'[o].result = "resolved" =>
                               /\ run'[o].text = history[o].text /\ calls'[o].committed
                               /\ work'[t].at = "none" \/ work'[t].of # o
                               /\ o \notin Carried(down', t)
        BY DEF ToldInTime
      <4>1. progress'[o].observed <= history[o].observed BY <3>1 DEF Dialogue, RunsAreTold
      <4>2. CASE o = r BY <2>2, <2>3, <2>6, <3>1, <3>2, <3>3, <3>6, <3>7, <3>8, <4>1, <4>2
      <4>3. CASE o # r
        <5>1. run'[o] = run[o] /\ run[o].at # "pending" BY <1>1, <1>3, <3>3, <4>3 DEF TraceInv
        <5>2. /\ run[o].text <= history[o].text
              /\ run[o].result = "resolved" => run[o].text = history[o].text /\ calls[o].committed
          BY DEF Dialogue, RunsAreTold
        <5> QED BY <3>1, <3>7, <3>8, <4>1, <5>1, <5>2
      <4> QED BY <4>2, <4>3
    <3> QED BY <1>1, <3>4, <3>9, HeardDialogue
  <2>17. CASE HearError(r)
    <3> DEFINE c == [run[r] EXCEPT !.result = IF @ = "none" THEN "rejected" ELSE @]
    <3>1. run' = [run EXCEPT ![r] = c] /\ progress' = progress /\ Head(up).kind = "error"
      BY <2>17 DEF HearError, HearFor, Hear
    <3>2. c.at = "pending" /\ c.text = run[r].text /\ (c.result = "resolved" => run[r].result = "resolved")
      BY <1>1, <2>2 DEF Run
    <3> HIDE DEF c
    <3> QED BY <2>8, <3>1, <3>2
  <2>18. CASE HearSettled(r)
    <3> DEFINE settled == [run[r] EXCEPT !.at = "over", !.prepared = FALSE, !.settled = "resolved"]
               c == IF run[r].result = "none" THEN EndedWithError(run[r]) ELSE settled
    <3>1. run' = [run EXCEPT ![r] = c] /\ progress' = progress /\ Head(up).kind = "settled"
      BY <2>18 DEF HearSettled, HearFor, Hear
    <3>2. c.text = run[r].text /\ (c.result = "resolved" => run[r].result = "resolved")
      <4>1. settled.text = run[r].text /\ settled.result = run[r].result BY <2>2 DEF Run
      <4>2. EndedWithError(run[r]).text = run[r].text
            /\ (EndedWithError(run[r]).result = "resolved" => run[r].result = "resolved")
        BY <2>2 DEF EndedWithError, Run
      <4> HIDE DEF settled
      <4> QED BY <4>1, <4>2
    <3> HIDE DEF c
    <3>3. \A o \in Runs : run'[o].text = run[o].text /\ (run'[o].result = "resolved" => run[o].result = "resolved")
      BY <2>2, <3>1, <3>2
    <3>4. StillServed(t)
      <4>1. Ordered(up, t) BY DEF Dialogue, RepliesAreOwned
      <4>2. Has(up, "settled", t) /\ \A kind \in Own : ~Has(Tail(up), kind, t)
        BY <1>1, <1>3, <2>2, <3>1, <4>1, ReadReply
      <4>3. work[t].at = "none" /\ Carried(down, t) = {} BY <4>2 DEF Dialogue, RepliesAreOwned
      <4>4. work' = work /\ Carried(down', t) \subseteq Carried(down, t) BY <1>1, <2>1 DEF DaemonStep, RequestsGoOn
      <4> QED BY <1>1, <4>2, <4>3, <4>4 DEF StillServed
    <3>5. ToldInTime(t) BY <2>1, <2>7, <3>1, <3>3, NothingTold
    <3> QED BY <1>1, <3>4, <3>5, HeardDialogue
  <2> QED BY <2>11, <2>12, <2>13, <2>14, <2>15, <2>16, <2>17, <2>18 DEF HearsOf
<1> QED BY <1>2, <1>3

-----------------------------------------------------------------------------
(* The dialogue in the other steps.                                         *)

\* Lines that are no turn's of the trace, behind the lines of a pipe.
SameReplies(s, u, t) ==
  /\ \A kind \in Own : Has(u, kind, t) <=> Has(s, kind, t)
  /\ Ordered(s, t) => Ordered(u, t)
  /\ \A n : ObservedUpTo(s, t, n) => ObservedUpTo(u, t, n)
  /\ TextsOf(u, t) = TextsOf(s, t)

LEMMA ForeignReply ==
  ASSUME NEW s \in Seq(Lines), NEW l \in Lines, NEW t, l.trace # t \/ l.kind \notin Own
  PROVE  SameReplies(s, Append(s, l), t)
<1>1. \A kind \in Own : Has(Append(s, l), kind, t) <=> Has(s, kind, t) BY WrittenReply
<1>2. Ordered(s, t) => Ordered(Append(s, l), t)
  <2>1. l.trace = t => l.kind \notin Own /\ l.kind # "text" BY DEF Own
  <2> QED BY <2>1, WrittenReply
<1>3. \A n : ObservedUpTo(s, t, n) => ObservedUpTo(Append(s, l), t, n)
  <2>1. ~(l.trace = t /\ l.kind = "observed") BY DEF Own
  <2> QED BY <2>1, WrittenReply
<1>4. TextsOf(Append(s, l), t) = TextsOf(s, t)
  <2>1. ~(l.trace = t /\ l.kind = "text") BY DEF Own
  <2>2. TextsOf(Append(s, l), t) = TextsOf(s, t) + 0 /\ TextsOf(s, t) \in Nat BY <2>1, TextsAppended, TextsFinite
  <2> QED BY <2>2
<1> QED BY <1>1, <1>2, <1>3, <1>4 DEF SameReplies

LEMMA ForeignGoesOn ==
  ASSUME NEW t \in Traces, Dialogue(t), SameReplies(up, up', t)
  PROVE  RepliesGoOn(t) /\ TextsOf(up', t) = TextsOf(up, t)
BY DEF Dialogue, RepliesAreOwned, SameReplies, RepliesGoOn

LEMMA ProgressIsThere ==
  ASSUME TypesInv
  PROVE  \A o \in Runs : progress[o].revision <= progress[o].revision /\ progress[o].batch <= progress[o].batch
<1>1. \A o \in Runs : progress[o] \in Progress BY DEF TypesInv
<1> QED BY <1>1 DEF Progress

\* Nothing happens to the turns.
LEMMA SameGoesOn ==
  ASSUME TypesInv, SentInv, NEW t \in Traces, Dialogue(t), UNCHANGED <<progress, calls>>, work'[t] = work[t],
         \A o \in Runs : Trace(o) = t =>
           /\ history'[o] = history[o]
           /\ run'[o].at = "pending" => run[o].at = "pending"
  PROVE  TurnsGoOn(t) /\ WorkGoesOn(t)
<1>1. \A o \in Runs : progress[o].revision <= progress[o].revision /\ progress[o].batch <= progress[o].batch
  BY ProgressIsThere
<1>2. TurnsGoOn(t) BY <1>1 DEF TurnsGoOn
<1>3. WorkGoesOn(t)
  <2> SUFFICES ASSUME NEW q \in Runs, work[t].at # "none", work[t].of = q
               PROVE  /\ work[t].mirror.observed <= work[t].mirror.batch
                      /\ work[t].mirror.batch <= progress[q].batch
                      /\ work[t].mirror.revision <= progress[q].revision
                      /\ work[t].at = "done" => calls[q].committed
    <3>1. work[t].at # "none" => work[t].of \in Runs BY DEF SentInv
    <3> QED BY <3>1 DEF WorkGoesOn
  <2> QED BY DEF Dialogue, WorkIsOwned
<1> QED BY <1>2, <1>3

LEMMA BeginDialogue ==
  ASSUME TypesInv, TypesInv', SentInv, NEW t \in Traces, Dialogue(t), NEW r \in Runs, Begin(r)
  PROVE  Dialogue(t)'
<1>1. PICK c : BeginsWith(r, c) BY BeginSteps
<1>2. /\ run'[r] = c /\ \A o \in Runs \ {r} : run'[o] = run[o]
      /\ run[r].at = "idle" /\ c.at \in {"over", "starting"} /\ c.text = run[r].text /\ c.result # "resolved"
  BY <1>1 DEF BeginsWith, TypesInv, Fresh
<1>3. UNCHANGED <<plan, down, up, progress, calls, work, history>> BY <1>1 DEF BeginsWith
<1>4. TurnsGoOn(t) /\ WorkGoesOn(t) BY <1>2, <1>3, SameGoesOn
<1>5. RequestsGoOn(t) BY <1>3, <1>4, RequestsKept
<1>6. RepliesGoOn(t) BY <1>3, RepliesKept
<1>7. StillServed(t)
  <2>1. \A o \in Runs : Trace(o)' = Trace(o) BY <1>3 DEF Trace
  <2>2. Dead(t) => Dead(t)' BY <1>2, <2>1 DEF Dead
  <2> QED BY <1>2, <2>2 DEF StillServed
<1>8. ToldInTime(t) BY <1>2, <1>3, <1>4, <1>5, NothingTold
<1>9. plan'.trace = plan.trace /\ GoesOnWell(t) BY <1>3, <1>4, <1>5, <1>6, <1>7, <1>8 DEF GoesOnWell
<1> QED BY <1>9, DialogueKept

\* The daemon hears a line that is for no turn, the helper boots, or nothing happens.
LEMMA PlainDialogue ==
  ASSUME TypesInv, TypesInv', SentInv, NEW t \in Traces, Dialogue(t),
         UNCHANGED <<plan, down, run, progress, calls, work, history>>,
         \/ SameReplies(up, up', t)
         \/ up # <<>> /\ up' = Tail(up) /\ (Head(up).trace # t \/ Head(up).kind # "text" \/ Pending(t) = {})
  PROVE  Dialogue(t)'
<1>1. TurnsGoOn(t) /\ WorkGoesOn(t) BY SameGoesOn
<1>2. RequestsGoOn(t) BY <1>1, RequestsKept
<1>3. RepliesGoOn(t) BY RepliesKept, ForeignGoesOn
<1>4. StillServed(t) BY KeepsServed
<1>5. TextsOf(up', t) = TextsOf(up, t) \/ \A o \in Runs : Trace(o) = t => run'[o].at # "pending"
  <2>1. CASE SameReplies(up, up', t) BY <2>1, ForeignGoesOn
  <2>2. CASE up # <<>> /\ up' = Tail(up) /\ (Head(up).trace # t \/ Head(up).kind # "text")
    <3>1. up \in Seq(Lines) /\ Tail(up) \in Seq(Lines) BY <2>2, HeadTailProperties DEF TypesInv
    <3>2. TextsOf(up, t) = TextsOf(Tail(up), t) + 0 /\ TextsOf(Tail(up), t) \in Nat
      BY <2>2, <3>1, TextsRead, TextsFinite
    <3> QED BY <2>2, <3>2
  <2>3. CASE Pending(t) = {} BY <2>3 DEF Pending
  <2> QED BY <2>1, <2>2, <2>3
<1>6. ToldInTime(t) BY <1>1, <1>2, <1>5, NothingTold
<1>7. plan'.trace = plan.trace /\ GoesOnWell(t) BY <1>1, <1>2, <1>3, <1>4, <1>6 DEF GoesOnWell
<1> QED BY <1>7, DialogueKept

LEMMA ExitDialogue ==
  ASSUME TypesInv, TypesInv', SentInv, ProcInv, TraceInv, NEW t \in Traces, Dialogue(t), Exit
  PROVE  Dialogue(t)'
<1>1. /\ up' = <<>> /\ down' = <<>> /\ run' = [r \in Runs |-> Exited(run[r])] /\ plan'.trace = plan.trace
      /\ UNCHANGED <<progress, calls, work, history>>
  BY DEF Exit, TypesInv
<1>2. work[t].at = "none" BY ExitKept
<1>3. ASSUME NEW o \in Runs
      PROVE  /\ run'[o].at # "pending" /\ run'[o].text = run[o].text
             /\ run'[o].result = "resolved" => run[o].result = "resolved"
  <2>1. run[o] \in Run /\ run'[o] = Exited(run[o]) BY <1>1 DEF TypesInv
  <2>2. EndedWithError(run[o]).at = "over" /\ EndedWithError(run[o]).text = run[o].text
        /\ (EndedWithError(run[o]).result = "resolved" => run[o].result = "resolved")
    BY <2>1 DEF EndedWithError, Run
  <2> QED BY <2>1, <2>2 DEF Exited
<1>4. TurnsGoOn(t) /\ WorkGoesOn(t) BY <1>1, <1>3, SameGoesOn
<1>5. RequestsGoOn(t) BY <1>1, <1>4, RequestsKept
<1>6. RepliesGoOn(t) BY <1>1, RepliesKept
<1>7. StillServed(t)
  <2>1. Carried(<<>>, t) = {} /\ \A kind \in Own : ~Has(<<>>, kind, t) BY NoLines
  <2> QED BY <1>1, <1>2, <2>1 DEF StillServed
<1>8. ToldInTime(t) BY <1>1, <1>3, <1>4, <1>5, NothingTold
<1>9. GoesOnWell(t) BY <1>4, <1>5, <1>6, <1>7, <1>8 DEF GoesOnWell
<1> QED BY <1>1, <1>9, DialogueKept

LEMMA DieDialogue ==
  ASSUME TypesInv, TypesInv', SentInv, NEW t \in Traces, Dialogue(t), Die
  PROVE  Dialogue(t)'
<1>1. /\ plan'.trace = plan.trace /\ down' = <<>> /\ work'[t].at = "none"
      /\ UNCHANGED <<up, run, progress, calls, history>>
  BY DEF Die, TypesInv, NoWork
<1>2. TurnsGoOn(t)
  <2>1. \A o \in Runs : progress[o].revision <= progress[o].revision /\ progress[o].batch <= progress[o].batch
    BY ProgressIsThere
  <2> QED BY <1>1, <2>1 DEF TurnsGoOn
<1>3. WorkGoesOn(t) BY <1>1 DEF WorkGoesOn
<1>4. RequestsGoOn(t) BY <1>1, <1>2, <1>3, RequestsKept
<1>5. RepliesGoOn(t) BY <1>1, RepliesKept
<1>6. StillServed(t) BY <1>1, KeepsServed
<1>7. ToldInTime(t) BY <1>1, <1>2, <1>3, <1>4, NothingTold
<1>8. GoesOnWell(t) BY <1>2, <1>3, <1>4, <1>5, <1>6, <1>7 DEF GoesOnWell
<1> QED BY <1>1, <1>8, DialogueKept

LEMMA StartDialogue ==
  ASSUME TypesInv, TypesInv', SentInv, ProcInv, TraceInv, NEW t \in Traces, Dialogue(t), NEW r \in Runs, Start(r)
  PROVE  Dialogue(t)'
<1>1. /\ run[r].at = "starting" /\ Fresh(r)
      /\ UNCHANGED <<plan, child, proc, up, progress, calls, work, leases, history>>
      /\ Replaces(r) \/ Refuses(r) \/ IsSent(r)
  BY StartSteps
<1>2. run \in [Runs -> Run] /\ \A o \in Runs : run[o] \in Run /\ Trace(o)' = Trace(o) BY <1>1 DEF TypesInv, Trace
<1>3. down \in Seq(Lines) /\ up \in Seq(Lines) BY DEF TypesInv
<1>4. ASSUME NEW o \in Runs
      PROVE  /\ EndedWithError(run[o]).at = "over" /\ EndedWithError(run[o]).text = run[o].text
             /\ EndedWithError(run[o]).result = "resolved" => run[o].result = "resolved"
  BY <1>2 DEF EndedWithError, Run
<1>5. RepliesGoOn(t) BY <1>1, RepliesKept
<1>6. CASE Trace(r) # t
  <2>1. \A o \in Runs : Trace(o) = t => run'[o] = run[o]
    BY <1>1, <1>2, <1>6 DEF Replaces, Refuses, IsSent, Pending
  <2>2. TurnsGoOn(t) /\ WorkGoesOn(t) BY <1>1, <2>1, SameGoesOn
  <2>3. down' = down \/ \E l \in Lines : down' = Append(down, l) /\ l.trace # t
    BY <1>1, <1>6 DEF Replaces, Refuses, IsSent
  <2>4. RequestsGoOn(t) BY <2>2, <2>3, RequestsKept
  <2>5. StillServed(t) BY <1>1, <2>1, KeepsServed
  <2>6. ToldInTime(t) BY <1>1, <2>1, <2>2, <2>4, NothingTold
  <2>7. GoesOnWell(t) BY <1>5, <2>2, <2>4, <2>5, <2>6 DEF GoesOnWell
  <2> QED BY <1>1, <2>7, DialogueKept
<1>7. CASE Trace(r) = t /\ (Replaces(r) \/ Refuses(r))
  <2>1. ASSUME NEW o \in Runs
        PROVE  /\ run'[o].at = "pending" => run[o].at = "pending"
               /\ run'[o].text = run[o].text /\ (run'[o].result = "resolved" => run[o].result = "resolved")
    <3>1. CASE Replaces(r)
      <4>1. CASE o = r BY <1>1, <3>1, <4>1 DEF Replaces, Fresh
      <4>2. CASE o # r BY <1>4, <3>1, <4>2 DEF Replaces
      <4> QED BY <4>1, <4>2
    <3>2. CASE Refuses(r)
      <4>1. run'[r] = EndedWithError(run[r]) /\ \A s \in Runs \ {r} : run'[s] = run[s] BY <1>2, <3>2 DEF Refuses
      <4> QED BY <1>4, <4>1
    <3> QED BY <1>7, <3>1, <3>2
  <2>2. TurnsGoOn(t) /\ WorkGoesOn(t) BY <1>1, <2>1, SameGoesOn
  <2>3. RequestsGoOn(t)
    <3>1. down' = down BY <1>7 DEF Replaces, Refuses
    <3> QED BY <2>2, <3>1, RequestsKept
  <2>4. StillServed(t)
    <3>1. CASE Replaces(r)
      <4>1. Dead(t)' BY <1>2, <1>7, <3>1 DEF Dead, Replaces
      <4> QED BY <4>1 DEF StillServed
    <3>2. CASE Refuses(r)
      <4>1. \A s \in Runs \ {r} : run'[s] = run[s] BY <1>2, <3>2 DEF Refuses
      <4>2. Dead(t) => Dead(t)' BY <1>1, <1>2, <4>1 DEF Dead
      <4>3. \A s \in Runs : run[s].at = "pending" => run'[s].at = "pending" BY <1>1, <4>1
      <4> QED BY <4>2, <4>3 DEF StillServed
    <3> QED BY <1>7, <3>1, <3>2
  <2>5. ToldInTime(t) BY <1>1, <2>1, <2>2, <2>3, NothingTold
  <2>6. GoesOnWell(t) BY <1>5, <2>2, <2>3, <2>4, <2>5 DEF GoesOnWell
  <2> QED BY <1>1, <2>6, DialogueKept
<1>8. CASE Trace(r) = t /\ IsSent(r)
  <2>1. Pending(t) = {} /\ run' = [run EXCEPT ![r].at = "pending"] BY <1>8 DEF IsSent
  <2>2. /\ run'[r].at = "pending" /\ run'[r].text = 0 /\ run'[r].result = "none"
        /\ \A o \in Runs \ {r} : run'[o] = run[o]
    <3>1. run'[r] = [run[r] EXCEPT !.at = "pending"] BY <1>2, <2>1
    <3>2. run'[r].at = "pending" /\ run'[r].text = run[r].text /\ run'[r].result = run[r].result BY <1>2, <3>1 DEF Run
    <3> QED BY <1>1, <1>2, <2>1, <3>2 DEF Fresh
  <2>3. /\ history[r].text = 0 /\ history[r].observed = 0 /\ progress[r].observed = 0 /\ progress[r].batch = 0
    BY <1>1 DEF Fresh, NewHistory, NewProgress
  <2>4. \A q \in Runs : Trace(q) = t => ~Serving(q)
    <3>1. ~Dead(t)
      <4> SUFFICES ASSUME NEW s \in Runs, Trace(s) = t, run[s].at = "over", run[s].result = "none" PROVE FALSE
        BY DEF Dead
      <4>1. s # r /\ Trace(s) = Trace(r) /\ run[r].result = "none" BY <1>1, <1>8 DEF Fresh
      <4> QED BY <1>1, <4>1 DEF TraceInv
    <3> QED BY <2>1, <3>1 DEF Serving, Pending
  <2>5. Carried(down, t) = {} BY <2>4 DEF Dialogue, RunIsOne, SentInv
  <2>6. work[t].at = "none"
    <3>1. work[t].at # "none" => work[t].of \in Runs /\ Trace(work[t].of) = t BY DEF SentInv
    <3> QED BY <2>4, <3>1 DEF Dialogue, WorkIsOwned
  <2>7. \A kind \in Own : ~Has(up, kind, t)
    <3>1. ~Dead(t) BY <1>8, <2>4 DEF Serving
    <3> QED BY <2>1, <3>1 DEF Dialogue, RepliesAreOwned
  <2>8. Carried(down', t) \subseteq {r} /\ OneRun(down', t) /\ BehindHold(down', t, progress', calls')
    <3>1. OneRun(down, t) /\ BehindHold(down, t, progress, calls) BY DEF Dialogue, RunIsOne, LinesHold
    <3>2. CASE down' = down BY <1>1, <2>5, <3>1, <3>2
    <3>3. ASSUME NEW l \in Lines, l.kind = "run", l.trace = Trace(r), l.of = r, down' = Append(down, l)
          PROVE  Carried(down', t) \subseteq {r} /\ OneRun(down', t) /\ BehindHold(down', t, progress', calls')
      <4>1. Carried(Append(down, l), t) = Carried(down, t) \cup {r} BY <1>3, <1>8, <3>3, WrittenRequest
      <4>2. OneRun(Append(down, l), t) BY <1>3, <2>5, <3>1, WrittenRequest
      <4>3. BehindHold(Append(down, l), t, progress, calls) BY <1>3, <2>5, <3>1, WrittenRequest
      <4> QED BY <1>1, <2>5, <3>3, <4>1, <4>2, <4>3
    <3> QED BY <1>8, <3>2, <3>3 DEF IsSent
  <2>9. RunIsOne(t)'
    <3>1. Serving(r)' BY <2>2 DEF Serving
    <3> QED BY <1>1, <2>3, <2>6, <2>8, <3>1 DEF RunIsOne
  <2>10. WorkIsOwned(t)' BY <1>1, <2>6 DEF WorkIsOwned
  <2>11. RepliesAreOwned(t)'
    <3>1. Ordered(up, t) BY DEF Dialogue, RepliesAreOwned
    <3> QED BY <1>1, <2>7, <3>1 DEF RepliesAreOwned, Own
  <2>12. PendingIsTold(t)'
    <3> SUFFICES ASSUME NEW o \in Runs, Trace(o) = t, run'[o].at = "pending"
                 PROVE  /\ run'[o].text + TextsOf(up, t) = history[o].text
                        /\ ObservedUpTo(up, t, history[o].observed) /\ ~Has(up, "result", t)
      BY <1>1, <1>2 DEF PendingIsTold, Pending
    <3>1. o = r BY <2>1, <2>2 DEF Pending
    <3>2. ~Has(up, "text", t) /\ ~Has(up, "observed", t) /\ ~Has(up, "result", t) BY <2>7 DEF Own
    <3>3. TextsOf(up, t) = 0 BY <1>3, <3>2, NoTexts
    <3>4. ObservedUpTo(up, t, history[o].observed) BY <3>2 DEF Has, ObservedUpTo
    <3> QED BY <2>2, <2>3, <3>1, <3>2, <3>3, <3>4
  <2>13. RunsAreTold(t)'
    <3> SUFFICES ASSUME NEW o \in Runs, Trace(o) = t
                 PROVE  /\ run'[o].text <= history[o].text
                        /\ progress[o].observed <= history[o].observed /\ history[o].observed <= progress[o].batch
                        /\ run'[o].result = "resolved" =>
                             /\ run'[o].text = history[o].text /\ calls[o].committed
                             /\ work[t].at = "none" \/ work[t].of # o
                             /\ o \notin Carried(down', t)
      BY <1>1, <1>2 DEF RunsAreTold
    <3>1. CASE o = r BY <2>2, <2>3, <3>1
    <3>2. CASE o # r BY <2>2, <2>6, <2>8, <3>2 DEF Dialogue, RunsAreTold
    <3> QED BY <3>1, <3>2
  <2>14. LinesHold(t)' BY <1>1, <2>6, <2>8 DEF LinesHold
  <2> QED BY <2>9, <2>10, <2>11, <2>12, <2>13, <2>14 DEF Dialogue
<1> QED BY <1>1, <1>6, <1>7, <1>8

\* The turn at work takes a line in.
LEMMA TakenIn ==
  ASSUME TypesInv, SentInv, NEW t \in Traces, Dialogue(t), down # <<>>, Head(down).trace = t,
         UNCHANGED <<progress, calls>>, TakesIn(t, Head(down))
  PROVE  WorkGoesOn(t)
<1>1. /\ work[t].at # "none" /\ work'[t].of = work[t].of
      /\ \/ work'[t].mirror = work[t].mirror
         \/ Head(down).kind = "progress" /\ work'[t].mirror = Applied(work[t].mirror, Head(down).snapshot)
      /\ work'[t].at = "done" => work[t].at = "done" \/ (Head(down).kind = "committed" /\ Head(down).n = 1)
  BY DEF TakesIn
<1>2. PICK q \in Runs : q = work[t].of BY <1>1 DEF SentInv
<1>3. /\ work[t].mirror.observed <= work[t].mirror.batch
      /\ work[t].mirror.batch <= progress[q].batch /\ work[t].mirror.revision <= progress[q].revision
      /\ work[t].at = "done" => calls[q].committed
  BY <1>1, <1>2 DEF Dialogue, WorkIsOwned
<1>4. Holds(Head(down), progress[q], calls[q])
  <2>1. AllHold(down, t, progress[q], calls[q]) BY <1>1, <1>2 DEF Dialogue, LinesHold
  <2>2. down \in Seq(Lines) BY DEF TypesInv
  <2> QED BY <2>1, <2>2, ReadRequest
<1>5. work[t].mirror \in Progress /\ progress[q] \in Progress BY DEF TypesInv, Work
<1>6. Head(down).snapshot \in [revision : Nat, batch : Nat, active : Nat]
  <2>1. Head(down) \in Lines BY ReadType DEF TypesInv
  <2> QED BY <2>1 DEF Lines
<1>7. /\ work'[t].mirror.observed = work[t].mirror.observed /\ work[t].mirror.observed <= work'[t].mirror.batch
      /\ work'[t].mirror.batch <= progress[q].batch /\ work'[t].mirror.revision <= progress[q].revision
  <2>1. CASE work'[t].mirror = work[t].mirror BY <1>3, <2>1
  <2>2. CASE Head(down).kind = "progress" /\ work'[t].mirror = Applied(work[t].mirror, Head(down).snapshot)
    <3> DEFINE old == work[t].mirror  s == Head(down).snapshot  new == Applied(old, s)
    <3>1. /\ new \in Progress /\ new.observed = old.observed /\ new.batch >= old.batch
          /\ \/ new.revision = old.revision /\ new.batch = old.batch
             \/ new.revision = s.revision /\ new.batch = s.batch
      BY <1>5, <1>6, AppliedType
    <3>2. s.revision <= progress[q].revision /\ s.batch <= progress[q].batch BY <1>4, <2>2 DEF Holds
    <3>3. old.observed \in Nat /\ old.batch \in Nat BY <1>5 DEF Progress
    <3>4. new.batch \in Nat BY <3>1 DEF Progress
    <3> HIDE DEF new
    <3>5. old.observed <= new.batch BY <1>3, <3>1, <3>3, <3>4
    <3>6. new.batch <= progress[q].batch /\ new.revision <= progress[q].revision BY <1>3, <3>1, <3>2
    <3>7. work'[t].mirror = new BY <2>2 DEF new
    <3> QED BY <3>1, <3>5, <3>6, <3>7
  <2> QED BY <1>1, <2>1, <2>2
<1>8. work'[t].at = "done" => calls[q].committed BY <1>1, <1>3, <1>4 DEF Holds
<1> QED BY <1>1, <1>2, <1>7, <1>8 DEF WorkGoesOn

\* A turn starts: it is the one its run line was for.
LEMMA StartedWork ==
  ASSUME TypesInv, SentInv, NEW t \in Traces, Dialogue(t), down # <<>>, Head(down).trace = t, down' = Tail(down),
         UNCHANGED <<plan, run, progress, calls, history>>, Starts(t, Head(down))
  PROVE  Dialogue(t)'
<1>1. /\ Head(down).kind = "run" /\ work[t].at = "none" /\ work'[t].of = Head(down).of /\ work'[t].at = "lease"
      /\ work'[t].mirror = NewProgress /\ up' = up
  BY DEF Starts
<1>2. down \in Seq(Lines) /\ OneRun(down, t) /\ BehindHold(down, t, progress, calls)
  BY DEF TypesInv, Dialogue, RunIsOne, LinesHold
<1>3. Head(down).of \in Carried(down, t) BY <1>1, <1>2, ReadRequest
<1>4. PICK r \in Runs : r = Head(down).of /\ r \in Carried(down, t) /\ Trace(r) = t BY <1>3 DEF SentInv
<1>5. /\ Carried(Tail(down), t) = {} /\ OneRun(Tail(down), t)
      /\ AllHold(Tail(down), t, progress[r], calls[r]) /\ BehindHold(Tail(down), t, progress, calls)
  BY <1>1, <1>2, <1>4, ReadRequest
<1>6. Serving(r) /\ history[r].text = 0 /\ history[r].observed = 0 BY <1>4 DEF Dialogue, RunIsOne
<1>7. \A o \in Runs : /\ Trace(o)' = Trace(o) /\ (Serving(o) => Serving(o)')
  BY DEF Trace, Serving, Dead
<1>8. RunIsOne(t)' BY <1>5 DEF RunIsOne
<1>9. WorkIsOwned(t)'
  <2>1. /\ work'[t].mirror.observed = 0 /\ work'[t].mirror.batch = 0 /\ work'[t].mirror.revision = 0
    BY <1>1 DEF NewProgress
  <2>2. progress[r].batch \in Nat /\ progress[r].revision \in Nat BY DEF TypesInv, Progress
  <2>3. Serving(r)' BY <1>6, <1>7
  <2>4. work'[t].of = r /\ work'[t].at # "done" BY <1>1, <1>4
  <2> QED BY <1>6, <2>1, <2>2, <2>3, <2>4 DEF WorkIsOwned
<1>10. RepliesAreOwned(t)'
  <2>1. /\ \A kind \in Own : Has(up, kind, t) => Pending(t) # {} \/ Dead(t)
        /\ ~(Has(up, "result", t) \/ Has(up, "settled", t)) /\ Ordered(up, t)
    BY <1>4 DEF Dialogue, RepliesAreOwned
  <2>2. Pending(t)' = Pending(t) /\ (Dead(t) => Dead(t)') BY DEF Pending, Dead, Trace
  <2> QED BY <1>1, <2>1, <2>2 DEF RepliesAreOwned
<1>11. PendingIsTold(t)'
  <2>1. Pending(t)' = Pending(t) BY DEF Pending, Trace
  <2> QED BY <1>1, <2>1 DEF Dialogue, PendingIsTold
<1>12. RunsAreTold(t)'
  <2>1. \A o \in Runs : Trace(o) = t =>
          /\ run[o].text <= history[o].text
          /\ progress[o].observed <= history[o].observed /\ history[o].observed <= progress[o].batch
          /\ run[o].result = "resolved" =>
               /\ run[o].text = history[o].text /\ calls[o].committed
               /\ o \notin Carried(down, t)
    BY DEF Dialogue, RunsAreTold
  <2>2. work'[t].of = r /\ Carried(down', t) = {} BY <1>1, <1>4, <1>5
  <2> QED BY <1>4, <1>7, <2>1, <2>2 DEF RunsAreTold
<1>13. LinesHold(t)' BY <1>1, <1>4, <1>5 DEF LinesHold
<1> QED BY <1>8, <1>9, <1>10, <1>11, <1>12, <1>13 DEF Dialogue

LEMMA ReadsDialogue ==
  ASSUME TypesInv, TypesInv', SentInv, NEW t \in Traces, Dialogue(t), NEW u \in Traces, ReadsLine(u)
  PROVE  Dialogue(t)'
<1>1. /\ down # <<>> /\ Head(down).trace = u /\ down' = Tail(down)
      /\ UNCHANGED <<plan, run, progress, calls, history>>
      /\ \A v \in Traces \ {u} : work'[v] = work[v]
      /\ \/ Starts(u, Head(down)) \/ TakesIn(u, Head(down))
         \/ work'[u] = work[u] /\ (up' = up \/ up' = Append(up, Line("error", u)))
  BY DEF ReadsLine
<1>2. CASE u = t /\ Starts(u, Head(down)) BY <1>1, <1>2, StartedWork
<1>3. CASE u # t \/ ~Starts(u, Head(down))
  <2>1. SameReplies(up, up', t)
    <3>1. up \in Seq(Lines) /\ Line("error", u) \in Lines /\ Line("error", u).kind \notin Own
      BY LineType DEF TypesInv, Kinds, Own, Line
    <3>2. CASE up' = up BY <3>2 DEF SameReplies
    <3>3. CASE up' = Append(up, Line("error", u)) BY <3>1, <3>3, ForeignReply
    <3> QED BY <1>1, <3>2, <3>3 DEF Starts, TakesIn
  <2>2. RepliesGoOn(t) /\ TextsOf(up', t) = TextsOf(up, t) BY <2>1, ForeignGoesOn
  <2>3. TurnsGoOn(t) BY <1>1, ProgressIsThere DEF TurnsGoOn
  <2>4. WorkGoesOn(t)
    <3>1. CASE work'[t] = work[t] BY <1>1, <3>1, SameGoesOn
    <3>2. CASE u = t /\ TakesIn(u, Head(down)) BY <1>1, <3>2, TakenIn
    <3> QED BY <1>1, <1>3, <3>1, <3>2
  <2>5. RequestsGoOn(t) BY <1>1, <2>3, <2>4, RequestsKept
  <2>6. StillServed(t) BY <1>1, KeepsServed
  <2>7. ToldInTime(t) BY <1>1, <2>2, <2>3, <2>4, <2>5, NothingTold
  <2>8. GoesOnWell(t) BY <2>2, <2>3, <2>4, <2>5, <2>6, <2>7 DEF GoesOnWell
  <2> QED BY <1>1, <2>8, DialogueKept
<1> QED BY <1>2, <1>3

\* What a turn writes is nothing to another trace.
LEMMA WorksElsewhere ==
  ASSUME TypesInv, TypesInv', SentInv, NEW t \in Traces, Dialogue(t), NEW u \in Traces, u # t, WorksStep(u)
  PROVE  Dialogue(t)'
<1>1. /\ work[u].at # "none" /\ UNCHANGED <<plan, down, run, progress, calls>> /\ work'[t] = work[t]
      /\ \A o \in Runs : o # work[u].of => history'[o] = history[o]
  BY DEF WorksStep
<1>2. \A o \in Runs : Trace(o) = t => history'[o] = history[o] BY <1>1 DEF SentInv
<1>3. up \in Seq(Lines) BY DEF TypesInv
<1>4. ASSUME NEW kind \in Kinds PROVE Line(kind, u) \in Lines /\ Line(kind, u).trace = u BY LineType DEF Line
<1>5. ASSUME NEW s \in Seq(Lines), NEW l \in Lines, l.trace = u, SameReplies(up, s, t)
      PROVE  SameReplies(up, Append(s, l), t) /\ Append(s, l) \in Seq(Lines)
  <2>1. SameReplies(s, Append(s, l), t) BY <1>5, ForeignReply
  <2>2. SameReplies(up, Append(s, l), t) BY <1>5, <2>1 DEF SameReplies
  <2> QED BY <2>2, AppendProperties
<1>6. SameReplies(up, up, t) BY DEF SameReplies
<1>7. SameReplies(up, up', t)
  <2>1. CASE up' = up BY <1>6, <2>1
  <2>2. ASSUME NEW l \in Lines, l.trace = u, up' = Append(up, l) PROVE SameReplies(up, up', t)
    BY <1>3, <1>5, <1>6, <2>2
  <2>3. CASE up' = Append(up, Line("text", u)) BY <1>4, <2>2, <2>3 DEF Kinds
  <2>4. CASE up' = Append(Append(up, Line("error", u)), Line("settled", u))
    <3> DEFINE s == Append(up, Line("error", u))
    <3>1. s \in Seq(Lines) /\ SameReplies(up, s, t) BY <1>3, <1>4, <1>5, <1>6 DEF Kinds
    <3>2. up' = Append(s, Line("settled", u)) BY <2>4
    <3> HIDE DEF s
    <3>3. Line("settled", u) \in Lines /\ Line("settled", u).trace = u BY <1>4 DEF Kinds
    <3> QED BY <1>5, <3>1, <3>2, <3>3
  <2>5. ASSUME NEW last \in {"result", "error"},
               up' = Append(Append(Append(up, Line("text", u)), Line(last, u)), Line("settled", u))
        PROVE  SameReplies(up, up', t)
    <3> DEFINE s == Append(up, Line("text", u))  v == Append(s, Line(last, u))
    <3>1. s \in Seq(Lines) /\ SameReplies(up, s, t) BY <1>3, <1>4, <1>5, <1>6 DEF Kinds
    <3>2. up' = Append(v, Line("settled", u)) BY <2>5
    <3>3. /\ Line(last, u) \in Lines /\ Line(last, u).trace = u
          /\ Line("settled", u) \in Lines /\ Line("settled", u).trace = u
      BY <1>4 DEF Kinds
    <3> HIDE DEF s
    <3>4. v \in Seq(Lines) /\ SameReplies(up, v, t) BY <1>5, <3>1, <3>3
    <3> HIDE DEF v
    <3> QED BY <1>5, <3>2, <3>3, <3>4
  <2> QED BY <2>1, <2>2, <2>3, <2>4, <2>5 DEF WorksStep, SaysNothing, SaysText, SaysObserved, Fails, Completes
<1>8. TurnsGoOn(t) /\ WorkGoesOn(t) BY <1>1, <1>2, SameGoesOn
<1>9. RequestsGoOn(t) BY <1>1, <1>8, RequestsKept
<1>10. RepliesGoOn(t) /\ TextsOf(up', t) = TextsOf(up, t) BY <1>7, ForeignGoesOn
<1>11. StillServed(t) BY <1>1, KeepsServed
<1>12. ToldInTime(t) BY <1>1, <1>8, <1>9, <1>10, NothingTold
<1>13. GoesOnWell(t) BY <1>8, <1>9, <1>10, <1>11, <1>12 DEF GoesOnWell
<1> QED BY <1>1, <1>13, DialogueKept

\* What the turn q of a trace writes: more text, a boundary up to n, its end.
Says(t, q) ==
  /\ Ordered(up', t)
  /\ history[q].text + TextsOf(up', t) = TextsOf(up, t) + history'[q].text
  /\ \A n \in Nat : ObservedUpTo(up, t, n) /\ n <= history'[q].observed => ObservedUpTo(up', t, history'[q].observed)
  /\ Has(up', "result", t) => work[t].at = "done"
  /\ Has(up', "result", t) \/ Has(up', "settled", t) => work'[t].at = "none"
  /\ work'[t].at # "none" =>
       /\ work'[t].of = q /\ history'[q].observed = work'[t].mirror.observed
       /\ work'[t].mirror.observed <= work'[t].mirror.batch
       /\ work'[t].mirror.batch = work[t].mirror.batch /\ work'[t].mirror.revision = work[t].mirror.revision
       /\ work'[t].at = "done" => work[t].at = "done"
  /\ history[q].text <= history'[q].text /\ history[q].observed <= history'[q].observed
  /\ history'[q].observed \in {history[q].observed, work[t].mirror.batch}

\* A line behind those of the pipe, of a turn that has not settled.
LEMMA OneReply ==
  ASSUME NEW s \in Seq(Lines), NEW l \in Lines, NEW t, l.trace = t, Ordered(s, t), ~Has(s, "settled", t),
         l.kind = "text" => ~Has(s, "result", t)
  PROVE  /\ Ordered(Append(s, l), t) /\ Append(s, l) \in Seq(Lines)
         /\ TextsOf(Append(s, l), t) = TextsOf(s, t) + (IF l.kind = "text" THEN 1 ELSE 0) /\ TextsOf(s, t) \in Nat
         /\ \A n : ObservedUpTo(s, t, n) /\ (l.kind = "observed" => l.n <= n) => ObservedUpTo(Append(s, l), t, n)
         /\ \A kind \in {"result", "settled"} : Has(Append(s, l), kind, t) <=> Has(s, kind, t) \/ l.kind = kind
<1>1. Ordered(Append(s, l), t) BY WrittenReply
<1>2. Append(s, l) \in Seq(Lines) BY AppendProperties
<1>3. \A n : ObservedUpTo(s, t, n) /\ (l.kind = "observed" => l.n <= n) => ObservedUpTo(Append(s, l), t, n)
  BY WrittenReply
<1>4. \A kind \in {"result", "settled"} : Has(Append(s, l), kind, t) <=> Has(s, kind, t) \/ l.kind = kind
  BY WrittenReply
<1> QED BY <1>1, <1>2, <1>3, <1>4, TextsAppended, TextsFinite

LEMMA SaidBy ==
  ASSUME TypesInv, TypesInv', SentInv, NEW t \in Traces, Dialogue(t), WorksStep(t), NEW q \in Runs, q = work[t].of
  PROVE  Says(t, q)
<1>1. /\ work[t].at # "none" /\ \A o \in Runs : o # q => history'[o] = history[o]
      /\ SaysNothing(t) \/ SaysText(t) \/ SaysObserved(t) \/ Fails(t) \/ Completes(t)
  BY DEF WorksStep
<1>2. /\ up \in Seq(Lines) /\ history[q].text \in Nat /\ history[q].observed \in Nat
      /\ work[t].mirror \in Progress
  BY DEF TypesInv, Work
<1>3. work[t].mirror.batch \in Nat /\ work[t].mirror.observed \in Nat BY <1>2 DEF Progress
<1>4. /\ Ordered(up, t) /\ ~Has(up, "settled", t) /\ ~Has(up, "result", t)
      /\ history[q].observed = work[t].mirror.observed /\ work[t].mirror.observed <= work[t].mirror.batch
  BY <1>1 DEF Dialogue, RepliesAreOwned, WorkIsOwned
<1>5. ASSUME NEW n \in Nat, NEW m \in Nat, n <= m, NEW s, ObservedUpTo(s, t, n), s \in Seq(Lines)
      PROVE  ObservedUpTo(s, t, m)
  <2> SUFFICES ASSUME NEW i \in LinesOf(s, "observed", t) PROVE s[i].n <= m BY DEF ObservedUpTo
  <2>1. s[i].n <= n BY <1>5 DEF ObservedUpTo
  <2>2. i \in DOMAIN s BY DEF LinesOf
  <2>3. s[i] \in Lines BY <1>5, <2>2, ElementOfSeq, LenProperties
  <2>4. s[i].n \in Nat BY <2>3 DEF Lines
  <2> QED BY <1>5, <2>1, <2>4
<1>6. TextsOf(up, t) \in Nat BY <1>2, TextsFinite
<1>7. ASSUME NEW kind \in Kinds
      PROVE  Line(kind, t) \in Lines /\ Line(kind, t).kind = kind /\ Line(kind, t).trace = t
  BY LineType DEF Line
<1>8. CASE SaysNothing(t)
  <2>1. /\ Ordered(up', t) /\ TextsOf(up', t) = TextsOf(up, t) /\ ~Has(up', "result", t) /\ ~Has(up', "settled", t)
        /\ \A n : ObservedUpTo(up, t, n) => ObservedUpTo(up', t, n)
    <3>1. CASE up' = up BY <1>4, <3>1
    <3>2. ASSUME NEW l \in Lines, l.trace = t, l.kind \in {"selected", "begin", "commit"}, up' = Append(up, l)
          PROVE  /\ Ordered(up', t) /\ TextsOf(up', t) = TextsOf(up, t)
                 /\ ~Has(up', "result", t) /\ ~Has(up', "settled", t)
                 /\ \A n : ObservedUpTo(up, t, n) => ObservedUpTo(up', t, n)
      <4>1. l.kind \notin {"text", "observed", "result", "settled"} BY <3>2
      <4>2. /\ Ordered(Append(up, l), t) /\ TextsOf(Append(up, l), t) = TextsOf(up, t) + 0
            /\ \A n : ObservedUpTo(up, t, n) => ObservedUpTo(Append(up, l), t, n)
            /\ ~Has(Append(up, l), "result", t) /\ ~Has(Append(up, l), "settled", t)
        BY <1>2, <1>4, <3>2, <4>1, OneReply
      <4> QED BY <1>6, <3>2, <4>2
    <3> QED BY <1>8, <3>1, <3>2 DEF SaysNothing
  <2>2. /\ work'[t].at # "none" /\ work'[t].of = q /\ (work'[t].at = "done" => work[t].at = "done")
        /\ work'[t].mirror = work[t].mirror
        /\ history'[q].text = history[q].text /\ history'[q].observed = history[q].observed
    BY <1>8 DEF SaysNothing, GoesOn
  <2>3. \A n \in Nat : ObservedUpTo(up, t, n) /\ n <= history'[q].observed => ObservedUpTo(up', t, history'[q].observed)
    BY <1>2, <1>5, <2>1, <2>2
  <2> QED BY <1>2, <1>4, <1>6, <2>1, <2>2, <2>3 DEF Says
<1>9. CASE SaysText(t)
  <2>1. /\ Ordered(up', t) /\ TextsOf(up', t) = TextsOf(up, t) + 1 /\ ~Has(up', "result", t) /\ ~Has(up', "settled", t)
        /\ \A n : ObservedUpTo(up, t, n) => ObservedUpTo(up', t, n)
    <3> DEFINE l == Line("text", t)
    <3>1. l \in Lines /\ l.trace = t /\ l.kind = "text" BY <1>7 DEF Kinds
    <3>2. up' = Append(up, l) BY <1>9 DEF SaysText
    <3> HIDE DEF l
    <3>3. /\ Ordered(Append(up, l), t) /\ TextsOf(Append(up, l), t) = TextsOf(up, t) + 1
          /\ \A n : ObservedUpTo(up, t, n) => ObservedUpTo(Append(up, l), t, n)
          /\ ~Has(Append(up, l), "result", t) /\ ~Has(Append(up, l), "settled", t)
      BY <1>2, <1>4, <3>1, OneReply
    <3> QED BY <3>2, <3>3
  <2>2. /\ work'[t].at # "none" /\ work'[t].of = q /\ (work'[t].at = "done" => work[t].at = "done")
        /\ work'[t].mirror = work[t].mirror
        /\ history'[q].text = history[q].text + 1 /\ history'[q].observed = history[q].observed
    BY <1>9 DEF SaysText, GoesOn
  <2>3. \A n \in Nat : ObservedUpTo(up, t, n) /\ n <= history'[q].observed => ObservedUpTo(up', t, history'[q].observed)
    BY <1>2, <1>5, <2>1, <2>2
  <2>4. history[q].text + TextsOf(up', t) = TextsOf(up, t) + history'[q].text /\ history[q].text <= history'[q].text
    <3>1. TextsOf(up', t) = TextsOf(up, t) + 1 BY <2>1
    <3>2. history'[q].text = history[q].text + 1 BY <2>2
    <3>3. history[q].text \in Nat /\ TextsOf(up, t) \in Nat BY <1>2, <1>6
    <3> QED BY <3>1, <3>2, <3>3
  <2> QED BY <1>2, <1>4, <2>1, <2>2, <2>3, <2>4 DEF Says
<1>10. CASE SaysObserved(t)
  <2>1. PICK l \in Lines : l.trace = t /\ l.kind = "observed" /\ l.n = work[t].mirror.batch /\ up' = Append(up, l)
    BY <1>10 DEF SaysObserved
  <2>2. /\ Ordered(up', t) /\ TextsOf(up', t) = TextsOf(up, t) /\ ~Has(up', "result", t) /\ ~Has(up', "settled", t)
        /\ \A n : ObservedUpTo(up, t, n) /\ l.n <= n => ObservedUpTo(up', t, n)
    <3>1. /\ Ordered(Append(up, l), t) /\ TextsOf(Append(up, l), t) = TextsOf(up, t) + 0
          /\ \A n : ObservedUpTo(up, t, n) /\ l.n <= n => ObservedUpTo(Append(up, l), t, n)
          /\ ~Has(Append(up, l), "result", t) /\ ~Has(Append(up, l), "settled", t)
      BY <1>2, <1>4, <2>1, OneReply
    <3> QED BY <1>6, <2>1, <3>1
  <2>3. /\ work'[t].at # "none" /\ work'[t].of = q /\ (work'[t].at = "done" => work[t].at = "done")
        /\ work'[t].mirror = [work[t].mirror EXCEPT !.observed = work[t].mirror.batch]
        /\ history'[q].text = history[q].text /\ history'[q].observed = work[t].mirror.batch
    BY <1>10 DEF SaysObserved, GoesOn
  <2>4. /\ work'[t].mirror.observed = work[t].mirror.batch /\ work'[t].mirror.batch = work[t].mirror.batch
        /\ work'[t].mirror.revision = work[t].mirror.revision
    BY <1>2, <2>3 DEF Progress
  <2>5. \A n \in Nat : ObservedUpTo(up, t, n) /\ n <= history'[q].observed => ObservedUpTo(up', t, history'[q].observed)
    BY <1>2, <1>3, <1>5, <2>1, <2>2, <2>3
  <2>6. history[q].observed <= history'[q].observed BY <1>4, <2>3
  <2>7. work'[t].mirror.observed <= work'[t].mirror.batch BY <1>3, <2>4
  <2> QED BY <1>2, <1>6, <2>2, <2>3, <2>4, <2>5, <2>6, <2>7 DEF Says
<1>11. CASE Fails(t)
  <2> DEFINE s == Append(up, Line("error", t))
  <2>1. /\ Ordered(s, t) /\ TextsOf(s, t) = TextsOf(up, t) /\ ~Has(s, "result", t) /\ ~Has(s, "settled", t)
        /\ s \in Seq(Lines) /\ \A n : ObservedUpTo(up, t, n) => ObservedUpTo(s, t, n)
    <3> DEFINE l == Line("error", t)
    <3>1. l \in Lines /\ l.trace = t /\ l.kind = "error" BY <1>7 DEF Kinds
    <3> HIDE DEF l
    <3>2. /\ Ordered(Append(up, l), t) /\ TextsOf(Append(up, l), t) = TextsOf(up, t) + 0
          /\ \A n : ObservedUpTo(up, t, n) => ObservedUpTo(Append(up, l), t, n)
          /\ ~Has(Append(up, l), "result", t) /\ ~Has(Append(up, l), "settled", t) /\ Append(up, l) \in Seq(Lines)
      BY <1>2, <1>4, <3>1, OneReply
    <3> QED BY <1>6, <3>2 DEF l
  <2>2. up' = Append(s, Line("settled", t)) /\ work'[t].at = "none" /\ history' = history
    BY <1>11 DEF Fails, NoWork
  <2> HIDE DEF s
  <2>3. /\ Ordered(up', t) /\ TextsOf(up', t) = TextsOf(up, t) /\ ~Has(up', "result", t)
        /\ \A n : ObservedUpTo(s, t, n) => ObservedUpTo(up', t, n)
    <3> DEFINE l == Line("settled", t)
    <3>1. l \in Lines /\ l.trace = t /\ l.kind = "settled" BY <1>7 DEF Kinds
    <3> HIDE DEF l
    <3>2. /\ Ordered(Append(s, l), t) /\ TextsOf(Append(s, l), t) = TextsOf(s, t) + 0
          /\ \A n : ObservedUpTo(s, t, n) => ObservedUpTo(Append(s, l), t, n)
          /\ ~Has(Append(s, l), "result", t)
      BY <2>1, <3>1, OneReply
    <3> QED BY <1>6, <2>1, <2>2, <3>2 DEF l
  <2>4. \A n \in Nat : ObservedUpTo(up, t, n) /\ n <= history'[q].observed => ObservedUpTo(up', t, history'[q].observed)
    <3>1. history'[q].observed \in Nat /\ history'[q].observed = history[q].observed BY <1>2, <2>2
    <3> QED BY <1>2, <1>5, <2>1, <2>3, <3>1
  <2>5. history'[q].text = history[q].text /\ history'[q].observed = history[q].observed BY <2>2
  <2> QED BY <1>2, <1>6, <2>2, <2>3, <2>4, <2>5 DEF Says
<1>12. CASE Completes(t)
  <2> DEFINE s == Append(up, Line("text", t))
  <2>1. /\ Ordered(s, t) /\ TextsOf(s, t) = TextsOf(up, t) + 1 /\ ~Has(s, "result", t) /\ ~Has(s, "settled", t)
        /\ s \in Seq(Lines) /\ \A n : ObservedUpTo(up, t, n) => ObservedUpTo(s, t, n)
    <3> DEFINE l == Line("text", t)
    <3>1. l \in Lines /\ l.trace = t /\ l.kind = "text" BY <1>7 DEF Kinds
    <3> HIDE DEF l
    <3>2. /\ Ordered(Append(up, l), t) /\ TextsOf(Append(up, l), t) = TextsOf(up, t) + 1
          /\ \A n : ObservedUpTo(up, t, n) => ObservedUpTo(Append(up, l), t, n)
          /\ ~Has(Append(up, l), "result", t) /\ ~Has(Append(up, l), "settled", t) /\ Append(up, l) \in Seq(Lines)
      BY <1>2, <1>4, <3>1, OneReply
    <3> QED BY <3>2 DEF l
  <2>2. PICK last \in {"result", "error"} : up' = Append(Append(s, Line(last, t)), Line("settled", t))
    BY <1>12 DEF Completes
  <2>3. /\ work[t].at = "done" /\ work'[t].at = "none"
        /\ history'[q].text = history[q].text + 1 /\ history'[q].observed = history[q].observed
    BY <1>12 DEF Completes, NoWork
  <2> DEFINE v == Append(s, Line(last, t))
  <2> HIDE DEF s
  <2>4. /\ Ordered(v, t) /\ TextsOf(v, t) = TextsOf(up, t) + 1 /\ ~Has(v, "settled", t)
        /\ v \in Seq(Lines) /\ \A n : ObservedUpTo(s, t, n) => ObservedUpTo(v, t, n)
    <3> DEFINE l == Line(last, t)
    <3>1. l \in Lines /\ l.trace = t /\ l.kind \in {"result", "error"} BY <1>7 DEF Kinds
    <3> HIDE DEF l
    <3>2. l.kind \notin {"text", "observed", "settled"} BY <3>1
    <3>3. /\ Ordered(Append(s, l), t) /\ TextsOf(Append(s, l), t) = TextsOf(s, t) + 0
          /\ \A n : ObservedUpTo(s, t, n) => ObservedUpTo(Append(s, l), t, n)
          /\ ~Has(Append(s, l), "settled", t) /\ Append(s, l) \in Seq(Lines)
      BY <2>1, <3>1, <3>2, OneReply
    <3> QED BY <1>6, <2>1, <3>3 DEF l
  <2>5. up' = Append(v, Line("settled", t)) BY <2>2
  <2> HIDE DEF v
  <2>6. /\ Ordered(up', t) /\ TextsOf(up', t) = TextsOf(up, t) + 1
        /\ \A n : ObservedUpTo(v, t, n) => ObservedUpTo(up', t, n)
    <3> DEFINE l == Line("settled", t)
    <3>1. l \in Lines /\ l.trace = t /\ l.kind = "settled" BY <1>7 DEF Kinds
    <3> HIDE DEF l
    <3>2. /\ Ordered(Append(v, l), t) /\ TextsOf(Append(v, l), t) = TextsOf(v, t) + 0
          /\ \A n : ObservedUpTo(v, t, n) => ObservedUpTo(Append(v, l), t, n)
      BY <2>4, <3>1, OneReply
    <3> QED BY <1>6, <2>4, <2>5, <3>2 DEF l
  <2>7. \A n \in Nat : ObservedUpTo(up, t, n) /\ n <= history'[q].observed => ObservedUpTo(up', t, history'[q].observed)
    <3>1. history'[q].observed \in Nat BY <1>2, <2>3
    <3>2. \A n : ObservedUpTo(up, t, n) => ObservedUpTo(up', t, n) BY <2>1, <2>4, <2>6
    <3> QED BY <1>2, <1>5, <3>1, <3>2
  <2>8. history[q].text + TextsOf(up', t) = TextsOf(up, t) + history'[q].text /\ history[q].text <= history'[q].text
    <3>1. history'[q].text = history[q].text + 1 /\ TextsOf(up', t) = TextsOf(up, t) + 1 BY <2>3, <2>6
    <3>2. history[q].text \in Nat /\ TextsOf(up, t) \in Nat BY <1>2, <1>6
    <3> QED BY <3>1, <3>2
  <2> QED BY <1>2, <2>3, <2>6, <2>7, <2>8 DEF Says
<1> QED BY <1>1, <1>8, <1>9, <1>10, <1>11, <1>12

LEMMA WorksDialogue ==
  ASSUME TypesInv, TypesInv', SentInv, TraceInv, NEW t \in Traces, Dialogue(t), WorksStep(t)
  PROVE  Dialogue(t)'
<1>1. /\ work[t].at # "none" /\ UNCHANGED <<plan, child, proc, down, run, progress, calls>>
      /\ \A o \in Runs : o # work[t].of => history'[o] = history[o]
  BY DEF WorksStep
<1>2. PICK q \in Runs : q = work[t].of /\ Trace(q) = t BY <1>1 DEF SentInv
<1>3. Says(t, q) BY <1>2, SaidBy
<1>4. /\ Serving(q) /\ history[q].observed = work[t].mirror.observed /\ work[t].mirror.observed <= work[t].mirror.batch
      /\ work[t].mirror.batch <= progress[q].batch /\ work[t].mirror.revision <= progress[q].revision
      /\ work[t].at = "done" => calls[q].committed
  BY <1>1, <1>2 DEF Dialogue, WorkIsOwned
<1>5. Carried(down, t) = {} /\ OneRun(down, t) BY <1>1 DEF Dialogue, RunIsOne
<1>6. \A o \in Runs : Trace(o)' = Trace(o) /\ (Serving(o)' <=> Serving(o)) BY <1>1 DEF Trace, Serving, Dead
<1>7. Pending(t)' = Pending(t) /\ (Dead(t)' <=> Dead(t)) BY <1>1 DEF Pending, Trace, Dead
<1>8. RunIsOne(t)' BY <1>1, <1>5 DEF RunIsOne
<1>9. WorkIsOwned(t)'
  <2>1. work'[t].at # "none" =>
          /\ work'[t].of = q /\ history'[q].observed = work'[t].mirror.observed
          /\ work'[t].mirror.observed <= work'[t].mirror.batch
          /\ work'[t].mirror.batch = work[t].mirror.batch /\ work'[t].mirror.revision = work[t].mirror.revision
          /\ work'[t].at = "done" => work[t].at = "done"
    BY <1>3 DEF Says
  <2> QED BY <1>1, <1>4, <1>6, <2>1 DEF WorkIsOwned
<1>10. RepliesAreOwned(t)'
  <2>1. Pending(t) # {} \/ Dead(t) BY <1>2, <1>4 DEF Serving, Pending
  <2> QED BY <1>1, <1>3, <1>5, <1>7, <2>1 DEF RepliesAreOwned, Says
<1>11. PendingIsTold(t)'
  <2> SUFFICES ASSUME NEW o \in Pending(t)
               PROVE  /\ run[o].text + TextsOf(up', t) = history'[o].text
                      /\ ObservedUpTo(up', t, history'[o].observed)
                      /\ Has(up', "result", t) => calls[o].committed
    BY <1>1, <1>7 DEF PendingIsTold
  <2>1. o = q BY <1>2, <1>4, OnlyServing DEF Pending
  <2>2. run[q].text + TextsOf(up, t) = history[q].text /\ ObservedUpTo(up, t, history[q].observed)
    BY <2>1 DEF Dialogue, PendingIsTold
  <2>3. /\ run[q].text \in Nat /\ TextsOf(up, t) \in Nat /\ TextsOf(up', t) \in Nat
        /\ history[q].text \in Nat /\ history'[q].text \in Nat /\ history[q].observed \in Nat
    BY TextsFinite DEF TypesInv, Run
  <2>4. history[q].text + TextsOf(up', t) = TextsOf(up, t) + history'[q].text BY <1>3 DEF Says
  <2>5. run[q].text + TextsOf(up', t) = history'[q].text BY <2>2, <2>3, <2>4
  <2>6. ObservedUpTo(up', t, history'[q].observed) BY <1>3, <2>2, <2>3 DEF Says
  <2>7. Has(up', "result", t) => calls[q].committed BY <1>3, <1>4 DEF Says
  <2> QED BY <2>1, <2>5, <2>6, <2>7
<1>12. RunsAreTold(t)'
  <2> SUFFICES ASSUME NEW o \in Runs, Trace(o) = t
               PROVE  /\ run[o].text <= history'[o].text
                      /\ progress[o].observed <= history'[o].observed /\ history'[o].observed <= progress[o].batch
                      /\ run[o].result = "resolved" =>
                           /\ run[o].text = history'[o].text /\ calls[o].committed
                           /\ work'[t].at = "none" \/ work'[t].of # o
                           /\ o \notin Carried(down, t)
    BY <1>1, <1>6 DEF RunsAreTold
  <2>1. /\ run[o].text <= history[o].text
        /\ progress[o].observed <= history[o].observed /\ history[o].observed <= progress[o].batch
        /\ run[o].result = "resolved" =>
             /\ run[o].text = history[o].text /\ calls[o].committed
             /\ work[t].at = "none" \/ work[t].of # o
             /\ o \notin Carried(down, t)
    BY DEF Dialogue, RunsAreTold
  <2>2. CASE o # q
    <3>1. history'[o] = history[o] BY <1>1, <1>2, <2>2
    <3>2. work'[t].at = "none" \/ work'[t].of = q BY <1>3 DEF Says
    <3> QED BY <2>1, <2>2, <3>1, <3>2
  <2>3. CASE o = q
    <3>1. run[q].result # "resolved" BY <1>1, <1>2, <2>1, <2>3
    <3>2. /\ history[q].text <= history'[q].text /\ history[q].observed <= history'[q].observed
          /\ history'[q].observed \in {history[q].observed, work[t].mirror.batch}
      BY <1>3 DEF Says
    <3>3. /\ run[q].text \in Nat /\ history[q].text \in Nat /\ history'[q].text \in Nat
          /\ history[q].observed \in Nat /\ history'[q].observed \in Nat /\ progress[q].observed \in Nat
      BY DEF TypesInv, Run, Progress
    <3>4. run[q].text <= history'[q].text BY <2>1, <2>3, <3>2, <3>3
    <3>5. progress[q].observed <= history'[q].observed BY <2>1, <2>3, <3>2, <3>3
    <3>6. history'[q].observed <= progress[q].batch BY <1>4, <2>1, <2>3, <3>2
    <3> QED BY <2>3, <3>1, <3>4, <3>5, <3>6
  <2> QED BY <2>2, <2>3
<1>13. LinesHold(t)'
  <2>1. BehindHold(down, t, progress, calls) /\ AllHold(down, t, progress[q], calls[q])
    BY <1>1, <1>2 DEF Dialogue, LinesHold
  <2>2. work'[t].at # "none" => work'[t].of = q BY <1>3 DEF Says
  <2> QED BY <1>1, <2>1, <2>2 DEF LinesHold
<1> QED BY <1>8, <1>9, <1>10, <1>11, <1>12, <1>13 DEF Dialogue

-----------------------------------------------------------------------------
(* The invariant holds.                                                     *)

LEMMA InitHolds == Init => HelperInv
<1> SUFFICES ASSUME Init PROVE HelperInv OBVIOUS
<1>1. /\ plan \in Plans /\ child = "none" /\ proc = "none" /\ down = <<>> /\ up = <<>> /\ leases = {}
      /\ \A r \in Runs : /\ run[r] = NewRun /\ progress[r] = NewProgress /\ calls[r] = NewCalls
                         /\ history[r] = NewHistory
      /\ \A t \in Traces : work[t] = NoWork
  BY DEF Init
<1>2. TypesInv
  <2>1. plan \in [trace : [Runs -> Traces], calls : [Runs -> Nat], deaths : Nat, aborts : Nat, prompts : BOOLEAN]
    BY <1>1, HelperAssumption
  <2>2. NewRun \in Run /\ NewProgress \in Progress /\ NewCalls \in Calls
    BY DEF NewRun, Run, NewProgress, Progress, NewCalls, Calls
  <2>3. NewHistory \in [text : Nat, observed : Nat, opened : BOOLEAN, unprepared : BOOLEAN] BY DEF NewHistory
  <2>4. /\ run \in [Runs -> Run] /\ progress \in [Runs -> Progress] /\ calls \in [Runs -> Calls]
        /\ history \in [Runs -> [text : Nat, observed : Nat, opened : BOOLEAN, unprepared : BOOLEAN]]
        /\ work \in [Traces -> Work]
    BY <2>2, <2>3, NoWorkType DEF Init
  <2>5. down \in Seq(Lines) /\ up \in Seq(Lines) BY <1>1, EmptySeq
  <2> QED BY <1>1, <2>1, <2>4, <2>5 DEF TypesInv
<1>3. \A r \in Runs : /\ run[r].at = "idle" /\ run[r].text = 0 /\ run[r].result = "none" /\ run[r].settled = "none"
                      /\ ~run[r].preparing /\ ~run[r].prepared
  BY <1>1 DEF NewRun
<1>4. \A t \in Traces : work[t].at = "none" BY <1>1 DEF NoWork
<1>5. \A t \in Traces : Carried(down, t) = {} /\ OneRun(down, t) BY <1>1, NoLines
<1>6. SentInv
  <2>1. \A r \in Runs : Fresh(r) BY <1>1, <1>3 DEF Fresh
  <2> QED BY <1>4, <1>5, <2>1 DEF SentInv
<1>7. ProcInv BY <1>1, <1>3, <1>4 DEF ProcInv
<1>8. TraceInv BY <1>3 DEF TraceInv
<1>9. RoundInv
  <2>1. \A r \in Runs : /\ progress[r].batch = 0 /\ progress[r].revision = 0 /\ progress[r].observed = 0
                        /\ ~calls[r].boundary /\ ~calls[r].committed /\ calls[r].emitted = 0
    BY <1>1 DEF NewProgress, NewCalls
  <2> QED BY <2>1 DEF RoundInv
<1>10. ASSUME NEW t \in Traces PROVE Dialogue(t)
  <2>1. RunIsOne(t) /\ WorkIsOwned(t) BY <1>4, <1>5 DEF RunIsOne, WorkIsOwned
  <2>2. RepliesAreOwned(t)
    <3>1. (\A kind : ~Has(<<>>, kind, t)) /\ Ordered(<<>>, t) BY NoLines
    <3> QED BY <1>1, <3>1 DEF RepliesAreOwned
  <2>3. PendingIsTold(t) BY <1>3 DEF PendingIsTold, Pending
  <2>4. RunsAreTold(t)
    <3>1. \A r \in Runs : history[r].text = 0 /\ history[r].observed = 0 /\ progress[r].batch = 0 /\ progress[r].observed = 0
      BY <1>1 DEF NewHistory, NewProgress
    <3> QED BY <1>3, <3>1 DEF RunsAreTold
  <2>5. LinesHold(t)
    <3>1. BehindHold(<<>>, t, progress, calls) BY NoLines
    <3> QED BY <1>1, <1>4, <3>1 DEF LinesHold
  <2> QED BY <2>1, <2>2, <2>3, <2>4, <2>5 DEF Dialogue
<1> QED BY <1>2, <1>6, <1>7, <1>8, <1>9, <1>10 DEF HelperInv

\* Once a prompt of a trace has failed, it has.
LEMMA TracesKept ==
  ASSUME HelperInv, plan'.trace = plan.trace,
         \A r \in Runs : history[r].unprepared => history'[r].unprepared,
         \A t \in Traces : Dialogue(t) => Unprepared(t)' \/ Dialogue(t)'
  PROVE  \A t \in Traces : Unprepared(t)' \/ Dialogue(t)'
<1>1. \A t \in Traces : Unprepared(t) => Unprepared(t)' BY DEF Unprepared, Trace
<1> QED BY <1>1 DEF HelperInv

LEMMA ClientInductive ==
  ASSUME HelperInv, NEW r \in Runs, Abort(r) \/ Prepare(r) \/ Forward(r)
  PROVE  HelperInv'
<1>1. TypesInv /\ SentInv /\ ProcInv /\ TraceInv /\ RoundInv BY DEF HelperInv
<1>2. TypesInv' BY <1>1, ClientTypes
<1>3. DaemonStep(r) BY <1>1, ClientSteps
<1>4. SentInv' /\ ProcInv' /\ TraceInv' BY <1>1, <1>3, DaemonSent, DaemonProc, DaemonTrace
<1>5. RoundInv'
  <2>1. CASE Forward(r) BY <1>1, <2>1, RoundSame DEF Forward
  <2> QED BY <1>1, <2>1, ClientRound
<1>6. \A t \in Traces : Dialogue(t) => Unprepared(t)' \/ Dialogue(t)' BY <1>1, <1>2, ClientDialogue
<1>7. plan'.trace = plan.trace /\ \A o \in Runs : history[o].unprepared => history'[o].unprepared
  <2>1. plan'.trace = plan.trace /\ (history' = history \/ history' = [history EXCEPT ![r].unprepared = TRUE])
    BY <1>3 DEF DaemonStep
  <2>2. history \in [Runs -> [text : Nat, observed : Nat, opened : BOOLEAN, unprepared : BOOLEAN]]
    BY <1>1 DEF TypesInv
  <2> QED BY <2>1, <2>2
<1>8. \A t \in Traces : Unprepared(t)' \/ Dialogue(t)' BY <1>6, <1>7, TracesKept
<1> QED BY <1>2, <1>4, <1>5, <1>8 DEF HelperInv

LEMMA RoundInductive ==
  ASSUME HelperInv, NEW r \in Runs, Call(r) \/ Batch(r) \/ Emit(r) \/ Answer(r) \/ Retire(r)
  PROVE  HelperInv'
<1>1. TypesInv /\ SentInv /\ ProcInv /\ TraceInv /\ RoundInv BY DEF HelperInv
<1>2. TypesInv' BY <1>1, RoundTypes
<1>3. DaemonStep(r) BY <1>1, RoundSteps
<1>4. SentInv' /\ ProcInv' /\ TraceInv' BY <1>1, <1>3, DaemonSent, DaemonProc, DaemonTrace
<1>5. RoundInv' BY <1>1, RoundGoesOn
<1>6. \A t \in Traces : Dialogue(t) => Dialogue(t)' BY <1>1, <1>2, RoundDialogue
<1>7. plan'.trace = plan.trace /\ history' = history
  BY <1>3 DEF DaemonStep, Call, Batch, Emit, Answer, Retire
<1>8. \A t \in Traces : Unprepared(t)' \/ Dialogue(t)' BY <1>6, <1>7, TracesKept
<1> QED BY <1>2, <1>4, <1>5, <1>8 DEF HelperInv

LEMMA HearsInductive ==
  ASSUME HelperInv, Hears
  PROVE  HelperInv'
<1>1. TypesInv /\ SentInv /\ ProcInv /\ TraceInv /\ RoundInv BY DEF HelperInv
<1>2. TypesInv' BY <1>1, HearsTypes
<1>3. ASSUME NEW r \in Runs, HearsOf(r) PROVE HelperInv'
  <2>1. DaemonStep(r) BY <1>1, <1>3, HearsSteps
  <2>2. SentInv' /\ ProcInv' /\ TraceInv' BY <1>1, <2>1, DaemonSent, DaemonProc, DaemonTrace
  <2>3. RoundInv' BY <1>1, <1>3, HearsRound
  <2>4. \A t \in Traces : Dialogue(t) => Dialogue(t)' BY <1>1, <1>2, <1>3, HearsDialogue
  <2>5. plan'.trace = plan.trace /\ history' = history BY <1>1, <1>3, HearsPending
  <2>6. \A t \in Traces : Unprepared(t)' \/ Dialogue(t)' BY <2>4, <2>5, TracesKept
  <2> QED BY <1>2, <2>2, <2>3, <2>6 DEF HelperInv
<1>4. CASE HearReady \/ HearNothing
  <2>1. /\ UNCHANGED <<plan, proc, down, run, progress, calls, work, history>> /\ up # <<>> /\ up' = Tail(up)
        /\ child # "none" /\ (child' = child \/ child' = "ready")
        /\ Head(up).kind = "ready" \/ Pending(Head(up).trace) = {}
    BY <1>4 DEF HearReady, HearNothing, Hear
  <2>2. SentInv' /\ ProcInv' /\ TraceInv'
    <3>1. (proc' = "none") <=> (child' = "none") BY <1>1, <2>1 DEF ProcInv
    <3> QED BY <1>1, <2>1, <3>1, PlainKept
  <2>3. RoundInv' BY <1>1, <2>1, RoundSame
  <2>4. ASSUME NEW t \in Traces, Dialogue(t) PROVE Dialogue(t)'
    <3>1. Head(up).trace # t \/ Head(up).kind # "text" \/ Pending(t) = {} BY <2>1
    <3> QED BY <1>1, <1>2, <2>1, <2>4, <3>1, PlainDialogue
  <2>5. \A t \in Traces : Unprepared(t)' \/ Dialogue(t)' BY <2>1, <2>4, TracesKept
  <2> QED BY <1>2, <2>2, <2>3, <2>5 DEF HelperInv
<1> QED BY <1>3, <1>4 DEF Hears, HearsOf

LEMMA StartInductive ==
  ASSUME HelperInv, NEW r \in Runs, Begin(r) \/ Start(r)
  PROVE  HelperInv'
<1>1. TypesInv /\ SentInv /\ ProcInv /\ TraceInv /\ RoundInv BY DEF HelperInv
<1>2. TypesInv' BY <1>1, ClientTypes
<1>3. UNCHANGED <<plan, progress, calls, history>> BY DEF Begin, Start
<1>4. SentInv' /\ ProcInv' /\ TraceInv' BY <1>1, BeginKept, StartKept
<1>5. RoundInv' BY <1>1, <1>3, RoundSame
<1>6. \A t \in Traces : Dialogue(t) => Dialogue(t)' BY <1>1, <1>2, BeginDialogue, StartDialogue
<1>7. \A t \in Traces : Unprepared(t)' \/ Dialogue(t)' BY <1>3, <1>6, TracesKept
<1> QED BY <1>2, <1>4, <1>5, <1>7 DEF HelperInv

LEMMA ProcessInductive ==
  ASSUME HelperInv, Boot \/ Exit \/ Die
  PROVE  HelperInv'
<1>1. TypesInv /\ SentInv /\ ProcInv /\ TraceInv /\ RoundInv BY DEF HelperInv
<1>2. TypesInv' BY <1>1, ProcessTypes
<1>3. UNCHANGED <<progress, calls, history>> BY DEF Boot, Exit, Die
<1>4. plan'.trace = plan.trace BY <1>1 DEF Boot, Exit, Die, TypesInv
<1>5. CASE Boot
  <2>1. /\ UNCHANGED <<plan, child, down, run, progress, calls, work, history>> /\ proc = "booting" /\ proc' = "up"
        /\ up' = Append(up, Line("ready", CHOOSE t \in Traces : TRUE))
    BY <1>5 DEF Boot
  <2>2. SentInv' /\ ProcInv' /\ TraceInv'
    <3>1. (proc' = "none") <=> (child' = "none") BY <1>1, <2>1 DEF ProcInv
    <3> QED BY <1>1, <2>1, <3>1, PlainKept
  <2>3. ASSUME NEW t \in Traces, Dialogue(t) PROVE Dialogue(t)'
    <3> DEFINE l == Line("ready", CHOOSE u \in Traces : TRUE)
    <3>1. (CHOOSE u \in Traces : TRUE) \in Traces OBVIOUS
    <3>2. l \in Lines /\ l.kind \notin Own BY <3>1, LineType DEF Kinds, Own, Line
    <3>3. up' = Append(up, l) BY <2>1
    <3> HIDE DEF l
    <3>4. up \in Seq(Lines) BY <1>1 DEF TypesInv
    <3>5. SameReplies(up, up', t) BY <3>2, <3>3, <3>4, ForeignReply
    <3> QED BY <1>1, <1>2, <2>1, <2>3, <3>5, PlainDialogue
  <2>4. RoundInv' BY <1>1, <1>3, RoundSame
  <2>5. \A t \in Traces : Unprepared(t)' \/ Dialogue(t)' BY <1>3, <1>4, <2>3, TracesKept
  <2> QED BY <1>2, <2>2, <2>4, <2>5 DEF HelperInv
<1>6. CASE Exit \/ Die
  <2>1. SentInv' /\ ProcInv' /\ TraceInv' BY <1>1, <1>6, ExitKept, DieKept
  <2>2. RoundInv' BY <1>1, <1>3, RoundSame
  <2>3. \A t \in Traces : Dialogue(t) => Dialogue(t)' BY <1>1, <1>2, <1>6, ExitDialogue, DieDialogue
  <2>4. \A t \in Traces : Unprepared(t)' \/ Dialogue(t)' BY <1>3, <1>4, <2>3, TracesKept
  <2> QED BY <1>2, <2>1, <2>2, <2>4 DEF HelperInv
<1> QED BY <1>5, <1>6

LEMMA ReadsInductive ==
  ASSUME HelperInv, Reads
  PROVE  HelperInv'
<1>1. TypesInv /\ SentInv /\ ProcInv /\ TraceInv /\ RoundInv BY DEF HelperInv
<1>2. TypesInv' BY <1>1, ReadsTypes
<1>3. PICK u \in Traces : ReadsLine(u) BY <1>1, ReadsSteps
<1>4. UNCHANGED <<plan, progress, calls, history>> BY <1>3 DEF ReadsLine
<1>5. SentInv' /\ ProcInv' /\ TraceInv' BY <1>1, <1>3, ReadsKept
<1>6. RoundInv' BY <1>1, <1>4, RoundSame
<1>7. \A t \in Traces : Dialogue(t) => Dialogue(t)' BY <1>1, <1>2, <1>3, ReadsDialogue
<1>8. \A t \in Traces : Unprepared(t)' \/ Dialogue(t)' BY <1>4, <1>7, TracesKept
<1> QED BY <1>2, <1>5, <1>6, <1>8 DEF HelperInv

LEMMA WorksInductive ==
  ASSUME HelperInv, NEW u \in Traces, Works(u)
  PROVE  HelperInv'
<1>1. TypesInv /\ SentInv /\ ProcInv /\ TraceInv /\ RoundInv BY DEF HelperInv
<1>2. TypesInv' BY <1>1, WorksTypes
<1>3. WorksStep(u) BY <1>1, WorksSteps
<1>4. UNCHANGED <<plan, progress, calls>> /\ \A o \in Runs : history'[o].unprepared = history[o].unprepared
  BY <1>3 DEF WorksStep
<1>5. SentInv' /\ ProcInv' /\ TraceInv' BY <1>1, <1>3, WorksKept
<1>6. RoundInv' BY <1>1, <1>4, RoundSame
<1>7. \A t \in Traces : Dialogue(t) => Dialogue(t)' BY <1>1, <1>2, <1>3, WorksDialogue, WorksElsewhere
<1>8. \A t \in Traces : Unprepared(t)' \/ Dialogue(t)' BY <1>4, <1>7, TracesKept
<1> QED BY <1>2, <1>5, <1>6, <1>8 DEF HelperInv

LEMMA StepsHold == HelperInv /\ [Next]_vars => HelperInv'
<1> SUFFICES ASSUME HelperInv, [Next]_vars PROVE HelperInv' OBVIOUS
<1>1. CASE UNCHANGED vars
  BY <1>1 DEF vars, HelperInv, TypesInv, SentInv, ProcInv, TraceInv, RoundInv, Unprepared, Dialogue, RunIsOne,
     WorkIsOwned, RepliesAreOwned, PendingIsTold, RunsAreTold, LinesHold, Begun, Fresh, Trace, Serving, Dead, Pending
<1>2. CASE Helps
  <2>1. CASE Boot BY <2>1, ProcessInductive
  <2>2. CASE Reads BY <2>2, ReadsInductive
  <2>3. CASE Hears BY <2>3, HearsInductive
  <2>4. ASSUME NEW r \in Runs, Start(r) PROVE HelperInv' BY <2>4, StartInductive
  <2>5. ASSUME NEW r \in Runs, Prepare(r) PROVE HelperInv' BY <2>5, ClientInductive
  <2> QED BY <1>2, <2>1, <2>2, <2>3, <2>4, <2>5 DEF Helps
<1>3. CASE Exit \/ Die BY <1>3, ProcessInductive
<1>4. ASSUME NEW r \in Runs, Begin(r) PROVE HelperInv' BY <1>4, StartInductive
<1>5. ASSUME NEW r \in Runs, Abort(r) PROVE HelperInv' BY <1>5, ClientInductive
<1>6. ASSUME NEW r \in Runs, Call(r) PROVE HelperInv' BY <1>6, RoundInductive
<1>7. ASSUME NEW r \in Runs, Serves(r) PROVE HelperInv'
  <2>1. CASE Forward(r) BY <2>1, ClientInductive
  <2>2. CASE Batch(r) \/ Emit(r) \/ Answer(r) \/ Retire(r) BY <2>2, RoundInductive
  <2> QED BY <1>7, <2>1, <2>2 DEF Serves
<1>8. ASSUME NEW t \in Traces, Works(t) PROVE HelperInv' BY <1>8, WorksInductive
<1> QED BY <1>1, <1>2, <1>3, <1>4, <1>5, <1>6, <1>7, <1>8 DEF Next

LEMMA HelperHolds == Spec => []HelperInv
BY InitHolds, StepsHold, PTL DEF Spec

LEMMA HelperTypes == HelperInv => TypeOK
<1> SUFFICES ASSUME HelperInv PROVE TypeOK OBVIOUS
<1>1. TypesInv /\ ProcInv /\ TraceInv BY DEF HelperInv
<1>2. (\A i \in DOMAIN down : down[i] \in Lines) /\ \A i \in DOMAIN up : up[i] \in Lines
  BY <1>1, ElementOfSeq, LenProperties DEF TypesInv
<1>3. ASSUME NEW t \in Traces PROVE Cardinality(Pending(t)) <= 1
  <2>1. CASE Pending(t) = {} BY <2>1, FS_EmptySet
  <2>2. ASSUME NEW r \in Pending(t) PROVE Cardinality(Pending(t)) <= 1
    <3>1. Pending(t) = {r} BY <1>1, <2>2 DEF TraceInv, Pending
    <3>2. Cardinality({r}) = 1 BY FS_Singleton
    <3> QED BY <3>1, <3>2
  <2> QED BY <2>1, <2>2
<1> QED BY <1>1, <1>2, <1>3 DEF TypeOK, TypesInv, ProcInv

LEMMA HelperStreams ==
  ASSUME HelperInv, NEW r \in Runs, ~Unprepared(Trace(r))
  PROVE  TextIsWhole(r) /\ BoundariesHold(r)
<1>1. TypesInv /\ SentInv /\ RoundInv BY DEF HelperInv
<1>2. Dialogue(Trace(r)) BY <1>1, TraceType DEF HelperInv
<1>3. /\ run[r].text <= history[r].text
      /\ progress[r].observed <= history[r].observed /\ history[r].observed <= progress[r].batch
      /\ run[r].result = "resolved" => run[r].text = history[r].text /\ calls[r].committed
  BY <1>2 DEF Dialogue, RunsAreTold
<1>4. /\ calls[r].boundary => progress[r].active > 0
      /\ ~calls[r].boundary => progress[r].observed >= progress[r].batch
      /\ calls[r].committed => calls[r].queued = 0 /\ progress[r].active = 0
      /\ calls[r].emitted <= progress[r].observed
  BY <1>1 DEF RoundInv
<1>5. /\ calls[r].emitted \in Nat /\ progress[r].observed \in Nat /\ history[r].observed \in Nat
      /\ progress[r].batch \in Nat
  BY <1>1 DEF TypesInv, Calls, Progress
<1>6. TextIsWhole(r) BY <1>3 DEF TextIsWhole
<1>7. calls[r].emitted <= history[r].observed BY <1>3, <1>4, <1>5
<1>8. ASSUME run[r].result = "resolved"
      PROVE  /\ calls[r].committed /\ calls[r].queued + progress[r].active = 0
             /\ ~calls[r].boundary /\ history[r].observed = progress[r].batch
  <2>1. calls[r].committed /\ calls[r].queued = 0 /\ progress[r].active = 0 /\ ~calls[r].boundary
    BY <1>3, <1>4, <1>8
  <2>2. history[r].observed = progress[r].batch BY <1>3, <1>4, <1>5, <2>1
  <2> QED BY <2>1, <2>2
<1>9. ASSUME NEW t \in Traces, work[t].at # "none", work[t].of = r
      PROVE  work[t].mirror.revision <= progress[r].revision
  <2>1. t = Trace(r) BY <1>1, <1>9 DEF SentInv
  <2> QED BY <1>2, <1>9, <2>1 DEF Dialogue, WorkIsOwned
<1> QED BY <1>6, <1>7, <1>8, <1>9 DEF BoundariesHold

-----------------------------------------------------------------------------
\* Types: a trace has one pending turn, none outlives the child it was sent to, and a turn that is
\* over holds no prompt (launcher-helper-client.ts:415-561, browser-helper-main.ts:244-297).
THEOREM HelperTypeCorrect == Spec => []TypeOK
BY HelperHolds, HelperTypes, PTL

\* Whatever dies, is cancelled or repeats a trace, the daemon hears of a turn the text its own page
\* wrote, all of it when the turn is resolved; Codex is given no batch whose boundary the page's
\* worker has not drawn, a resolved turn's completion is committed with every call answered, and
\* the mirror in the helper is never ahead.  So of every trace none of whose prompts failed, and of
\* all of them when none did (launcher-helper-client.ts:415-561, browser-helper-main.ts:244-297).
THEOREM StreamsAreWhole ==
  Spec => [](/\ \A r \in Runs : ~Unprepared(Trace(r)) => TextIsWhole(r) /\ BoundariesHold(r)
             /\ (\A t \in Traces : ~Unprepared(t)) => StreamIsWhole)
<1> DEFINE Whole == /\ \A r \in Runs : ~Unprepared(Trace(r)) => TextIsWhole(r) /\ BoundariesHold(r)
                    /\ (\A t \in Traces : ~Unprepared(t)) => StreamIsWhole
<1>1. HelperInv => Whole
  <2> SUFFICES ASSUME HelperInv PROVE Whole OBVIOUS
  <2>1. \A r \in Runs : ~Unprepared(Trace(r)) => TextIsWhole(r) /\ BoundariesHold(r) BY HelperStreams
  <2>2. \A r \in Runs : Trace(r) \in Traces BY TraceType DEF HelperInv
  <2> QED BY <2>1, <2>2 DEF StreamIsWhole
<1> QED BY <1>1, HelperHolds, PTL
=============================================================================
