--------------------------- MODULE HttpTurnsProofs ---------------------------
(***************************************************************************)
(* Proofs about HttpTurns, for any turns, any number of requests and       *)
(* retries, any page and any backlog of the queue.                         *)
(*                                                                         *)
(* The counter of the daemon counts requests, the launcher asks for the    *)
(* sessions as well, and what it must not cut off is work.  So the         *)
(* invariant says, of each request, how its phase, its round and its       *)
(* stream go together (Tracked); of each session, when calls may be due    *)
(* (Scripted) and how many prompts it stands for (Budgeted); and of an     *)
(* accepted shutdown, that nothing which begins after it matters (Quiet).  *)
(* Each of these is about one request or one session: a step is shown to   *)
(* keep them where it acts, and ResponseStep, ListeningStep and PageStep   *)
(* carry the rest.                                                         *)
(*                                                                         *)
(* The second part shows that every response is Shaped.  The third follows *)
(* what a page writes: the session keeps it (KeptInv: what was written in  *)
(* the segment is in its feeds, in the batch it remembers, or was taken by *)
(* the one round that listens), and a response that streams says what its  *)
(* round took, no more and no less (Streamed).                             *)
(***************************************************************************)
EXTENDS HttpTurns, FiniteSetTheorems, SequenceTheorems, TLAPS

-----------------------------------------------------------------------------
(* The inductive invariant.                                                 *)

StreamRecord == [on : BOOLEAN, batch : BOOLEAN, compaction : BOOLEAN, queue : Seq(Events), shut : BOOLEAN,
                 dropped : BOOLEAN, closed : BOOLEAN, clientCancelled : BOOLEAN, terminated : BOOLEAN,
                 stepping : BOOLEAN, open : Items \cup {"none"}, outputIndex : Nat, frames : Seq(Frame),
                 remembered : BOOLEAN]

StreamTyped(s) == s \in StreamRecord /\ Len(s.queue) <= MaxBuffered + 1

Typed ==
  /\ req \in [Requests -> Request] /\ session \in [Turns -> Session] /\ scenario \in Scenarios
  /\ budget \in [Turns -> [retries : Nat, sends : Nat, calls : Nat]]
  /\ server \in [draining : BOOLEAN, stopping : BOOLEAN, down : BOOLEAN, interrupted : SUBSET Turns]
  /\ left \in [leaves : Nat, admin : SUBSET Admin]
  /\ stream \in [Requests -> StreamRecord] /\ \A r \in Requests : StreamTyped(stream[r])

\* A request q with its stream s: it is counted while its response is due; a response that is
\* being read is open or its run has been told; a round whose request is over has been told.
Tracked(q, s, kind) ==
  /\ q.counted <=> q.phase \in {"reading", "running", "streaming", "plain"}
  /\ q.phase \in {"idle", "refused", "reading"} => q.round = "none" /\ ~q.bound /\ s = NewStream
  /\ kind = "native" => q.round = "none"
  /\ s.stepping => s.on
  /\ s.on => q.phase \in {"streaming", "over"}
  /\ q.phase = "streaming" => s.on
  /\ s.on /\ q.phase = "over" => s.closed
  /\ s.on /\ s.closed => q.aborted
  /\ ~s.on /\ s.shut => q.round = "over"
  /\ q.phase = "plain" => q.round \in {"none", "over"}
  /\ q.phase = "over" /\ ~q.aborted => q.round \in {"none", "over"}

Interrupted(q, t) == q.bound /\ t \in server.interrupted => q.aborted \/ q.phase \in {"over", "plain"}

\* A turn's session s: calls are due to Codex, or found by the page, when the script says so,
\* and then there is no outcome yet.
Scripted(s) ==
  /\ s.batch \/ s.outstanding # 0 => s.script # <<>>
  /\ ~(s.batch /\ s.outstanding # 0)
  /\ s.life = "live" /\ s.batch => s.outcome = "none"

\* A turn whose session lives, or has lived and may not come back, has sent one prompt more
\* than the retries that were counted.
Budgeted(s, b) ==
  LET one == IF s.tombstone \/ s.life = "live" THEN 1 ELSE 0
  IN  b.sends <= MaxRetries + one /\ (s.tombstone \/ b.sends <= b.retries + one)

Lives(r) == InRound(r) => S(r).life # "none"

\* Once a shutdown is accepted nothing is read or answered any more; a run begun after that is
\* one its request has given up.
Quiet ==
  server.stopping =>
    /\ server.draining
    /\ \A r \in Requests : ~req[r].counted
    /\ \A t \in ActiveBrowser : session[t].outstanding = 0 /\ \A r \in Requests : T(r) = t => req[r].round # "waiting"

IInv ==
  /\ Typed
  /\ \A r \in Requests : Tracked(req[r], stream[r], Kind(r)) /\ Interrupted(req[r], T(r)) /\ Lives(r)
  /\ \A t \in Turns : Scripted(session[t]) /\ Budgeted(session[t], budget[t]) /\ RunIsOwned(t)
  /\ Quiet /\ (server.down => server.stopping)
-----------------------------------------------------------------------------
(* What the operators of ResponsesStream keep.                              *)

LEMMA NewTyped == StreamTyped(NewStream)
  BY StreamAssumption DEF StreamTyped, StreamRecord, NewStream, Events, Items, Frame

LEMMA PushTyped ==
  ASSUME NEW s, StreamTyped(s), NEW es \in Seq(Events)
  PROVE  /\ StreamTyped(Push(s, es)) /\ StreamTyped(PushLast(s, es))
         /\ \A p \in {Push(s, es), PushLast(s, es)} :
              /\ p.on = s.on /\ p.closed = s.closed /\ p.stepping = s.stepping /\ p.batch = s.batch
              /\ p.frames = s.frames /\ p.compaction = s.compaction /\ p.remembered = s.remembered
              /\ p.open = s.open /\ p.outputIndex = s.outputIndex
         /\ Push(s, es).shut = s.shut /\ PushLast(s, es).shut
  <1>1. s.queue \in Seq(Events) /\ s.queue \o es \in Seq(Events)
    BY DEF StreamTyped, StreamRecord
  <1>2. Room(s) \in Nat /\ Room(s) <= MaxBuffered + 1
    BY StreamAssumption DEF Room
  <1>3. ASSUME Len(s.queue \o es) > Room(s)
        PROVE  SubSeq(s.queue \o es, 1, Room(s)) \in Seq(Events) /\ Len(SubSeq(s.queue \o es, 1, Room(s))) <= MaxBuffered + 1
    BY <1>1, <1>2, <1>3
  <1>4. StreamTyped(Push(s, es)) /\ Push(s, es).shut = s.shut
    <2>1. CASE s.shut
      BY <2>1 DEF Push
    <2>2. CASE ~s.shut /\ Fits(s, es)
      <3>1. Len(s.queue \o es) <= MaxBuffered + 1
        BY <1>1, <1>2, <2>2, StreamAssumption DEF Fits
      <3>2. Push(s, es) = [s EXCEPT !.queue = s.queue \o es]
        BY <2>2 DEF Push
      <3> QED  BY <1>1, <3>1, <3>2 DEF StreamTyped, StreamRecord
    <2>3. CASE ~s.shut /\ ~Fits(s, es)
      <3>1. Len(s.queue \o es) > Room(s)
        BY <1>1, <1>2, <2>3 DEF Fits
      <3>2. Push(s, es) = [s EXCEPT !.queue = SubSeq(s.queue \o es, 1, Room(s)), !.dropped = TRUE]
        BY <2>3 DEF Push
      <3> QED  BY <1>3, <3>1, <3>2 DEF StreamTyped, StreamRecord
    <2> QED  BY <2>1, <2>2, <2>3
  <1>5. Push(s, es).on = s.on /\ Push(s, es).closed = s.closed /\ Push(s, es).stepping = s.stepping
        /\ Push(s, es).batch = s.batch /\ Push(s, es).frames = s.frames
        /\ Push(s, es).compaction = s.compaction /\ Push(s, es).remembered = s.remembered
        /\ Push(s, es).open = s.open /\ Push(s, es).outputIndex = s.outputIndex
    BY DEF Push, StreamTyped, StreamRecord
  <1>6. StreamTyped(PushLast(s, es)) /\ PushLast(s, es).shut
    BY <1>4 DEF PushLast, StreamTyped, StreamRecord
  <1>7. \A p \in StreamRecord : LET l == [p EXCEPT !.shut = TRUE] IN
          /\ l.on = p.on /\ l.closed = p.closed /\ l.stepping = p.stepping /\ l.batch = p.batch
          /\ l.frames = p.frames /\ l.compaction = p.compaction /\ l.remembered = p.remembered
          /\ l.open = p.open /\ l.outputIndex = p.outputIndex
    BY DEF StreamRecord
  <1> QED  BY <1>4, <1>5, <1>6, <1>7 DEF PushLast, StreamTyped

\* What an event makes of a stream: frames, and no more than that.
Framed(s, c) ==
  /\ StreamTyped(c)
  /\ c.on = s.on /\ c.batch = s.batch /\ c.compaction = s.compaction /\ c.queue = s.queue
  /\ c.shut = s.shut /\ c.closed = s.closed /\ c.stepping = s.stepping

LEMMA EmitFrames ==
  ASSUME NEW s, StreamTyped(s), NEW fs \in Seq(Frame)
  PROVE  /\ Framed(s, Emit(s, fs))
         /\ Emit(s, fs).open = s.open /\ Emit(s, fs).outputIndex = s.outputIndex
         /\ Emit(s, fs).terminated = s.terminated /\ Emit(s, fs).remembered = s.remembered
  <1>1. s.frames \o fs \in Seq(Frame)
    BY DEF StreamTyped, StreamRecord
  <1>2. CASE s.closed
    BY <1>2 DEF Framed, Emit
  <1>3. CASE ~s.closed
    BY <1>1, <1>3 DEF Framed, StreamTyped, StreamRecord, Emit
  <1> QED  BY <1>2, <1>3

LEMMA CloseFrames ==
  ASSUME NEW s, StreamTyped(s)
  PROVE  Framed(s, Close(s)) /\ Close(s).open = "none"
  <1>1. CASE s.open = "none"
    BY <1>1 DEF Close, Framed
  <1>2. CASE s.open # "none"
    <2> DEFINE e == Emit(s, <<[what |-> "close", item |-> s.open, index |-> s.outputIndex]>>)
    <2>1. <<[what |-> "close", item |-> s.open, index |-> s.outputIndex]>> \in Seq(Frame)
      BY <1>2 DEF StreamTyped, StreamRecord, Frame
    <2>2. Framed(s, e) /\ e.outputIndex = s.outputIndex
      BY <2>1, EmitFrames
    <2>3. Close(s) = [e EXCEPT !.open = "none", !.outputIndex = @ + 1]
      BY <1>2 DEF Close
    <2> HIDE DEF e
    <2>4. e.outputIndex + 1 \in Nat /\ e \in StreamRecord
      BY <2>2 DEF Framed, StreamTyped, StreamRecord
    <2>5. Close(s) = [e EXCEPT !.open = "none", !.outputIndex = e.outputIndex + 1]
      BY <2>3, <2>4
    <2> DEFINE next == e.outputIndex + 1
               c == [e EXCEPT !.open = "none", !.outputIndex = next]
    <2>6. next \in Nat
      BY <2>4
    <2> HIDE DEF next
    <2>7. /\ c \in StreamRecord /\ c.open = "none" /\ c.on = e.on /\ c.batch = e.batch /\ c.compaction = e.compaction
          /\ c.queue = e.queue /\ c.shut = e.shut /\ c.closed = e.closed /\ c.stepping = e.stepping
      BY <2>4, <2>6 DEF StreamRecord
    <2>8. Close(s) = c
      BY <2>5 DEF next
    <2> HIDE DEF c
    <2> QED  BY <2>2, <2>7, <2>8 DEF Framed, StreamTyped
  <1> QED  BY <1>1, <1>2

LEMMA DeltaFrames ==
  ASSUME NEW s, StreamTyped(s), NEW item \in Items
  PROVE  Framed(s, Delta(s, item))
  <1> DEFINE c == Close(s)
             opening == <<[what |-> "open", item |-> item, index |-> c.outputIndex]>>
             o == IF s.open = item THEN s ELSE Open(c, item)
             delta == <<[what |-> "delta", item |-> item, index |-> o.outputIndex]>>
  <1>1. Framed(s, c)
    BY CloseFrames
  <1>2. opening \in Seq(Frame)
    BY <1>1 DEF Framed, StreamTyped, StreamRecord, Frame
  <1>3. Framed(c, Emit(c, opening))
    BY <1>1, <1>2, EmitFrames DEF Framed
  <1>4. Framed(c, Open(c, item))
    BY <1>3 DEF Open, Framed, StreamTyped, StreamRecord
  <1>5. Framed(s, o)
    BY <1>1, <1>4 DEF Framed
  <1>6. delta \in Seq(Frame)
    BY <1>5 DEF Framed, StreamTyped, StreamRecord, Frame
  <1>7. Framed(o, Emit(o, delta))
    BY <1>5, <1>6, EmitFrames DEF Framed
  <1>8. Delta(s, item) = Emit(o, delta)
    BY DEF Delta
  <1> QED  BY <1>5, <1>7, <1>8 DEF Framed

LEMMA EndsFrames ==
  ASSUME NEW s, StreamTyped(s), NEW status \in Terminal
  PROVE  Framed(s, Ends(s, status)) /\ Ends(s, status).terminated
  <1>1. <<[what |-> status]>> \in Seq(Frame)
    BY DEF Frame
  <1>2. Framed(s, Emit(s, <<[what |-> status]>>))
    BY <1>1, EmitFrames
  <1> QED  BY <1>2 DEF Ends, Framed, StreamTyped, StreamRecord

LEMMA FinishFrames ==
  ASSUME NEW s, StreamTyped(s), NEW status \in Terminal
  PROVE  Framed(s, Finish(s, status)) /\ Finish(s, status).terminated
  BY CloseFrames, EndsFrames DEF Finish, Framed

LEMMA CompletesFrames ==
  ASSUME NEW s, StreamTyped(s)
  PROVE  Framed(s, Completes(s)) /\ Completes(s).terminated
  <1> DEFINE c == Close(s)
             item == <<[what |-> "compaction", index |-> c.outputIndex]>>
             i == [Emit(c, item) EXCEPT !.outputIndex = @ + 1]
  <1>1. Framed(s, c)
    BY CloseFrames
  <1>2. item \in Seq(Frame)
    BY <1>1 DEF Framed, StreamTyped, StreamRecord, Frame
  <1>3. Framed(c, Emit(c, item))
    BY <1>1, <1>2, EmitFrames DEF Framed
  <1>4. Framed(c, i)
    <2> DEFINE e == Emit(c, item)
    <2>1. Framed(c, e)
      BY <1>3
    <2>2. i = [e EXCEPT !.outputIndex = @ + 1]
      OBVIOUS
    <2> HIDE DEF e, i
    <2>3. e.outputIndex + 1 \in Nat /\ e \in StreamRecord
      BY <2>1 DEF Framed, StreamTyped, StreamRecord
    <2>4. i = [e EXCEPT !.outputIndex = e.outputIndex + 1]
      BY <2>2, <2>3
    <2> QED  BY <2>1, <2>3, <2>4 DEF Framed, StreamTyped, StreamRecord
  <1>5. Framed(s, Ends(i, "completed")) /\ Ends(i, "completed").terminated
    BY <1>1, <1>4, EndsFrames DEF Framed, Terminal
  <1>6. Framed(s, Ends(c, "completed")) /\ Ends(c, "completed").terminated
    BY <1>1, EndsFrames DEF Framed, Terminal
  <1>7. Framed(s, [Ends(c, "completed") EXCEPT !.remembered = TRUE])
        /\ [Ends(c, "completed") EXCEPT !.remembered = TRUE].terminated
    BY <1>6 DEF Framed, StreamTyped, StreamRecord
  <1> QED  BY <1>5, <1>7 DEF Completes

LEMMA HandleFrames ==
  ASSUME NEW s, StreamTyped(s), NEW e \in Events
  PROVE  Framed(s, Handle(s, e))
  <1>1. Framed(s, s)
    BY DEF Framed
  <1>2. Framed(s, Close(s))
    BY CloseFrames
  <1>3. Framed(s, Delta(s, "message")) /\ Framed(s, Delta(s, "reasoning"))
    BY DeltaFrames DEF Items
  <1>4. Framed(s, Delta(Close(s), "tool"))
    BY <1>2, DeltaFrames DEF Items, Framed
  <1>5. Framed(s, Completes(s)) /\ Framed(s, Finish(s, "failed"))
    BY CompletesFrames, FinishFrames DEF Terminal
  <1> QED  BY <1>1, <1>2, <1>3, <1>4, <1>5 DEF Handle, Events

-----------------------------------------------------------------------------
(* What the steps of a stream keep.                                         *)

LEMMA StepKeeps ==
  ASSUME NEW s, StreamTyped(s), CanStep(s)
  PROVE  /\ StreamTyped(Step(s))
         /\ Step(s).on = s.on /\ Step(s).batch = s.batch
  <1> DEFINE t == [s EXCEPT !.queue = Tail(s.queue)]
             h == Handle(t, Head(s.queue))
             framed == h.frames # s.frames \/ h.terminated
  <1>1. Head(s.queue) \in Events /\ Tail(s.queue) \in Seq(Events) /\ Len(Tail(s.queue)) <= MaxBuffered + 1
    BY StreamAssumption DEF StreamTyped, StreamRecord, CanStep
  <1>2. StreamTyped(t) /\ t.on = s.on /\ t.batch = s.batch
    BY <1>1 DEF StreamTyped, StreamRecord
  <1>3. Framed(t, h)
    BY <1>1, <1>2, HandleFrames
  <1>4. Step(s) = [h EXCEPT !.stepping = ~framed, !.shut = h.shut \/ h.terminated, !.closed = h.terminated]
    BY DEF Step
  <1> DEFINE resting == ~framed
             shut == h.shut \/ h.terminated
  <1>5. resting \in BOOLEAN /\ shut \in BOOLEAN /\ h \in StreamRecord
    BY <1>3 DEF Framed, StreamTyped
  <1> HIDE DEF h
  <1>6. Step(s) = [h EXCEPT !.stepping = resting, !.shut = shut, !.closed = h.terminated]
    BY <1>4
  <1> HIDE DEF t, resting, shut
  <1>7. /\ Step(s) \in StreamRecord /\ Step(s).on = h.on /\ Step(s).batch = h.batch /\ Step(s).queue = h.queue
    <2>1. h.terminated \in BOOLEAN
      BY <1>5 DEF StreamRecord
    <2> QED  BY <1>5, <1>6, <2>1 DEF StreamRecord
  <1> QED  BY <1>2, <1>3, <1>7 DEF Framed, StreamTyped

LEMMA EndKeeps ==
  ASSUME NEW s, StreamTyped(s)
  PROVE  /\ StreamTyped(Eof(s)) /\ StreamTyped(Stall(s)) /\ StreamTyped(Cancel(s)) /\ StreamTyped(Pull(s))
         /\ Eof(s).on = s.on /\ Stall(s).on = s.on /\ Cancel(s).on = s.on /\ Pull(s).on = s.on
         /\ Eof(s).closed /\ Stall(s).closed /\ Cancel(s).closed /\ Pull(s).closed = s.closed
         /\ ~Eof(s).stepping /\ ~Stall(s).stepping /\ ~Cancel(s).stepping
         /\ Pull(s).shut = s.shut
  <1>1. Framed(s, Finish(s, "incomplete"))
    BY FinishFrames DEF Terminal
  <1>2. StreamTyped(Eof(s)) /\ Eof(s).on = s.on /\ Eof(s).closed /\ ~Eof(s).stepping
    BY <1>1 DEF Eof, Framed, StreamTyped, StreamRecord
  <1>3. StreamTyped(Stall(s)) /\ Stall(s).on = s.on /\ Stall(s).closed /\ ~Stall(s).stepping
    BY <1>1 DEF Stall, Framed, StreamTyped, StreamRecord
  <1>4. StreamTyped(Cancel(s)) /\ Cancel(s).on = s.on /\ Cancel(s).closed /\ ~Cancel(s).stepping
    BY DEF Cancel, StreamTyped, StreamRecord
  <1>5. StreamTyped(Pull(s)) /\ Pull(s).on = s.on /\ Pull(s).closed = s.closed /\ Pull(s).shut = s.shut
    BY DEF Pull, StreamTyped, StreamRecord
  <1> QED  BY <1>2, <1>3, <1>4, <1>5

LEMMA BodyKeeps ==
  ASSUME NEW s, StreamTyped(s)
  PROVE  /\ StreamTyped(Build(s)) /\ StreamTyped(Compaction(Build(s)))
         /\ \A b \in {Build(s), Compaction(Build(s))} : b.on = s.on /\ b.shut = s.shut /\ b.stepping = s.stepping
  <1> DEFINE es == s.queue
             failed == \E i \in DOMAIN es : es[i] = "error"
             status == IF failed THEN "failed" ELSE "completed"
             done == s.compaction /\ ~failed
             fs == (IF done THEN <<[what |-> "compaction", index |-> 0]>> ELSE <<>>) \o <<[what |-> status]>>
  <1>1. fs \in Seq(Frame) /\ <<[what |-> "failed"]>> \in Seq(Frame)
    <2>1. \A w \in Terminal : <<[what |-> w]>> \in Seq(Frame)
      BY DEF Frame
    <2>2. <<[what |-> "compaction", index |-> 0]>> \in Seq(Frame) /\ <<>> \in Seq(Frame)
      BY DEF Frame
    <2>3. status \in Terminal /\ "failed" \in Terminal
      BY DEF Terminal
    <2> HIDE DEF done, status
    <2> QED  BY <2>1, <2>2, <2>3
  <1>2. Build(s) = [s EXCEPT !.queue = <<>>, !.closed = TRUE, !.terminated = TRUE,
                      !.remembered = ~s.compaction /\ ~failed, !.frames = fs]
    BY DEF Build
  <1> HIDE DEF fs, failed
  <1>3. StreamTyped(Build(s)) /\ Build(s).on = s.on /\ Build(s).shut = s.shut /\ Build(s).stepping = s.stepping
    <2>1. failed \in BOOLEAN
      BY DEF failed
    <2>2. Len(<<>>) <= MaxBuffered + 1 /\ <<>> \in Seq(Events)
      BY StreamAssumption
    <2>3. (~s.compaction /\ ~failed) \in BOOLEAN
      OBVIOUS
    <2> DEFINE remembered == ~s.compaction /\ ~failed
    <2> HIDE DEF remembered
    <2>4. Build(s) = [s EXCEPT !.queue = <<>>, !.closed = TRUE, !.terminated = TRUE,
                        !.remembered = remembered, !.frames = fs]
      BY <1>2 DEF remembered
    <2>5. remembered \in BOOLEAN
      BY DEF remembered
    <2>6. Build(s).on = s.on /\ Build(s).shut = s.shut /\ Build(s).stepping = s.stepping /\ Build(s).queue = <<>>
      BY <2>4 DEF StreamTyped, StreamRecord
    <2>7. Build(s) \in StreamRecord
      BY <1>1, <2>2, <2>4, <2>5 DEF StreamTyped, StreamRecord
    <2> QED  BY <2>2, <2>6, <2>7 DEF StreamTyped
  <1>4. \A b \in StreamRecord : StreamTyped(b) =>
          LET c == [b EXCEPT !.frames = <<[what |-> "failed"]>>]
          IN  StreamTyped(c) /\ c.on = b.on /\ c.shut = b.shut /\ c.stepping = b.stepping
    BY <1>1 DEF StreamTyped, StreamRecord
  <1>5. Compaction(Build(s)) \in {Build(s), [Build(s) EXCEPT !.frames = <<[what |-> "failed"]>>]}
    BY DEF Compaction
  <1> QED  BY <1>3, <1>4, <1>5 DEF StreamTyped

-----------------------------------------------------------------------------
(* Types, and the initial state.                                            *)

LEMMA Places ==
  ASSUME Typed
  PROVE  /\ \A r \in Requests : T(r) \in Turns /\ Kind(r) \in Kinds /\ S(r) \in Session
                                /\ req[r] \in Request /\ StreamTyped(stream[r])
         /\ scenario.page \in Seq(Acts) /\ scenario.leaves \in Nat /\ scenario.admin \in SUBSET Admin
  BY HttpAssumption DEF Typed, Requests, T, Kind, S

LEMMA Fresh == NewRequest \in Request /\ NoSession \in Session /\ StreamTyped(NewStream)
  <1>1. <<>> \in Seq(Events) /\ <<>> \in Seq(Acts) /\ 0 \in 0 .. Posts
    BY HttpAssumption
  <1>2. NewRequest \in Request
    BY <1>1 DEF NewRequest, Request, Phases, Rounds
  <1>3. NoSession \in Session
    BY <1>1 DEF NoSession, Session, Outcomes, Held
  <1> QED  BY <1>2, <1>3, NewTyped

LEMMA InitHolds == Init => IInv
  <1> SUFFICES ASSUME Init PROVE IInv
    OBVIOUS
  <1>1. Typed
    <2>1. scenario.leaves \in Nat /\ scenario.admin \in SUBSET Admin
      BY HttpAssumption DEF Init
    <2> QED  BY <2>1, Fresh DEF Init, Typed, StreamTyped
  <1>2. ASSUME NEW r \in Requests
        PROVE  Tracked(req[r], stream[r], Kind(r)) /\ Interrupted(req[r], T(r)) /\ Lives(r)
    BY DEF Init, Tracked, Interrupted, Lives, InRound, NewRequest, NewStream
  <1>3. ASSUME NEW t \in Turns
        PROVE  Scripted(session[t]) /\ Budgeted(session[t], budget[t]) /\ RunIsOwned(t)
    BY HttpAssumption DEF Init, Scripted, Budgeted, RunIsOwned, NoSession
  <1>4. Quiet /\ (server.down => server.stopping)
    BY DEF Init, Quiet
  <1> QED  BY <1>1, <1>2, <1>3, <1>4 DEF IInv

-----------------------------------------------------------------------------
(* Steps of one request's response.                                         *)

\* What a request does to its response leaves the sessions alone: its round may begin, or be
\* what it was.
LEMMA ResponseStep ==
  ASSUME IInv, NEW r \in Requests, NEW q \in Request, NEW s, StreamTyped(s),
         req' = [req EXCEPT ![r] = q], stream' = [stream EXCEPT ![r] = s],
         session' = session, budget' = budget, server' = server, scenario' = scenario,
         left' \in [leaves : Nat, admin : SUBSET Admin],
         Tracked(q, s, Kind(r)), Interrupted(q, T(r)),
         q.round = req[r].round \/ (~InRound(r) /\ q.round \notin {"queued", "waiting"}),
         server.stopping => ~q.counted
  PROVE  IInv'
  <1>1. Typed'
    BY DEF IInv, Typed, StreamTyped
  <1>2. ASSUME NEW x \in Requests
        PROVE  /\ req'[x] = (IF x = r THEN q ELSE req[x]) /\ stream'[x] = (IF x = r THEN s ELSE stream[x])
               /\ T(x)' = T(x) /\ Kind(x)' = Kind(x) /\ S(x)' = S(x)
               /\ InRound(x)' = InRound(x) /\ (req'[x].round = "waiting" <=> req[x].round = "waiting")
    BY DEF IInv, Typed, T, Kind, S, InRound
  <1>3. ASSUME NEW x \in Requests
        PROVE  (Tracked(req[x], stream[x], Kind(x)) /\ Interrupted(req[x], T(x)) /\ Lives(x))'
    BY <1>2 DEF IInv, Tracked, Interrupted, Lives
  <1>4. ASSUME NEW t \in Turns
        PROVE  (Scripted(session[t]) /\ Budgeted(session[t], budget[t]) /\ RunIsOwned(t))'
    BY <1>2 DEF IInv, RunIsOwned, Requests, Scripted, Budgeted
  <1>5. (Quiet /\ (server.down => server.stopping))'
    BY <1>2 DEF IInv, Quiet, ActiveBrowser, Requests
  <1> QED  BY <1>1, <1>3, <1>4, <1>5 DEF IInv, Requests

LEMMA PostHolds ==
  ASSUME IInv, NEW r \in Requests, Post(r)
  PROVE  IInv'
  <1> DEFINE results == IF \E q \in Requests : Latest(r, q) THEN Answered(CHOOSE q \in Requests : Latest(r, q)) ELSE 0
             q == IF Refused THEN [req[r] EXCEPT !.phase = "refused"]
                  ELSE [req[r] EXCEPT !.phase = "reading", !.counted = TRUE, !.results = results]
  <1>1. req[r] \in Request /\ Typed /\ \A x \in Requests : req[x] \in Request
    BY Places DEF IInv
  <1>2. results \in Nat
    BY <1>1 DEF Answered, Request
  <1>3. q \in Request
    <2> HIDE DEF results
    <2> QED  BY <1>1, <1>2 DEF Request, Phases
  <1>4. req' = [req EXCEPT ![r] = q] /\ stream' = [stream EXCEPT ![r] = stream[r]]
    <2>1. stream' = stream /\ stream = [stream EXCEPT ![r] = stream[r]]
      BY <1>1 DEF Post, Typed
    <2> QED  BY <2>1 DEF Post
  <1>5. Tracked(req[r], stream[r], Kind(r)) /\ req[r].phase = "idle"
    BY DEF IInv, Post
  <1>6. /\ q.round = "none" /\ ~q.bound /\ (q.counted <=> q.phase = "reading") /\ q.phase \in {"refused", "reading"}
        /\ (server.draining => ~q.counted)
    <2> HIDE DEF results
    <2> QED  BY <1>1, <1>5 DEF Request, Tracked, Refused
  <1> HIDE DEF q, results
  <1>7. Tracked(q, stream[r], Kind(r)) /\ Interrupted(q, T(r)) /\ (server.stopping => ~q.counted)
    BY <1>5, <1>6 DEF IInv, Quiet, Tracked, Interrupted, NewStream
  <1>8. q.round = req[r].round
    BY <1>5, <1>6 DEF Tracked
  <1> QED  BY <1>1, <1>3, <1>4, <1>7, <1>8, ResponseStep, Places DEF Post, Typed

LEMMA LeaveHolds ==
  ASSUME IInv, NEW r \in Requests, Leave(r)
  PROVE  IInv'
  <1> DEFINE a == [req[r] EXCEPT !.gone = TRUE, !.aborted = TRUE]
             q == IF req[r].phase \in {"streaming", "plain"} THEN Release(a) ELSE a
             s == IF stream[r].on /\ ~stream[r].closed THEN Cancel(stream[r]) ELSE stream[r]
  <1>1. req[r] \in Request /\ Typed /\ StreamTyped(stream[r]) /\ Tracked(req[r], stream[r], Kind(r))
    BY Places DEF IInv
  <1>2. q \in Request /\ q.aborted /\ q.round = req[r].round /\ q.bound = req[r].bound
        /\ q.counted = (req[r].phase \notin {"streaming", "plain"})
        /\ q.phase = IF req[r].phase \in {"streaming", "plain"} THEN "over" ELSE req[r].phase
    BY <1>1 DEF Request, Release, Phases, Leave
  <1>3. StreamTyped(s) /\ s.on = stream[r].on /\ (s.on => s.closed) /\ (s.stepping => s.on) /\ (~s.on => s = stream[r])
    BY <1>1, EndKeeps DEF Tracked
  <1>4. req' = [req EXCEPT ![r] = q] /\ stream' = [stream EXCEPT ![r] = s]
    BY DEF Leave
  <1>5. req[r].counted
    BY DEF Leave
  <1> HIDE DEF a, q, s
  <1>6. Tracked(q, s, Kind(r)) /\ Interrupted(q, T(r)) /\ ~server.stopping
    BY <1>1, <1>2, <1>3, <1>5 DEF IInv, Quiet, Tracked, Interrupted, NewStream
  <1>7. left' \in [leaves : Nat, admin : SUBSET Admin]
    BY <1>1 DEF Leave, Typed
  <1> QED  BY <1>2, <1>3, <1>4, <1>6, <1>7, ResponseStep DEF Leave

LEMMA RejectsHolds ==
  ASSUME IInv, NEW r \in Requests, Rejects(r)
  PROVE  IInv'
  <1> DEFINE q == IF req[r].aborted THEN Release(req[r]) ELSE [req[r] EXCEPT !.phase = "plain"]
  <1>1. req[r] \in Request /\ Typed /\ StreamTyped(stream[r]) /\ Tracked(req[r], stream[r], Kind(r)) /\ req[r].phase = "reading"
    BY Places DEF IInv, Rejects
  <1>2. q \in Request /\ q.round = "none" /\ ~q.bound /\ q.aborted = req[r].aborted
        /\ (q.counted <=> q.phase = "plain") /\ q.phase \in {"over", "plain"} /\ stream[r] = NewStream
    BY <1>1 DEF Request, Release, Phases, Tracked
  <1>4. req' = [req EXCEPT ![r] = q] /\ stream' = [stream EXCEPT ![r] = stream[r]]
    <2>1. stream' = stream /\ stream = [stream EXCEPT ![r] = stream[r]]
      BY <1>1 DEF Rejects, Typed
    <2> QED  BY <2>1 DEF Rejects
  <1> HIDE DEF q
  <1>6. Tracked(q, stream[r], Kind(r)) /\ Interrupted(q, T(r)) /\ ~server.stopping
    BY <1>1, <1>2 DEF IInv, Quiet, Tracked, Interrupted, NewStream
  <1> QED  BY <1>1, <1>2, <1>4, <1>6, ResponseStep DEF Rejects, Typed, Tracked

\* The stream of a run that begins.
Begun(on, stepping, batch, compaction) ==
  [NewStream EXCEPT !.on = on, !.stepping = stepping, !.batch = batch, !.compaction = compaction]

LEMMA BegunTyped ==
  ASSUME NEW on \in BOOLEAN, NEW stepping \in BOOLEAN, NEW batch \in BOOLEAN, NEW compaction \in BOOLEAN
  PROVE  LET s == Begun(on, stepping, batch, compaction)
         IN  StreamTyped(s) /\ s.on = on /\ s.stepping = stepping /\ ~s.closed /\ ~s.shut
  <1> DEFINE s == [NewStream EXCEPT !.on = on, !.stepping = stepping, !.batch = batch, !.compaction = compaction]
  <1>1. ~NewStream.closed /\ ~NewStream.shut
    BY DEF NewStream
  <1>2. NewStream \in StreamRecord /\ Len(NewStream.queue) <= MaxBuffered + 1
    BY NewTyped DEF StreamTyped
  <1>3. s.closed = NewStream.closed /\ s.shut = NewStream.shut /\ s.queue = NewStream.queue
    BY <1>2 DEF StreamRecord
  <1>4. s.on = on /\ s.stepping = stepping
    BY <1>2 DEF StreamRecord
  <1>5. s \in StreamRecord
    BY <1>2 DEF StreamRecord
  <1> QED  BY <1>1, <1>2, <1>3, <1>4, <1>5 DEF StreamTyped, Begun

LEMMA BeginsHolds ==
  ASSUME IInv, NEW r \in Requests, Begins(r)
  PROVE  IInv'
  <1> DEFINE aborted == IF Kind(r) = "native" THEN req[r].aborted ELSE Bound(r)
             streams == Kind(r) \in {"stream", "compactStream"}
             refused == Exhausted(T(r)) /\ ~Compacts(r) /\ Kind(r) # "native"
             round   == IF Kind(r) = "native" THEN "none" ELSE IF refused THEN "over"
                        ELSE IF Compacts(r) THEN "compacting" ELSE "begin"
             bound   == Kind(r) # "native"
             began   == [req[r] EXCEPT !.bound = bound, !.aborted = aborted,
                           !.phase = IF streams THEN "streaming" ELSE "running", !.round = round]
             new     == [NewStream EXCEPT !.on = streams, !.stepping = streams /\ ~scenario.slow,
                           !.batch = ~streams, !.compaction = Compacts(r)]
             started == IF refused THEN PushLast(new, <<"error">>) ELSE new
             q       == IF aborted /\ streams THEN Release(began) ELSE began
             s       == IF aborted /\ streams THEN Cancel(started) ELSE started
  <1>1. /\ req[r] \in Request /\ Typed /\ StreamTyped(stream[r]) /\ Tracked(req[r], stream[r], Kind(r))
        /\ req[r].phase = "reading" /\ req[r].counted /\ req[r].round = "none"
    BY Places DEF IInv, Begins, Tracked
  <1>2. aborted \in BOOLEAN /\ (Kind(r) # "native" /\ T(r) \in server.interrupted => aborted)
    BY <1>1 DEF Request, Bound
  <1>3. /\ streams \in BOOLEAN /\ (Kind(r) # "native") \in BOOLEAN /\ round \in {"none", "over", "compacting", "begin"}
        /\ (Kind(r) = "native" => round = "none" /\ ~streams /\ ~refused) /\ (refused => round = "over")
    OBVIOUS
  <1> HIDE DEF aborted, refused, round
  <1>4. /\ began \in Request /\ began.bound = (Kind(r) # "native") /\ began.aborted = aborted /\ began.counted
        /\ began.phase = (IF streams THEN "streaming" ELSE "running") /\ began.round = round
    <2> DEFINE phase == IF streams THEN "streaming" ELSE "running"
    <2>1. phase \in Phases /\ round \in Rounds
      BY <1>3 DEF Phases, Rounds
    <2>2. began = [req[r] EXCEPT !.bound = bound, !.aborted = aborted, !.phase = phase, !.round = round]
      OBVIOUS
    <2>3. bound \in BOOLEAN
      OBVIOUS
    <2> HIDE DEF phase
    <2>4. \A b \in BOOLEAN : LET x == [req[r] EXCEPT !.bound = b, !.aborted = aborted, !.phase = phase, !.round = round]
            IN x \in Request /\ x.bound = b /\ x.aborted = aborted /\ x.counted = req[r].counted /\ x.phase = phase /\ x.round = round
      BY <1>1, <1>2, <2>1 DEF Request
    <2>5. bound = (Kind(r) # "native")
      OBVIOUS
    <2> HIDE DEF bound
    <2> QED  BY <1>1, <2>2, <2>3, <2>4, <2>5 DEF phase
  <1>5. StreamTyped(new) /\ new.on = streams /\ ~new.closed /\ (new.stepping => streams) /\ ~new.shut
    <2> DEFINE stepping == streams /\ ~scenario.slow
               batch == ~streams
               compaction == Compacts(r)
    <2>1. stepping \in BOOLEAN /\ batch \in BOOLEAN /\ compaction \in BOOLEAN
      BY DEF Compacts
    <2>2. new = Begun(streams, stepping, batch, compaction)
      BY DEF Begun
    <2>3. stepping => streams
      OBVIOUS
    <2> HIDE DEF streams, stepping, batch, compaction
    <2>5. streams \in BOOLEAN
      BY <1>3
    <2> HIDE DEF new
    <2>6. LET b == Begun(streams, stepping, batch, compaction)
          IN  StreamTyped(b) /\ b.on = streams /\ b.stepping = stepping /\ ~b.closed /\ ~b.shut
      BY <2>1, <2>5, BegunTyped
    <2> QED  BY <2>2, <2>3, <2>6
  <1> HIDE DEF new, began
  <1>6. StreamTyped(started) /\ started.on = streams /\ ~started.closed /\ (started.stepping => streams)
        /\ (started.shut => refused)
    <2>1. <<"error">> \in Seq(Events)
      BY DEF Events
    <2>2. CASE refused
      <3> DEFINE p == PushLast(new, <<"error">>)
      <3>1. StreamTyped(p) /\ p.on = new.on /\ p.closed = new.closed /\ p.stepping = new.stepping
        BY <1>5, <2>1, PushTyped
      <3>2. started = p
        BY <2>2
      <3> QED  BY <1>5, <2>2, <3>1, <3>2
    <2>3. CASE ~refused
      BY <1>5, <2>3
    <2> QED  BY <2>2, <2>3
  <1> HIDE DEF started
  <1>7. StreamTyped(s) /\ s.on = streams /\ (s.stepping => streams) /\ (~streams => s = started)
        /\ (aborted /\ streams => s.closed /\ ~s.stepping) /\ (~(aborted /\ streams) => s = started)
    BY <1>6, EndKeeps
  <1>8. /\ q \in Request /\ q.bound = (Kind(r) # "native") /\ q.aborted = aborted /\ q.round = round
        /\ IF aborted /\ streams THEN ~q.counted /\ q.phase = "over"
           ELSE q.counted /\ q.phase = (IF streams THEN "streaming" ELSE "running")
    BY <1>4 DEF Release, Request, Phases
  <1>9. req' = [req EXCEPT ![r] = q] /\ stream' = [stream EXCEPT ![r] = s]
    BY DEF Begins, aborted, refused, round, began, new, started
  <1> HIDE DEF q, s
  <1>10. ~server.stopping
    BY <1>1 DEF IInv, Quiet
  <1>11. Tracked(q, s, Kind(r)) /\ Interrupted(q, T(r))
    BY <1>2, <1>3, <1>6, <1>7, <1>8 DEF Tracked, Interrupted
  <1>12. ~InRound(r) /\ q.round \notin {"queued", "waiting"}
    BY <1>1, <1>3, <1>8 DEF InRound
  <1>13. left' \in [leaves : Nat, admin : SUBSET Admin]
    BY <1>1 DEF Begins, Typed
  <1> HIDE DEF streams
  <1> QED  BY <1>7, <1>8, <1>9, <1>10, <1>11, <1>12, <1>13, ResponseStep DEF Begins

LEMMA ReadsHolds ==
  ASSUME IInv, NEW r \in Requests, Reads(r)
  PROVE  IInv'
  <1> DEFINE s == Pull(stream[r])
  <1>1. req[r] \in Request /\ Typed /\ StreamTyped(stream[r]) /\ Tracked(req[r], stream[r], Kind(r)) /\ CanPull(stream[r])
    BY Places DEF IInv, Reads
  <1>2. StreamTyped(s) /\ s.on = stream[r].on /\ s.closed = stream[r].closed /\ s.shut = stream[r].shut
    BY <1>1, EndKeeps
  <1>3. req' = [req EXCEPT ![r] = req[r]] /\ stream' = [stream EXCEPT ![r] = s]
    BY <1>1 DEF Reads, Typed
  <1> HIDE DEF s
  <1>4. Tracked(req[r], s, Kind(r)) /\ Interrupted(req[r], T(r))
    BY <1>1, <1>2 DEF Tracked, CanPull, IInv, NewStream
  <1>5. server.stopping => ~req[r].counted
    BY DEF IInv, Quiet
  <1> QED  BY <1>1, <1>2, <1>3, <1>4, <1>5, ResponseStep DEF Reads, Typed

LEMMA StepsHolds ==
  ASSUME IInv, NEW r \in Requests, Steps(r)
  PROVE  IInv'
  <1> DEFINE s == stream'[r]
             old == stream[r]
             aborted == req[r].aborted \/ s.closed
             q == [req[r] EXCEPT !.aborted = aborted]
  <1>1. req[r] \in Request /\ Typed /\ StreamTyped(old) /\ Tracked(req[r], old, Kind(r))
    BY Places DEF IInv
  <1>2. /\ StreamTyped(s) /\ s.on = old.on /\ old.stepping /\ ~old.closed
        /\ stream' = [stream EXCEPT ![r] = s]
    <2>1. CASE CanStep(old) /\ stream' = [stream EXCEPT ![r] = ReadOn(Step(@))]
      <3>1. StreamTyped(Step(old)) /\ Step(old).on = old.on
        BY <1>1, <2>1, StepKeeps
      <3>2. StreamTyped(ReadOn(Step(old))) /\ ReadOn(Step(old)).on = old.on
        BY <3>1, EndKeeps DEF ReadOn
      <3>3. s = ReadOn(Step(old))
        BY <1>1, <2>1 DEF Typed
      <3> QED  BY <2>1, <3>2, <3>3 DEF CanStep
    <2>2. CASE CanEof(old) /\ stream' = [stream EXCEPT ![r] = Eof(@)]
      <3>1. s = Eof(old)
        BY <1>1, <2>2 DEF Typed
      <3> QED  BY <1>1, <2>2, <3>1, EndKeeps DEF CanEof
    <2> QED  BY <2>1, <2>2 DEF Steps
  <1>3. req' = [req EXCEPT ![r] = q]
    BY DEF Steps
  <1>4. aborted \in BOOLEAN /\ (s.closed => aborted) /\ (req[r].aborted => aborted)
    BY <1>1, <1>2 DEF StreamTyped, StreamRecord, Request
  <1> HIDE DEF aborted
  <1>5. q \in Request /\ q.aborted = aborted /\ q.phase = req[r].phase /\ q.round = req[r].round
        /\ q.counted = req[r].counted /\ q.bound = req[r].bound
    BY <1>1, <1>4 DEF Request
  <1>6. old.on /\ req[r].phase = "streaming"
    BY <1>1, <1>2 DEF Tracked
  <1> HIDE DEF q, s
  <1>7. Tracked(q, s, Kind(r)) /\ Interrupted(q, T(r))
    BY <1>1, <1>2, <1>4, <1>5, <1>6 DEF Tracked, Interrupted, IInv
  <1>8. server.stopping => ~q.counted
    BY <1>5 DEF IInv, Quiet
  <1>9. left' \in [leaves : Nat, admin : SUBSET Admin]
    BY <1>1 DEF Steps, Typed
  <1> QED  BY <1>2, <1>3, <1>5, <1>7, <1>8, <1>9, ResponseStep DEF Steps

LEMMA StallsHolds ==
  ASSUME IInv, NEW r \in Requests, Stalls(r)
  PROVE  IInv'
  <1> DEFINE s == Stall(stream[r])
             q == [req[r] EXCEPT !.aborted = TRUE]
  <1>1. /\ req[r] \in Request /\ Typed /\ StreamTyped(stream[r]) /\ Tracked(req[r], stream[r], Kind(r))
        /\ stream[r].stepping /\ ~stream[r].closed
    BY Places DEF IInv, Stalls, CanStall
  <1>2. StreamTyped(s) /\ s.on = stream[r].on /\ s.closed
    BY <1>1, EndKeeps
  <1>3. req' = [req EXCEPT ![r] = q] /\ stream' = [stream EXCEPT ![r] = s]
    <2>1. req' = [req EXCEPT ![r].aborted = TRUE] /\ stream' = [stream EXCEPT ![r] = Stall(@)]
      BY DEF Stalls
    <2> QED  BY <1>1, <2>1 DEF Typed
  <1>5. q \in Request /\ q.aborted /\ q.phase = req[r].phase /\ q.round = req[r].round
        /\ q.counted = req[r].counted /\ q.bound = req[r].bound
    BY <1>1 DEF Request
  <1> HIDE DEF q, s
  <1>7. Tracked(q, s, Kind(r)) /\ Interrupted(q, T(r))
    BY <1>1, <1>2, <1>5 DEF Tracked, Interrupted, IInv
  <1>8. server.stopping => ~q.counted
    BY <1>5 DEF IInv, Quiet
  <1> QED  BY <1>1, <1>2, <1>3, <1>5, <1>7, <1>8, ResponseStep DEF Stalls, Typed

LEMMA AnswersHolds ==
  ASSUME IInv, NEW r \in Requests, Answers(r)
  PROVE  IInv'
  <1> DEFINE s == stream'[r]
             old == stream[r]
             q == IF req[r].aborted \/ old.dropped THEN Release(req[r]) ELSE [req[r] EXCEPT !.phase = "plain"]
  <1>1. req[r] \in Request /\ Typed /\ StreamTyped(old) /\ Tracked(req[r], old, Kind(r)) /\ req[r].phase = "running"
    BY Places DEF IInv, Answers
  <1>2. ~old.on /\ req[r].round \in {"none", "over"} /\ ~old.stepping
    BY <1>1 DEF Tracked, Answers
  <1>3. /\ StreamTyped(s) /\ s.on = old.on /\ s.stepping = old.stepping /\ s.shut = old.shut
        /\ stream' = [stream EXCEPT ![r] = s]
    <2>1. CASE stream' = stream
      BY <1>1, <2>1 DEF Typed
    <2>2. CASE stream' = [stream EXCEPT ![r] = IF @.dropped THEN @ ELSE IF @.compaction THEN Compaction(Build(@)) ELSE Build(@)]
      <3>1. s \in {old, Build(old), Compaction(Build(old))}
        BY <1>1, <2>2 DEF Typed
      <3>2. stream' = [stream EXCEPT ![r] = s]
        BY <1>1, <2>2 DEF Typed
      <3> HIDE DEF s
      <3> QED  BY <1>1, <3>1, <3>2, BodyKeeps
    <2> QED  BY <2>1, <2>2 DEF Answers
  <1>4. req' = [req EXCEPT ![r] = q]
    BY <1>1 DEF Answers, Typed
  <1>5. q \in Request /\ q.phase \in {"plain", "over"} /\ (q.counted <=> q.phase = "plain") /\ q.round = req[r].round
    BY <1>1 DEF Request, Release, Phases, Tracked
  <1> HIDE DEF q, s
  <1>6. Tracked(q, s, Kind(r)) /\ Interrupted(q, T(r))
    BY <1>1, <1>2, <1>3, <1>5 DEF Tracked, Interrupted
  <1>7. ~server.stopping
    BY <1>1 DEF IInv, Quiet, Tracked
  <1>8. left' \in [leaves : Nat, admin : SUBSET Admin]
    BY <1>1 DEF Answers, Typed
  <1> QED  BY <1>3, <1>4, <1>5, <1>6, <1>7, <1>8, ResponseStep DEF Answers

LEMMA EndedHolds ==
  ASSUME IInv, NEW r \in Requests, Ended(r)
  PROVE  IInv'
  <1> DEFINE q == Release(req[r])
  <1>1. req[r] \in Request /\ Typed /\ StreamTyped(stream[r]) /\ Tracked(req[r], stream[r], Kind(r)) /\ ReadToEnd(r)
    BY Places DEF IInv, Ended
  <1>2. req' = [req EXCEPT ![r] = q] /\ stream' = [stream EXCEPT ![r] = stream[r]]
    BY <1>1 DEF Ended, Typed
  <1>3. q \in Request /\ q.phase = "over" /\ ~q.counted /\ q.round = req[r].round /\ q.aborted = req[r].aborted
    BY <1>1 DEF Request, Release, Phases
  <1> HIDE DEF q
  <1>4. Tracked(q, stream[r], Kind(r)) /\ Interrupted(q, T(r))
    BY <1>1, <1>3 DEF Tracked, Interrupted, ReadToEnd
  <1> QED  BY <1>1, <1>2, <1>3, <1>4, ResponseStep DEF Ended, Typed

-----------------------------------------------------------------------------
(* Steps of the launcher.                                                   *)

\* The requests rs are aborted: their rounds go on, and are told.
LEMMA AbortedKeeps ==
  ASSUME IInv, NEW rs \in SUBSET ActiveHttp, Aborted(rs), scenario' = scenario
  PROVE  /\ req' \in [Requests -> Request] /\ stream' \in [Requests -> StreamRecord]
         /\ \A r \in Requests :
              /\ StreamTyped(stream'[r]) /\ Tracked(req'[r], stream'[r], Kind(r))
              /\ req'[r].round = req[r].round /\ req'[r].bound = req[r].bound
              /\ req[r].aborted \/ r \in rs => req'[r].aborted
              /\ req[r].phase \in {"over", "plain"} => req'[r].phase \in {"over", "plain"}
              /\ ~req[r].counted => ~req'[r].counted /\ req'[r].phase = req[r].phase
  <1>1. ASSUME NEW r \in Requests
        PROVE  /\ req'[r] \in Request /\ StreamTyped(stream'[r]) /\ Tracked(req'[r], stream'[r], Kind(r))
               /\ req'[r].round = req[r].round /\ req'[r].bound = req[r].bound
               /\ req[r].aborted \/ r \in rs => req'[r].aborted
               /\ req[r].phase \in {"over", "plain"} => req'[r].phase \in {"over", "plain"}
               /\ ~req[r].counted => ~req'[r].counted /\ req'[r].phase = req[r].phase
    <2> DEFINE a == [req[r] EXCEPT !.aborted = TRUE]
               q == IF req[r].phase \in {"streaming", "plain"} THEN Release(a) ELSE a
               old == stream[r]
               s == IF old.on /\ ~old.closed THEN Cancel(old) ELSE old
    <2>1. req[r] \in Request /\ Typed /\ StreamTyped(old) /\ Tracked(req[r], old, Kind(r))
      BY Places DEF IInv
    <2>2. CASE r \notin rs
      <3>1. req'[r] = req[r] /\ stream'[r] = old
        BY <2>2 DEF Aborted
      <3> QED  BY <2>1, <2>2, <3>1
    <2>3. CASE r \in rs
      <3>1. req[r].counted
        BY <2>3 DEF ActiveHttp
      <3>2. req'[r] = q /\ stream'[r] = s
        BY <2>3 DEF Aborted
      <3>3. q \in Request /\ q.aborted /\ q.round = req[r].round /\ q.bound = req[r].bound
            /\ q.counted = (req[r].phase \notin {"streaming", "plain"})
            /\ q.phase = IF req[r].phase \in {"streaming", "plain"} THEN "over" ELSE req[r].phase
        BY <2>1, <3>1 DEF Request, Release, Phases
      <3>4. StreamTyped(s) /\ s.on = old.on /\ (s.on => s.closed) /\ (s.stepping => s.on) /\ (~s.on => s = old)
        BY <2>1, EndKeeps DEF Tracked
      <3> HIDE DEF a, q, s
      <3>5. Tracked(q, s, Kind(r))
        BY <2>1, <3>1, <3>3, <3>4 DEF Tracked, NewStream
      <3> QED  BY <3>1, <3>2, <3>3, <3>4, <3>5
    <2> QED  BY <2>2, <2>3
  <1>2. DOMAIN req' = Requests /\ req' = [r \in Requests |-> req'[r]]
        /\ DOMAIN stream' = Requests /\ stream' = [r \in Requests |-> stream'[r]]
    BY DEF Aborted
  <1> QED  BY <1>1, <1>2 DEF StreamTyped

LEMMA EntombedKeeps ==
  ASSUME IInv, NEW t \in Turns
  PROVE  /\ Entombed(t) \in Session /\ Scripted(Entombed(t)) /\ Budgeted(Entombed(t), budget[t])
         /\ Entombed(t).life # "live" /\ (session[t].life # "none" => Entombed(t).life # "none")
  <1> DEFINE outcome == IF session[t].outcome = "none" THEN "cancelled" ELSE session[t].outcome
             e == [session[t] EXCEPT !.life = "retiring", !.tombstone = TRUE, !.outcome = outcome]
  <1>1. session[t] \in Session /\ Scripted(session[t]) /\ Budgeted(session[t], budget[t])
        /\ budget[t] \in [retries : Nat, sends : Nat, calls : Nat] /\ MaxRetries \in Nat
    BY HttpAssumption DEF IInv, Typed
  <1>2. CASE session[t].life = "live"
    <2>1. Entombed(t) = e
      BY <1>2 DEF Entombed
    <2>2. outcome \in Outcomes
      BY <1>1 DEF Session, Outcomes
    <2> HIDE DEF outcome
    <2>3. e \in Session /\ e.life = "retiring" /\ e.tombstone
          /\ e.batch = session[t].batch /\ e.outstanding = session[t].outstanding /\ e.script = session[t].script
      BY <1>1, <2>2 DEF Session
    <2> HIDE DEF e
    <2>4. Scripted(e) /\ Budgeted(e, budget[t])
      BY <1>1, <1>2, <2>3 DEF Scripted, Budgeted
    <2> QED  BY <2>1, <2>3, <2>4
  <1>3. CASE session[t].life # "live"
    BY <1>1, <1>3 DEF Entombed
  <1> QED  BY <1>2, <1>3

\* Nothing else but aborted requests and entombed sessions.
LEMMA CancelsHold ==
  ASSUME IInv, NEW rs \in SUBSET ActiveHttp, NEW ts \in SUBSET Turns, NEW is \in SUBSET Turns,
         Aborted(rs), session' = [t \in Turns |-> IF t \in ts THEN Entombed(t) ELSE session[t]],
         server' = [server EXCEPT !.interrupted = @ \cup is], budget' = budget, scenario' = scenario,
         \A r \in ActiveHttp : req[r].bound /\ T(r) \in is => r \in rs,
         left' \in [leaves : Nat, admin : SUBSET Admin]
  PROVE  IInv'
  <1>1. /\ req' \in [Requests -> Request] /\ stream' \in [Requests -> StreamRecord]
        /\ \A r \in Requests :
              /\ StreamTyped(stream'[r]) /\ Tracked(req'[r], stream'[r], Kind(r))
              /\ req'[r].round = req[r].round /\ req'[r].bound = req[r].bound
              /\ req[r].aborted \/ r \in rs => req'[r].aborted
              /\ req[r].phase \in {"over", "plain"} => req'[r].phase \in {"over", "plain"}
              /\ ~req[r].counted => ~req'[r].counted /\ req'[r].phase = req[r].phase
    BY AbortedKeeps
  <1>2. ASSUME NEW t \in Turns
        PROVE  /\ session'[t] \in Session /\ Scripted(session'[t]) /\ Budgeted(session'[t], budget[t])
               /\ session'[t] = session[t] \/ session'[t].life # "live"
               /\ session[t].life # "none" => session'[t].life # "none"
    BY EntombedKeeps DEF IInv, Typed
  <1>3. /\ server' \in [draining : BOOLEAN, stopping : BOOLEAN, down : BOOLEAN, interrupted : SUBSET Turns]
        /\ server'.draining = server.draining /\ server'.stopping = server.stopping /\ server'.down = server.down
        /\ server'.interrupted = server.interrupted \cup is
    BY DEF IInv, Typed
  <1>4. session' = [t \in Turns |-> session'[t]] /\ Typed
    BY DEF IInv
  <1>5. Typed'
    BY <1>1, <1>2, <1>3, <1>4 DEF Typed
  <1>6. ASSUME NEW r \in Requests
        PROVE  T(r)' = T(r) /\ Kind(r)' = Kind(r) /\ T(r) \in Turns /\ InRound(r)' = InRound(r) /\ S(r)' = session'[T(r)]
    BY <1>1, <1>4, Places DEF T, Kind, InRound, S
  <1>7. ASSUME NEW r \in Requests
        PROVE  (Tracked(req[r], stream[r], Kind(r)) /\ Interrupted(req[r], T(r)) /\ Lives(r))'
    <2>1. Tracked(req'[r], stream'[r], Kind(r)) /\ Tracked(req[r], stream[r], Kind(r)) /\ Interrupted(req[r], T(r)) /\ Lives(r)
      BY <1>1 DEF IInv
    <2>2. (Lives(r))'
      BY <1>2, <1>6, <2>1 DEF Lives, S
    <2>3. (Interrupted(req[r], T(r)))'
      <3>1. CASE r \in ActiveHttp
        BY <1>1, <1>3, <1>6, <2>1, <3>1 DEF Interrupted
      <3>2. CASE r \notin ActiveHttp
        BY <1>1, <1>3, <1>6, <2>1, <3>2 DEF Interrupted, ActiveHttp, Tracked, IInv, Typed, Request, Phases
      <3> QED  BY <3>1, <3>2
    <2> QED  BY <1>6, <2>1, <2>2, <2>3
  <1>8. ASSUME NEW t \in Turns
        PROVE  (Scripted(session[t]) /\ Budgeted(session[t], budget[t]) /\ RunIsOwned(t))'
    BY <1>2, <1>6 DEF IInv, RunIsOwned, Requests
  <1>9. (Quiet /\ (server.down => server.stopping))'
    <2> SUFFICES ASSUME server.stopping PROVE Quiet'
      BY <1>3 DEF IInv, Quiet
    <2>1. server.draining /\ \A r \in Requests : ~req[r].counted
      BY DEF IInv, Quiet
    <2>2. \A r \in 1 .. Posts : ~req'[r].counted
      BY <1>1, <2>1 DEF Requests
    <2>3. ASSUME NEW t \in Turns, session'[t].life = "live", session'[t].outcome = "none"
          PROVE  session'[t].outstanding = 0 /\ \A r \in 1 .. Posts : T(r)' = t => req'[r].round # "waiting"
      <3>1. session'[t] = session[t] /\ t \in ActiveBrowser
        BY <1>2, <2>3 DEF ActiveBrowser
      <3>2. session[t].outstanding = 0 /\ \A r \in Requests : T(r) = t => req[r].round # "waiting"
        BY <3>1 DEF IInv, Quiet
      <3> QED  BY <1>1, <1>6, <3>1, <3>2 DEF Requests
    <2> QED  BY <1>3, <2>1, <2>2, <2>3 DEF Quiet, ActiveBrowser, Requests
  <1> QED  BY <1>5, <1>7, <1>8, <1>9 DEF IInv, Requests

LEMMA InterruptStep ==
  ASSUME IInv, NEW t \in Turns, Interrupt(t)
  PROVE  IInv'
  <1> DEFINE rs == {r \in ActiveHttp : req[r].bound /\ T(r) = t}
  <1>1. rs \in SUBSET ActiveHttp /\ {t} \in SUBSET Turns /\ Typed
    BY DEF IInv
  <1>2. Aborted(rs) /\ server' = [server EXCEPT !.interrupted = @ \cup {t}] /\ budget' = budget /\ scenario' = scenario
    BY DEF Interrupt
  <1>3. session' = [x \in Turns |-> IF x \in {t} THEN Entombed(x) ELSE session[x]]
    BY <1>1 DEF Interrupt, Typed
  <1>4. left' \in [leaves : Nat, admin : SUBSET Admin]
    BY <1>1 DEF Interrupt, Typed
  <1>5. \A r \in ActiveHttp : req[r].bound /\ T(r) \in {t} => r \in rs
    OBVIOUS
  <1> HIDE DEF rs
  <1> QED  BY <1>1, <1>2, <1>3, <1>4, <1>5, CancelsHold

LEMMA CancelTurnsHolds ==
  ASSUME IInv, CancelTurns
  PROVE  IInv'
  <1>1. Typed
    BY DEF IInv
  <1>2. server' = [server EXCEPT !.interrupted = @ \cup {}] /\ left' \in [leaves : Nat, admin : SUBSET Admin]
    BY <1>1 DEF CancelTurns, Typed
  <1>3. session' = [x \in Turns |-> IF x \in Turns THEN Entombed(x) ELSE session[x]]
    BY DEF CancelTurns
  <1>4. ActiveHttp \in SUBSET ActiveHttp /\ Turns \in SUBSET Turns /\ {} \in SUBSET Turns
    OBVIOUS
  <1>5. Aborted(ActiveHttp) /\ budget' = budget /\ scenario' = scenario
    BY DEF CancelTurns
  <1> QED  BY <1>2, <1>3, <1>4, <1>5, CancelsHold

LEMMA CancelTraceHolds ==
  ASSUME IInv, NEW t \in Turns, CancelTrace(t)
  PROVE  IInv'
  <1>1. Typed
    BY DEF IInv
  <1>2. server' = [server EXCEPT !.interrupted = @ \cup {}] /\ left' \in [leaves : Nat, admin : SUBSET Admin]
    BY <1>1 DEF CancelTrace, Typed
  <1>3. session' = [x \in Turns |-> IF x \in {t} THEN Entombed(x) ELSE session[x]]
    BY <1>1 DEF CancelTrace, Typed
  <1>4. Aborted({})
    BY <1>1 DEF CancelTrace, Aborted, Typed
  <1>5. {} \in SUBSET ActiveHttp /\ {t} \in SUBSET Turns /\ {} \in SUBSET Turns
    OBVIOUS
  <1>6. budget' = budget /\ scenario' = scenario
    BY DEF CancelTrace
  <1> QED  BY <1>2, <1>3, <1>4, <1>5, <1>6, CancelsHold

\* The daemon's own flags.
LEMMA ServerHolds ==
  ASSUME IInv, Drain \/ Resume \/ Shutdown \/ ShutsDown
  PROVE  IInv'
  <1>1. UNCHANGED <<req, stream, session, budget, scenario>> /\ Typed
    BY DEF IInv, Drain, Resume, Shutdown, ShutsDown
  <1>2. /\ server' \in [draining : BOOLEAN, stopping : BOOLEAN, down : BOOLEAN, interrupted : SUBSET Turns]
        /\ server'.interrupted = server.interrupted
        /\ left' \in [leaves : Nat, admin : SUBSET Admin]
        /\ (server'.down => server'.stopping)
        /\ server'.stopping => /\ server'.draining
                               /\ server.stopping \/ (ActiveHttp = {} /\ ActiveBrowser = {})
    <2>1. CASE Drain
      BY <1>1, <2>1 DEF Drain, IInv, Typed, Quiet
    <2>2. CASE Resume
      BY <1>1, <2>2 DEF Resume, IInv, Typed, Quiet
    <2>3. CASE Shutdown
      BY <1>1, <2>3 DEF Shutdown, IInv, Typed, Quiet
    <2>4. CASE ShutsDown
      BY <1>1, <2>4 DEF ShutsDown, IInv, Typed, Quiet
    <2> QED  BY <2>1, <2>2, <2>3, <2>4
  <1>3. Typed'
    BY <1>1, <1>2 DEF Typed, StreamTyped
  <1>4. ASSUME NEW r \in Requests
        PROVE  (Tracked(req[r], stream[r], Kind(r)) /\ Interrupted(req[r], T(r)) /\ Lives(r))'
    BY <1>1, <1>2 DEF IInv, Tracked, Interrupted, Lives, InRound, S, T, Kind
  <1>5. ASSUME NEW t \in Turns
        PROVE  (Scripted(session[t]) /\ Budgeted(session[t], budget[t]) /\ RunIsOwned(t))'
    BY <1>1 DEF IInv, RunIsOwned, Requests, InRound, T, Scripted, Budgeted
  <1>6. (Quiet /\ (server.down => server.stopping))'
    BY <1>1, <1>2 DEF IInv, Quiet, ActiveBrowser, ActiveHttp, Requests, T
  <1> QED  BY <1>3, <1>4, <1>5, <1>6 DEF IInv, Requests

-----------------------------------------------------------------------------
(* What a round makes of its session.                                       *)

Budgets == [retries : Nat, sends : Nat, calls : Nat]

\* Another look at the same run.
SameRun(s, x) == /\ s.life = x.life /\ s.tombstone = x.tombstone /\ s.batch = x.batch
                 /\ s.outstanding = x.outstanding /\ s.outcome = x.outcome /\ s.script = x.script

LEMMA UndrainedTyped ==
  ASSUME NEW s, s.trace \in Nat, s.text \in Nat
  PROVE  Undrained(s) \in Seq(Events)
  <1>1. [i \in 1 .. 2 * s.trace |-> IF i % 2 = 1 THEN "boundary" ELSE "think"] \in Seq(Events)
    <2>1. 2 * s.trace \in Nat
      OBVIOUS
    <2>2. \A i \in 1 .. 2 * s.trace : (IF i % 2 = 1 THEN "boundary" ELSE "think") \in Events
      BY DEF Events
    <2> DEFINE n == 2 * s.trace
               F(i) == IF i % 2 = 1 THEN "boundary" ELSE "think"
    <2> HIDE DEF n, F
    <2>3. n \in Nat /\ \A i \in 1 .. n : F(i) \in Events
      BY <2>1, <2>2 DEF n, F
    <2>4. [i \in 1 .. n |-> F(i)] \in Seq(Events)
      BY <2>3, IsASeq
    <2> QED  BY <2>4 DEF n, F
  <1>2. [i \in 1 .. s.text |-> "text"] \in Seq(Events)
    BY DEF Events
  <1> DEFINE thoughts == [i \in 1 .. 2 * s.trace |-> IF i % 2 = 1 THEN "boundary" ELSE "think"]
             texts == [i \in 1 .. s.text |-> "text"]
  <1>3. Undrained(s) = thoughts \o texts
    BY DEF Undrained
  <1>4. thoughts \in Seq(Events) /\ texts \in Seq(Events)
    BY <1>1, <1>2
  <1> HIDE DEF thoughts, texts
  <1> QED  BY <1>3, <1>4

LEMMA RetireKeeps ==
  ASSUME NEW s \in Session, Scripted(s), NEW b \in Budgets
  PROVE  /\ Retire(s) \in Session /\ Scripted(Retire(s))
         /\ Retire(s).life # "live" /\ (s.life # "none" => Retire(s).life # "none")
         /\ Retire(s).tombstone = s.tombstone
         /\ [b EXCEPT !.retries = 0, !.sends = 0] \in Budgets
         /\ Budgeted(Retire(s), [b EXCEPT !.retries = 0, !.sends = 0])
  <1> DEFINE outcome == IF s.outcome = "none" THEN "cancelled" ELSE s.outcome
             e == [s EXCEPT !.life = "retiring", !.outcome = outcome]
             c == [b EXCEPT !.retries = 0, !.sends = 0]
  <1>1. /\ Retire(s) \in Session /\ Scripted(Retire(s)) /\ Retire(s).life # "live"
        /\ (s.life # "none" => Retire(s).life # "none") /\ Retire(s).tombstone = s.tombstone
    <2>1. CASE s.life = "live"
      <3>1. Retire(s) = e
        BY <2>1 DEF Retire
      <3>2. outcome \in Outcomes
        BY DEF Session, Outcomes
      <3> HIDE DEF outcome
      <3>3. e \in Session /\ e.life = "retiring" /\ e.tombstone = s.tombstone
            /\ e.batch = s.batch /\ e.outstanding = s.outstanding /\ e.script = s.script
        BY <3>2 DEF Session
      <3> HIDE DEF e
      <3>4. Scripted(e)
        BY <2>1, <3>3 DEF Scripted
      <3> QED  BY <3>1, <3>3, <3>4
    <2>2. CASE s.life # "live"
      BY <2>2 DEF Retire
    <2> QED  BY <2>1, <2>2
  <1>2. c \in Budgets /\ c.retries = 0 /\ c.sends = 0
    BY DEF Budgets
  <1> HIDE DEF c
  <1>3. Budgeted(Retire(s), c)
    BY <1>2, HttpAssumption DEF Budgeted
  <1> QED  BY <1>1, <1>2, <1>3 DEF c

LEMMA FreedKeeps ==
  ASSUME NEW r \in Requests, NEW s \in Session
  PROVE  Freed(r, s) \in Session /\ SameRun(Freed(r, s), s)
  <1>1. 0 \in 0 .. Posts /\ "none" \in Held
    BY HttpAssumption DEF Held
  <1>2. CASE s.holder = r
    BY <1>1, <1>2 DEF Freed, SameRun, Session
  <1>3. CASE s.holder # r
    BY <1>3 DEF Freed, SameRun
  <1> QED  BY <1>2, <1>3

\* A round ends with es and leaves s of its session: nobody is left to listen to a run that goes
\* on only if Codex has calls to answer.
LEMMA OverHolds ==
  ASSUME IInv, NEW r \in Requests, req[r].round \in {"begin", "queued", "waiting", "compacting"},
         NEW es \in Seq(Events), NEW s \in Session, NEW b \in Budgets, Over(r, es, s, b),
         Scripted(s), Budgeted(s, b), S(r).life # "none" => s.life # "none",
         \/ s = S(r) /\ ~InRound(r)
         \/ s.life = "live" /\ s.outcome = "none" => s.outstanding # 0 /\ ~server.stopping
  PROVE  IInv'
  <1> DEFINE call == IF Batch(es) THEN s.outstanding ELSE 0
             q == [req[r] EXCEPT !.round = "over", !.segment = S(r).segment, !.call = call]
             p == PushLast(stream[r], es)
             f == Freed(r, s)
  <1>1. /\ Typed /\ T(r) \in Turns /\ S(r) \in Session /\ req[r] \in Request /\ StreamTyped(stream[r])
        /\ Tracked(req[r], stream[r], Kind(r)) /\ Interrupted(req[r], T(r)) /\ Lives(r)
    BY Places DEF IInv
  <1>2. f \in Session /\ SameRun(f, s) /\ Scripted(f) /\ Budgeted(f, b)
    <2>1. f \in Session /\ SameRun(f, s)
      BY FreedKeeps
    <2> HIDE DEF f
    <2> QED  BY <2>1 DEF SameRun, Scripted, Budgeted
  <1>3. call \in Nat /\ S(r).segment \in Nat
    BY <1>1 DEF Session
  <1> HIDE DEF call
  <1>4. q \in Request /\ q.round = "over" /\ q.counted = req[r].counted /\ q.phase = req[r].phase
        /\ q.bound = req[r].bound /\ q.aborted = req[r].aborted
    BY <1>1, <1>3 DEF Request, Rounds
  <1>5. /\ StreamTyped(p) /\ p.on = stream[r].on /\ p.closed = stream[r].closed
        /\ p.stepping = stream[r].stepping /\ p.shut
    BY <1>1, PushTyped
  <1>6. /\ req' = [req EXCEPT ![r] = q] /\ stream' = [stream EXCEPT ![r] = p]
        /\ session' = [session EXCEPT ![T(r)] = f] /\ budget' = [budget EXCEPT ![T(r)] = b]
        /\ UNCHANGED <<server, left, scenario>>
    <2>1. /\ req' = [req EXCEPT ![r].round = "over", ![r].segment = S(r).segment, ![r].call = call]
          /\ stream' = [stream EXCEPT ![r] = PushLast(@, es)]
      BY DEF Over, call
    <2> QED  BY <1>1, <2>1 DEF Over, Typed
  <1> HIDE DEF q, p, f
  <1>7. Typed'
    BY <1>1, <1>2, <1>4, <1>5, <1>6 DEF Typed, StreamTyped, Budgets
  <1>8. ASSUME NEW x \in Requests
        PROVE  /\ req'[x] = (IF x = r THEN q ELSE req[x]) /\ stream'[x] = (IF x = r THEN p ELSE stream[x])
               /\ T(x)' = T(x) /\ T(x) \in Turns /\ Kind(x)' = Kind(x)
               /\ S(x)' = (IF T(x) = T(r) THEN f ELSE S(x))
               /\ InRound(x)' = (x # r /\ InRound(x)) /\ (req'[x].round = "waiting" => req[x].round = "waiting")
    BY <1>1, <1>4, <1>6, Places DEF Typed, T, Kind, S, InRound
  <1>9. ASSUME NEW x \in Requests
        PROVE  (Tracked(req[x], stream[x], Kind(x)) /\ Interrupted(req[x], T(x)) /\ Lives(x))'
    <2>1. Tracked(req[x], stream[x], Kind(x)) /\ Interrupted(req[x], T(x)) /\ Lives(x)
      BY DEF IInv
    <2>2. Tracked(q, p, Kind(r)) /\ Interrupted(q, T(r))
      BY <1>1, <1>4, <1>5 DEF Tracked, Interrupted
    <2>3. (Lives(x))'
      BY <1>2, <1>8, <2>1 DEF Lives, S, SameRun
    <2> QED  BY <1>6, <1>8, <2>1, <2>2, <2>3 DEF Interrupted
  <1>10. ASSUME NEW t \in Turns
         PROVE  /\ session'[t] = (IF t = T(r) THEN f ELSE session[t])
                /\ budget'[t] = (IF t = T(r) THEN b ELSE budget[t])
    BY <1>1, <1>6 DEF Typed
  <1>11. ASSUME NEW t \in Turns
         PROVE  (Scripted(session[t]) /\ Budgeted(session[t], budget[t]) /\ RunIsOwned(t))'
    <2>1. Scripted(session[t]) /\ Budgeted(session[t], budget[t]) /\ RunIsOwned(t)
      BY DEF IInv
    <2>2. (Scripted(session[t]) /\ Budgeted(session[t], budget[t]))'
      BY <1>2, <1>10, <2>1
    <2>3. (RunIsOwned(t))'
      <3> SUFFICES ASSUME session'[t].life = "live", session'[t].outcome = "none", session'[t].outstanding = 0
                   PROVE  \E x \in Requests : T(x)' = t /\ InRound(x)'
        BY DEF RunIsOwned, Requests
      <3>1. CASE t = T(r)
        <4>1. s = S(r) /\ ~InRound(r)
          BY <1>2, <1>10, <3>1 DEF SameRun
        <4>2. PICK x \in Requests : T(x) = t /\ InRound(x)
          BY <1>2, <1>10, <2>1, <3>1, <4>1 DEF SameRun, RunIsOwned, S
        <4> QED  BY <1>8, <4>1, <4>2
      <3>2. CASE t # T(r)
        <4>1. PICK x \in Requests : T(x) = t /\ InRound(x)
          BY <1>10, <2>1, <3>2 DEF RunIsOwned
        <4> QED  BY <1>8, <3>2, <4>1
      <3> QED  BY <3>1, <3>2
    <2> QED  BY <2>2, <2>3
  <1>12. (Quiet /\ (server.down => server.stopping))'
    <2> SUFFICES ASSUME server.stopping PROVE Quiet'
      BY <1>6 DEF IInv, Quiet
    <2>1. server.draining /\ \A x \in Requests : ~req[x].counted
      BY DEF IInv, Quiet
    <2>2. \A x \in 1 .. Posts : ~req'[x].counted
      BY <1>4, <1>8, <2>1 DEF Requests
    <2>3. ASSUME NEW t \in Turns, session'[t].life = "live", session'[t].outcome = "none"
          PROVE  session'[t].outstanding = 0 /\ \A x \in 1 .. Posts : T(x)' = t => req'[x].round # "waiting"
      <3>1. t \in ActiveBrowser /\ session'[t].outstanding = session[t].outstanding
        BY <1>2, <1>10, <2>3 DEF ActiveBrowser, SameRun, S
      <3>2. session[t].outstanding = 0 /\ \A x \in Requests : T(x) = t => req[x].round # "waiting"
        BY <3>1 DEF IInv, Quiet
      <3> QED  BY <1>8, <3>1, <3>2 DEF Requests
    <2> QED  BY <1>6, <2>1, <2>2, <2>3 DEF Quiet, ActiveBrowser, Requests
  <1> QED  BY <1>7, <1>9, <1>11, <1>12 DEF IInv, Requests

\* What every round in its session has.
LEMMA RoundPlaces ==
  ASSUME IInv, NEW r \in Requests
  PROVE  /\ Typed /\ T(r) \in Turns /\ S(r) \in Session /\ S(r) = session[T(r)] /\ Scripted(S(r))
         /\ budget[T(r)] \in Budgets /\ Budgeted(S(r), budget[T(r)]) /\ req[r] \in Request /\ StreamTyped(stream[r])
         /\ S(r).trace \in Nat /\ S(r).text \in Nat /\ S(r).final \in Seq(Events) /\ S(r).script \in Seq(Acts)
         /\ req[r].events \in Seq(Events) /\ S(r).outstanding \in Nat /\ S(r).segment \in Nat
         /\ Tracked(req[r], stream[r], Kind(r)) /\ Interrupted(req[r], T(r)) /\ Lives(r)
  <1>1. /\ Typed /\ T(r) \in Turns /\ S(r) \in Session /\ req[r] \in Request /\ StreamTyped(stream[r])
    BY Places DEF IInv
  <1>2. /\ S(r) = session[T(r)] /\ Scripted(S(r)) /\ budget[T(r)] \in Budgets /\ Budgeted(S(r), budget[T(r)])
        /\ Tracked(req[r], stream[r], Kind(r)) /\ Interrupted(req[r], T(r)) /\ Lives(r)
    BY <1>1 DEF IInv, S, Typed, Budgets
  <1>3. /\ S(r).trace \in Nat /\ S(r).text \in Nat /\ S(r).final \in Seq(Events) /\ S(r).script \in Seq(Acts)
        /\ req[r].events \in Seq(Events) /\ S(r).outstanding \in Nat /\ S(r).segment \in Nat
    BY <1>1 DEF Session, Request
  <1> QED  BY <1>1, <1>2, <1>3

\* The session of a round that failed is retired, and its budget starts afresh.
LEMMA RetiresHolds ==
  ASSUME IInv, NEW r \in Requests, InRound(r), NEW es \in Seq(Events),
         Over(r, es, Retire(S(r)), Cleared(T(r)))
  PROVE  IInv'
  <1>1. S(r) \in Session /\ Scripted(S(r)) /\ budget[T(r)] \in Budgets /\ Lives(r)
    BY RoundPlaces
  <1>2. /\ Retire(S(r)) \in Session /\ Scripted(Retire(S(r))) /\ Retire(S(r)).life # "live"
        /\ (S(r).life # "none" => Retire(S(r)).life # "none")
        /\ Cleared(T(r)) \in Budgets /\ Budgeted(Retire(S(r)), Cleared(T(r)))
    BY <1>1, RetireKeeps DEF Cleared
  <1> QED  BY <1>2, OverHolds DEF InRound

LEMMA CatchHolds ==
  ASSUME IInv, NEW r \in Requests, InRound(r), NEW why,
         why \in {"retryable", "fatal"} => S(r).outcome = why, Catch(r, why)
  PROVE  IInv'
  <1> DEFINE b == Recorded(T(r))
  <1>1. /\ S(r) \in Session /\ Scripted(S(r)) /\ budget[T(r)] \in Budgets /\ Budgeted(S(r), budget[T(r)])
        /\ S(r).life # "none" /\ MaxRetries \in Nat
    BY RoundPlaces, HttpAssumption DEF Lives
  <1>2. <<"error">> \in Seq(Events)
    BY DEF Events
  <1>3. b \in Budgets /\ b.retries = budget[T(r)].retries + 1 /\ b.sends = budget[T(r)].sends
    BY <1>1 DEF Recorded, Budgets
  <1>4. CASE why = "retryable" /\ b.retries > MaxRetries
    <2>1. Over(r, <<"error">>, S(r), b)
      BY <1>4 DEF Catch
    <2> HIDE DEF b
    <2>2. Budgeted(S(r), b)
      BY <1>1, <1>3 DEF Budgeted, Budgets
    <2> QED  BY <1>1, <1>2, <1>3, <1>4, <2>1, <2>2, OverHolds DEF InRound
  <1>5. CASE why = "retryable" /\ ~(b.retries > MaxRetries)
    <2>1. Over(r, <<"error">>, Retire(S(r)), b)
      BY <1>5 DEF Catch
    <2> HIDE DEF b
    <2>2. /\ Retire(S(r)) \in Session /\ Scripted(Retire(S(r))) /\ Retire(S(r)).life # "live"
          /\ Retire(S(r)).life # "none" /\ Retire(S(r)).tombstone = S(r).tombstone
      BY <1>1, RetireKeeps
    <2>3. Budgeted(Retire(S(r)), b)
      BY <1>1, <1>3, <1>5, <2>2 DEF Budgeted, Budgets
    <2> QED  BY <1>2, <1>3, <2>1, <2>2, <2>3, OverHolds DEF InRound
  <1>6. CASE why = "fatal"
    <2>1. Over(r, <<"error">>, S(r), Cleared(T(r)))
      BY <1>6 DEF Catch
    <2>2. Cleared(T(r)) \in Budgets /\ Cleared(T(r)).retries = 0 /\ Cleared(T(r)).sends = 0
      BY <1>1 DEF Cleared, Budgets
    <2>3. Budgeted(S(r), Cleared(T(r)))
      BY <1>1, <2>2 DEF Budgeted
    <2> QED  BY <1>1, <1>2, <1>6, <2>1, <2>2, <2>3, OverHolds DEF InRound
  <1>7. CASE why \notin {"retryable", "fatal"}
    <2>1. Over(r, <<"error">>, Retire(S(r)), Cleared(T(r)))
      BY <1>7 DEF Catch
    <2> QED  BY <1>2, <2>1, RetiresHolds
  <1> QED  BY <1>4, <1>5, <1>6, <1>7

\* What a listening round makes of its session while the run goes on, or a queued one that
\* begins to listen.
LEMMA ListeningStep ==
  ASSUME IInv, NEW r \in Requests, NEW q \in Request, NEW es \in Seq(Events), NEW s \in Session,
         InRound(r), Scripted(s), s.life = S(r).life, s.tombstone = S(r).tombstone, s.outcome = S(r).outcome,
         q.round = "waiting", q.phase = req[r].phase, q.counted = req[r].counted, q.bound = req[r].bound,
         q.aborted = req[r].aborted,
         server.stopping => s.life # "live" \/ s.outcome # "none" \/ (req[r].round = "waiting" /\ s.outstanding = S(r).outstanding),
         req' = [req EXCEPT ![r] = q], stream' = [stream EXCEPT ![r] = Push(@, es)],
         session' = [session EXCEPT ![T(r)] = s], UNCHANGED <<budget, server, left, scenario>>
  PROVE  IInv'
  <1> DEFINE p == Push(stream[r], es)
  <1>1. /\ Typed /\ T(r) \in Turns /\ S(r) \in Session /\ req[r] \in Request /\ StreamTyped(stream[r])
        /\ Tracked(req[r], stream[r], Kind(r)) /\ Interrupted(req[r], T(r)) /\ Lives(r)
        /\ Budgeted(S(r), budget[T(r)]) /\ S(r) = session[T(r)]
    BY RoundPlaces
  <1>2. /\ StreamTyped(p) /\ p.on = stream[r].on /\ p.closed = stream[r].closed
        /\ p.stepping = stream[r].stepping /\ p.shut = stream[r].shut
    BY <1>1, PushTyped
  <1>3. stream' = [stream EXCEPT ![r] = p]
    BY <1>1 DEF Typed
  <1> HIDE DEF p
  <1>4. Typed'
    BY <1>1, <1>2, <1>3 DEF Typed, StreamTyped
  <1>5. ASSUME NEW x \in Requests
        PROVE  /\ req'[x] = (IF x = r THEN q ELSE req[x]) /\ stream'[x] = (IF x = r THEN p ELSE stream[x])
               /\ T(x)' = T(x) /\ T(x) \in Turns /\ Kind(x)' = Kind(x)
               /\ S(x)' = (IF T(x) = T(r) THEN s ELSE S(x)) /\ InRound(x)' = InRound(x)
    BY <1>1, <1>3, Places DEF Typed, T, Kind, S, InRound
  <1>6. ASSUME NEW x \in Requests
        PROVE  (Tracked(req[x], stream[x], Kind(x)) /\ Interrupted(req[x], T(x)) /\ Lives(x))'
    <2>1. Tracked(req[x], stream[x], Kind(x)) /\ Interrupted(req[x], T(x)) /\ Lives(x)
      BY DEF IInv
    <2>2. Tracked(q, p, Kind(r)) /\ Interrupted(q, T(r))
      BY <1>1, <1>2 DEF Tracked, Interrupted, InRound
    <2>3. (Lives(x))'
      BY <1>1, <1>5, <2>1 DEF Lives, S
    <2> QED  BY <1>5, <2>1, <2>2, <2>3 DEF Interrupted
  <1>7. ASSUME NEW t \in Turns
        PROVE  session'[t] = (IF t = T(r) THEN s ELSE session[t])
    BY <1>1 DEF Typed
  <1>8. ASSUME NEW t \in Turns
        PROVE  (Scripted(session[t]) /\ Budgeted(session[t], budget[t]) /\ RunIsOwned(t))'
    <2>1. Scripted(session[t]) /\ Budgeted(session[t], budget[t]) /\ RunIsOwned(t)
      BY DEF IInv
    <2>2. (Scripted(session[t]) /\ Budgeted(session[t], budget[t]))'
      BY <1>1, <1>7, <2>1 DEF Budgeted
    <2>3. (RunIsOwned(t))'
      <3>1. CASE t = T(r)
        BY <1>5, <3>1 DEF RunIsOwned, Requests
      <3>2. CASE t # T(r)
        BY <1>5, <1>7, <2>1, <3>2 DEF RunIsOwned, Requests
      <3> QED  BY <3>1, <3>2
    <2> QED  BY <2>2, <2>3
  <1>9. (Quiet /\ (server.down => server.stopping))'
    <2> SUFFICES ASSUME server.stopping PROVE Quiet'
      BY DEF IInv, Quiet
    <2>1. server.draining /\ \A x \in Requests : ~req[x].counted
      BY DEF IInv, Quiet
    <2>2. \A x \in 1 .. Posts : ~req'[x].counted
      BY <1>5, <2>1 DEF Requests
    <2>3. ASSUME NEW t \in Turns, session'[t].life = "live", session'[t].outcome = "none"
          PROVE  session'[t].outstanding = 0 /\ \A x \in 1 .. Posts : T(x)' = t => req'[x].round # "waiting"
      <3>1. t \in ActiveBrowser
        BY <1>1, <1>7, <2>3 DEF ActiveBrowser
      <3>2. session[t].outstanding = 0 /\ \A x \in Requests : T(x) = t => req[x].round # "waiting"
        BY <3>1 DEF IInv, Quiet
      <3>3. t # T(r)
        BY <1>1, <1>7, <2>3, <3>2
      <3> QED  BY <1>5, <1>7, <3>2, <3>3 DEF Requests
    <2> QED  BY <2>1, <2>2, <2>3 DEF Quiet, ActiveBrowser, Requests
  <1> QED  BY <1>4, <1>6, <1>8, <1>9 DEF IInv, Requests

-----------------------------------------------------------------------------
(* The steps of a round.                                                    *)

LEMMA GetsSessionHolds ==
  ASSUME IInv, NEW r \in Requests, GetsSession(r)
  PROVE  IInv'
  <1>1. /\ Typed /\ T(r) \in Turns /\ S(r) \in Session /\ S(r) = session[T(r)] /\ Scripted(S(r))
        /\ budget[T(r)] \in Budgets /\ Budgeted(S(r), budget[T(r)]) /\ req[r] \in Request /\ StreamTyped(stream[r])
        /\ Tracked(req[r], stream[r], Kind(r)) /\ Interrupted(req[r], T(r)) /\ req[r].round = "begin"
        /\ MaxRetries \in Nat /\ scenario.page \in Seq(Acts)
    BY RoundPlaces, Places, HttpAssumption DEF GetsSession
  <1>2. CASE S(r).tombstone
    <2>1. Over(r, <<"error">>, S(r), budget[T(r)])
      BY <1>2 DEF GetsSession
    <2>2. <<"error">> \in Seq(Events) /\ ~InRound(r)
      BY <1>1 DEF Events, InRound
    <2> QED  BY <1>1, <2>1, <2>2, OverHolds
  <1>3. CASE ~S(r).tombstone
    <2> DEFINE new == [NoSession EXCEPT !.life = "live", !.script = scenario.page]
               s == IF S(r).life = "live" THEN S(r) ELSE new
               more == [budget[T(r)] EXCEPT !.sends = @ + 1]
               b == IF S(r).life = "live" THEN budget[T(r)] ELSE more
               q == [req[r] EXCEPT !.round = "queued"]
    <2>1. q \in Request /\ q.round = "queued" /\ q.phase = req[r].phase /\ q.counted = req[r].counted
          /\ q.bound = req[r].bound /\ q.aborted = req[r].aborted
      BY <1>1 DEF Request, Rounds
    <2>2. new \in Session /\ Scripted(new) /\ new.life = "live" /\ new.outstanding = 0
      <3>1. NoSession \in Session /\ NoSession.outstanding = 0 /\ ~NoSession.batch
        BY Fresh DEF NoSession
      <3>2. new \in Session /\ new.outstanding = 0 /\ ~new.batch /\ new.life = "live"
        BY <1>1, <3>1 DEF Session
      <3> HIDE DEF new
      <3> QED  BY <3>2 DEF Scripted
    <2> HIDE DEF new
    <2>3. S(r).life # "live" => S(r).life = "none"
      BY <1>1 DEF GetsSession, Session
    <2>4. s \in Session /\ Scripted(s) /\ s.life = "live" /\ (S(r).life = "none" => s.outstanding = 0)
      BY <1>1, <2>2, <2>3
    <2>5. more \in Budgets /\ more.sends = budget[T(r)].sends + 1 /\ more.retries = budget[T(r)].retries
      BY <1>1 DEF Budgets
    <2> HIDE DEF more
    <2>6. b \in Budgets /\ Budgeted(s, b)
      <3>1. CASE S(r).life = "live"
        BY <1>1, <3>1
      <3>2. CASE S(r).life # "live"
        BY <1>1, <1>3, <2>2, <2>5, <3>2 DEF Budgeted, Budgets
      <3> QED  BY <3>1, <3>2
    <2>7. /\ req' = [req EXCEPT ![r] = q] /\ session' = [session EXCEPT ![T(r)] = s]
          /\ budget' = [budget EXCEPT ![T(r)] = b] /\ UNCHANGED <<stream, server, left, scenario>>
      <3>1. req' = [req EXCEPT ![r] = q] /\ UNCHANGED <<stream, server, left, scenario>>
        BY <1>1, <1>3 DEF GetsSession, Typed
      <3>2. CASE S(r).life = "live"
        BY <1>1, <1>3, <3>1, <3>2 DEF GetsSession, Typed
      <3>3. CASE S(r).life # "live"
        <4>1. session' = [session EXCEPT ![T(r)] = new] /\ budget' = [budget EXCEPT ![T(r)].sends = @ + 1]
          BY <1>3, <3>3 DEF GetsSession, new
        <4>2. budget' = [budget EXCEPT ![T(r)] = more]
          BY <1>1, <4>1 DEF more, Typed
        <4> QED  BY <3>1, <3>3, <4>1, <4>2
      <3> QED  BY <3>2, <3>3
    <2> HIDE DEF q, s, b
    <2>8. Typed'
      BY <1>1, <2>1, <2>4, <2>6, <2>7 DEF Typed, StreamTyped, Budgets
    <2>9. ASSUME NEW x \in Requests
          PROVE  /\ req'[x] = (IF x = r THEN q ELSE req[x]) /\ stream'[x] = stream[x]
                 /\ T(x)' = T(x) /\ T(x) \in Turns /\ Kind(x)' = Kind(x)
                 /\ S(x)' = (IF T(x) = T(r) THEN s ELSE S(x)) /\ InRound(x)' = (x = r \/ InRound(x))
      BY <1>1, <2>1, <2>7, Places DEF Typed, T, Kind, S, InRound
    <2>10. ASSUME NEW x \in Requests
           PROVE  (Tracked(req[x], stream[x], Kind(x)) /\ Interrupted(req[x], T(x)) /\ Lives(x))'
      <3>1. Tracked(req[x], stream[x], Kind(x)) /\ Interrupted(req[x], T(x)) /\ Lives(x)
        BY DEF IInv
      <3>2. Tracked(q, stream[r], Kind(r)) /\ Interrupted(q, T(r))
        BY <1>1, <2>1 DEF Tracked, Interrupted
      <3>3. (Lives(x))'
        BY <2>4, <2>9, <3>1 DEF Lives, S
      <3> QED  BY <2>7, <2>9, <3>1, <3>2, <3>3 DEF Interrupted
    <2>11. ASSUME NEW t \in Turns
           PROVE  session'[t] = (IF t = T(r) THEN s ELSE session[t]) /\ budget'[t] = (IF t = T(r) THEN b ELSE budget[t])
      BY <1>1, <2>7 DEF Typed
    <2>12. ASSUME NEW t \in Turns
           PROVE  (Scripted(session[t]) /\ Budgeted(session[t], budget[t]) /\ RunIsOwned(t))'
      <3>1. Scripted(session[t]) /\ Budgeted(session[t], budget[t]) /\ RunIsOwned(t)
        BY DEF IInv
      <3>2. (RunIsOwned(t))'
        <4>1. CASE t = T(r)
          BY <2>9, <4>1 DEF RunIsOwned, Requests
        <4>2. CASE t # T(r)
          BY <2>9, <2>11, <3>1, <4>2 DEF RunIsOwned, Requests
        <4> QED  BY <4>1, <4>2
      <3> QED  BY <2>4, <2>6, <2>11, <3>1, <3>2
    <2>13. (Quiet /\ (server.down => server.stopping))'
      <3> SUFFICES ASSUME server.stopping PROVE Quiet'
        BY <2>7 DEF IInv, Quiet
      <3>1. server.draining /\ \A x \in Requests : ~req[x].counted
        BY DEF IInv, Quiet
      <3>2. \A x \in 1 .. Posts : ~req'[x].counted
        BY <2>1, <2>9, <3>1 DEF Requests
      <3>3. ASSUME NEW t \in Turns, session'[t].life = "live", session'[t].outcome = "none"
            PROVE  session'[t].outstanding = 0 /\ \A x \in 1 .. Posts : T(x)' = t => req'[x].round # "waiting"
        <4>1. CASE t \in ActiveBrowser
          <5>1. session[t].outstanding = 0 /\ \A x \in Requests : T(x) = t => req[x].round # "waiting"
            BY <4>1 DEF IInv, Quiet
          <5>2. session'[t] = session[t]
            BY <1>1, <2>11, <4>1 DEF ActiveBrowser, s
          <5> QED  BY <2>1, <2>9, <5>1, <5>2 DEF Requests
        <4>2. CASE t \notin ActiveBrowser
          <5>1. t = T(r) /\ S(r).life = "none"
            BY <1>1, <2>3, <2>11, <3>3, <4>2 DEF ActiveBrowser, s
          <5>2. \A x \in Requests : T(x) = t => ~InRound(x)
            BY <5>1 DEF IInv, Lives, S
          <5> QED  BY <2>1, <2>4, <2>9, <2>11, <5>1, <5>2 DEF Requests, InRound
        <4> QED  BY <4>1, <4>2
      <3> QED  BY <2>7, <3>1, <3>2, <3>3 DEF Quiet, ActiveBrowser, Requests
    <2> QED  BY <2>8, <2>10, <2>12, <2>13 DEF IInv, Requests
  <1> QED  BY <1>2, <1>3

\* A round that ends in its session: with its last events, or with the failure to queue them.
LEMMA ConcludesHolds ==
  ASSUME IInv, NEW r \in Requests, InRound(r),
         NEW es \in Seq(Events), NEW s \in Session, NEW b \in Budgets, Concludes(r, es, s, b),
         Scripted(s), Budgeted(s, b), s.life = S(r).life,
         s.life = "live" /\ s.outcome = "none" => s.outstanding # 0 /\ ~server.stopping
  PROVE  IInv'
  <1>1. CASE Over(r, es, s, b)
    BY <1>1, OverHolds DEF InRound
  <1>2. CASE Over(r, es, Retire(S(r)), Cleared(T(r)))
    BY <1>2, RetiresHolds
  <1> QED  BY <1>1, <1>2 DEF Concludes

LEMMA DrainedKeeps ==
  ASSUME NEW s \in Session
  PROVE  Drained(s) \in Session /\ SameRun(Drained(s), s) /\ Drained(s).life = s.life /\ Drained(s).tombstone = s.tombstone
         /\ Drained(s).outcome = s.outcome /\ Drained(s).outstanding = s.outstanding
         /\ Drained(s).batch = s.batch /\ Drained(s).script = s.script
  BY DEF Drained, Session, SameRun

\* Once a shutdown is accepted, a round that is left has been told to stop.
LEMMA StoppedIsTold ==
  ASSUME IInv, NEW r \in Requests, InRound(r), server.stopping
  PROVE  req[r].aborted
  <1>1. Tracked(req[r], stream[r], Kind(r)) /\ req[r] \in Request /\ ~req[r].counted
    BY RoundPlaces DEF IInv, Quiet
  <1> QED  BY <1>1 DEF Tracked, InRound, Request, Phases

LEMMA EntersHolds ==
  ASSUME IInv, NEW r \in Requests, Enters(r)
  PROVE  IInv'
  <1> DEFINE s == S(r)
  <1>1. /\ Typed /\ T(r) \in Turns /\ S(r) \in Session /\ S(r) = session[T(r)] /\ Scripted(S(r))
        /\ budget[T(r)] \in Budgets /\ Budgeted(S(r), budget[T(r)]) /\ req[r] \in Request /\ StreamTyped(stream[r])
        /\ S(r).trace \in Nat /\ S(r).text \in Nat /\ S(r).final \in Seq(Events) /\ S(r).script \in Seq(Acts)
        /\ req[r].events \in Seq(Events) /\ S(r).outstanding \in Nat /\ S(r).segment \in Nat /\ Lives(r)
    BY RoundPlaces
  <1>2. InRound(r) /\ req[r].round = "queued"
    BY DEF Enters, InRound
  <1>3. server.stopping => req[r].aborted
    BY <1>2, StoppedIsTold
  <1>4. Undrained(s) \in Seq(Events)
    BY <1>1, UndrainedTyped
  <1>5. CASE s.outcome = "final"
    <2> DEFINE es == IF s.final # <<>> THEN s.final ELSE Undrained(s)
               replayed == [Drained(s) EXCEPT !.final = es]
    <2>1. Concludes(r, es \o <<"doneStop">>, replayed, Cleared(T(r)))
      BY <1>5 DEF Enters
    <2>2. es \in Seq(Events)
      BY <1>1, <1>4
    <2> HIDE DEF es
    <2>3. es \o <<"doneStop">> \in Seq(Events)
      BY <2>2 DEF Events
    <2>4. replayed \in Session /\ SameRun(replayed, s)
      <3>1. Drained(s) \in Session /\ SameRun(Drained(s), s)
        BY <1>1, DrainedKeeps
      <3> QED  BY <2>2, <3>1 DEF Session, SameRun
    <2>5. Cleared(T(r)) \in Budgets /\ Cleared(T(r)).retries = 0 /\ Cleared(T(r)).sends = 0
      BY <1>1 DEF Cleared, Budgets
    <2> HIDE DEF replayed
    <2>6. Scripted(replayed) /\ Budgeted(replayed, Cleared(T(r))) /\ replayed.life = s.life /\ replayed.outcome = "final"
      BY <1>1, <1>5, <2>4, <2>5, HttpAssumption DEF SameRun, Scripted, Budgeted
    <2> QED  BY <1>2, <2>1, <2>3, <2>4, <2>5, <2>6, ConcludesHolds
  <1>6. CASE s.outcome \notin {"none", "final"}
    <2>1. Catch(r, s.outcome)
      BY <1>6 DEF Enters
    <2> QED  BY <1>2, <2>1, CatchHolds
  <1>7. CASE s.outcome = "none" /\ req[r].aborted
    <2>1. Catch(r, "aborted")
      BY <1>7 DEF Enters
    <2> QED  BY <1>2, <2>1, CatchHolds
  <1>8. CASE s.outcome = "none" /\ ~req[r].aborted /\ s.outstanding \notin {0, req[r].results}
    <2>1. Concludes(r, s.final \o Call, s, budget[T(r)])
      BY <1>8 DEF Enters
    <2>2. s.final \o Call \in Seq(Events)
      BY <1>1 DEF Call, Events
    <2> QED  BY <1>1, <1>2, <1>3, <1>8, <2>1, <2>2, ConcludesHolds
  <1>9. CASE s.outcome = "none" /\ ~req[r].aborted /\ s.outstanding \in {0, req[r].results}
    <2> DEFINE next == [s EXCEPT !.outstanding = 0, !.final = <<>>, !.segment = @ + 1, !.script = Tail(@)]
               delivered == IF s.outstanding # 0 THEN next ELSE s
               es == Undrained(s)
               after == [Drained(delivered) EXCEPT !.holder = r]
               q == [req[r] EXCEPT !.round = "waiting", !.segment = delivered.segment, !.events = es]
    <2>1. IF ~Fits(stream[r], es) THEN Over(r, es, Retire(s), Cleared(T(r)))
          ELSE /\ req' = [req EXCEPT ![r].round = "waiting", ![r].segment = delivered.segment, ![r].events = es]
               /\ stream' = [stream EXCEPT ![r] = Push(@, es)]
               /\ session' = [session EXCEPT ![T(r)] = after]
               /\ UNCHANGED <<budget, server, left, scenario>>
      BY <1>9 DEF Enters
    <2>2. CASE ~Fits(stream[r], es)
      BY <1>2, <1>4, <2>1, <2>2, RetiresHolds
    <2>3. CASE Fits(stream[r], es)
      <3>1. /\ delivered \in Session /\ Scripted(delivered) /\ delivered.life = s.life /\ delivered.tombstone = s.tombstone
            /\ delivered.outcome = s.outcome
        <4>1. CASE s.outstanding = 0
          BY <1>1, <4>1
        <4>2. CASE s.outstanding # 0
          <5>1. Tail(s.script) \in Seq(Acts) /\ ~s.batch
            BY <1>1, <4>2 DEF Scripted
          <5>2. s.segment + 1 \in Nat /\ <<>> \in Seq(Events)
            BY <1>1
          <5>3. next \in Session /\ next.outstanding = 0 /\ next.batch = s.batch /\ next.life = s.life
                /\ next.tombstone = s.tombstone /\ next.outcome = s.outcome
            BY <1>1, <5>1, <5>2 DEF Session
          <5>4. delivered = next
            BY <4>2
          <5> HIDE DEF next, delivered
          <5>5. Scripted(next)
            BY <5>1, <5>3 DEF Scripted
          <5> QED  BY <5>3, <5>4, <5>5
        <4> QED  BY <4>1, <4>2
      <3> HIDE DEF delivered
      <3>2. after \in Session /\ SameRun(after, delivered)
        <4>1. Drained(delivered) \in Session /\ SameRun(Drained(delivered), delivered)
          BY <3>1, DrainedKeeps
        <4>2. r \in 0 .. Posts
          BY DEF Requests
        <4> QED  BY <4>1, <4>2 DEF Session, SameRun
      <3>3. /\ q \in Request /\ q.round = "waiting" /\ q.phase = req[r].phase /\ q.counted = req[r].counted
            /\ q.bound = req[r].bound /\ q.aborted = req[r].aborted
        <4>1. delivered.segment \in Nat
          BY <3>1 DEF Session
        <4> HIDE DEF es
        <4> QED  BY <1>1, <1>4, <4>1 DEF Request, Rounds, es
      <3>4. /\ req' = [req EXCEPT ![r] = q] /\ stream' = [stream EXCEPT ![r] = Push(@, es)]
            /\ session' = [session EXCEPT ![T(r)] = after] /\ UNCHANGED <<budget, server, left, scenario>>
        BY <1>1, <2>1, <2>3 DEF Typed
      <3> HIDE DEF after, q
      <3>5. Scripted(after) /\ after.life = s.life /\ after.tombstone = s.tombstone /\ after.outcome = s.outcome
        BY <3>1, <3>2 DEF SameRun, Scripted
      <3>6. ~server.stopping
        BY <1>3, <1>9
      <3> HIDE DEF es
      <3>7. es \in Seq(Events)
        BY <1>4 DEF es
      <3> QED  BY <1>2, <3>2, <3>3, <3>4, <3>5, <3>6, <3>7, ListeningStep
    <2> QED  BY <2>2, <2>3
  <1> QED  BY <1>5, <1>6, <1>7, <1>8, <1>9

\* A round that listens sends es and goes on with s of the same run.
LEMMA SendsHolds ==
  ASSUME IInv, NEW r \in Requests, req[r].round = "waiting", NEW es \in Seq(Events), NEW s \in Session,
         SameRun(s, S(r)), Sends(r, es, s)
  PROVE  IInv'
  <1>1. /\ Typed /\ T(r) \in Turns /\ S(r) \in Session /\ Scripted(S(r)) /\ req[r] \in Request
        /\ req[r].events \in Seq(Events) /\ InRound(r)
    BY RoundPlaces DEF InRound
  <1>2. CASE Fits(stream[r], es)
    <2> DEFINE events == req[r].events \o es
               q == [req[r] EXCEPT !.events = events]
    <2>1. /\ req' = [req EXCEPT ![r] = q] /\ stream' = [stream EXCEPT ![r] = Push(@, es)]
          /\ session' = [session EXCEPT ![T(r)] = s] /\ UNCHANGED <<budget, server, left, scenario>>
      BY <1>1, <1>2 DEF Sends, Typed
    <2>2. events \in Seq(Events)
      BY <1>1
    <2> HIDE DEF events
    <2>3. /\ q \in Request /\ q.round = "waiting" /\ q.phase = req[r].phase /\ q.counted = req[r].counted
          /\ q.bound = req[r].bound /\ q.aborted = req[r].aborted
      BY <1>1, <2>2 DEF Request
    <2> HIDE DEF q
    <2>4. Scripted(s) /\ s.life = S(r).life /\ s.tombstone = S(r).tombstone /\ s.outcome = S(r).outcome /\ s.outstanding = S(r).outstanding
      BY <1>1 DEF SameRun, Scripted
    <2> QED  BY <1>1, <2>1, <2>3, <2>4, ListeningStep
  <1>3. CASE ~Fits(stream[r], es)
    BY <1>1, <1>3, RetiresHolds DEF Sends
  <1> QED  BY <1>2, <1>3

LEMMA TakesTraceHolds ==
  ASSUME IInv, NEW r \in Requests, TakesTrace(r)
  PROVE  IInv'
  <1>1. S(r) \in Session /\ S(r).trace \in Nat /\ req[r].round = "waiting"
    BY RoundPlaces DEF TakesTrace, Listens
  <1>2. <<"boundary", "think">> \in Seq(Events)
    BY DEF Events
  <1>3. NextTrace(S(r)) \in Session /\ SameRun(NextTrace(S(r)), S(r))
    <2>1. CASE S(r).trace = 0
      BY <1>1, <2>1 DEF NextTrace, Session, SameRun, Held
    <2>2. CASE S(r).trace # 0
      <3>1. S(r).trace - 1 \in Nat
        BY <1>1, <2>2
      <3>2. NextTrace(S(r)) = [S(r) EXCEPT !.held = "behind", !.trace = S(r).trace - 1]
        BY <1>1, <2>2 DEF NextTrace, Session
      <3> QED  BY <1>1, <3>1, <3>2 DEF Session, SameRun, Held
    <2> QED  BY <2>1, <2>2
  <1> QED  BY <1>1, <1>2, <1>3, SendsHolds DEF TakesTrace

LEMMA TakesTextHolds ==
  ASSUME IInv, NEW r \in Requests, TakesText(r)
  PROVE  IInv'
  <1>1. S(r) \in Session /\ S(r).text \in Nat /\ req[r].round = "waiting"
    BY RoundPlaces DEF TakesText, Others, Listens
  <1> DEFINE x == [S(r) EXCEPT !.trace = 0]
             s == [S(r) EXCEPT !.text = 0]
  <1>2. x.trace = 0 /\ x.text = S(r).text
    BY <1>1 DEF Session
  <1>3. s \in Session /\ SameRun(s, S(r))
    BY <1>1 DEF Session, SameRun
  <1>4. Sends(r, Undrained(x), s)
    BY DEF TakesText
  <1> HIDE DEF x, s
  <1>5. Undrained(x) \in Seq(Events)
    BY <1>1, <1>2, UndrainedTyped
  <1> QED  BY <1>1, <1>3, <1>4, <1>5, SendsHolds

LEMMA TakesBatchHolds ==
  ASSUME IInv, NEW r \in Requests, TakesBatch(r)
  PROVE  IInv'
  <1> DEFINE es == Undrained(S(r))
             calls == budget[T(r)].calls + 1
             final == req[r].events \o es
             s == [Drained(S(r)) EXCEPT !.batch = FALSE, !.outstanding = calls, !.final = final]
             b == [budget[T(r)] EXCEPT !.calls = @ + 1]
  <1>1. /\ Typed /\ T(r) \in Turns /\ S(r) \in Session /\ S(r) = session[T(r)] /\ Scripted(S(r))
        /\ budget[T(r)] \in Budgets /\ Budgeted(S(r), budget[T(r)]) /\ req[r].events \in Seq(Events)
        /\ S(r).trace \in Nat /\ S(r).text \in Nat /\ InRound(r) /\ req[r].round = "waiting"
        /\ S(r).batch /\ S(r).life = "live"
    BY RoundPlaces DEF TakesBatch, Others, Listens, InRound
  <1>2. Concludes(r, es \o Call, s, b)
    BY DEF TakesBatch
  <1>3. es \in Seq(Events)
    BY <1>1, UndrainedTyped
  <1> HIDE DEF es
  <1>4. es \o Call \in Seq(Events) /\ final \in Seq(Events) /\ calls \in Nat /\ calls # 0
    <2>1. Call \in Seq(Events)
      BY DEF Call, Events
    <2>2. budget[T(r)].calls \in Nat
      BY <1>1 DEF Budgets
    <2> QED  BY <1>1, <1>3, <2>1, <2>2
  <1>5. b \in Budgets /\ b.sends = budget[T(r)].sends /\ b.retries = budget[T(r)].retries
    BY <1>1 DEF Budgets
  <1> HIDE DEF calls, final, b
  <1>6. /\ Drained(S(r)) \in Session /\ Drained(S(r)).life = "live" /\ Drained(S(r)).tombstone = S(r).tombstone
        /\ Drained(S(r)).script = S(r).script
    BY <1>1, DrainedKeeps
  <1>7. s \in Session /\ s.outstanding = calls /\ ~s.batch /\ s.life = "live" /\ s.tombstone = S(r).tombstone
        /\ s.script = S(r).script
    BY <1>4, <1>6 DEF Session
  <1> HIDE DEF s
  <1>8. Scripted(s) /\ Budgeted(s, b)
    BY <1>1, <1>4, <1>5, <1>7 DEF Scripted, Budgeted
  <1>9. ~server.stopping
    <2>1. S(r).outcome = "none"
      BY <1>1 DEF Scripted
    <2>2. T(r) \in ActiveBrowser
      BY <1>1, <2>1 DEF ActiveBrowser
    <2> QED  BY <1>1, <2>2 DEF IInv, Quiet
  <1> QED  BY <1>1, <1>2, <1>4, <1>5, <1>7, <1>8, <1>9, ConcludesHolds

LEMMA TakesOutcomeHolds ==
  ASSUME IInv, NEW r \in Requests, TakesOutcome(r)
  PROVE  IInv'
  <1> DEFINE es == Undrained(S(r))
             final == req[r].events \o es
             s == [Drained(S(r)) EXCEPT !.final = final]
  <1>1. /\ Typed /\ T(r) \in Turns /\ S(r) \in Session /\ Scripted(S(r))
        /\ budget[T(r)] \in Budgets /\ req[r].events \in Seq(Events)
        /\ S(r).trace \in Nat /\ S(r).text \in Nat /\ InRound(r)
    BY RoundPlaces DEF TakesOutcome, Others, Listens, InRound
  <1>2. CASE S(r).outcome = "final"
    <2>1. Concludes(r, es \o <<"doneStop">>, s, Cleared(T(r)))
      BY <1>2 DEF TakesOutcome
    <2>2. es \in Seq(Events)
      BY <1>1, UndrainedTyped
    <2> HIDE DEF es
    <2>3. es \o <<"doneStop">> \in Seq(Events) /\ final \in Seq(Events)
      BY <1>1, <2>2 DEF Events
    <2> HIDE DEF final
    <2>4. s \in Session /\ SameRun(s, S(r))
      <3>1. Drained(S(r)) \in Session /\ SameRun(Drained(S(r)), S(r))
        BY <1>1, DrainedKeeps
      <3> QED  BY <2>3, <3>1 DEF Session, SameRun
    <2> HIDE DEF s
    <2>5. Cleared(T(r)) \in Budgets /\ Cleared(T(r)).retries = 0 /\ Cleared(T(r)).sends = 0
      BY <1>1 DEF Cleared, Budgets
    <2>6. Scripted(s) /\ Budgeted(s, Cleared(T(r))) /\ s.life = S(r).life /\ s.outcome = "final"
      BY <1>1, <1>2, <2>4, <2>5, HttpAssumption DEF SameRun, Scripted, Budgeted
    <2> QED  BY <1>1, <2>1, <2>3, <2>4, <2>5, <2>6, ConcludesHolds
  <1>3. CASE S(r).outcome # "final"
    <2>1. Catch(r, S(r).outcome)
      BY <1>3 DEF TakesOutcome
    <2> QED  BY <1>1, <2>1, CatchHolds
  <1> QED  BY <1>2, <1>3

LEMMA AbortsHolds ==
  ASSUME IInv, NEW r \in Requests, Aborts(r)
  PROVE  IInv'
  <1>1. InRound(r) /\ Catch(r, "aborted")
    BY DEF Aborts, Listens, InRound
  <1> QED  BY <1>1, CatchHolds

LEMMA CompactedHolds ==
  ASSUME IInv, NEW r \in Requests, Compacted(r)
  PROVE  IInv'
  <1>1. /\ S(r) \in Session /\ Scripted(S(r)) /\ budget[T(r)] \in Budgets /\ Budgeted(S(r), budget[T(r)])
        /\ req[r].round = "compacting" /\ ~InRound(r)
    BY RoundPlaces DEF Compacted, InRound
  <1>2. PICK es \in Seq(Events) : Over(r, es, S(r), budget[T(r)])
    <2>1. <<"text", "doneStop">> \in Seq(Events) /\ <<"error">> \in Seq(Events)
      BY DEF Events
    <2> QED  BY <2>1 DEF Compacted
  <1> QED  BY <1>1, <1>2, OverHolds

-----------------------------------------------------------------------------
(* The steps of a page.                                                     *)

LEMMA PageStep ==
  ASSUME IInv, NEW t \in Turns, NEW s \in Session, Scripted(s), Budgeted(s, budget[t]),
         session' = [session EXCEPT ![t] = s], UNCHANGED <<req, stream, budget, server, left, scenario>>,
         s.life = "none" => \A r \in Requests : T(r) = t => ~InRound(r),
         s.life = "live" /\ s.outcome = "none" =>
           session[t].life = "live" /\ session[t].outcome = "none" /\ s.outstanding = session[t].outstanding
  PROVE  IInv'
  <1>1. Typed
    BY DEF IInv
  <1>2. Typed'
    BY <1>1 DEF Typed, StreamTyped
  <1>3. ASSUME NEW x \in Turns
        PROVE  session'[x] = IF x = t THEN s ELSE session[x]
    BY <1>1 DEF Typed
  <1>4. ASSUME NEW r \in Requests
        PROVE  T(r)' = T(r) /\ T(r) \in Turns /\ Kind(r)' = Kind(r) /\ InRound(r)' = InRound(r)
               /\ S(r)' = (IF T(r) = t THEN s ELSE S(r))
    BY <1>1, <1>3, Places DEF T, Kind, InRound, S
  <1>5. ASSUME NEW r \in Requests
        PROVE  (Tracked(req[r], stream[r], Kind(r)) /\ Interrupted(req[r], T(r)) /\ Lives(r))'
    <2>1. Tracked(req[r], stream[r], Kind(r)) /\ Interrupted(req[r], T(r)) /\ Lives(r)
      BY DEF IInv
    <2>2. (Lives(r))'
      BY <1>4, <2>1 DEF Lives, S
    <2> QED  BY <1>4, <2>1, <2>2 DEF Interrupted
  <1>6. ASSUME NEW x \in Turns
        PROVE  (Scripted(session[x]) /\ Budgeted(session[x], budget[x]) /\ RunIsOwned(x))'
    <2>1. Scripted(session[x]) /\ Budgeted(session[x], budget[x]) /\ RunIsOwned(x)
      BY DEF IInv
    <2>2. (RunIsOwned(x))'
      BY <1>3, <1>4, <2>1 DEF RunIsOwned, Requests
    <2> QED  BY <1>3, <2>1, <2>2
  <1>7. (Quiet /\ (server.down => server.stopping))'
    BY <1>3, <1>4 DEF IInv, Quiet, ActiveBrowser, Requests
  <1> QED  BY <1>2, <1>5, <1>6, <1>7 DEF IInv, Requests

LEMMA PageActsHolds ==
  ASSUME IInv, NEW t \in Turns, PageActs(t)
  PROVE  IInv'
  <1> DEFINE s == session[t]
             rest == [s EXCEPT !.script = Tail(@)]
  <1>1. /\ Typed /\ s \in Session /\ Scripted(s) /\ Budgeted(s, budget[t]) /\ s.script \in Seq(Acts)
        /\ s.trace \in Nat /\ s.text \in Nat
        /\ s.life = "live" /\ s.outcome = "none" /\ s.script # <<>> /\ ~s.batch /\ s.outstanding = 0
    BY DEF IInv, Typed, PageActs, Session
  <1>2. Tail(s.script) \in Seq(Acts) /\ Head(s.script) \in Acts
    BY <1>1
  <1>3. rest \in Session /\ rest.life = "live" /\ rest.outcome = "none" /\ ~rest.batch /\ rest.outstanding = 0
        /\ rest.tombstone = s.tombstone /\ rest.trace = s.trace
    <2> DEFINE tail == Tail(s.script)
    <2>1. rest = [s EXCEPT !.script = tail] /\ tail \in Seq(Acts)
      <3>1. rest = [s EXCEPT !.script = tail]
        OBVIOUS
      <3> QED  BY <1>2, <3>1
    <2> HIDE DEF tail, rest
    <2>2. rest \in Session
      BY <1>1, <2>1 DEF Session
    <2>3. rest.life = s.life /\ rest.outcome = s.outcome /\ rest.batch = s.batch /\ rest.outstanding = s.outstanding
          /\ rest.tombstone = s.tombstone /\ rest.trace = s.trace
      BY <1>1, <2>1 DEF Session
    <2> QED  BY <1>1, <2>2, <2>3
  <1>4. UNCHANGED <<req, stream, budget, server, left, scenario>>
    BY DEF PageActs
  <1>5. ASSUME NEW x \in Session, session' = [session EXCEPT ![t] = x], x.life = "live",
               ~x.batch \/ (x.outcome = "none" /\ x.script # <<>>), x.outstanding = 0, x.tombstone = s.tombstone
        PROVE  IInv'
    <2>1. Scripted(x)
      BY <1>5 DEF Scripted
    <2>2. Budgeted(x, budget[t])
      BY <1>1, <1>5 DEF Budgeted
    <2> QED  BY <1>1, <1>4, <1>5, <2>1, <2>2, PageStep
  <1>6. CASE Head(s.script) = "think"
    <2>1. session' = [session EXCEPT ![t] = Traced(rest)]
      BY <1>6 DEF PageActs
    <2> HIDE DEF rest
    <2>2. Traced(rest) \in Session /\ Traced(rest).life = "live" /\ ~Traced(rest).batch /\ Traced(rest).outstanding = 0
          /\ Traced(rest).tombstone = s.tombstone
      <3>1. CASE rest.holder = 0 \/ rest.held # "none"
        <4>1. rest.trace + 1 \in Nat
          BY <1>1, <1>3
        <4>2. Traced(rest) = [rest EXCEPT !.trace = rest.trace + 1]
          BY <1>3, <3>1 DEF Traced, Session
        <4> QED  BY <1>3, <4>1, <4>2 DEF Session
      <3>2. CASE ~(rest.holder = 0 \/ rest.held # "none")
        <4> DEFINE held == IF rest.text = 0 THEN "fresh" ELSE "behind"
        <4>1. held \in Held
          BY DEF Held
        <4>2. Traced(rest) = [rest EXCEPT !.held = held]
          BY <1>3, <3>2 DEF Traced, Session
        <4> HIDE DEF held
        <4> QED  BY <1>3, <4>1, <4>2 DEF Session
      <3> QED  BY <3>1, <3>2
    <2> QED  BY <1>5, <2>1, <2>2
  <1>7. CASE Head(s.script) = "text"
    <2> DEFINE tail == Tail(s.script)
               text == s.text + 1
               x == [s EXCEPT !.script = tail, !.text = text]
    <2>1. session' = [session EXCEPT ![t] = x]
      BY <1>7 DEF PageActs
    <2>2. tail \in Seq(Acts) /\ text \in Nat
      BY <1>1, <1>2
    <2> HIDE DEF tail, text
    <2>3. x \in Session
      BY <1>1, <2>2 DEF Session
    <2>4. x.life = s.life /\ x.batch = s.batch /\ x.outstanding = s.outstanding /\ x.tombstone = s.tombstone
      BY <1>1 DEF Session
    <2> HIDE DEF x
    <2> QED  BY <1>1, <1>5, <2>1, <2>3, <2>4
  <1>8. CASE Head(s.script) = "tools"
    <2> DEFINE x == [s EXCEPT !.batch = TRUE]
    <2>1. session' = [session EXCEPT ![t] = x]
      BY <1>8 DEF PageActs
    <2>2. x \in Session /\ x.life = "live" /\ x.outcome = "none" /\ x.script # <<>> /\ x.outstanding = 0
          /\ x.tombstone = s.tombstone
      BY <1>1 DEF Session
    <2> HIDE DEF x
    <2> QED  BY <1>5, <2>1, <2>2
  <1>9. CASE Head(s.script) \notin {"think", "text", "tools"}
    <2> DEFINE x == [s EXCEPT !.script = Tail(@), !.outcome = Head(s.script)]
    <2>1. session' = [session EXCEPT ![t] = x]
      BY <1>9 DEF PageActs
    <2>2. Head(s.script) \in Outcomes
      BY <1>2, <1>9 DEF Acts, Outcomes
    <2>3. x \in Session /\ x.life = "live" /\ ~x.batch /\ x.outstanding = 0 /\ x.tombstone = s.tombstone
      BY <1>1, <1>2, <2>2 DEF Session
    <2> HIDE DEF x
    <2> QED  BY <1>5, <2>1, <2>3
  <1> QED  BY <1>6, <1>7, <1>8, <1>9

LEMMA PageGoneHolds ==
  ASSUME IInv, NEW t \in Turns, PageGone(t)
  PROVE  IInv'
  <1> DEFINE s == [NoSession EXCEPT !.tombstone = session[t].tombstone]
  <1>1. Typed /\ session[t] \in Session /\ session[t].tombstone \in BOOLEAN /\ Budgeted(session[t], budget[t])
        /\ session[t].life = "retiring"
    BY DEF IInv, Typed, Session, PageGone
  <1>2. NoSession \in Session /\ ~NoSession.batch /\ NoSession.outstanding = 0 /\ NoSession.life = "none"
    BY Fresh DEF NoSession
  <1>3. s \in Session /\ ~s.batch /\ s.outstanding = 0 /\ s.life = "none" /\ s.tombstone = session[t].tombstone
    BY <1>1, <1>2 DEF Session
  <1>4. session' = [session EXCEPT ![t] = s] /\ UNCHANGED <<req, stream, budget, server, left, scenario>>
    BY DEF PageGone
  <1> HIDE DEF s
  <1>5. Scripted(s) /\ Budgeted(s, budget[t])
    BY <1>1, <1>3 DEF Scripted, Budgeted
  <1>6. \A r \in Requests : T(r) = t => ~InRound(r)
    BY DEF PageGone
  <1> QED  BY <1>3, <1>4, <1>5, <1>6, PageStep

-----------------------------------------------------------------------------
(* The theorems.                                                            *)

LEMMA StutterHolds == IInv /\ UNCHANGED vars => IInv'
  <1> SUFFICES ASSUME IInv, UNCHANGED vars PROVE IInv'
    OBVIOUS
  <1>1. Typed'
    BY DEF IInv, Typed, vars, StreamTyped
  <1>2. ASSUME NEW r \in Requests
        PROVE  (Tracked(req[r], stream[r], Kind(r)) /\ Interrupted(req[r], T(r)) /\ Lives(r))'
    BY DEF IInv, vars, Tracked, Interrupted, Lives, InRound, S, T, Kind
  <1>3. ASSUME NEW t \in Turns
        PROVE  (Scripted(session[t]) /\ Budgeted(session[t], budget[t]) /\ RunIsOwned(t))'
    BY DEF IInv, vars, RunIsOwned, Requests, InRound, T, Scripted, Budgeted
  <1>4. (Quiet /\ (server.down => server.stopping))'
    BY DEF IInv, vars, Quiet, ActiveBrowser, Requests, T
  <1> QED  BY <1>1, <1>2, <1>3, <1>4 DEF IInv, Requests

LEMMA NextHolds == IInv /\ [Next]_vars => IInv'
  <1> SUFFICES ASSUME IInv, [Next]_vars PROVE IInv'
    OBVIOUS
  <1>1. ASSUME NEW r \in Requests, Post(r) \/ Leave(r) \/ Stalls(r) PROVE IInv'
    BY <1>1, PostHolds, LeaveHolds, StallsHolds
  <1>2. ASSUME NEW r \in Requests, Reply(r) PROVE IInv'
    BY <1>2, RejectsHolds, BeginsHolds, ReadsHolds, StepsHolds, AnswersHolds, EndedHolds DEF Reply
  <1>3. ASSUME NEW r \in Requests, Round(r) PROVE IInv'
    BY <1>3, GetsSessionHolds, EntersHolds, TakesTraceHolds, TakesTextHolds, TakesBatchHolds, TakesOutcomeHolds,
       AbortsHolds, CompactedHolds DEF Round
  <1>4. ASSUME NEW t \in Turns, Interrupt(t) \/ CancelTrace(t) \/ PageActs(t) \/ PageGone(t) PROVE IInv'
    BY <1>4, InterruptStep, CancelTraceHolds, PageActsHolds, PageGoneHolds
  <1>5. CASE CancelTurns \/ Drain \/ Resume \/ Shutdown \/ ShutsDown
    BY <1>5, CancelTurnsHolds, ServerHolds
  <1>6. CASE UNCHANGED vars
    BY <1>6, StutterHolds
  <1> QED  BY <1>1, <1>2, <1>3, <1>4, <1>5, <1>6 DEF Next, Reply, Round

THEOREM Invariance == Spec => []IInv
  BY InitHolds, NextHolds, PTL DEF Spec

\* Every request, session and stream stays in its domain, and no queue ever holds more than its
\* bound and the one event a reader waits for (event-queue.ts).
THEOREM HttpTypeCorrect == Spec => []TypeOK
  <1>1. IInv => TypeOK
    BY DEF IInv, Typed, TypeOK, StreamTyped, StreamRecord
  <1> QED  BY <1>1, Invariance, PTL

\* Work goes on only for someone and none is cut off, whatever is interrupted, cancelled, drained
\* or disconnected: a browser run that is under way has a request that listens or calls to be
\* answered, a prompt is not sent again beyond the retries, an interrupt reaches every request of
\* its turn, and the daemon goes down only when every response was read (server.ts, index.ts).
THEOREM HttpWorkIsAccounted == Spec => []WorkIsAccounted
  <1>1. ASSUME IInv PROVE WorkIsAccounted
    <2>1. Typed
      BY <1>1 DEF IInv
    <2>2. ASSUME NEW t \in Turns PROVE RunIsOwned(t) /\ SendsAreBounded(t)
      <3>1. budget[t] \in Budgets /\ Budgeted(session[t], budget[t]) /\ RunIsOwned(t) /\ MaxRetries \in Nat
        BY <1>1, <2>1, HttpAssumption DEF IInv, Typed, Budgets
      <3> QED  BY <3>1 DEF Budgeted, SendsAreBounded, Budgets
    <2>3. ASSUME NEW r \in Requests PROVE InterruptHolds(r)
      BY <1>1 DEF IInv, Interrupted, InterruptHolds
    <2>4. ShutdownCutsNothing
      <3> SUFFICES ASSUME server.down PROVE ShutdownCutsNothing
        BY DEF ShutdownCutsNothing
      <3>1. server.stopping
        BY <1>1 DEF IInv
      <3>2. ASSUME NEW r \in Requests
            PROVE  /\ req[r].phase \in {"idle", "refused", "over"} /\ (stream[r].on => stream[r].closed)
                   /\ InRound(r) => req[r].aborted
        <4>1. Tracked(req[r], stream[r], Kind(r)) /\ req[r] \in Request /\ ~req[r].counted
          BY <1>1, <3>1, RoundPlaces DEF IInv, Quiet
        <4>2. req[r].phase \in {"idle", "refused", "over"}
          BY <4>1 DEF Tracked, Request, Phases
        <4>3. stream[r].on => stream[r].closed
          BY <4>1, <4>2 DEF Tracked
        <4> QED  BY <1>1, <3>1, <4>2, <4>3, StoppedIsTold
      <3>3. ASSUME NEW t \in ActiveBrowser PROVE session[t].outstanding = 0
        BY <1>1, <3>1 DEF IInv, Quiet
      <3> QED  BY <3>2, <3>3 DEF ShutdownCutsNothing
    <2> QED  BY <2>2, <2>3, <2>4 DEF WorkIsAccounted
  <1> QED  BY <1>1, Invariance, PTL

-----------------------------------------------------------------------------
(* What Codex is sent: the frames of a stream.                              *)

\* The item that frame i opens is closed, or it is the one the bridge has open.
IsShut(s, i)    == s.frames[i].index < s.outputIndex /\ \E k \in i .. Len(s.frames) : s.frames[k] = Closing(s.frames[i])
IsCurrent(s, i) == s.open # "none" /\ s.frames[i].item = s.open /\ s.frames[i].index = s.outputIndex
Itemised(s)     == \A i \in DOMAIN s.frames : IsOpen(s, i) => IsShut(s, i) \/ IsCurrent(s, i)

\* A response that has no terminal event yet, and one that has.
Untold(s) ==
  /\ ~s.terminated /\ Terminals(s) = {} /\ WellFormed(s) /\ Itemised(s) /\ ~s.remembered
  /\ s.compaction => s.frames = <<>> /\ s.open = "none"
Told(s) ==
  /\ s.terminated /\ WellFormed(s)
  /\ s.compaction /\ Outcome(s) = "completed" => Len(s.frames) = 2
  /\ s.remembered => Outcome(s) = "completed"
Shaped(s) == Untold(s) \/ (Told(s) /\ s.closed)

\* All that the shape of a response depends on.
SameShape(s, t) ==
  /\ t.frames = s.frames /\ t.terminated = s.terminated /\ t.compaction = s.compaction
  /\ t.remembered = s.remembered /\ t.open = s.open /\ t.outputIndex = s.outputIndex

LEMMA ShapeIsKept ==
  ASSUME NEW s, NEW t, SameShape(s, t)
  PROVE  (Untold(s) => Untold(t)) /\ (Told(s) => Told(t))
  BY DEF SameShape, Untold, Told, Terminals, WellFormed, Itemised, IsShut, IsCurrent, IsOpen, Outcome

LEMMA OneMore ==
  ASSUME NEW q \in Seq(Frame), NEW f \in Frame
  PROVE  /\ q \o <<f>> \in Seq(Frame) /\ Len(q \o <<f>>) = Len(q) + 1 /\ Len(q) \in Nat
         /\ DOMAIN q = 1 .. Len(q) /\ DOMAIN (q \o <<f>>) = 1 .. Len(q) + 1
         /\ (q \o <<f>>)[Len(q) + 1] = f /\ \A i \in 1 .. Len(q) : (q \o <<f>>)[i] = q[i]
  OBVIOUS

\* A frame is added: what was shut stays so.
LEMMA FrameAdded ==
  ASSUME NEW s, StreamTyped(s), Terminals(s) = {}, WellFormed(s), Itemised(s), NEW f \in Frame,
         NEW t, t.frames = s.frames \o <<f>>, t.outputIndex \in Nat, t.outputIndex >= s.outputIndex,
         f.what \in Terminal \cup {"open"} => s.open = "none",
         f.what = "open" => f.index = s.outputIndex
  PROVE  /\ WellFormed(t)
         /\ Terminals(t) = IF f.what \in Terminal THEN {Len(t.frames)} ELSE {}
         /\ \A i \in DOMAIN s.frames : IsOpen(s, i) /\ IsShut(s, i) => IsShut(t, i)
  <1> DEFINE n == Len(s.frames)
  <1>1. /\ s.frames \in Seq(Frame) /\ n \in Nat /\ Len(t.frames) = n + 1
        /\ DOMAIN s.frames = 1 .. n /\ DOMAIN t.frames = 1 .. (n + 1)
        /\ t.frames[n + 1] = f /\ \A i \in 1 .. n : t.frames[i] = s.frames[i]
    BY OneMore DEF StreamTyped, StreamRecord
  <1>2. s.outputIndex \in Nat /\ \A i \in 1 .. n : s.frames[i] \in Frame
    BY <1>1 DEF StreamTyped, StreamRecord
  <1> HIDE DEF n
  <1>3. \A i \in 1 .. n : s.frames[i].what \notin Terminal
    BY <1>1 DEF Terminals
  <1>4. Terminals(t) = IF f.what \in Terminal THEN {n + 1} ELSE {}
    BY <1>1, <1>3 DEF Terminals
  <1>5. ASSUME NEW i \in 1 .. n, IsOpen(s, i), IsShut(s, i)  PROVE IsShut(t, i)
    <2>1. PICK k \in i .. n : s.frames[k] = Closing(s.frames[i])
      BY <1>5 DEF IsShut, n
    <2>2. k \in i .. (n + 1) /\ k \in 1 .. n
      BY <1>1
    <2>3. t.frames[k] = Closing(t.frames[i])
      BY <1>1, <2>1, <2>2
    <2>4. s.frames[i].index \in Nat
      BY <1>2, <1>5 DEF IsOpen, Frame, Terminal
    <2>5. s.frames[i].index < t.outputIndex
      BY <1>2, <1>5, <2>4 DEF IsShut
    <2>6. t.frames[i].index < t.outputIndex
      BY <1>1, <2>5
    <2> QED  BY <1>1, <2>2, <2>3, <2>6 DEF IsShut
  <1>6. ASSUME NEW i \in 1 .. (n + 1), IsOpen(t, i), NEW j \in (i + 1) .. (n + 1), IsOpen(t, j) \/ j \in Terminals(t)
        PROVE  /\ \E k \in i .. j : t.frames[k] = Closing(t.frames[i])
               /\ IsOpen(t, j) => t.frames[j].index > t.frames[i].index
    <2>1. i \in 1 .. n /\ IsOpen(s, i) /\ j \in 1 .. (n + 1)
      BY <1>1, <1>6 DEF IsOpen
    <2>2. CASE j \in 1 .. n
      <3>1. IsOpen(s, j)
        BY <1>1, <1>4, <1>6, <2>2 DEF IsOpen
      <3>0. i \in DOMAIN s.frames /\ j \in (i + 1) .. Len(s.frames)
        BY <1>1, <1>6, <2>1, <2>2 DEF n
      <3>5. /\ \E k \in i .. j : s.frames[k] = Closing(s.frames[i])
            /\ s.frames[j].index > s.frames[i].index
        BY <2>1, <3>0, <3>1 DEF WellFormed
      <3>2. PICK k \in i .. j : s.frames[k] = Closing(s.frames[i])
        BY <3>5
      <3>3. k \in 1 .. n
        BY <1>1, <2>1, <2>2
      <3>4. s.frames[j].index > s.frames[i].index
        BY <3>5
      <3> QED  BY <1>1, <2>1, <2>2, <3>2, <3>3, <3>4
    <2>3. CASE j = n + 1
      <3>1. f.what \in Terminal \cup {"open"}
        BY <1>1, <1>4, <1>6, <2>3 DEF IsOpen
      <3>2. IsShut(s, i)
        BY <1>1, <2>1, <3>1 DEF Itemised, IsCurrent
      <3>3. PICK k \in i .. n : s.frames[k] = Closing(s.frames[i])
        BY <3>2 DEF IsShut, n
      <3>4. k \in i .. j /\ k \in 1 .. n
        BY <1>1, <2>3
      <3>5. IsOpen(t, j) => t.frames[j].index > t.frames[i].index
        BY <1>1, <1>2, <2>1, <2>3, <3>2 DEF IsOpen, IsShut
      <3> QED  BY <1>1, <2>1, <3>3, <3>4, <3>5
    <2> QED  BY <1>1, <2>1, <2>2, <2>3
  <1>7. WellFormed(t)
    BY <1>1, <1>4, <1>6 DEF WellFormed
  <1> QED  BY <1>1, <1>4, <1>5, <1>7

\* Emitting one frame.
LEMMA EmitOne ==
  ASSUME NEW s, StreamTyped(s), ~s.closed, NEW f \in Frame
  PROVE  /\ Emit(s, <<f>>).frames = s.frames \o <<f>>
         /\ Framed(s, Emit(s, <<f>>)) /\ Emit(s, <<f>>).open = s.open /\ Emit(s, <<f>>).outputIndex = s.outputIndex
         /\ Emit(s, <<f>>).terminated = s.terminated /\ Emit(s, <<f>>).remembered = s.remembered
  <1>1. <<f>> \in Seq(Frame)
    OBVIOUS
  <1>2. Emit(s, <<f>>).frames = s.frames \o <<f>>
    BY DEF Emit, StreamTyped, StreamRecord
  <1> QED  BY <1>1, <1>2, EmitFrames

LEMMA CloseShape ==
  ASSUME NEW s, StreamTyped(s), ~s.closed, Untold(s)
  PROVE  Untold(Close(s)) /\ (s.compaction => Close(s) = s)
  <1>1. CASE s.open = "none"
    BY <1>1 DEF Close
  <1>2. CASE s.open # "none"
    <2> DEFINE f == [what |-> "close", item |-> s.open, index |-> s.outputIndex]
               e == Emit(s, <<f>>)
               t == Close(s)
    <2>1. f \in Frame /\ f.what = "close" /\ f.item = s.open /\ f.index = s.outputIndex
      BY <1>2 DEF StreamTyped, StreamRecord, Frame
    <2>2. e.frames = s.frames \o <<f>> /\ Framed(s, e) /\ e.outputIndex = s.outputIndex
          /\ e.terminated = s.terminated /\ e.remembered = s.remembered
      BY <2>1, EmitOne
    <2>3. t = [e EXCEPT !.open = "none", !.outputIndex = e.outputIndex + 1]
      BY <1>2 DEF Close
    <2>4. e \in StreamRecord /\ s.outputIndex \in Nat
      BY <2>2 DEF Framed, StreamTyped, StreamRecord
    <2> HIDE DEF e, t
    <2>5. t.frames = e.frames /\ t.open = "none" /\ t.outputIndex = s.outputIndex + 1 /\ t.terminated = s.terminated
          /\ t.remembered = s.remembered /\ t.compaction = s.compaction
      BY <2>2, <2>3, <2>4 DEF Framed, StreamRecord
    <2>6. ~s.compaction
      BY <1>2 DEF Untold
    <2>7. Terminals(s) = {} /\ WellFormed(s) /\ Itemised(s) /\ ~s.terminated /\ ~s.remembered
      BY DEF Untold
    <2>8. /\ s.frames \in Seq(Frame) /\ Len(s.frames) \in Nat /\ Len(t.frames) = Len(s.frames) + 1
          /\ DOMAIN s.frames = 1 .. Len(s.frames) /\ DOMAIN t.frames = 1 .. (Len(s.frames) + 1)
          /\ t.frames[Len(s.frames) + 1] = f /\ \A i \in 1 .. Len(s.frames) : t.frames[i] = s.frames[i]
      BY <2>1, <2>2, <2>5, OneMore DEF StreamTyped, StreamRecord
    <2> HIDE DEF f
    <2>9. f.what \notin Terminal \cup {"open"}
      BY <2>1 DEF Terminal
    <2>10. WellFormed(t) /\ Terminals(t) = {} /\ \A i \in DOMAIN s.frames : IsOpen(s, i) /\ IsShut(s, i) => IsShut(t, i)
      BY <2>1, <2>2, <2>4, <2>5, <2>7, <2>9, FrameAdded
    <2>11. ASSUME NEW i \in DOMAIN t.frames, IsOpen(t, i)  PROVE IsShut(t, i)
      <3>1. i \in 1 .. Len(s.frames) /\ IsOpen(s, i)
        BY <2>1, <2>8, <2>11 DEF IsOpen
      <3>2. CASE IsShut(s, i)
        BY <2>8, <2>10, <3>1, <3>2
      <3>3. CASE IsCurrent(s, i)
        <4>1. s.frames[i] \in Frame /\ s.frames[i].what = "open"
          BY <2>8, <3>1 DEF IsOpen
        <4>2. s.frames[i] \in [what : {"open", "delta", "close"}, item : Items, index : Nat]
          BY <4>1 DEF Frame, Terminal
        <4>3. Closing(s.frames[i]) = [what |-> "close", item |-> s.frames[i].item, index |-> s.frames[i].index]
          BY <4>2 DEF Closing
        <4>4. f = Closing(s.frames[i])
          BY <3>3, <4>3 DEF IsCurrent, f
        <4>5. Len(s.frames) + 1 \in i .. Len(t.frames)
          BY <2>8, <3>1
        <4>6. t.frames[i] = s.frames[i] /\ t.frames[Len(s.frames) + 1] = Closing(t.frames[i])
          BY <2>8, <3>1, <4>4
        <4>7. t.frames[i].index < t.outputIndex
          BY <2>4, <2>5, <3>3, <4>6 DEF IsCurrent
        <4> QED  BY <4>5, <4>6, <4>7 DEF IsShut
      <3> QED  BY <2>7, <2>8, <3>1, <3>2, <3>3 DEF Itemised
    <2>12. Itemised(t)
      BY <2>11 DEF Itemised
    <2> QED  BY <2>5, <2>6, <2>7, <2>10, <2>12 DEF Untold, t
  <1> QED  BY <1>1, <1>2

LEMMA OpenShape ==
  ASSUME NEW s, StreamTyped(s), ~s.closed, Untold(s), s.open = "none", ~s.compaction, NEW item \in Items
  PROVE  Untold(Open(s, item)) /\ Framed(s, Open(s, item)) /\ Open(s, item).open = item
  <1> DEFINE f == [what |-> "open", item |-> item, index |-> s.outputIndex]
             e == Emit(s, <<f>>)
             t == Open(s, item)
  <1>1. f \in Frame /\ f.what = "open" /\ f.item = item /\ f.index = s.outputIndex
    BY DEF StreamTyped, StreamRecord, Frame
  <1>2. e.frames = s.frames \o <<f>> /\ Framed(s, e) /\ e.outputIndex = s.outputIndex
        /\ e.terminated = s.terminated /\ e.remembered = s.remembered
    BY <1>1, EmitOne
  <1>3. t = [e EXCEPT !.open = item]
    BY DEF Open
  <1>4. e \in StreamRecord /\ s.outputIndex \in Nat
    BY <1>2 DEF Framed, StreamTyped, StreamRecord
  <1> HIDE DEF e, t
  <1>5. t.frames = e.frames /\ t.open = item /\ t.outputIndex = s.outputIndex /\ t.terminated = s.terminated
        /\ t.remembered = s.remembered /\ t.compaction = s.compaction
    BY <1>2, <1>3, <1>4 DEF Framed, StreamRecord
  <1>6. Framed(s, t)
    BY <1>2, <1>3 DEF Framed, StreamTyped, StreamRecord
  <1>7. Terminals(s) = {} /\ WellFormed(s) /\ Itemised(s) /\ ~s.terminated /\ ~s.remembered
    BY DEF Untold
  <1>8. /\ s.frames \in Seq(Frame) /\ Len(s.frames) \in Nat
        /\ DOMAIN s.frames = 1 .. Len(s.frames) /\ DOMAIN t.frames = 1 .. (Len(s.frames) + 1)
        /\ t.frames[Len(s.frames) + 1] = f /\ \A i \in 1 .. Len(s.frames) : t.frames[i] = s.frames[i]
    BY <1>1, <1>2, <1>5, OneMore DEF StreamTyped, StreamRecord
  <1> HIDE DEF f
  <1>9. f.what \notin Terminal
    BY <1>1 DEF Terminal
  <1>10. WellFormed(t) /\ Terminals(t) = {} /\ \A i \in DOMAIN s.frames : IsOpen(s, i) /\ IsShut(s, i) => IsShut(t, i)
    <2>1. t.frames = s.frames \o <<f>> /\ t.outputIndex \in Nat /\ t.outputIndex >= s.outputIndex
      BY <1>2, <1>4, <1>5
    <2> QED  BY <1>1, <1>7, <1>9, <2>1, FrameAdded
  <1>11. ASSUME NEW i \in DOMAIN t.frames, IsOpen(t, i)  PROVE IsShut(t, i) \/ IsCurrent(t, i)
    <2>1. CASE i = Len(s.frames) + 1
      BY <1>1, <1>5, <1>8, <2>1 DEF IsCurrent, Items
    <2>2. CASE i \in 1 .. Len(s.frames)
      BY <1>7, <1>8, <1>10, <1>11, <2>2 DEF Itemised, IsCurrent, IsOpen
    <2> QED  BY <1>8, <2>1, <2>2
  <1> QED  BY <1>5, <1>6, <1>7, <1>10, <1>11 DEF Untold, Itemised, t

LEMMA DeltaShape ==
  ASSUME NEW s, StreamTyped(s), ~s.closed, Untold(s), ~s.compaction, NEW item \in Items
  PROVE  Untold(Delta(s, item))
  <1> DEFINE c == Close(s)
             o == IF s.open = item THEN s ELSE Open(c, item)
             f == [what |-> "delta", item |-> item, index |-> o.outputIndex]
             t == Delta(s, item)
  <1>1. Framed(s, c) /\ c.open = "none" /\ Untold(c)
    BY CloseFrames, CloseShape
  <1>2. StreamTyped(c) /\ ~c.closed /\ ~c.compaction
    BY <1>1 DEF Framed
  <1>3. Untold(Open(c, item)) /\ Framed(c, Open(c, item)) /\ Open(c, item).open = item
    BY <1>1, <1>2, OpenShape
  <1>4. Untold(o) /\ StreamTyped(o) /\ ~o.closed /\ ~o.compaction /\ o.open = item
    BY <1>2, <1>3 DEF Framed
  <1> HIDE DEF o
  <1>5. f \in Frame /\ f.what = "delta"
    BY <1>4 DEF StreamTyped, StreamRecord, Frame
  <1>6. t = Emit(o, <<f>>)
    BY DEF Delta, o
  <1> HIDE DEF f, t
  <1>7. t.frames = o.frames \o <<f>> /\ Framed(o, t) /\ t.open = o.open /\ t.outputIndex = o.outputIndex
        /\ t.terminated = o.terminated /\ t.remembered = o.remembered
    BY <1>4, <1>5, <1>6, EmitOne
  <1>8. Terminals(o) = {} /\ WellFormed(o) /\ Itemised(o) /\ ~o.terminated /\ ~o.remembered /\ o.outputIndex \in Nat
    BY <1>4 DEF Untold, StreamTyped, StreamRecord
  <1>9. f.what \notin Terminal \cup {"open"}
    BY <1>5 DEF Terminal
  <1>10. WellFormed(t) /\ Terminals(t) = {} /\ \A i \in DOMAIN o.frames : IsOpen(o, i) /\ IsShut(o, i) => IsShut(t, i)
    BY <1>4, <1>5, <1>7, <1>8, <1>9, FrameAdded
  <1>11. /\ DOMAIN o.frames = 1 .. Len(o.frames) /\ DOMAIN t.frames = 1 .. (Len(o.frames) + 1) /\ Len(o.frames) \in Nat
         /\ t.frames[Len(o.frames) + 1] = f /\ \A i \in 1 .. Len(o.frames) : t.frames[i] = o.frames[i]
    BY <1>4, <1>5, <1>7, OneMore DEF StreamTyped, StreamRecord
  <1>12. ASSUME NEW i \in DOMAIN t.frames, IsOpen(t, i)  PROVE IsShut(t, i) \/ IsCurrent(t, i)
    <2>1. i \in 1 .. Len(o.frames) /\ IsOpen(o, i)
      BY <1>9, <1>11, <1>12 DEF IsOpen
    <2> QED  BY <1>7, <1>8, <1>10, <1>11, <2>1 DEF Itemised, IsCurrent
  <1> QED  BY <1>4, <1>7, <1>8, <1>10, <1>12 DEF Untold, Itemised, Framed, t

\* The terminal event comes when no item is open.
LEMMA EndsShape ==
  ASSUME NEW s, StreamTyped(s), ~s.closed, Terminals(s) = {}, WellFormed(s), Itemised(s), s.open = "none",
         NEW status \in Terminal
  PROVE  LET t == Ends(s, status) IN
           /\ t.terminated /\ WellFormed(t) /\ Outcome(t) = status /\ Len(t.frames) = Len(s.frames) + 1
           /\ t.remembered = s.remembered /\ t.compaction = s.compaction /\ t \in StreamRecord
  <1> DEFINE f == [what |-> status]
             e == Emit(s, <<f>>)
             t == Ends(s, status)
  <1>1. f \in Frame /\ f.what = status
    BY DEF Frame
  <1>2. e.frames = s.frames \o <<f>> /\ Framed(s, e) /\ e.outputIndex = s.outputIndex /\ e.remembered = s.remembered
    BY <1>1, EmitOne
  <1>3. t = [e EXCEPT !.terminated = TRUE]
    BY DEF Ends
  <1>4. e \in StreamRecord /\ s.outputIndex \in Nat
    BY <1>2 DEF Framed, StreamTyped, StreamRecord
  <1> HIDE DEF e, f, t
  <1>5. t.frames = e.frames /\ t.outputIndex = s.outputIndex /\ t.terminated /\ t.remembered = s.remembered
        /\ t.compaction = s.compaction /\ t \in StreamRecord
    BY <1>2, <1>3, <1>4 DEF Framed, StreamRecord
  <1>6. status # "open" /\ f.what \in Terminal
    BY <1>1 DEF Terminal
  <1>7. WellFormed(t) /\ Terminals(t) = {Len(t.frames)}
    BY <1>1, <1>2, <1>4, <1>5, <1>6, FrameAdded
  <1>8. Len(t.frames) = Len(s.frames) + 1 /\ t.frames[Len(t.frames)] = f
    BY <1>1, <1>2, <1>5, OneMore DEF StreamTyped, StreamRecord
  <1> QED  BY <1>1, <1>5, <1>7, <1>8 DEF Outcome, t

LEMMA FinishShape ==
  ASSUME NEW s, StreamTyped(s), ~s.closed, Untold(s), NEW status \in Terminal, status # "completed"
  PROVE  Told(Finish(s, status))
  <1> DEFINE c == Close(s)
  <1>1. Framed(s, c) /\ c.open = "none" /\ Untold(c)
    BY CloseFrames, CloseShape
  <1>2. StreamTyped(c) /\ ~c.closed /\ Terminals(c) = {} /\ WellFormed(c) /\ Itemised(c) /\ ~c.remembered
    BY <1>1 DEF Framed, Untold
  <1> HIDE DEF c
  <1>3. LET t == Ends(c, status) IN
           t.terminated /\ WellFormed(t) /\ Outcome(t) = status /\ t.remembered = c.remembered
    BY <1>1, <1>2, EndsShape
  <1>4. Finish(s, status) = Ends(c, status)
    BY DEF Finish, c
  <1> QED  BY <1>2, <1>3, <1>4 DEF Told

LEMMA CompletesShape ==
  ASSUME NEW s, StreamTyped(s), ~s.closed, Untold(s)
  PROVE  Told(Completes(s))
  <1> DEFINE c == Close(s)
  <1>1. Framed(s, c) /\ c.open = "none" /\ Untold(c) /\ (s.compaction => c = s)
    BY CloseFrames, CloseShape
  <1>2. StreamTyped(c) /\ ~c.closed /\ Terminals(c) = {} /\ WellFormed(c) /\ Itemised(c) /\ ~c.remembered
        /\ c.compaction = s.compaction /\ "completed" \in Terminal
    BY <1>1 DEF Framed, Untold, Terminal
  <1>3. CASE ~s.compaction
    <2> DEFINE e == Ends(c, "completed")
               t == Completes(s)
    <2>1. t = [e EXCEPT !.remembered = TRUE]
      BY <1>3 DEF Completes
    <2>2. WellFormed(e) /\ Outcome(e) = "completed" /\ e.terminated /\ e.compaction = c.compaction /\ e \in StreamRecord
      BY <1>1, <1>2, EndsShape
    <2> HIDE DEF c, e, t
    <2>3. t.frames = e.frames /\ t.terminated /\ ~t.compaction
      BY <1>2, <1>3, <2>1, <2>2 DEF StreamRecord
    <2>4. WellFormed(t) /\ Outcome(t) = "completed"
      BY <2>2, <2>3 DEF WellFormed, Outcome, Terminals, IsOpen
    <2> QED  BY <2>3, <2>4 DEF Told, t
  <1>4. CASE s.compaction
    <2> DEFINE f == [what |-> "compaction", index |-> c.outputIndex]
               e == Emit(c, <<f>>)
               i == [e EXCEPT !.outputIndex = @ + 1]
               t == Completes(s)
    <2>1. f \in Frame /\ f.what = "compaction"
      BY <1>2 DEF StreamTyped, StreamRecord, Frame
    <2>2. t = Ends(i, "completed")
      BY <1>4 DEF Completes
    <2>3. e.frames = c.frames \o <<f>> /\ Framed(c, e) /\ e.open = c.open /\ e.outputIndex = c.outputIndex
          /\ e.remembered = c.remembered
      BY <1>2, <2>1, EmitOne
    <2> HIDE DEF e
    <2>4. e \in StreamRecord /\ e.outputIndex \in Nat /\ i = [e EXCEPT !.outputIndex = e.outputIndex + 1]
      BY <2>3 DEF Framed, StreamTyped, StreamRecord
    <2> HIDE DEF c, f, i, t
    <2>5. i.frames = e.frames /\ i.open = "none" /\ ~i.closed /\ ~i.remembered /\ StreamTyped(i)
          /\ i.outputIndex \in Nat /\ i.outputIndex >= c.outputIndex /\ c.outputIndex \in Nat
      <3>1. i.frames = e.frames /\ i.open = e.open /\ i.closed = e.closed /\ i.remembered = e.remembered
            /\ i.outputIndex = e.outputIndex + 1 /\ i.queue = e.queue /\ i \in StreamRecord
        <4> DEFINE next == e.outputIndex + 1
        <4>1. next \in Nat /\ i = [e EXCEPT !.outputIndex = next]
          BY <2>4
        <4> HIDE DEF next
        <4>2. i.outputIndex = next /\ i \in StreamRecord
          BY <2>4, <4>1 DEF StreamRecord
        <4>3. i.frames = e.frames /\ i.open = e.open /\ i.closed = e.closed /\ i.remembered = e.remembered /\ i.queue = e.queue
          BY <2>4, <4>1 DEF StreamRecord
        <4> QED  BY <4>2, <4>3 DEF next
      <3>2. e.closed = c.closed /\ StreamTyped(e)
        BY <2>3 DEF Framed
      <3>3. StreamTyped(i)
        BY <3>1, <3>2 DEF StreamTyped
      <3> QED  BY <1>1, <1>2, <2>3, <2>4, <3>1, <3>2, <3>3
    <2>6. c.frames = <<>>
      BY <1>1, <1>4 DEF Untold
    <2>7. Len(i.frames) = 1 /\ DOMAIN i.frames = 1 .. 1 /\ i.frames[1] = f
      BY <2>3, <2>5, <2>6
    <2>8. Terminals(i) = {} /\ WellFormed(i) /\ Itemised(i)
      BY <2>1, <2>7 DEF Terminals, WellFormed, Itemised, IsOpen, Terminal
    <2>9. t.terminated /\ WellFormed(t) /\ Outcome(t) = "completed" /\ Len(t.frames) = Len(i.frames) + 1
          /\ t.remembered = i.remembered
      BY <1>2, <2>2, <2>5, <2>8, EndsShape
    <2> QED  BY <2>5, <2>7, <2>9 DEF Told, t
  <1> QED  BY <1>3, <1>4

LEMMA HandleShape ==
  ASSUME NEW s, StreamTyped(s), ~s.closed, Untold(s), NEW e \in Events
  PROVE  Untold(Handle(s, e)) \/ Told(Handle(s, e))
  <1>1. Untold(Close(s)) /\ StreamTyped(Close(s)) /\ ~Close(s).closed /\ Close(s).compaction = s.compaction
    BY CloseShape, CloseFrames DEF Framed
  <1>2. Told(Completes(s)) /\ Told(Finish(s, "failed"))
    BY CompletesShape, FinishShape DEF Terminal
  <1>3. CASE s.compaction
    <2>1. CASE e \in {"boundary", "think", "text", "call", "callEnd"}
      <3>1. Handle(s, e) = s
        BY <1>3, <2>1 DEF Handle
      <3> QED  BY <3>1
    <2>2. CASE e \in {"doneTools", "doneStop"}
      BY <1>2, <1>3, <2>2 DEF Handle
    <2>3. CASE e = "error"
      BY <1>2, <1>3, <2>3 DEF Handle
    <2> QED  BY <2>1, <2>2, <2>3 DEF Events
  <1>4. CASE ~s.compaction
    <2>1. Untold(Delta(s, "message")) /\ Untold(Delta(s, "reasoning"))
      BY <1>4, DeltaShape DEF Items
    <2>2. Untold(Delta(Close(s), "tool"))
      BY <1>1, <1>4, DeltaShape DEF Items
    <2> QED  BY <1>1, <1>2, <1>4, <2>1, <2>2 DEF Handle, Events
  <1> QED  BY <1>3, <1>4

LEMMA StepShape ==
  ASSUME NEW s, StreamTyped(s), CanStep(s), Shaped(s)
  PROVE  Shaped(Step(s))
  <1> DEFINE t == [s EXCEPT !.queue = Tail(s.queue)]
             h == Handle(t, Head(s.queue))
             framed == h.frames # s.frames \/ h.terminated
             n == Step(s)
  <1>1. Head(s.queue) \in Events /\ Tail(s.queue) \in Seq(Events) /\ Len(Tail(s.queue)) <= MaxBuffered + 1
    BY StreamAssumption DEF StreamTyped, StreamRecord, CanStep
  <1>2. StreamTyped(t) /\ ~t.closed /\ SameShape(s, t)
    BY <1>1 DEF StreamTyped, StreamRecord, CanStep, SameShape
  <1>3. Untold(t)
    BY <1>2, ShapeIsKept DEF Shaped, CanStep
  <1>4. (Untold(h) \/ Told(h)) /\ Framed(t, h)
    BY <1>1, <1>2, <1>3, HandleShape, HandleFrames
  <1>5. n = [h EXCEPT !.stepping = ~framed, !.shut = h.shut \/ h.terminated, !.closed = h.terminated]
    BY DEF Step
  <1> HIDE DEF h, n, framed
  <1>6. h \in StreamRecord
    BY <1>4 DEF Framed, StreamTyped
  <1>7. SameShape(h, n) /\ n.closed = h.terminated
    BY <1>5, <1>6 DEF SameShape, StreamRecord
  <1> QED  BY <1>4, <1>7, ShapeIsKept DEF Shaped, Told, n

LEMMA EndShape ==
  ASSUME NEW s, StreamTyped(s), Shaped(s)
  PROVE  /\ ~s.closed => Shaped(Eof(s)) /\ Shaped(Stall(s))
         /\ Shaped(Cancel(s)) /\ Shaped(Pull(s))
  <1>1. ASSUME ~s.closed PROVE Shaped(Eof(s)) /\ Shaped(Stall(s))
    <2> DEFINE f == Finish(s, "incomplete")
    <2>1. Told(f) /\ Framed(s, f)
      BY <1>1, FinishShape, FinishFrames DEF Terminal, Shaped
    <2>2. Eof(s) = [f EXCEPT !.stepping = FALSE, !.closed = TRUE]
          /\ Stall(s) = [f EXCEPT !.stepping = FALSE, !.closed = TRUE, !.shut = TRUE]
      BY DEF Eof, Stall
    <2> HIDE DEF f
    <2>3. f \in StreamRecord
      BY <2>1 DEF Framed, StreamTyped
    <2>4. SameShape(f, Eof(s)) /\ SameShape(f, Stall(s)) /\ Eof(s).closed /\ Stall(s).closed
      BY <2>2, <2>3 DEF SameShape, StreamRecord
    <2> QED  BY <2>1, <2>4, ShapeIsKept DEF Shaped
  <1>2. SameShape(s, Cancel(s)) /\ Cancel(s).closed
    BY DEF SameShape, Cancel, StreamTyped, StreamRecord
  <1>3. SameShape(s, Pull(s)) /\ Pull(s).closed = s.closed
    BY DEF SameShape, Pull, StreamTyped, StreamRecord
  <1>4. Shaped(Cancel(s))
    BY <1>2, ShapeIsKept DEF Shaped
  <1>5. Shaped(Pull(s))
    BY <1>3, ShapeIsKept DEF Shaped
  <1> QED  BY <1>1, <1>4, <1>5

LEMMA PushShape ==
  ASSUME NEW s, StreamTyped(s), Shaped(s), NEW es \in Seq(Events)
  PROVE  Shaped(Push(s, es)) /\ Shaped(PushLast(s, es))
  <1>1. SameShape(s, Push(s, es)) /\ Push(s, es).closed = s.closed /\ Push(s, es) \in StreamRecord
    BY PushTyped DEF SameShape, Push, StreamTyped, StreamRecord
  <1>2. SameShape(s, PushLast(s, es)) /\ PushLast(s, es).closed = s.closed
    BY <1>1 DEF SameShape, PushLast, StreamRecord
  <1> QED  BY <1>1, <1>2, ShapeIsKept DEF Shaped

LEMMA BodyShape ==
  ASSUME NEW s, StreamTyped(s)
  PROVE  Shaped(Build(s)) /\ (s.compaction => Shaped(Compaction(Build(s))))
  <1> DEFINE es == s.queue
             failed == \E i \in DOMAIN es : es[i] = "error"
             status == IF failed THEN "failed" ELSE "completed"
             done == s.compaction /\ ~failed
             item == [what |-> "compaction", index |-> 0]
             fs == (IF done THEN <<item>> ELSE <<>>) \o <<[what |-> status]>>
             remembered == ~s.compaction /\ ~failed
             b == Build(s)
  <1>1. b = [s EXCEPT !.queue = <<>>, !.closed = TRUE, !.terminated = TRUE, !.remembered = remembered, !.frames = fs]
    BY DEF Build
  <1>2. /\ done => Len(fs) = 2 /\ fs[1].what = "compaction" /\ fs[2].what = status
        /\ ~done => Len(fs) = 1 /\ fs[1].what = status
        /\ DOMAIN fs = 1 .. Len(fs) /\ fs[Len(fs)].what = status
    <2> HIDE DEF failed, status
    <2> DEFINE last == [what |-> status]
    <2>0. <<item>> \in Seq(Frame) /\ <<>> \in Seq(Frame) /\ last \in Frame
      BY DEF status, Frame, Terminal
    <2> HIDE DEF last, item, done
    <2>1. CASE done
      <3>1. fs = <<item>> \o <<last>>
        BY <2>1 DEF last
      <3> QED  BY <2>0, <2>1, <3>1, OneMore DEF item, last
    <2>2. CASE ~done
      <3>1. fs = <<>> \o <<last>>
        BY <2>2 DEF last
      <3> QED  BY <2>0, <2>2, <3>1, OneMore DEF last
    <2> QED  BY <2>1, <2>2
  <1>3. status \in {"failed", "completed"} /\ (status = "completed" <=> ~failed)
    OBVIOUS
  <1> HIDE DEF fs, status, b, remembered
  <1>4. b.frames = fs /\ b.terminated /\ b.closed /\ b.compaction = s.compaction /\ b.remembered = remembered
        /\ b \in [DOMAIN s -> {b[k] : k \in DOMAIN s}]
    BY <1>1 DEF StreamTyped, StreamRecord
  <1>5. Terminals(b) = {Len(fs)} /\ \A i \in DOMAIN fs : ~IsOpen(b, i)
    BY <1>2, <1>3, <1>4 DEF Terminals, IsOpen, Terminal
  <1>6. WellFormed(b) /\ Outcome(b) = status
    BY <1>2, <1>4, <1>5 DEF WellFormed, Outcome
  <1>7. Told(b)
    BY <1>2, <1>3, <1>4, <1>6 DEF Told, remembered
  <1>8. ASSUME s.compaction PROVE Shaped(Compaction(b))
    <2> DEFINE c == [b EXCEPT !.frames = <<[what |-> "failed"]>>]
    <2>1. Compaction(b) = b \/ Compaction(b) = c
      BY DEF Compaction
    <2>2. c.frames = <<[what |-> "failed"]>> /\ c.terminated /\ c.closed /\ ~c.remembered
      BY <1>1, <1>4, <1>8 DEF remembered, StreamTyped, StreamRecord
    <2> HIDE DEF c
    <2>3. Len(c.frames) = 1 /\ DOMAIN c.frames = {1} /\ c.frames[1].what = "failed"
      BY <2>2
    <2>4. Terminals(c) = {1} /\ ~IsOpen(c, 1)
      BY <2>3 DEF Terminals, Terminal, IsOpen
    <2>5. WellFormed(c) /\ Outcome(c) = "failed"
      BY <2>3, <2>4 DEF WellFormed, Outcome
    <2>6. Told(c)
      BY <2>2, <2>5 DEF Told
    <2> QED  BY <1>4, <1>7, <2>1, <2>2, <2>6 DEF Shaped
  <1> QED  BY <1>4, <1>7, <1>8 DEF Shaped, b

-----------------------------------------------------------------------------
(* Every step keeps the shape of every response.                            *)

ShapeInv == IInv /\ \A r \in Requests : Shaped(stream[r])

\* A step of one request.
LEMMA ShapeOfOne ==
  ASSUME ShapeInv, NEW r \in Requests, NEW s, Shaped(s), stream' = [stream EXCEPT ![r] = s]
  PROVE  \A x \in Requests : Shaped(stream'[x])
  BY DEF ShapeInv, IInv, Typed

LEMMA PushedShape ==
  ASSUME ShapeInv, NEW r \in Requests, NEW es \in Seq(Events)
  PROVE  Shaped(Push(stream[r], es)) /\ Shaped(PushLast(stream[r], es))
  BY PushShape DEF ShapeInv, IInv, Typed

LEMMA OverShape ==
  ASSUME ShapeInv, NEW r \in Requests, NEW es \in Seq(Events), NEW s, NEW b, Over(r, es, s, b)
  PROVE  \A x \in Requests : Shaped(stream'[x])
  BY PushedShape, ShapeOfOne DEF Over

LEMMA CatchShape ==
  ASSUME ShapeInv, NEW r \in Requests, NEW why, Catch(r, why)
  PROVE  \A x \in Requests : Shaped(stream'[x])
  <1>1. <<"error">> \in Seq(Events)
    BY DEF Events
  <1>2. PICK s, b : Over(r, <<"error">>, s, b)
    BY DEF Catch
  <1> QED  BY <1>1, <1>2, OverShape

LEMMA ConcludesShape ==
  ASSUME ShapeInv, NEW r \in Requests, NEW es \in Seq(Events), NEW s, NEW b, Concludes(r, es, s, b)
  PROVE  \A x \in Requests : Shaped(stream'[x])
  BY OverShape DEF Concludes

LEMMA SendsShape ==
  ASSUME ShapeInv, NEW r \in Requests, NEW es \in Seq(Events), NEW s, Sends(r, es, s)
  PROVE  \A x \in Requests : Shaped(stream'[x])
  <1>1. CASE Fits(stream[r], es)
    BY <1>1, PushedShape, ShapeOfOne DEF Sends
  <1>2. CASE ~Fits(stream[r], es)
    BY <1>2, OverShape DEF Sends
  <1> QED  BY <1>1, <1>2

LEMMA UndrainedOf ==
  ASSUME IInv, NEW r \in Requests
  PROVE  /\ Undrained(S(r)) \in Seq(Events) /\ Undrained([S(r) EXCEPT !.trace = 0]) \in Seq(Events)
         /\ Call \in Seq(Events) /\ <<"doneStop">> \in Seq(Events) /\ <<"error">> \in Seq(Events)
  <1> DEFINE x == [S(r) EXCEPT !.trace = 0]
  <1>1. S(r) \in Session /\ S(r).trace \in Nat /\ S(r).text \in Nat
    BY RoundPlaces
  <1>2. x.trace \in Nat /\ x.text \in Nat
    BY <1>1 DEF Session
  <1> HIDE DEF x
  <1>3. Undrained(S(r)) \in Seq(Events) /\ Undrained(x) \in Seq(Events)
    BY <1>1, <1>2, UndrainedTyped
  <1> QED  BY <1>3 DEF x, Call, Events

LEMMA EntersShape ==
  ASSUME ShapeInv, NEW r \in Requests, Enters(r)
  PROVE  \A x \in Requests : Shaped(stream'[x])
  <1> DEFINE s == S(r)
             es == Undrained(s)
  <1>1. IInv /\ s.final \in Seq(Events) /\ es \in Seq(Events) /\ Call \in Seq(Events) /\ <<"doneStop">> \in Seq(Events)
    BY RoundPlaces, UndrainedOf DEF ShapeInv
  <1> HIDE DEF es
  <1>2. CASE s.outcome = "final"
    <2> DEFINE fs == IF s.final # <<>> THEN s.final ELSE es
    <2>1. Concludes(r, fs \o <<"doneStop">>, [Drained(s) EXCEPT !.final = fs], Cleared(T(r)))
      BY <1>2 DEF Enters, es
    <2>2. fs \o <<"doneStop">> \in Seq(Events)
      BY <1>1
    <2> HIDE DEF fs
    <2> QED  BY <2>1, <2>2, ConcludesShape
  <1>3. CASE s.outcome \notin {"none", "final"}
    BY <1>3, CatchShape DEF Enters
  <1>4. CASE s.outcome = "none" /\ req[r].aborted
    BY <1>4, CatchShape DEF Enters
  <1>5. CASE s.outcome = "none" /\ ~req[r].aborted /\ s.outstanding \notin {0, req[r].results}
    <2>1. Concludes(r, s.final \o Call, s, budget[T(r)])
      BY <1>5 DEF Enters
    <2>2. s.final \o Call \in Seq(Events)
      BY <1>1
    <2> QED  BY <2>1, <2>2, ConcludesShape
  <1>6. CASE s.outcome = "none" /\ ~req[r].aborted /\ s.outstanding \in {0, req[r].results}
    <2>1. \/ Over(r, es, Retire(s), Cleared(T(r)))
          \/ stream' = [stream EXCEPT ![r] = Push(@, es)]
      BY <1>6 DEF Enters, es
    <2> QED  BY <1>1, <2>1, OverShape, PushedShape, ShapeOfOne
  <1> QED  BY <1>2, <1>3, <1>4, <1>5, <1>6

LEMMA RoundShape ==
  ASSUME ShapeInv, NEW r \in Requests, Round(r)
  PROVE  \A x \in Requests : Shaped(stream'[x])
  <1> DEFINE es == Undrained(S(r))
  <1>1. /\ IInv /\ es \in Seq(Events) /\ Undrained([S(r) EXCEPT !.trace = 0]) \in Seq(Events)
        /\ Call \in Seq(Events) /\ <<"doneStop">> \in Seq(Events) /\ <<"error">> \in Seq(Events)
        /\ <<"boundary", "think">> \in Seq(Events) /\ <<"text", "doneStop">> \in Seq(Events)
    BY UndrainedOf DEF ShapeInv, Events
  <1>2. es \o Call \in Seq(Events) /\ es \o <<"doneStop">> \in Seq(Events)
    BY <1>1
  <1> HIDE DEF es
  <1>3. CASE GetsSession(r)
    <2>1. CASE S(r).tombstone
      BY <1>1, <1>3, <2>1, OverShape DEF GetsSession
    <2>2. CASE ~S(r).tombstone
      BY <1>3, <2>2 DEF GetsSession, ShapeInv
    <2> QED  BY <2>1, <2>2
  <1>4. CASE Enters(r)
    BY <1>4, EntersShape
  <1>5. CASE TakesTrace(r)
    BY <1>1, <1>5, SendsShape DEF TakesTrace
  <1>6. CASE TakesText(r)
    BY <1>1, <1>6, SendsShape DEF TakesText
  <1>7. CASE TakesBatch(r)
    <2>1. PICK s, b : Concludes(r, es \o Call, s, b)
      BY <1>7 DEF TakesBatch, es
    <2> QED  BY <1>2, <2>1, ConcludesShape
  <1>8. CASE TakesOutcome(r)
    <2>1. CASE S(r).outcome = "final"
      <3>1. PICK s, b : Concludes(r, es \o <<"doneStop">>, s, b)
        BY <1>8, <2>1 DEF TakesOutcome, es
      <3> QED  BY <1>2, <3>1, ConcludesShape
    <2>2. CASE S(r).outcome # "final"
      BY <1>8, <2>2, CatchShape DEF TakesOutcome
    <2> QED  BY <2>1, <2>2
  <1>9. CASE Aborts(r)
    BY <1>9, CatchShape DEF Aborts
  <1>10. CASE Compacted(r)
    BY <1>1, <1>10, OverShape DEF Compacted
  <1> QED  BY <1>3, <1>4, <1>5, <1>6, <1>7, <1>8, <1>9, <1>10 DEF Round

LEMMA BeginsShape ==
  ASSUME ShapeInv, NEW r \in Requests, Begins(r)
  PROVE  \A x \in Requests : Shaped(stream'[x])
  <1> DEFINE aborted == IF Kind(r) = "native" THEN req[r].aborted ELSE Bound(r)
             streams == Kind(r) \in {"stream", "compactStream"}
             refused == Exhausted(T(r)) /\ ~Compacts(r) /\ Kind(r) # "native"
             on      == streams
             stepping == streams /\ ~scenario.slow
             batch   == ~streams
             compaction == Compacts(r)
             new     == [NewStream EXCEPT !.on = on, !.stepping = stepping, !.batch = batch, !.compaction = compaction]
             started == IF refused THEN PushLast(new, <<"error">>) ELSE new
             s       == IF aborted /\ streams THEN Cancel(started) ELSE started
  <1>1. stream' = [stream EXCEPT ![r] = s]
    BY DEF Begins
  <1>2. on \in BOOLEAN /\ stepping \in BOOLEAN /\ batch \in BOOLEAN /\ compaction \in BOOLEAN /\ <<"error">> \in Seq(Events)
    BY DEF Compacts, Events
  <1> HIDE DEF aborted, refused, streams, on, stepping, batch, compaction
  <1>3. StreamTyped(new)
    BY <1>2, BegunTyped DEF Begun
  <1>4. new.frames = <<>> /\ ~new.terminated /\ ~new.remembered /\ new.open = "none"
    BY <1>2, NewTyped DEF NewStream
  <1> HIDE DEF new
  <1>5. Shaped(new)
    <2>1. DOMAIN new.frames = {}
      BY <1>4
    <2> QED  BY <1>4, <2>1 DEF Shaped, Untold, Terminals, WellFormed, Itemised
  <1>6. Shaped(started) /\ StreamTyped(started)
    BY <1>2, <1>3, <1>5, PushShape, PushTyped
  <1> HIDE DEF started
  <1>7. Shaped(s)
    BY <1>6, EndShape
  <1> QED  BY <1>1, <1>7, ShapeOfOne

LEMMA ReplyShape ==
  ASSUME ShapeInv, NEW r \in Requests, Reply(r) \/ Leave(r) \/ Stalls(r) \/ Post(r)
  PROVE  \A x \in Requests : Shaped(stream'[x])
  <1> DEFINE s == stream[r]
  <1>1. StreamTyped(s) /\ Shaped(s)
    BY DEF ShapeInv, IInv, Typed
  <1>2. CASE Rejects(r) \/ Ended(r) \/ Post(r)
    BY <1>2 DEF Rejects, Ended, Post, ShapeInv
  <1>3. CASE Begins(r)
    BY <1>3, BeginsShape
  <1>4. CASE Reads(r)
    BY <1>1, <1>4, EndShape, ShapeOfOne DEF Reads
  <1>5. CASE Steps(r)
    <2>1. CASE CanStep(s) /\ stream' = [stream EXCEPT ![r] = ReadOn(Step(@))]
      <3>1. Shaped(Step(s)) /\ StreamTyped(Step(s))
        BY <1>1, <2>1, StepShape, StepKeeps
      <3>2. Shaped(ReadOn(Step(s)))
        BY <3>1, EndShape DEF ReadOn
      <3> QED  BY <2>1, <3>2, ShapeOfOne
    <2>2. CASE CanEof(s) /\ stream' = [stream EXCEPT ![r] = Eof(@)]
      <3>1. Shaped(Eof(s))
        BY <1>1, <2>2, EndShape DEF CanEof
      <3> QED  BY <2>2, <3>1, ShapeOfOne
    <2> QED  BY <1>5, <2>1, <2>2 DEF Steps
  <1>6. CASE Stalls(r)
    <2>1. Shaped(Stall(s))
      BY <1>1, <1>6, EndShape DEF Stalls, CanStall
    <2> QED  BY <1>6, <2>1, ShapeOfOne DEF Stalls
  <1>7. CASE Answers(r)
    <2>1. CASE UNCHANGED stream
      BY <2>1 DEF ShapeInv
    <2>2. CASE ~UNCHANGED stream
      <3> DEFINE b == IF s.dropped THEN s ELSE IF s.compaction THEN Compaction(Build(s)) ELSE Build(s)
      <3>1. stream' = [stream EXCEPT ![r] = b]
        BY <1>7, <2>2 DEF Answers
      <3>2. Shaped(b)
        BY <1>1, BodyShape
      <3> HIDE DEF b
      <3> QED  BY <3>1, <3>2, ShapeOfOne
    <2> QED  BY <2>1, <2>2
  <1>8. CASE Leave(r)
    <2> DEFINE c == IF s.on /\ ~s.closed THEN Cancel(s) ELSE s
    <2>1. stream' = [stream EXCEPT ![r] = c]
      BY <1>8 DEF Leave
    <2>2. Shaped(c)
      BY <1>1, EndShape
    <2> HIDE DEF c
    <2> QED  BY <2>1, <2>2, ShapeOfOne
  <1> QED  BY <1>2, <1>3, <1>4, <1>5, <1>6, <1>7, <1>8 DEF Reply

LEMMA AbortedShape ==
  ASSUME ShapeInv, NEW rs, Aborted(rs)
  PROVE  \A x \in Requests : Shaped(stream'[x])
  <1>1. ASSUME NEW x \in Requests PROVE Shaped(stream'[x])
    <2>1. stream'[x] = Cancel(stream[x]) \/ stream'[x] = stream[x]
      BY DEF Aborted
    <2>2. StreamTyped(stream[x]) /\ Shaped(stream[x])
      BY DEF ShapeInv, IInv, Typed
    <2> QED  BY <2>1, <2>2, EndShape
  <1> QED  BY <1>1

LEMMA ShapeHolds == ShapeInv /\ [Next]_vars => ShapeInv'
  <1> SUFFICES ASSUME ShapeInv, [Next]_vars PROVE ShapeInv'
    OBVIOUS
  <1>1. IInv'
    BY NextHolds DEF ShapeInv
  <1>2. \A x \in Requests : Shaped(stream'[x])
    <2>1. ASSUME NEW r \in Requests, Post(r) \/ Leave(r) \/ Stalls(r) \/ Reply(r)
          PROVE  \A x \in Requests : Shaped(stream'[x])
      BY <2>1, ReplyShape
    <2>2. ASSUME NEW r \in Requests, Round(r)
          PROVE  \A x \in Requests : Shaped(stream'[x])
      BY <2>2, RoundShape
    <2>3. ASSUME NEW t \in Turns, Interrupt(t) \/ CancelTrace(t) \/ PageActs(t) \/ PageGone(t)
          PROVE  \A x \in Requests : Shaped(stream'[x])
      BY <2>3, AbortedShape DEF Interrupt, CancelTrace, PageActs, PageGone, ShapeInv
    <2>4. CASE CancelTurns \/ Drain \/ Resume \/ Shutdown \/ ShutsDown
      BY <2>4, AbortedShape DEF CancelTurns, Drain, Resume, Shutdown, ShutsDown, ShapeInv
    <2>5. CASE UNCHANGED vars
      BY <2>5 DEF vars, ShapeInv
    <2> QED  BY <2>1, <2>2, <2>3, <2>4, <2>5 DEF Next, Reply, Round
  <1> QED  BY <1>1, <1>2 DEF ShapeInv, Requests, Shaped, Untold, Told, Terminals, WellFormed, Itemised, IsShut, IsCurrent, IsOpen, Outcome

LEMMA ShapeInit == Init => ShapeInv
  <1> SUFFICES ASSUME Init PROVE ShapeInv
    OBVIOUS
  <1>1. DOMAIN NewStream.frames = {} /\ NewStream.frames = <<>> /\ ~NewStream.terminated /\ ~NewStream.remembered
        /\ NewStream.open = "none"
    BY DEF NewStream
  <1>2. Shaped(NewStream)
    BY <1>1 DEF Shaped, Untold, Terminals, WellFormed, Itemised
  <1> QED  BY <1>2, InitHolds DEF ShapeInv, Init

LEMMA ShapedIsFormed ==
  ASSUME ShapeInv, NEW r \in Requests
  PROVE  WellFormed(stream[r]) /\ CompactionIsOneItem(r) /\ RememberedIsComplete(r)
  <1>1. CASE Untold(stream[r])
    BY <1>1 DEF Untold, CompactionIsOneItem, RememberedIsComplete, Outcome
  <1>2. CASE Told(stream[r])
    BY <1>2 DEF Told, CompactionIsOneItem, RememberedIsComplete
  <1> QED  BY <1>1, <1>2 DEF ShapeInv, Shaped

\* What Codex is sent is well formed, whatever the page, the launcher and the clients do: at most
\* one terminal event, after everything else, and each item closed before the next is opened and
\* before the end; a compaction that completes is its one item; and Codex may continue only from
\* a response that it was told is complete (bridgeToResponsesSSE, buildResponseJSON).
THEOREM ResponsesAreFormed == Spec => [](\A r \in Requests : WellFormed(stream[r]) /\ CompactionIsOneItem(r) /\ RememberedIsComplete(r))
  <1>1. ShapeInv => \A r \in Requests : WellFormed(stream[r]) /\ CompactionIsOneItem(r) /\ RememberedIsComplete(r)
    BY ShapedIsFormed
  <1> QED  BY <1>1, ShapeInit, ShapeHolds, PTL DEF Spec

-----------------------------------------------------------------------------
(* Counting.                                                                *)

\* How many of es are in X.
Count(es, X) == Cardinality({i \in DOMAIN es : es[i] \in X})

LEMMA PartIsFinite ==
  ASSUME NEW n \in Nat, NEW X \in SUBSET (1 .. n)
  PROVE  IsFiniteSet(X) /\ Cardinality(X) \in Nat
  <1>1. IsFiniteSet(1 .. n)
    BY FS_Interval
  <1>2. IsFiniteSet(X)
    BY <1>1, FS_Subset
  <1> QED  BY <1>2, FS_CardinalityType

\* What is counted may be numbered otherwise.
LEMMA Moved ==
  ASSUME NEW n \in Nat, NEW X \in SUBSET (1 .. n), NEW k \in Nat
  PROVE  IsFiniteSet({i + k : i \in X}) /\ Cardinality({i + k : i \in X}) = Cardinality(X)
  <1> DEFINE B == {i + k : i \in X}
             f == [i \in X |-> i + k]
  <1>1. IsFiniteSet(X)
    BY PartIsFinite
  <1>2. f \in Bijection(X, B)
    BY DEF Bijection, Injection, Surjection, IsInjective
  <1>3. ExistsBijection(X, B)
    BY <1>2 DEF ExistsBijection
  <1> HIDE DEF B
  <1>4. IsFiniteSet(B) /\ Cardinality(B) = Cardinality(X)
    BY <1>1, <1>3, FS_Bijection
  <1> QED  BY <1>4 DEF B

LEMMA CountTyped ==
  ASSUME NEW A, NEW es \in Seq(A), NEW X
  PROVE  Count(es, X) \in Nat
  <1>1. {i \in DOMAIN es : es[i] \in X} \in SUBSET (1 .. Len(es)) /\ Len(es) \in Nat
    OBVIOUS
  <1> QED  BY <1>1, PartIsFinite DEF Count

\* Of two sequences, one after the other, as many as of each.
LEMMA CountOfBoth ==
  ASSUME NEW A, NEW es \in Seq(A), NEW fs \in Seq(A), NEW X
  PROVE  Count(es \o fs, X) = Count(es, X) + Count(fs, X)
  <1> DEFINE k == Len(es)
             E == {i \in DOMAIN es : es[i] \in X}
             F == {i \in DOMAIN fs : fs[i] \in X}
             M == {i + k : i \in F}
             B == {i \in DOMAIN (es \o fs) : (es \o fs)[i] \in X}
  <1>1. /\ k \in Nat /\ Len(fs) \in Nat /\ E \in SUBSET (1 .. k) /\ F \in SUBSET (1 .. Len(fs))
        /\ es \o fs \in Seq(A) /\ Len(es \o fs) = k + Len(fs) /\ DOMAIN (es \o fs) = 1 .. (k + Len(fs))
        /\ \A i \in 1 .. (k + Len(fs)) : (es \o fs)[i] = (IF i <= k THEN es[i] ELSE fs[i - k])
    OBVIOUS
  <1>2. B = E \cup M
    <2>1. ASSUME NEW i \in B PROVE i \in E \cup M
      <3>1. CASE i <= k
        BY <1>1, <3>1
      <3>2. CASE i > k
        <4>1. i - k \in 1 .. Len(fs) /\ fs[i - k] \in X
          BY <1>1, <3>2
        <4>2. i - k \in F /\ i = (i - k) + k
          BY <1>1, <4>1
        <4> QED  BY <4>2
      <3> QED  BY <1>1, <3>1, <3>2
    <2>2. ASSUME NEW i \in E PROVE i \in B
      BY <1>1
    <2>3. ASSUME NEW j \in F PROVE j + k \in B
      <3>1. j \in 1 .. Len(fs) /\ fs[j] \in X
        BY <1>1
      <3>2. j + k \in 1 .. (k + Len(fs)) /\ ~(j + k <= k) /\ (j + k) - k = j
        BY <1>1, <3>1
      <3> QED  BY <1>1, <3>1, <3>2
    <2> QED  BY <2>1, <2>2, <2>3
  <1>3. E \cap M = {}
    BY <1>1
  <1>4. IsFiniteSet(E) /\ IsFiniteSet(F) /\ Cardinality(E) \in Nat /\ Cardinality(F) \in Nat
    BY <1>1, PartIsFinite
  <1>5. IsFiniteSet(M) /\ Cardinality(M) = Cardinality(F)
    BY <1>1, Moved
  <1> HIDE DEF E, F, M, B, k
  <1>6. Cardinality(E \cup M) = Cardinality(E) + Cardinality(M) - Cardinality(E \cap M)
    BY <1>4, <1>5, FS_Union
  <1>7. Cardinality(E \cap M) = 0
    BY <1>3, FS_EmptySet
  <1>8. Cardinality(B) = Cardinality(E) + Cardinality(F)
    BY <1>2, <1>4, <1>5, <1>6, <1>7
  <1> QED  BY <1>8 DEF Count, E, F, B

LEMMA CountOfNo ==
  ASSUME NEW es, NEW X, \A i \in DOMAIN es : es[i] \notin X
  PROVE  Count(es, X) = 0
  <1>1. {i \in DOMAIN es : es[i] \in X} = {}
    OBVIOUS
  <1> QED  BY <1>1, FS_EmptySet DEF Count

LEMMA CountOfNone == \A X : Count(<<>>, X) = 0
  BY CountOfNo

LEMMA CountOfOne ==
  ASSUME NEW e, NEW X
  PROVE  Count(<<e>>, X) = IF e \in X THEN 1 ELSE 0
  <1>1. DOMAIN <<e>> = {1} /\ <<e>>[1] = e
    OBVIOUS
  <1>2. {i \in DOMAIN <<e>> : <<e>>[i] \in X} = (IF e \in X THEN {1} ELSE {})
    BY <1>1
  <1> QED  BY <1>2, FS_EmptySet, FS_Singleton DEF Count

LEMMA CountOfRest ==
  ASSUME NEW A, NEW es \in Seq(A), es # <<>>, NEW X
  PROVE  /\ Count(es, X) = (IF Head(es) \in X THEN 1 ELSE 0) + Count(Tail(es), X)
         /\ Count(Tail(es), X) \in Nat
  <1>1. Head(es) \in A /\ Tail(es) \in Seq(A) /\ es = <<Head(es)>> \o Tail(es) /\ <<Head(es)>> \in Seq(A)
    OBVIOUS
  <1>2. Count(<<Head(es)>> \o Tail(es), X) = Count(<<Head(es)>>, X) + Count(Tail(es), X)
    BY <1>1, CountOfBoth
  <1> QED  BY <1>1, <1>2, CountOfOne, CountTyped

LEMMA CountOfMore ==
  ASSUME NEW A, NEW es \in Seq(A), NEW e \in A, NEW X
  PROVE  Count(es \o <<e>>, X) = Count(es, X) + (IF e \in X THEN 1 ELSE 0)
  <1>1. <<e>> \in Seq(A)
    OBVIOUS
  <1>2. Count(es \o <<e>>, X) = Count(es, X) + Count(<<e>>, X)
    BY <1>1, CountOfBoth
  <1> QED  BY <1>2, CountOfOne

LEMMA CountOfAll ==
  ASSUME NEW n \in Nat, NEW e
  PROVE  Count([i \in 1 .. n |-> e], {e}) = n
  <1>1. {i \in DOMAIN [j \in 1 .. n |-> e] : [j \in 1 .. n |-> e][i] \in {e}} = 1 .. n
    OBVIOUS
  <1>2. Cardinality(1 .. n) = n
    BY FS_Interval
  <1> QED  BY <1>1, <1>2 DEF Count

\* Every second of 2 * n.
Alternates(es, n, e) == DOMAIN es = 1 .. 2 * n /\ \A i \in 1 .. 2 * n : es[i] = e <=> i % 2 = 0

LEMMA CountOfEven ==
  ASSUME NEW n \in Nat, NEW es, NEW e, Alternates(es, n, e)
  PROVE  Count(es, {e}) = n
  <1> DEFINE N == 1 .. n
             E == {i \in DOMAIN es : es[i] \in {e}}
             f == [j \in N |-> 2 * j]
  <1>1. \A i \in 1 .. 2 * n : i \in E <=> i % 2 = 0
    BY DEF Alternates
  <1>2. E \in SUBSET (1 .. 2 * n)
    BY DEF Alternates
  <1> HIDE DEF E
  <1>3. \A j \in N : 2 * j \in E
    BY <1>1
  <1>4. \A i \in E : i \div 2 \in N /\ 2 * (i \div 2) = i
    BY <1>1, <1>2
  <1>5. f \in Bijection(N, E)
    BY <1>3, <1>4 DEF Bijection, Injection, Surjection, IsInjective
  <1>6. ExistsBijection(N, E)
    BY <1>5 DEF ExistsBijection
  <1> HIDE DEF N
  <1>7. Cardinality(E) = Cardinality(N)
    <2>1. IsFiniteSet(N)
      BY FS_Interval DEF N
    <2> QED  BY <1>6, <2>1, FS_Bijection
  <1>8. Cardinality(N) = n
    BY FS_Interval DEF N
  <1> QED  BY <1>7, <1>8 DEF Count, E

-----------------------------------------------------------------------------
(* The page of a turn: what it wrote, and after which batch of calls.       *)

\* How many batches of calls the page made in its first k acts, and how often it did what in them
\* after the n-th batch.
Turned(page, k)         == Cardinality({j \in 1 .. k : page[j] = "tools"})
Wrote(page, what, k, n) == Cardinality({i \in 1 .. k : page[i] = what /\ Turned(page, i) = n})

\* What is true of the next number counts one more.
LEMMA OneFurther ==
  ASSUME NEW k \in Nat, NEW P \in SUBSET (1 .. k), NEW Q \in SUBSET (1 .. k + 1),
         \A i \in 1 .. k : i \in Q <=> i \in P
  PROVE  /\ Cardinality(P) \in Nat /\ Cardinality(Q) \in Nat
         /\ Cardinality(Q) = Cardinality(P) + (IF k + 1 \in Q THEN 1 ELSE 0)
  <1>1. (k + 1 \in Q => Q = P \cup {k + 1}) /\ (k + 1 \notin Q => Q = P) /\ k + 1 \notin P
    <2>1. \A i \in 1 .. k + 1 : i \in 1 .. k \/ i = k + 1
      OBVIOUS
    <2>2. k + 1 \notin 1 .. k
      OBVIOUS
    <2> QED  BY <2>1, <2>2
  <1>2. IsFiniteSet(P) /\ Cardinality(P) \in Nat
    BY PartIsFinite
  <1>3. Cardinality(P \cup {k + 1}) = Cardinality(P) + 1
    BY <1>1, <1>2, FS_AddElement
  <1> QED  BY <1>1, <1>2, <1>3

LEMMA TurnedFurther ==
  ASSUME NEW page, NEW k \in Nat
  PROVE  /\ Turned(page, k) \in Nat /\ Turned(page, 0) = 0
         /\ Turned(page, k + 1) = Turned(page, k) + (IF page[k + 1] = "tools" THEN 1 ELSE 0)
  <1> DEFINE P == {j \in 1 .. k : page[j] = "tools"}
             Q == {j \in 1 .. (k + 1) : page[j] = "tools"}
  <1>1. P \in SUBSET (1 .. k) /\ Q \in SUBSET (1 .. k + 1) /\ (k + 1 \in Q <=> page[k + 1] = "tools")
        /\ \A i \in 1 .. k : i \in Q <=> i \in P
    OBVIOUS
  <1>2. {j \in 1 .. 0 : page[j] = "tools"} = {}
    OBVIOUS
  <1> HIDE DEF P, Q
  <1>3. /\ Cardinality(P) \in Nat /\ Cardinality(Q) = Cardinality(P) + (IF k + 1 \in Q THEN 1 ELSE 0)
    BY <1>1, OneFurther
  <1> QED  BY <1>1, <1>2, <1>3, FS_EmptySet DEF Turned, P, Q

LEMMA TurnedLater ==
  ASSUME NEW page, NEW k \in Nat, NEW n \in Nat, k <= n
  PROVE  Turned(page, k) <= Turned(page, n)
  <1>1. {j \in 1 .. n : page[j] = "tools"} \in SUBSET (1 .. n)
        /\ {j \in 1 .. k : page[j] = "tools"} \in SUBSET {j \in 1 .. n : page[j] = "tools"}
    OBVIOUS
  <1>2. IsFiniteSet({j \in 1 .. n : page[j] = "tools"})
    BY <1>1, PartIsFinite
  <1> QED  BY <1>1, <1>2, FS_Subset DEF Turned

LEMMA WroteFurther ==
  ASSUME NEW page, NEW what, NEW k \in Nat, NEW n \in Nat
  PROVE  /\ Wrote(page, what, k, n) \in Nat /\ Wrote(page, what, 0, n) = 0
         /\ Wrote(page, what, k + 1, n) = Wrote(page, what, k, n)
              + (IF page[k + 1] = what /\ Turned(page, k + 1) = n THEN 1 ELSE 0)
  <1> DEFINE P == {i \in 1 .. k : page[i] = what /\ Turned(page, i) = n}
             Q == {i \in 1 .. (k + 1) : page[i] = what /\ Turned(page, i) = n}
  <1>1. P \in SUBSET (1 .. k) /\ Q \in SUBSET (1 .. k + 1)
        /\ (k + 1 \in Q <=> page[k + 1] = what /\ Turned(page, k + 1) = n)
        /\ \A i \in 1 .. k : i \in Q <=> i \in P
    OBVIOUS
  <1>2. {i \in 1 .. 0 : page[i] = what /\ Turned(page, i) = n} = {}
    OBVIOUS
  <1> HIDE DEF P, Q
  <1>3. /\ Cardinality(P) \in Nat /\ Cardinality(Q) = Cardinality(P) + (IF k + 1 \in Q THEN 1 ELSE 0)
    BY <1>1, OneFurther
  <1> QED  BY <1>1, <1>2, <1>3, FS_EmptySet DEF Wrote, P, Q

\* A batch of calls begins a segment in which nothing is written yet, and ends the one before.
LEMMA NewSegment ==
  ASSUME NEW page \in Seq(Acts), NEW k \in Nat, k < Len(page), page[k + 1] = "tools", NEW what, what # "tools"
  PROVE  /\ Turned(page, k + 1) = Turned(page, k) + 1
         /\ Wrote(page, what, k + 1, Turned(page, k) + 1) = 0
         /\ Wrote(page, what, Len(page), Turned(page, k)) = Wrote(page, what, k, Turned(page, k))
  <1>1. Turned(page, k) \in Nat /\ Turned(page, k + 1) = Turned(page, k) + 1 /\ Len(page) \in Nat
    <2>1. /\ Turned(page, k) \in Nat
          /\ Turned(page, k + 1) = Turned(page, k) + (IF page[k + 1] = "tools" THEN 1 ELSE 0)
      BY TurnedFurther
    <2> QED  BY <2>1
  <1>2. \A i \in 1 .. k : Turned(page, i) <= Turned(page, k) /\ Turned(page, i) \in Nat
    BY TurnedLater, TurnedFurther
  <1>3. ASSUME NEW i \in (k + 1) .. Len(page)
        PROVE  Turned(page, k + 1) <= Turned(page, i) /\ Turned(page, i) \in Nat
    <2>1. i \in Nat /\ k + 1 \in Nat /\ k + 1 <= i
      BY <1>1
    <2> QED  BY <2>1, TurnedLater, TurnedFurther
  <1>4. {i \in 1 .. (k + 1) : page[i] = what /\ Turned(page, i) = Turned(page, k) + 1} = {}
    BY <1>1, <1>2
  <1>5. {i \in 1 .. Len(page) : page[i] = what /\ Turned(page, i) = Turned(page, k)}
        = {i \in 1 .. k : page[i] = what /\ Turned(page, i) = Turned(page, k)}
    <2>1. ASSUME NEW i \in 1 .. Len(page), Turned(page, i) = Turned(page, k) PROVE i \in 1 .. k
      BY <1>1, <1>3, <2>1
    <2>2. 1 .. k \subseteq 1 .. Len(page)
      BY <1>1
    <2> QED  BY <2>1, <2>2
  <1> QED  BY <1>1, <1>4, <1>5, FS_EmptySet DEF Wrote

LEMMA DidIsWrote ==
  ASSUME scenario.page \in Seq(Acts), NEW what, NEW n
  PROVE  Did(what, n) = Wrote(scenario.page, what, Len(scenario.page), n)
  <1>1. DOMAIN scenario.page = 1 .. Len(scenario.page)
    OBVIOUS
  <1> QED  BY <1>1 DEF Did, Wrote, Turned

-----------------------------------------------------------------------------
(* What a session keeps of what its page wrote.                             *)

Written == {"boundary", "think", "text"}
Dones   == {"doneTools", "doneStop"}

\* A session's script is what is left of its page.
Place(s, page) == Len(page) - Len(s.script)
Follows(s, page) ==
  /\ Len(s.script) <= Len(page)
  /\ \A i \in DOMAIN s.script : s.script[i] = page[Place(s, page) + i]
  /\ s.segment = Turned(page, Place(s, page))
  /\ s.outcome = "final" => s.script = <<>>
  /\ s.batch \/ s.outstanding # 0 => Head(s.script) = "tools"
Keeps(s) ==
  /\ s.final \in Seq(Written)
  /\ s.final # <<>> => s.text = 0 /\ s.trace = 0
  /\ s.holder # 0 => s.final = <<>> /\ s.outstanding = 0
  /\ s.holder = 0 => s.held = "none"
  /\ s.outcome = "none" /\ s.outstanding = 0 => s.final = <<>>
  /\ s.outstanding # 0 => s.text = 0 /\ s.trace = 0

\* What the page wrote in its segment is kept, was taken by the round that listens (es), or waits.
\* One thought may be lost, with the round that ends.
Texts(s, es)    == Count(s.final, {"text"}) + Count(es, {"text"}) + s.text
Thoughts(s, es) == Count(s.final, {"think"}) + Count(es, {"think"}) + s.trace + (IF s.held = "none" THEN 0 ELSE 1)
Balanced(s, page, es) ==
  LET thought == Wrote(page, "think", Place(s, page), s.segment)
  IN  /\ Texts(s, es) = Wrote(page, "text", Place(s, page), s.segment)
      /\ Thoughts(s, es) <= thought /\ Thoughts(s, es) + 1 >= thought
      /\ s.holder # 0 \/ (s.outstanding = 0 /\ s.outcome = "none") => Thoughts(s, es) = thought
\* wanted: somebody may still be answered from the session.
Kept(s, page, es, wanted) ==
  /\ Follows(s, page) /\ Keeps(s)
  /\ s.outcome \in {"none", "final"} /\ wanted => Balanced(s, page, es)

\* What is seen of a session that is cancelled or retired, or is left as it is.
Faded(s, x) ==
  /\ x.script = s.script /\ x.trace = s.trace /\ x.text = s.text /\ x.held = s.held /\ x.batch = s.batch
  /\ x.outstanding = s.outstanding /\ x.holder = s.holder /\ x.final = s.final /\ x.segment = s.segment
  /\ x.outcome = s.outcome \/ (s.outcome = "none" /\ x.outcome = "cancelled")
  /\ (x.life = "live" => s.life = "live") /\ (x.life = "none" <=> s.life = "none")

\* A session that is cancelled or retired keeps what it has, if anybody wants it.
LEMMA FadedKept ==
  ASSUME NEW s, NEW x, NEW page, NEW es, NEW w, NEW v, Kept(s, page, es, w), Faded(s, x), v => w
  PROVE  Kept(x, page, es, v)
  <1>1. Follows(x, page) /\ Keeps(x)
    BY DEF Kept, Faded, Follows, Keeps, Place
  <1>2. x.outcome \in {"none", "final"} /\ w => Balanced(x, page, es)
    BY DEF Kept, Faded, Balanced, Texts, Thoughts, Place
  <1> QED  BY <1>1, <1>2 DEF Kept

\* What waits for a round is as many texts and thoughts as the feeds say.
LEMMA UndrainedCounts ==
  ASSUME NEW s, s.trace \in Nat, s.text \in Nat
  PROVE  /\ Undrained(s) \in Seq(Written)
         /\ Count(Undrained(s), {"text"}) = s.text /\ Count(Undrained(s), {"think"}) = s.trace
         /\ s.trace = 0 /\ s.text = 0 => Undrained(s) = <<>>
  <1> DEFINE n == 2 * s.trace
             F(i) == IF i % 2 = 1 THEN "boundary" ELSE "think"
             thoughts == [i \in 1 .. n |-> F(i)]
             texts == [i \in 1 .. s.text |-> "text"]
  <1>1. thoughts \in Seq(Written)
    <2>1. n \in Nat
      OBVIOUS
    <2>2. \A i \in 1 .. n : F(i) \in Written
      BY DEF Written
    <2> HIDE DEF n, F
    <2> QED  BY <2>1, <2>2, IsASeq
  <1>2. texts \in Seq(Written)
    BY DEF Written
  <1>3. Count(thoughts, {"think"}) = s.trace
    <2>1. DOMAIN thoughts = 1 .. 2 * s.trace /\ \A i \in 1 .. 2 * s.trace : thoughts[i] = "think" <=> i % 2 = 0
      OBVIOUS
    <2> HIDE DEF thoughts
    <2>2. Alternates(thoughts, s.trace, "think")
      BY <2>1 DEF Alternates
    <2> QED  BY <2>2, CountOfEven
  <1>4. Count(thoughts, {"text"}) = 0
    <2>1. \A i \in DOMAIN thoughts : thoughts[i] \notin {"text"}
      OBVIOUS
    <2> HIDE DEF thoughts
    <2> QED  BY <2>1, CountOfNo
  <1>5. Count(texts, {"text"}) = s.text
    BY CountOfAll
  <1>6. Count(texts, {"think"}) = 0
    <2>1. \A i \in DOMAIN texts : texts[i] \notin {"think"}
      OBVIOUS
    <2> HIDE DEF texts
    <2> QED  BY <2>1, CountOfNo
  <1>7. Undrained(s) = thoughts \o texts
    BY DEF Undrained
  <1>8. s.trace = 0 /\ s.text = 0 => thoughts \o texts = <<>>
    <2> SUFFICES ASSUME s.trace = 0, s.text = 0 PROVE thoughts \o texts = <<>>
      OBVIOUS
    <2>1. Len(thoughts) = 0 /\ Len(texts) = 0
      BY <1>1, <1>2
    <2> HIDE DEF thoughts, texts
    <2> QED  BY <1>1, <1>2, <2>1
  <1> HIDE DEF thoughts, texts
  <1>9. Count(thoughts \o texts, {"text"}) = Count(thoughts, {"text"}) + Count(texts, {"text"})
        /\ Count(thoughts \o texts, {"think"}) = Count(thoughts, {"think"}) + Count(texts, {"think"})
    BY <1>1, <1>2, CountOfBoth
  <1>10. Count(Undrained(s), {"text"}) = s.text /\ Count(Undrained(s), {"think"}) = s.trace
    BY <1>3, <1>4, <1>5, <1>6, <1>7, <1>9
  <1> QED  BY <1>1, <1>2, <1>7, <1>8, <1>10

LEMMA NewKept ==
  ASSUME NEW page \in Seq(Acts), NEW w
  PROVE  Kept([NoSession EXCEPT !.life = "live", !.script = page], page, <<>>, w)
  <1> DEFINE s == [NoSession EXCEPT !.life = "live", !.script = page]
  <1>1. /\ s.script = page /\ s.segment = 0 /\ s.outcome = "none" /\ ~s.batch /\ s.outstanding = 0 /\ s.final = <<>>
        /\ s.text = 0 /\ s.trace = 0 /\ s.holder = 0 /\ s.held = "none"
    BY DEF NoSession
  <1>2. Place(s, page) = 0 /\ Len(page) \in Nat
    BY <1>1 DEF Place
  <1> HIDE DEF s
  <1>3. Follows(s, page) /\ Keeps(s)
    <2>1. Turned(page, 0) = 0
      BY TurnedFurther
    <2>2. <<>> \in Seq(Written)
      OBVIOUS
    <2>3. Follows(s, page)
      BY <1>1, <1>2, <2>1 DEF Follows
    <2> QED  BY <1>1, <2>2, <2>3 DEF Keeps
  <1>4. Balanced(s, page, <<>>)
    <2>1. Wrote(page, "text", 0, 0) = 0 /\ Wrote(page, "think", 0, 0) = 0
      BY WroteFurther
    <2>2. Texts(s, <<>>) = 0 /\ Thoughts(s, <<>>) = 0
      BY <1>1, CountOfNone DEF Texts, Thoughts
    <2> QED  BY <1>1, <1>2, <2>1, <2>2 DEF Balanced
  <1> QED  BY <1>3, <1>4 DEF Kept, s

\* The page ends with the act that ends it.
PageEnds(page) == \A i \in DOMAIN page : page[i] \in {"final", "retryable", "fatal"} => i = Len(page)
Holds(s) == IF s.held = "none" THEN 0 ELSE 1

\* The page does what its script says next.
LEMMA OnTheWay ==
  ASSUME NEW page \in Seq(Acts), NEW s, NEW x, s.script \in Seq(Acts), s.script # <<>>, Follows(s, page), x.script = Tail(s.script)
  PROVE  /\ Place(s, page) \in Nat /\ Place(s, page) < Len(page) /\ page[Place(s, page) + 1] = Head(s.script)
         /\ Place(x, page) = Place(s, page) + 1 /\ Len(x.script) <= Len(page)
         /\ \A i \in DOMAIN x.script : x.script[i] = page[Place(x, page) + i]
         /\ x.script = <<>> <=> Place(x, page) = Len(page)
  <1> DEFINE p == Place(s, page)
             n == Len(page)
             m == Len(s.script)
  <1>1. /\ n \in Nat /\ m \in Nat \ {0} /\ m <= n
        /\ Head(s.script) = s.script[1] /\ Len(x.script) = m - 1
        /\ DOMAIN s.script = 1 .. m /\ DOMAIN x.script = 1 .. m - 1
        /\ \A i \in 1 .. m - 1 : x.script[i] = s.script[i + 1]
        /\ x.script \in Seq(Acts)
    BY DEF Follows
  <1>2. p = n - m /\ \A i \in 1 .. m : s.script[i] = page[p + i]
    BY <1>1 DEF Follows, Place
  <1>3. Place(x, page) = n - (m - 1)
    BY <1>1 DEF Place
  <1>8. x.script = <<>> <=> m = 1
    <2>1. \A q \in Seq(Acts) : q = <<>> <=> Len(q) = 0
      OBVIOUS
    <2>2. x.script = <<>> <=> Len(x.script) = 0
      BY <1>1, <2>1
    <2>3. Len(x.script) = m - 1 /\ m \in Nat
      BY <1>1
    <2> HIDE DEF m
    <2>4. m - 1 = 0 <=> m = 1
      BY <2>3
    <2>5. Len(x.script) = 0 <=> m = 1
      BY <2>3, <2>4, Zenon
    <2> QED  BY <2>2, <2>5, Zenon
  <1> HIDE DEF p, n, m
  <1>4. p \in Nat /\ p < n /\ n - (m - 1) = p + 1 /\ (m = 1 <=> p + 1 = n) /\ m - 1 <= n
    BY <1>1, <1>2
  <1>7. page[p + 1] = Head(s.script)
    <2>1. 1 \in 1 .. m
      BY <1>1
    <2> QED  BY <1>1, <1>2, <2>1
  <1>5. ASSUME NEW i \in DOMAIN x.script PROVE x.script[i] = page[(p + 1) + i]
    <2>1. i \in Int /\ i + 1 \in 1 .. m /\ i \in 1 .. m - 1
      BY <1>1
    <2>4. p + (i + 1) = (p + 1) + i
      BY <1>4, <2>1
    <2>2. x.script[i] = s.script[i + 1]
      BY <1>1, <2>1
    <2>3. s.script[i + 1] = page[p + (i + 1)]
      BY <1>2, <2>1
    <2> QED  BY <2>4, <2>2, <2>3
  <1> QED  BY <1>1, <1>3, <1>4, <1>5, <1>7, <1>8 DEF p, n, m

\* What the page writes waits for a round, or is handed to the one that listens.
LEMMA ActKept ==
  ASSUME NEW page \in Seq(Acts), PageEnds(page), NEW s \in Session, NEW x \in Session, NEW es \in Seq(Events), NEW w,
         Kept(s, page, es, w), s.outcome = "none", s.script # <<>>, ~s.batch, s.outstanding = 0,
         Head(s.script) # "tools", x.script = Tail(s.script), x.batch = s.batch, x.outstanding = s.outstanding,
         x.holder = s.holder, x.final = s.final, x.segment = s.segment, s.holder = 0 => x.held = s.held,
         x.text = s.text + (IF Head(s.script) = "text" THEN 1 ELSE 0),
         x.trace + Holds(x) = s.trace + Holds(s) + (IF Head(s.script) = "think" THEN 1 ELSE 0),
         x.outcome = (IF Head(s.script) \in {"think", "text"} THEN "none" ELSE Head(s.script))
  PROVE  Kept(x, page, es, w)
  <1> DEFINE p == Place(s, page)
  <1>1. /\ s.script \in Seq(Acts) /\ Len(page) \in Nat /\ x.trace \in Nat /\ s.trace \in Nat /\ s.text \in Nat /\ s.segment \in Nat
    BY DEF Session
  <1>2. /\ p \in Nat /\ p < Len(page) /\ page[p + 1] = Head(s.script)
        /\ Place(x, page) = p + 1 /\ Len(x.script) <= Len(page)
        /\ \A i \in DOMAIN x.script : x.script[i] = page[Place(x, page) + i]
        /\ x.script = <<>> <=> Place(x, page) = Len(page)
    BY <1>1, OnTheWay DEF Kept
  <1>3. s.final = <<>> /\ s.segment = Turned(page, p)
    BY DEF Kept, Keeps, Follows
  <1> HIDE DEF p
  <1>4. Turned(page, p + 1) = s.segment
    <2>1. Turned(page, p) \in Nat /\ Turned(page, p + 1) = Turned(page, p) + (IF page[p + 1] = "tools" THEN 1 ELSE 0)
      BY <1>2, TurnedFurther
    <2> QED  BY <1>2, <1>3, <2>1
  <1>5. Follows(x, page)
    <2>1. x.outcome = "final" => x.script = <<>>
      <3>1. SUFFICES ASSUME x.outcome = "final" PROVE x.script = <<>>
        OBVIOUS
      <3>2. Head(s.script) = "final" /\ p + 1 \in DOMAIN page
        BY <1>1, <1>2, <3>1
      <3> QED  BY <1>2, <3>2 DEF PageEnds
    <2> QED  BY <1>2, <1>4, <2>1 DEF Follows
  <1>6. Keeps(x)
    BY <1>3 DEF Kept, Keeps
  <1>7. ASSUME w PROVE Balanced(x, page, es)
    <2> DEFINE wt(k) == Wrote(page, "text", k, s.segment)
               wk(k) == Wrote(page, "think", k, s.segment)
               ct == Count(es, {"text"})
               ck == Count(es, {"think"})
    <2>1. /\ ct \in Nat /\ ck \in Nat
      BY CountTyped
    <2>2. wt(p) \in Nat /\ wt(p + 1) = wt(p) + (IF Head(s.script) = "text" THEN 1 ELSE 0)
      <3> DEFINE g == s.segment
      <3>1. p \in Nat /\ g \in Nat
        BY <1>1, <1>2
      <3> HIDE DEF g
      <3>2. /\ Wrote(page, "text", p, g) \in Nat
            /\ Wrote(page, "text", p + 1, g) = Wrote(page, "text", p, g)
                 + (IF page[p + 1] = "text" /\ Turned(page, p + 1) = g THEN 1 ELSE 0)
        BY <3>1, WroteFurther
      <3> QED  BY <1>2, <1>4, <3>2 DEF g
    <2>3. wk(p) \in Nat /\ wk(p + 1) = wk(p) + (IF Head(s.script) = "think" THEN 1 ELSE 0)
      <3> DEFINE g == s.segment
      <3>1. p \in Nat /\ g \in Nat
        BY <1>1, <1>2
      <3> HIDE DEF g
      <3>2. /\ Wrote(page, "think", p, g) \in Nat
            /\ Wrote(page, "think", p + 1, g) = Wrote(page, "think", p, g)
                 + (IF page[p + 1] = "think" /\ Turned(page, p + 1) = g THEN 1 ELSE 0)
        BY <3>1, WroteFurther
      <3> QED  BY <1>2, <1>4, <3>2 DEF g
    <2>4. Texts(s, es) = wt(p) /\ Thoughts(s, es) = wk(p)
      BY <1>7 DEF Kept, Balanced, p
    <2>5. Count(<<>>, {"text"}) = 0 /\ Count(<<>>, {"think"}) = 0
      BY CountOfNone
    <2>6. Texts(s, es) = ct + s.text /\ Texts(x, es) = ct + x.text
      BY <1>1, <1>3, <2>1, <2>5 DEF Texts
    <2>7. Thoughts(s, es) = ck + s.trace + Holds(s) /\ Thoughts(x, es) = ck + x.trace + Holds(x)
      BY <1>1, <1>3, <2>1, <2>5 DEF Thoughts, Holds
    <2>8. Holds(s) \in Nat /\ Holds(x) \in Nat
      BY DEF Holds
    <2> HIDE DEF ct, ck, wt, wk
    <2>9. Texts(x, es) = wt(p + 1) /\ Thoughts(x, es) = wk(p + 1)
      <3>1. x.text = s.text + (IF Head(s.script) = "text" THEN 1 ELSE 0)
            /\ x.trace + Holds(x) = s.trace + Holds(s) + (IF Head(s.script) = "think" THEN 1 ELSE 0)
        OBVIOUS
      <3>2. Texts(x, es) = wt(p + 1)
        BY <1>1, <2>1, <2>2, <2>4, <2>6, <3>1
      <3>3. Thoughts(x, es) = ck + (x.trace + Holds(x))
        BY <1>1, <2>1, <2>7, <2>8
      <3>4. wk(p) = ck + (s.trace + Holds(s))
        BY <1>1, <2>1, <2>4, <2>7, <2>8
      <3>5. Thoughts(x, es) = wk(p + 1)
        <4> DEFINE d == IF Head(s.script) = "think" THEN 1 ELSE 0
                   a == s.trace + Holds(s)
        <4>1. d \in Nat /\ a \in Nat /\ wk(p + 1) = wk(p) + d /\ x.trace + Holds(x) = a + d
          <5>1. d \in Nat
            OBVIOUS
          <5>2. a \in Nat
            <6>1. s.trace \in Nat
              BY <1>1
            <6> QED  BY <2>8, <6>1
          <5>3. wk(p + 1) = wk(p) + d
            BY <2>3
          <5>4. x.trace + Holds(x) = a + d
            BY <3>1
          <5> QED  BY <5>1, <5>2, <5>3, <5>4
        <4>2. Thoughts(x, es) = ck + (x.trace + Holds(x)) /\ wk(p) = ck + a
          BY <3>3, <3>4
        <4> HIDE DEF d, a
        <4> QED  BY <2>1, <4>1, <4>2
      <3> QED  BY <3>2, <3>5
    <2>10. wk(p + 1) \in Nat
      BY <2>3
    <2>11. Thoughts(x, es) <= wk(p + 1) /\ Thoughts(x, es) + 1 >= wk(p + 1)
      BY <2>9, <2>10
    <2> QED  BY <1>2, <2>9, <2>11 DEF Balanced, wt, wk
  <1> QED  BY <1>5, <1>6, <1>7 DEF Kept

LEMMA FollowsStill ==
  ASSUME NEW page, NEW s, NEW x, Follows(s, page), x.script = s.script, x.segment = s.segment, x.outcome = s.outcome,
         x.batch \/ x.outstanding # 0 => s.batch \/ s.outstanding # 0
  PROVE  Follows(x, page)
  BY DEF Follows, Place

\* What is kept is moved, but none of it is lost; but for one thought when a round stops listening.
LEMMA BalancedStill ==
  ASSUME NEW page \in Seq(Acts), NEW s, NEW x, NEW es, NEW fs, x.script = s.script, x.segment = s.segment, s.segment \in Nat,
         Follows(s, page), s.script \in Seq(Acts), Balanced(s, page, es), Texts(x, fs) = Texts(s, es),
         Thoughts(x, fs) \in Nat, Thoughts(s, es) \in Nat,
         Thoughts(x, fs) = Thoughts(s, es) \/ (s.holder # 0 /\ Thoughts(x, fs) + 1 = Thoughts(s, es)),
         x.holder # 0 \/ (x.outstanding = 0 /\ x.outcome = "none") =>
           Thoughts(x, fs) = Thoughts(s, es) /\ (s.holder # 0 \/ (s.outstanding = 0 /\ s.outcome = "none"))
  PROVE  Balanced(x, page, fs)
  <1> DEFINE thought == Wrote(page, "think", Place(s, page), s.segment)
             was == Thoughts(s, es)
             is == Thoughts(x, fs)
  <1>1. Place(x, page) = Place(s, page) /\ Place(s, page) \in Nat
    BY DEF Place, Follows
  <1>2. thought \in Nat
    BY <1>1, WroteFurther
  <1>3. /\ Texts(s, es) = Wrote(page, "text", Place(s, page), s.segment)
        /\ was <= thought /\ was + 1 >= thought
        /\ s.holder # 0 \/ (s.outstanding = 0 /\ s.outcome = "none") => was = thought
    BY DEF Balanced
  <1>4. Wrote(page, "think", Place(x, page), x.segment) = thought
    BY <1>1
  <1>5. /\ is \in Nat /\ was \in Nat /\ (is = was \/ (s.holder # 0 /\ is + 1 = was))
        /\ x.holder # 0 \/ (x.outstanding = 0 /\ x.outcome = "none") =>
             is = was /\ (s.holder # 0 \/ (s.outstanding = 0 /\ s.outcome = "none"))
    OBVIOUS
  <1>6. Texts(x, fs) = Wrote(page, "text", Place(x, page), x.segment)
    BY <1>1, <1>3
  <1> HIDE DEF thought, was, is
  <1>7. is <= thought /\ is + 1 >= thought
    BY <1>2, <1>3, <1>5
  <1>8. x.holder # 0 \/ (x.outstanding = 0 /\ x.outcome = "none") => is = thought
    BY <1>3, <1>5
  <1> QED  BY <1>4, <1>6, <1>7, <1>8 DEF Balanced, is

\* The parts of a session, and what is counted of them.
LEMMA PartsOfSession ==
  ASSUME NEW s \in Session
  PROVE  /\ s.script \in Seq(Acts) /\ s.segment \in Nat /\ s.text \in Nat /\ s.trace \in Nat /\ s.outstanding \in Nat
         /\ s.final \in Seq(Events) /\ Holds(s) \in {0, 1} /\ (s.held = "none" <=> Holds(s) = 0)
         /\ \A es : Texts(s, es) = Count(s.final, {"text"}) + Count(es, {"text"}) + s.text
         /\ \A es : Thoughts(s, es) = Count(s.final, {"think"}) + Count(es, {"think"}) + s.trace + Holds(s)
         /\ \A X : Count(s.final, X) \in Nat
  <1>1. /\ s.script \in Seq(Acts) /\ s.segment \in Nat /\ s.text \in Nat /\ s.trace \in Nat /\ s.outstanding \in Nat
        /\ s.final \in Seq(Events)
    BY DEF Session
  <1>2. \A X : Count(s.final, X) \in Nat
    BY <1>1, CountTyped
  <1> QED  BY <1>1, <1>2 DEF Texts, Thoughts, Holds

\* A round ends, with events that are remembered to be sent again.
LEMMA ClosedKept ==
  ASSUME NEW page \in Seq(Acts), NEW s \in Session, NEW x \in Session, NEW es \in Seq(Written), NEW w, Kept(s, page, es, w),
         s.holder = 0 => es = <<>>,
         x.script = s.script, x.segment = s.segment, x.outcome = s.outcome, x.holder = 0, x.held = "none",
         x.text = 0, x.trace = 0, x.final \in Seq(Written),
         Count(x.final, {"text"}) = Count(s.final, {"text"}) + Count(es, {"text"}) + s.text,
         Count(x.final, {"think"}) = Count(s.final, {"think"}) + Count(es, {"think"}) + s.trace,
         x.batch \/ x.outstanding # 0 => s.batch \/ s.outstanding # 0,
         x.outstanding # 0 \/ x.outcome = "final"
  PROVE  Kept(x, page, <<>>, w)
  <1>1. Follows(x, page)
    BY FollowsStill DEF Kept
  <1>2. Keeps(x)
    BY DEF Keeps
  <1>3. ASSUME s.outcome \in {"none", "final"}, w PROVE Balanced(x, page, <<>>)
    <2> DEFINE ct == Count(es, {"text"})
               ck == Count(es, {"think"})
               ft == Count(s.final, {"text"})
               fk == Count(s.final, {"think"})
               gt == Count(x.final, {"text"})
               gk == Count(x.final, {"think"})
    <2>1. /\ s.script \in Seq(Acts) /\ s.segment \in Nat /\ s.text \in Nat /\ s.trace \in Nat
          /\ Holds(s) \in {0, 1} /\ (s.held = "none" <=> Holds(s) = 0) /\ ft \in Nat /\ fk \in Nat
          /\ Texts(s, es) = ft + ct + s.text /\ Thoughts(s, es) = fk + ck + s.trace + Holds(s)
      BY PartsOfSession
    <2>2. ct \in Nat /\ ck \in Nat
      BY CountTyped
    <2>3. Count(<<>>, {"text"}) = 0 /\ Count(<<>>, {"think"}) = 0
      BY CountOfNone
    <2>4. Texts(x, <<>>) = gt + 0 + 0 /\ Thoughts(x, <<>>) = gk + 0 + 0 + 0
      BY <2>3 DEF Texts, Thoughts
    <2>5. gt = ft + ct + s.text /\ gk = fk + ck + s.trace
      OBVIOUS
    <2>6. Follows(s, page) /\ Balanced(s, page, es) /\ (s.holder = 0 => s.held = "none")
      BY <1>3 DEF Kept, Keeps
    <2> HIDE DEF ct, ck, ft, fk, gt, gk
    <2>7. Texts(x, <<>>) = Texts(s, es) /\ Thoughts(x, <<>>) \in Nat /\ Thoughts(s, es) = Thoughts(x, <<>>) + Holds(s)
          /\ Thoughts(s, es) \in Nat
      <3> DEFINE a == s.text
                 b == s.trace
                 h == Holds(s)
      <3>1. a \in Nat /\ b \in Nat /\ h \in Nat /\ ft \in Nat /\ fk \in Nat
            /\ gt = ft + ct + a /\ gk = fk + ck + b
        BY <2>1, <2>5
      <3> HIDE DEF a, b, h
      <3>2. gt \in Nat /\ gk \in Nat
        BY <2>2, <3>1
      <3>3. gt \in Nat /\ gk \in Nat /\ Holds(s) \in Nat
        BY <3>1, <3>2 DEF h
      <3>4. Texts(x, <<>>) = gt /\ Thoughts(x, <<>>) = gk
        BY <2>4, <3>3
      <3>5. Texts(s, es) = gt /\ Thoughts(s, es) = gk + Holds(s)
        BY <2>1, <2>5
      <3> QED  BY <3>3, <3>4, <3>5
    <2>8. Thoughts(x, <<>>) = Thoughts(s, es) \/ (s.holder # 0 /\ Thoughts(x, <<>>) + 1 = Thoughts(s, es))
      BY <2>1, <2>6, <2>7
    <2>9. ~(x.holder # 0 \/ (x.outstanding = 0 /\ x.outcome = "none"))
      OBVIOUS
    <2> QED  BY <2>1, <2>6, <2>7, <2>8, <2>9, BalancedStill
  <1> QED  BY <1>1, <1>2, <1>3 DEF Kept

\* A round stops listening to a session that nobody will be answered from.
LEMMA LostKept ==
  ASSUME NEW page, NEW s, NEW x, NEW es, NEW w, NEW v, Kept(s, page, es, w), s.holder # 0,
         x.script = s.script, x.segment = s.segment, x.final = s.final, x.batch = s.batch, x.outstanding = s.outstanding,
         x.outcome = s.outcome \/ x.outcome = "cancelled", x.holder = 0, x.held = "none", x.text = s.text, x.trace = s.trace,
         x.outcome \in {"none", "final"} => ~v
  PROVE  Kept(x, page, <<>>, v)
  <1>1. Follows(x, page)
    BY DEF Kept, Follows, Place
  <1>2. Keeps(x)
    BY DEF Kept, Keeps
  <1> QED  BY <1>1, <1>2 DEF Kept

\* The round takes es of what waits for it.
LEMMA TakenKept ==
  ASSUME NEW page \in Seq(Acts), NEW s \in Session, NEW x \in Session, NEW es \in Seq(Written), NEW fs \in Seq(Written), NEW w,
         Kept(s, page, es, w), s.holder # 0, x.script = s.script, x.segment = s.segment, x.outcome = s.outcome,
         x.batch = s.batch, x.outstanding = s.outstanding, x.final = s.final, x.holder = s.holder,
         Count(fs, {"text"}) + x.text = s.text,
         Count(fs, {"think"}) + x.trace + Holds(x) = s.trace + Holds(s)
  PROVE  es \o fs \in Seq(Written) /\ Kept(x, page, es \o fs, w)
  <1>1. Follows(x, page)
    BY FollowsStill DEF Kept
  <1>2. Keeps(x)
    BY DEF Kept, Keeps
  <1>3. ASSUME s.outcome \in {"none", "final"}, w PROVE Balanced(x, page, es \o fs)
    <2> DEFINE ct == Count(es, {"text"})
               ck == Count(es, {"think"})
               dt == Count(fs, {"text"})
               dk == Count(fs, {"think"})
               ft == Count(s.final, {"text"})
               fk == Count(s.final, {"think"})
    <2>1. /\ s.script \in Seq(Acts) /\ s.segment \in Nat /\ s.text \in Nat /\ s.trace \in Nat
          /\ Holds(s) \in {0, 1} /\ ft \in Nat /\ fk \in Nat
          /\ Texts(s, es) = ft + ct + s.text /\ Thoughts(s, es) = fk + ck + s.trace + Holds(s)
      BY PartsOfSession
    <2>2. ct \in Nat /\ ck \in Nat /\ dt \in Nat /\ dk \in Nat
      BY CountTyped
    <2>3. Count(es \o fs, {"text"}) = ct + dt /\ Count(es \o fs, {"think"}) = ck + dk
      BY CountOfBoth
    <2>4. x.text \in Nat /\ x.trace \in Nat /\ Holds(x) \in {0, 1}
          /\ Texts(x, es \o fs) = ft + (ct + dt) + x.text /\ Thoughts(x, es \o fs) = fk + (ck + dk) + x.trace + Holds(x)
      BY <2>3, PartsOfSession
    <2>5. dt + x.text = s.text /\ dk + x.trace + Holds(x) = s.trace + Holds(s)
      OBVIOUS
    <2>6. Follows(s, page) /\ Balanced(s, page, es)
      BY <1>3 DEF Kept
    <2> HIDE DEF ct, ck, dt, dk, ft, fk
    <2>7. Texts(x, es \o fs) = Texts(s, es)
      BY <2>1, <2>2, <2>4, <2>5
    <2>8. Thoughts(x, es \o fs) = Thoughts(s, es) /\ Thoughts(s, es) \in Nat
      <3> DEFINE xt == x.trace
                 xh == Holds(x)
                 st == s.trace
                 sh == Holds(s)
                 now == Thoughts(x, es \o fs)
                 was == Thoughts(s, es)
      <3>1. /\ xt \in Nat /\ xh \in Nat /\ st \in Nat /\ sh \in Nat /\ dk + xt + xh = st + sh
            /\ was = fk + ck + st + sh /\ now = fk + (ck + dk) + xt + xh
        BY <2>1, <2>4, <2>5
      <3> HIDE DEF xt, xh, st, sh, now, was
      <3>2. now = was /\ was \in Nat
        BY <2>1, <2>2, <3>1
      <3> QED  BY <3>2 DEF now, was
    <2>9. x.holder # 0 \/ (x.outstanding = 0 /\ x.outcome = "none") =>
            (s.holder # 0 \/ (s.outstanding = 0 /\ s.outcome = "none"))
      OBVIOUS
    <2> QED  BY <2>1, <2>6, <2>7, <2>8, <2>9, BalancedStill
  <1>4. es \o fs \in Seq(Written)
    OBVIOUS
  <1> QED  BY <1>1, <1>2, <1>3, <1>4 DEF Kept

\* A round takes what waits, and listens: the results of the calls that were due are delivered.
LEMMA EnteredKept ==
  ASSUME NEW page \in Seq(Acts), NEW s \in Session, NEW x \in Session, NEW fs \in Seq(Written), NEW w,
         Kept(s, page, <<>>, w), s.holder = 0, s.outcome = "none", Scripted(s),
         Count(fs, {"text"}) = s.text, Count(fs, {"think"}) = s.trace,
         x.held = s.held, x.text = 0, x.trace = 0, x.outcome = "none", x.batch = s.batch, x.outstanding = 0, x.final = <<>>,
         s.outstanding = 0 => x.script = s.script /\ x.segment = s.segment,
         s.outstanding # 0 => x.script = Tail(s.script) /\ x.segment = s.segment + 1
  PROVE  Kept(x, page, fs, w)
  <1> DEFINE dt == Count(fs, {"text"})
             dk == Count(fs, {"think"})
  <1>1. /\ s.script \in Seq(Acts) /\ s.segment \in Nat /\ s.text \in Nat /\ s.trace \in Nat
        /\ dt \in Nat /\ dk \in Nat
    BY PartsOfSession, CountTyped
  <1>2. Follows(s, page) /\ Keeps(s) /\ s.held = "none"
    BY DEF Kept, Keeps
  <1>3. Keeps(x)
    <2>1. <<>> \in Seq(Written)
      OBVIOUS
    <2> QED  BY <1>2, <2>1 DEF Keeps
  <1>4. Count(<<>>, {"text"}) = 0 /\ Count(<<>>, {"think"}) = 0
    BY CountOfNone
  <1>5. Texts(x, fs) = s.text /\ Thoughts(x, fs) = s.trace
    <2>1. Texts(x, fs) = 0 + dt + 0 /\ Thoughts(x, fs) = 0 + dk + 0 + 0
      BY <1>2, <1>4 DEF Texts, Thoughts
    <2>2. dt = s.text /\ dk = s.trace
      OBVIOUS
    <2> HIDE DEF dt, dk
    <2> QED  BY <1>1, <2>1, <2>2
  <1>6. CASE s.outstanding = 0
    <2>1. Follows(x, page)
      BY <1>2, <1>6, FollowsStill
    <2>2. ASSUME w PROVE Balanced(x, page, fs)
      <3>1. s.final = <<>>
        BY <1>2, <1>6 DEF Keeps
      <3>2. Texts(s, <<>>) = s.text /\ Thoughts(s, <<>>) = s.trace
        BY <1>1, <1>2, <1>4, <3>1 DEF Texts, Thoughts
      <3>3. Balanced(s, page, <<>>)
        BY <2>2 DEF Kept
      <3> QED  BY <1>1, <1>2, <1>5, <1>6, <3>2, <3>3, BalancedStill
    <2> QED  BY <1>3, <2>1, <2>2 DEF Kept
  <1>7. CASE s.outstanding # 0
    <2> DEFINE p == Place(s, page)
    <2>1. s.script # <<>> /\ ~s.batch /\ Head(s.script) = "tools" /\ s.text = 0 /\ s.trace = 0
      BY <1>2, <1>7 DEF Scripted, Follows, Keeps
    <2>2. /\ p \in Nat /\ p < Len(page) /\ page[p + 1] = "tools"
          /\ Place(x, page) = p + 1 /\ Len(x.script) <= Len(page)
          /\ \A i \in DOMAIN x.script : x.script[i] = page[Place(x, page) + i]
      <3>1. x.script = Tail(s.script) /\ Follows(s, page) /\ s.script \in Seq(Acts)
        BY <1>1, <1>2, <1>7
      <3>2. /\ Place(s, page) \in Nat /\ Place(s, page) < Len(page) /\ page[Place(s, page) + 1] = Head(s.script)
            /\ Place(x, page) = Place(s, page) + 1 /\ Len(x.script) <= Len(page)
            /\ \A i \in DOMAIN x.script : x.script[i] = page[Place(x, page) + i]
        BY <2>1, <3>1, OnTheWay
      <3> QED  BY <2>1, <3>2
    <2>3. s.segment = Turned(page, p)
      BY <1>2 DEF Follows
    <2> HIDE DEF p
    <2>4. Turned(page, p + 1) = s.segment + 1
      BY <2>2, <2>3, NewSegment
    <2>5. Wrote(page, "text", p + 1, s.segment + 1) = 0 /\ Wrote(page, "think", p + 1, s.segment + 1) = 0
      <3>1. Wrote(page, "text", p + 1, Turned(page, p) + 1) = 0
        BY <2>2, NewSegment
      <3>2. Wrote(page, "think", p + 1, Turned(page, p) + 1) = 0
        BY <2>2, NewSegment
      <3> QED  BY <2>3, <3>1, <3>2
    <2>6. Follows(x, page)
      BY <1>7, <2>1, <2>2, <2>4 DEF Follows
    <2>7. Balanced(x, page, fs)
      BY <1>5, <1>7, <2>1, <2>2, <2>5 DEF Balanced
    <2> QED  BY <1>3, <2>6, <2>7 DEF Kept
  <1> QED  BY <1>6, <1>7

-----------------------------------------------------------------------------
(* The requests and the session of a turn.                                  *)

\* What the round that listens has taken; who may still be answered from the session.
Heard(t)  == IF session[t].holder = 0 THEN <<>> ELSE req[session[t].holder].events
Awaited(t) == \E r \in Requests : T(r) = t /\ InRound(r) /\ ~req[r].aborted
Wanted(t) == session[t].life = "live" \/ Awaited(t)

Served(t) == session[t].life # "none" => Kept(session[t], scenario.page, Heard(t), Wanted(t))
Heeded(t) ==
  /\ session[t].holder # 0 => session[t].holder \in Requests /\ T(session[t].holder) = t
                              /\ req[session[t].holder].round = "waiting"
  /\ \A r \in Requests : T(r) = t =>
       /\ req[r].round = "waiting" => session[t].holder = r /\ req[r].segment = session[t].segment
       /\ req[r].events \in Seq(Written)
\* Of two rounds of a turn, the older was told, and does not listen.
Alone(t) ==
  /\ \A r \in Requests : T(r) = t =>
       /\ req[r].gone => req[r].aborted
       /\ req[r].round \in {"begin", "queued", "waiting"} => Kind(r) \in {"stream", "json"}
       /\ req[r].round = "compacting" => Compacts(r)
  /\ \A q, r \in Requests : q < r /\ T(q) = t /\ OfTurn(r, q) /\ req[r].phase # "idle" => Known(q)
  /\ \A q, r \in Requests : q < r /\ T(q) = t /\ T(r) = t /\ InRound(q) /\ InRound(r) =>
                              req[q].aborted /\ req[q].round = "queued"
TurnInv(t) == Served(t) /\ Heeded(t) /\ Alone(t)
KeptInv == IInv /\ \A t \in Turns : TurnInv(t)

\* What may become of a request by what is not a step of a round.
Calm(q, x, kind) ==
  /\ x.phase = q.phase \/ (q.phase \notin {"over", "refused"} /\ x.phase # "idle")
  /\ (q.gone => x.gone) /\ (x.gone => q.gone \/ x.aborted) /\ (q.aborted => x.aborted)
  /\ x.events = q.events /\ x.segment = q.segment
  /\ \/ x.round = q.round
     \/ q.round = "none" /\ x.round \in {"none", "over"}
     \/ q.round = "none" /\ x.round = "begin" /\ kind \in {"stream", "json"}
     \/ q.round = "none" /\ x.round = "compacting" /\ kind \in {"compactStream", "compactJson"}

\* Steps of a request that are not of its round leave the sessions alone.
LEMMA CalmReply ==
  ASSUME IInv, NEW r \in Requests, Rejects(r) \/ Begins(r) \/ Reads(r) \/ Steps(r) \/ Answers(r) \/ Ended(r) \/ Leave(r) \/ Stalls(r) \/ Post(r)
  PROVE  /\ session' = session /\ scenario' = scenario
         /\ \A x \in Requests : Calm(req[x], req'[x], Kind(x)) /\ (x # r => req'[x] = req[x])
         /\ Post(r) \/ (req[r].phase = "idle" => req'[r].phase = "idle")
  <1> DEFINE q == req[r]
  <1>1. q \in Request /\ req \in [Requests -> Request] /\ Kind(r) \in Kinds /\ Tracked(q, stream[r], Kind(r))
    BY RoundPlaces, Places DEF Typed, IInv
  <1>2. session' = session /\ scenario' = scenario
    BY DEF Rejects, Begins, Reads, Steps, Answers, Ended, Leave, Stalls, Post
  <1>3. ASSUME NEW x \in Request, req' = [req EXCEPT ![r] = x], Calm(q, x, Kind(r)), Post(r) \/ (q.phase = "idle" => x.phase = "idle")
        PROVE  /\ \A y \in Requests : Calm(req[y], req'[y], Kind(y)) /\ (y # r => req'[y] = req[y])
               /\ Post(r) \/ (req[r].phase = "idle" => req'[r].phase = "idle")
    BY <1>1, <1>3 DEF Calm
  <1>4. CASE Rejects(r)
    <2> DEFINE x == IF q.aborted THEN Release(q) ELSE [q EXCEPT !.phase = "plain"]
    <2>1. req' = [req EXCEPT ![r] = x]
      BY <1>4 DEF Rejects
    <2>2. x \in Request
      BY <1>1 DEF Release, Request, Phases
    <2>3. Calm(q, x, Kind(r)) /\ q.phase # "idle"
      BY <1>1, <1>4 DEF Rejects, Calm, Release, Request
    <2> HIDE DEF x
    <2> QED  BY <1>2, <1>3, <2>1, <2>2, <2>3
  <1>5. CASE Begins(r)
    <2> DEFINE aborted  == IF Kind(r) = "native" THEN q.aborted ELSE Bound(r)
               streams  == Kind(r) \in {"stream", "compactStream"}
               refused  == Exhausted(T(r)) /\ ~Compacts(r) /\ Kind(r) # "native"
               phase    == IF streams THEN "streaming" ELSE "running"
               round    == IF Kind(r) = "native" THEN "none" ELSE IF refused THEN "over"
                           ELSE IF Compacts(r) THEN "compacting" ELSE "begin"
               bound    == Kind(r) # "native"
               began    == [q EXCEPT !.bound = bound, !.aborted = aborted, !.phase = phase, !.round = round]
               x        == IF aborted /\ streams THEN Release(began) ELSE began
    <2>1. req' = [req EXCEPT ![r] = x] /\ q.phase = "reading"
      BY <1>5 DEF Begins
    <2>2. bound \in BOOLEAN /\ aborted \in BOOLEAN /\ phase \in Phases /\ round \in Rounds /\ phase # "idle"
          /\ (q.aborted => aborted)
      BY <1>1 DEF Bound, Request, Phases, Rounds
    <2>3. /\ q.round = "none"
          /\ \/ round \in {"none", "over"}
             \/ round = "begin" /\ Kind(r) \in {"stream", "json"}
             \/ round = "compacting" /\ Kind(r) \in {"compactStream", "compactJson"}
      BY <1>1, <2>1 DEF Tracked, Compacts, Kinds
    <2> HIDE DEF bound, aborted, phase, round, streams
    <2>4. began \in Request /\ began.phase = phase /\ began.gone = q.gone /\ began.aborted = aborted
          /\ began.events = q.events /\ began.segment = q.segment /\ began.round = round
      BY <1>1, <2>2 DEF Request
    <2> HIDE DEF began
    <2>5. x \in Request /\ x.phase \in {phase, "over"} /\ x.gone = q.gone /\ x.aborted = aborted
          /\ x.events = q.events /\ x.segment = q.segment /\ x.round = round
      BY <2>4 DEF Release, Request, Phases
    <2> HIDE DEF x
    <2>6. Calm(q, x, Kind(r))
      BY <2>1, <2>2, <2>3, <2>5 DEF Calm
    <2> QED  BY <1>2, <1>3, <2>1, <2>5, <2>6
  <1>6. CASE Reads(r)
    BY <1>2, <1>6 DEF Reads, Calm
  <1>7. CASE Steps(r)
    <2> DEFINE x == [q EXCEPT !.aborted = q.aborted \/ stream'[r].closed]
    <2>1. req' = [req EXCEPT ![r] = x] /\ stream[r].on
      BY <1>1, <1>7 DEF Steps, CanStep, CanEof, Tracked
    <2>2. stream'[r].closed \in BOOLEAN
      BY <1>7, StepsHolds, RoundPlaces DEF IInv, Typed, StreamRecord
    <2>3. x \in Request /\ Calm(q, x, Kind(r)) /\ x.phase = q.phase
      BY <1>1, <2>2 DEF Calm, Request
    <2> HIDE DEF x
    <2> QED  BY <1>2, <1>3, <2>1, <2>3
  <1>8. CASE Answers(r)
    <2> DEFINE x == IF q.aborted \/ stream[r].dropped THEN Release(q) ELSE [q EXCEPT !.phase = "plain"]
    <2>1. req' = [req EXCEPT ![r] = x]
      BY <1>8 DEF Answers
    <2>2. x \in Request
      BY <1>1 DEF Release, Request, Phases
    <2>3. Calm(q, x, Kind(r)) /\ q.phase # "idle"
      BY <1>1, <1>8 DEF Answers, Calm, Release, Request
    <2> HIDE DEF x
    <2> QED  BY <1>2, <1>3, <2>1, <2>2, <2>3
  <1>9. CASE Ended(r)
    <2> DEFINE x == Release(q)
    <2>1. req' = [req EXCEPT ![r] = x]
      BY <1>9 DEF Ended
    <2>2. x \in Request
      BY <1>1 DEF Release, Request, Phases
    <2>3. Calm(q, x, Kind(r)) /\ q.phase # "idle"
      BY <1>1, <1>9 DEF Ended, ReadToEnd, Calm, Release, Request
    <2> HIDE DEF x
    <2> QED  BY <1>2, <1>3, <2>1, <2>2, <2>3
  <1>10. CASE Leave(r)
    <2> DEFINE a == [q EXCEPT !.gone = TRUE, !.aborted = TRUE]
               x == IF q.phase \in {"streaming", "plain"} THEN Release(a) ELSE a
    <2>1. req' = [req EXCEPT ![r] = x] /\ q.counted
      BY <1>10 DEF Leave
    <2>2. a \in Request /\ x \in Request
      BY <1>1 DEF Release, Request, Phases
    <2>3. Calm(q, x, Kind(r)) /\ q.phase # "idle"
      BY <1>1, <2>1 DEF Tracked, Calm, Release, Request
    <2> HIDE DEF x
    <2> QED  BY <1>2, <1>3, <2>1, <2>2, <2>3
  <1>11. CASE Stalls(r)
    <2> DEFINE x == [q EXCEPT !.aborted = TRUE]
    <2>1. req' = [req EXCEPT ![r] = x]
      BY <1>1, <1>11 DEF Stalls
    <2>2. x \in Request
      BY <1>1 DEF Request
    <2>3. Calm(q, x, Kind(r)) /\ x.phase = q.phase
      BY <1>1 DEF Calm, Request
    <2> HIDE DEF x
    <2> QED  BY <1>2, <1>3, <2>1, <2>2, <2>3
  <1>12. CASE Post(r)
    <2> DEFINE n == IF \E y \in Requests : Latest(r, y) THEN Answered(CHOOSE y \in Requests : Latest(r, y)) ELSE 0
               x == IF Refused THEN [q EXCEPT !.phase = "refused"]
                    ELSE [q EXCEPT !.phase = "reading", !.counted = TRUE, !.results = n]
    <2>1. req' = [req EXCEPT ![r] = x]
      BY <1>12 DEF Post
    <2>2. Calm(q, x, Kind(r))
      <3> HIDE DEF n
      <3> QED  BY <1>1, <1>12 DEF Calm, Request, Post
    <2> HIDE DEF x
    <2>3. \A y \in Requests : Calm(req[y], req'[y], Kind(y)) /\ (y # r => req'[y] = req[y])
      BY <1>1, <2>1, <2>2 DEF Calm
    <2> QED  BY <1>2, <1>12, <2>3
  <1> QED  BY <1>4, <1>5, <1>6, <1>7, <1>8, <1>9, <1>10, <1>11, <1>12

\* So do the launcher and the server, but that they may cancel sessions.
LEMMA CalmCancel ==
  ASSUME IInv, \/ \E t \in Turns : Interrupt(t) \/ CancelTrace(t)
               \/ CancelTurns \/ Drain \/ Resume \/ Shutdown \/ ShutsDown \/ UNCHANGED vars
  PROVE  /\ scenario' = scenario /\ \A t \in Turns : Faded(session[t], session'[t])
         /\ \A x \in Requests : Calm(req[x], req'[x], Kind(x)) /\ (req[x].phase = "idle" => req'[x].phase = "idle")
  <1>1. req \in [Requests -> Request] /\ session \in [Turns -> Session]
    BY DEF IInv, Typed
  <1>2. \A t \in Turns : Faded(session[t], session[t]) /\ Faded(session[t], Entombed(t))
    <2> TAKE t \in Turns
    <2>1. session[t] \in Session
      BY <1>1
    <2> DEFINE s == session[t]
               outcome == IF s.outcome = "none" THEN "cancelled" ELSE s.outcome
               e == [s EXCEPT !.life = "retiring", !.tombstone = TRUE, !.outcome = outcome]
    <2>2. Entombed(t) = (IF s.life = "live" THEN e ELSE s)
      BY DEF Entombed
    <2>3. outcome = s.outcome \/ (s.outcome = "none" /\ outcome = "cancelled")
      OBVIOUS
    <2> HIDE DEF outcome
    <2>4. s.life = "live" => Faded(s, e)
      BY <2>1, <2>3 DEF Faded, Session
    <2>5. Faded(s, s)
      BY DEF Faded
    <2> HIDE DEF e
    <2> QED  BY <2>2, <2>4, <2>5
  <1>3. \A x \in Requests : Calm(req[x], req[x], Kind(x))
    BY DEF Calm
  <1>4. ASSUME NEW rs, Aborted(rs), rs \subseteq ActiveHttp
        PROVE  \A x \in Requests : Calm(req[x], req'[x], Kind(x)) /\ (req[x].phase = "idle" => req'[x].phase = "idle")
    <2> TAKE x \in Requests
    <2> DEFINE q == req[x]
               a == [q EXCEPT !.aborted = TRUE]
               b == IF q.phase \in {"streaming", "plain"} THEN Release(a) ELSE a
    <2>1. req'[x] = (IF x \notin rs THEN q ELSE b)
      BY <1>4 DEF Aborted
    <2>2. q \in Request
      BY <1>1
    <2>3. Calm(q, b, Kind(x)) /\ (q.phase = "idle" => b.phase = "idle")
      BY <2>2 DEF Calm, Release, Request
    <2> HIDE DEF b
    <2> QED  BY <1>3, <2>1, <2>3
  <1>5. CASE \E t \in Turns : Interrupt(t)
    <2>1. PICK t \in Turns : Interrupt(t)
      BY <1>5
    <2>2. scenario' = scenario /\ session' = [session EXCEPT ![t] = Entombed(t)]
          /\ Aborted({r \in ActiveHttp : req[r].bound /\ T(r) = t})
      BY <2>1 DEF Interrupt
    <2>3. \A u \in Turns : session'[u] = session[u] \/ session'[u] = Entombed(u)
      BY <1>1, <2>2
    <2> QED  BY <1>2, <1>4, <2>2, <2>3
  <1>6. CASE \E t \in Turns : CancelTrace(t)
    <2>1. PICK t \in Turns : CancelTrace(t)
      BY <1>6
    <2>2. scenario' = scenario /\ session' = [session EXCEPT ![t] = Entombed(t)] /\ req' = req
      BY <2>1 DEF CancelTrace
    <2>3. \A u \in Turns : session'[u] = session[u] \/ session'[u] = Entombed(u)
      BY <1>1, <2>2
    <2> QED  BY <1>2, <1>3, <2>2, <2>3
  <1>7. CASE CancelTurns
    <2>1. scenario' = scenario /\ session' = [t \in Turns |-> Entombed(t)] /\ Aborted(ActiveHttp)
      BY <1>7 DEF CancelTurns
    <2>2. \A t \in Turns : session'[t] = Entombed(t)
      BY <2>1
    <2> QED  BY <1>2, <1>4, <2>1, <2>2
  <1>8. CASE Drain \/ Resume \/ Shutdown \/ ShutsDown \/ UNCHANGED vars
    BY <1>2, <1>3, <1>8 DEF Drain, Resume, Shutdown, ShutsDown, vars
  <1> QED  BY <1>5, <1>6, <1>7, <1>8

-----------------------------------------------------------------------------
(* Every step keeps what the page wrote.                                    *)

\* Codex goes on with a turn only when it knows what became of the request before.
LEMMA PostKnown ==
  ASSUME KeptInv, NEW r \in Requests, Post(r), NEW q \in Requests, q < r, OfTurn(r, q)
  PROVE  Known(q)
  <1>1. CASE Latest(r, q)
    BY <1>1 DEF Post, Continues
  <1>2. CASE ~Latest(r, q)
    <2>1. PICK n \in (q + 1) .. (r - 1) : OfTurn(r, n)
      BY <1>2 DEF Latest
    <2>2. n \in Requests /\ q < n /\ n < r /\ Posts \in Nat
      BY <2>1, HttpAssumption DEF Requests
    <2>3. req[n].phase # "idle"
      BY <2>2 DEF Post
    <2>4. OfTurn(n, q)
      BY <2>1 DEF OfTurn
    <2>5. T(q) \in Turns
      BY Places DEF KeptInv, IInv
    <2>6. Alone(T(q))
      BY <2>5 DEF KeptInv, TurnInv
    <2> QED  BY <2>2, <2>3, <2>4, <2>6 DEF Alone
  <1> QED  BY <1>1, <1>2

\* Who is of a turn does not change.
LEMMA SameScenario ==
  ASSUME scenario' = scenario
  PROVE  \A r \in Requests : /\ T(r)' = T(r) /\ Kind(r)' = Kind(r) /\ Compacts(r)' = Compacts(r)
                             /\ \A q \in Requests : OfTurn(r, q)' = OfTurn(r, q)
  BY DEF T, Kind, Compacts, OfTurn

\* The older rounds of a turn stay so, if the rounds that are there after the step are as they must be.
LEMMA AloneAfter ==
  ASSUME NEW t, Alone(t), scenario' = scenario,
         \A x \in Requests : T(x) = t =>
           /\ req[x].gone => req'[x].gone
           /\ req'[x].gone => req[x].gone \/ req'[x].aborted
           /\ req[x].aborted => req'[x].aborted
           /\ req[x].phase \in {"over", "refused"} => req'[x].phase = req[x].phase
           /\ req'[x].round \in {"begin", "queued", "waiting"} => Kind(x) \in {"stream", "json"}
           /\ req'[x].round = "compacting" => Compacts(x),
         \A q, r \in Requests : q < r /\ T(q) = t /\ OfTurn(r, q) /\ req'[r].phase # "idle" => req[r].phase # "idle" \/ Known(q),
         \A q, r \in Requests : q < r /\ T(q) = t /\ T(r) = t /\ InRound(q)' /\ InRound(r)' =>
                                  req'[q].aborted /\ req'[q].round = "queued"
  PROVE  Alone(t)'
  <1>1. \A r \in 1 .. Posts : /\ T(r)' = T(r) /\ Kind(r)' = Kind(r) /\ Compacts(r)' = Compacts(r)
                             /\ \A q \in 1 .. Posts : OfTurn(r, q)' = OfTurn(r, q)
    BY SameScenario DEF Requests
  <1>2. ASSUME NEW r \in 1 .. Posts, T(r) = t
        PROVE  /\ req'[r].gone => req'[r].aborted
               /\ req'[r].round \in {"begin", "queued", "waiting"} => Kind(r) \in {"stream", "json"}
               /\ req'[r].round = "compacting" => Compacts(r)
    BY <1>2 DEF Alone, Requests
  <1>3. ASSUME NEW q \in 1 .. Posts, NEW r \in 1 .. Posts, q < r, T(q) = t, OfTurn(r, q), req'[r].phase # "idle"
        PROVE  Known(q)'
    <2>1. Known(q)
      BY <1>3 DEF Alone, Requests
    <2> QED  BY <1>3, <2>1 DEF Known, Requests
  <1>4. ASSUME NEW q \in 1 .. Posts, NEW r \in 1 .. Posts, q < r, T(q) = t, T(r) = t, InRound(q)', InRound(r)'
        PROVE  req'[q].aborted /\ req'[q].round = "queued"
    BY <1>4 DEF Requests
  <1> QED  BY <1>1, <1>2, <1>3, <1>4 DEF Alone, Requests

\* A step that begins no round leaves them as they are.
LEMMA AloneStill ==
  ASSUME NEW t, Alone(t), scenario' = scenario,
         \A x \in Requests : T(x) = t =>
           /\ req[x].gone => req'[x].gone
           /\ req'[x].gone => req[x].gone \/ req'[x].aborted
           /\ req[x].aborted => req'[x].aborted
           /\ req[x].phase \in {"over", "refused"} => req'[x].phase = req[x].phase
           /\ req'[x].round \in {"begin", "queued", "waiting"} => Kind(x) \in {"stream", "json"}
           /\ req'[x].round = "compacting" => Compacts(x)
           /\ InRound(x)' => InRound(x) /\ req'[x].round = req[x].round,
         \A q, r \in Requests : q < r /\ T(q) = t /\ OfTurn(r, q) /\ req'[r].phase # "idle" => req[r].phase # "idle" \/ Known(q)
  PROVE  Alone(t)'
  <1>1. ASSUME NEW q \in Requests, NEW r \in Requests, q < r, T(q) = t, T(r) = t, InRound(q)', InRound(r)'
        PROVE  req'[q].aborted /\ req'[q].round = "queued"
    BY <1>1 DEF Alone
  <1> QED  BY <1>1, AloneAfter

\* A step that begins no round and takes nothing keeps what is known of each turn.
LEMMA CalmTurn ==
  ASSUME KeptInv, scenario' = scenario, NEW t \in Turns, Faded(session[t], session'[t]),
         \A x \in Requests : Calm(req[x], req'[x], Kind(x)),
         (\A x \in Requests : req[x].phase = "idle" => req'[x].phase = "idle")
           \/ (\E r \in Requests : Post(r) /\ \A x \in Requests : x # r => req'[x] = req[x])
  PROVE  TurnInv(t)'
  <1>1. TurnInv(t) /\ \A r \in Requests : T(r)' = T(r) /\ Kind(r)' = Kind(r)
    BY SameScenario DEF KeptInv
  <1>2. ASSUME NEW x \in Requests
        PROVE  /\ InRound(x)' => InRound(x) /\ req'[x].round = req[x].round
               /\ InRound(x) => req'[x].round = req[x].round
               /\ req[x].aborted => req'[x].aborted
               /\ req'[x].events = req[x].events /\ req'[x].segment = req[x].segment
    BY DEF Calm, InRound
  <1>3. Alone(t)'
    <2>1. Alone(t)
      BY <1>1 DEF TurnInv
    <2>2. ASSUME NEW x \in Requests, T(x) = t
          PROVE  /\ req[x].gone => req'[x].gone
                 /\ req'[x].gone => req[x].gone \/ req'[x].aborted
                 /\ req[x].aborted => req'[x].aborted
                 /\ req[x].phase \in {"over", "refused"} => req'[x].phase = req[x].phase
                 /\ req'[x].round \in {"begin", "queued", "waiting"} => Kind(x) \in {"stream", "json"}
                 /\ req'[x].round = "compacting" => Compacts(x)
                 /\ InRound(x)' => InRound(x) /\ req'[x].round = req[x].round
      BY <1>2, <2>1, <2>2 DEF Calm, Alone, Compacts
    <2>3. ASSUME NEW q \in Requests, NEW r \in Requests, q < r, OfTurn(r, q), req'[r].phase # "idle"
          PROVE  req[r].phase # "idle" \/ Known(q)
      <3>1. CASE \A x \in Requests : req[x].phase = "idle" => req'[x].phase = "idle"
        BY <2>3, <3>1
      <3>2. CASE \E y \in Requests : Post(y) /\ \A x \in Requests : x # y => req'[x] = req[x]
        BY <2>3, <3>2, PostKnown
      <3> QED  BY <3>1, <3>2
    <2> QED  BY <2>1, <2>2, <2>3, AloneStill
  <1>4. Heeded(t)'
    <2>1. session'[t].holder = session[t].holder /\ session'[t].segment = session[t].segment
      BY DEF Faded
    <2>2. Heeded(t)
      BY <1>1 DEF TurnInv
    <2>3. \A x \in 1 .. Posts : req'[x].round = "waiting" <=> req[x].round = "waiting"
      BY <1>2 DEF InRound, Requests
    <2> QED  BY <1>1, <1>2, <2>1, <2>2, <2>3 DEF Heeded, Requests
  <1>5. Served(t)'
    <2> SUFFICES ASSUME session'[t].life # "none" PROVE Served(t)'
      BY DEF Served
    <2>1. Kept(session[t], scenario.page, Heard(t), Wanted(t))
      BY <1>1 DEF TurnInv, Served, Faded
    <2>2. Heard(t)' = Heard(t)
      BY <1>1, <1>2 DEF TurnInv, Heeded, Heard, Faded
    <2>3. Wanted(t)' => Wanted(t)
      BY <1>1, <1>2 DEF Wanted, Awaited, Faded, Requests
    <2>4. Kept(session'[t], scenario.page, Heard(t), Wanted(t)')
      BY <2>1, <2>3, FadedKept
    <2> QED  BY <2>2, <2>4 DEF Served
  <1> QED  BY <1>3, <1>4, <1>5 DEF TurnInv

\* Another turn does not notice.
LEMMA OtherTurn ==
  ASSUME KeptInv, scenario' = scenario, NEW t \in Turns, session'[t] = session[t],
         \A x \in Requests : T(x) = t => req'[x] = req[x]
  PROVE  TurnInv(t)'
  <1>1. TurnInv(t) /\ \A r \in 1 .. Posts : T(r)' = T(r) /\ Kind(r)' = Kind(r)
    BY SameScenario DEF KeptInv, Requests
  <1>2. Heeded(t)'
    BY <1>1 DEF TurnInv, Heeded, Requests
  <1>3. Heard(t)' = Heard(t) /\ (Wanted(t)' <=> Wanted(t))
    <2>1. Heard(t)' = Heard(t)
      BY <1>1 DEF TurnInv, Heeded, Heard
    <2>2. Wanted(t)' <=> Wanted(t)
      BY <1>1 DEF Wanted, Awaited, InRound, Requests
    <2> QED  BY <2>1, <2>2
  <1>4. Served(t)'
    <2> SUFFICES ASSUME session'[t].life # "none" PROVE Kept(session'[t], scenario'.page, Heard(t)', Wanted(t)')
      BY DEF Served
    <2>1. Kept(session[t], scenario.page, Heard(t), Wanted(t))
      BY <1>1 DEF TurnInv, Served
    <2>2. Faded(session[t], session'[t])
      BY DEF Faded
    <2>3. Kept(session'[t], scenario.page, Heard(t), Wanted(t)')
      BY <1>3, <2>1, <2>2, FadedKept
    <2> QED  BY <1>3, <2>3
  <1>5. Alone(t)'
    <2>1. Alone(t)
      BY <1>1 DEF TurnInv
    <2>2. ASSUME NEW x \in Requests, T(x) = t
          PROVE  /\ req[x].gone => req'[x].gone
                 /\ req'[x].gone => req[x].gone \/ req'[x].aborted
                 /\ req[x].aborted => req'[x].aborted
                 /\ req[x].phase \in {"over", "refused"} => req'[x].phase = req[x].phase
                 /\ req'[x].round \in {"begin", "queued", "waiting"} => Kind(x) \in {"stream", "json"}
                 /\ req'[x].round = "compacting" => Compacts(x)
                 /\ InRound(x)' => InRound(x) /\ req'[x].round = req[x].round
      BY <2>1, <2>2 DEF Alone, InRound
    <2>3. ASSUME NEW q \in Requests, NEW r \in Requests, q < r, T(q) = t, OfTurn(r, q), req'[r].phase # "idle"
          PROVE  req[r].phase # "idle" \/ Known(q)
      BY <2>3 DEF OfTurn
    <2> QED  BY <2>1, <2>2, <2>3, AloneStill
  <1> QED  BY <1>2, <1>4, <1>5 DEF TurnInv

\* Somebody else may be answered from the session of r.
Rivals(r) == \E x \in Requests \ {r} : T(x) = T(r) /\ InRound(x) /\ ~req[x].aborted

LEMMA NoRivals ==
  ASSUME KeptInv, NEW r \in Requests, req[r].round = "waiting"
  PROVE  ~Rivals(r) /\ S(r).holder = r
  <1>1. T(r) \in Turns
    BY Places DEF KeptInv, IInv
  <1>2. Alone(T(r)) /\ Heeded(T(r))
    <2>1. TurnInv(T(r))
      BY <1>1 DEF KeptInv
    <2> QED  BY <2>1 DEF TurnInv
  <1>3. ASSUME NEW x \in Requests \ {r}, T(x) = T(r), InRound(x) PROVE req[x].aborted
    <2>1. x < r \/ r < x
      BY HttpAssumption DEF Requests
    <2>2. InRound(r)
      BY DEF InRound
    <2> QED  BY <1>2, <1>3, <2>1, <2>2 DEF Alone
  <1> QED  BY <1>2, <1>3 DEF Rivals, Heeded, S

LEMMA LessWanted ==
  ASSUME NEW s, NEW page, NEW es, NEW v, NEW w, Kept(s, page, es, v), w => v
  PROVE  Kept(s, page, es, w)
  BY DEF Kept

\* A round of r is over, and leaves s of its session.
LEMMA OverTurn ==
  ASSUME KeptInv, NEW r \in Requests, req[r].round \in {"begin", "queued", "waiting", "compacting"},
         NEW es, NEW s \in Session, NEW b, Over(r, es, s, b),
         s.holder = S(r).holder, s.segment = S(r).segment, s.life = "none" <=> S(r).life = "none",
         NEW v, s.life = "live" \/ Rivals(r) => v,
         S(r).life # "none" => Kept(Freed(r, s), scenario.page, IF req[r].round = "waiting" THEN <<>> ELSE Heard(T(r)), v)
  PROVE  \A t \in Turns : TurnInv(t)'
  <1>0. PICK u \in Turns : u = T(r)
    BY Places DEF KeptInv, IInv
  <1> DEFINE f == Freed(r, s)
             call == IF Batch(es) THEN s.outstanding ELSE 0
             q == [req[r] EXCEPT !.round = "over", !.segment = S(r).segment, !.call = call]
  <1>1. /\ u \in Turns /\ req[r] \in Request /\ S(r) \in Session /\ S(r) = session[u] /\ Typed
    BY <1>0, RoundPlaces DEF KeptInv
  <1>2. /\ scenario' = scenario /\ session' = [session EXCEPT ![u] = f]
        /\ req' = [req EXCEPT ![r].round = "over", ![r].segment = S(r).segment, ![r].call = call]
    BY <1>0 DEF Over
  <1>3. /\ q.round = "over" /\ q.gone = req[r].gone /\ q.aborted = req[r].aborted /\ q.phase = req[r].phase
        /\ q.events = req[r].events
    BY <1>1 DEF Request
  <1>4. req'[r] = q /\ \A x \in Requests : x # r => req'[x] = req[x]
    BY <1>1, <1>2 DEF Typed
  <1>5. session'[u] = f /\ \A t \in Turns : t # u => session'[t] = session[t]
    BY <1>1, <1>2 DEF Typed
  <1>6. /\ f.life = s.life /\ f.segment = s.segment
        /\ f.holder = (IF s.holder = r THEN 0 ELSE s.holder)
    BY DEF Freed, Session
  <1> HIDE DEF f, q, call
  <1>7. ASSUME NEW t \in Turns, t # u PROVE TurnInv(t)'
    BY <1>0, <1>2, <1>4, <1>5, <1>7, OtherTurn
  <1>8. TurnInv(u)'
    <2>1. TurnInv(u) /\ \A x \in 1 .. Posts : T(x)' = T(x) /\ Kind(x)' = Kind(x)
      BY <1>1, <1>2, SameScenario DEF KeptInv, Requests
    <2>2. ASSUME NEW x \in 1 .. Posts
          PROVE  (InRound(x)' <=> InRound(x) /\ x # r) /\ (x # r => req'[x] = req[x])
      BY <1>3, <1>4 DEF InRound, Requests
    <2>3. Alone(u)'
      <3>1. Alone(u)
        BY <2>1 DEF TurnInv
      <3>2. ASSUME NEW x \in Requests, T(x) = u
            PROVE  /\ req[x].gone => req'[x].gone
                   /\ req'[x].gone => req[x].gone \/ req'[x].aborted
                   /\ req[x].aborted => req'[x].aborted
                   /\ req[x].phase \in {"over", "refused"} => req'[x].phase = req[x].phase
                   /\ req'[x].round \in {"begin", "queued", "waiting"} => Kind(x) \in {"stream", "json"}
                   /\ req'[x].round = "compacting" => Compacts(x)
                   /\ InRound(x)' => InRound(x) /\ req'[x].round = req[x].round
        BY <1>3, <1>4, <2>2, <3>1, <3>2 DEF Alone, Requests
      <3>3. ASSUME NEW a \in Requests, NEW c \in Requests, a < c, T(a) = u, OfTurn(c, a), req'[c].phase # "idle"
            PROVE  req[c].phase # "idle" \/ Known(a)
        BY <1>3, <1>4, <3>3
      <3> QED  BY <1>2, <3>1, <3>2, <3>3, AloneStill
    <2>4. Heeded(u)'
      <3>1. Heeded(u)
        BY <2>1 DEF TurnInv
      <3>2. 0 \notin Requests
        BY HttpAssumption DEF Requests
      <3>3. ASSUME NEW x \in 1 .. Posts, T(x) = u, req'[x].round = "waiting"
            PROVE  f.holder = x /\ req'[x].segment = f.segment
        <4>1. x # r /\ req'[x] = req[x]
          BY <1>3, <1>4, <3>3 DEF Requests
        <4> QED  BY <1>1, <1>6, <3>1, <3>3, <4>1 DEF Heeded, Requests
      <3>4. f.holder # 0 => f.holder \in Requests /\ T(f.holder) = u /\ req'[f.holder].round = "waiting"
        BY <1>0, <1>1, <1>4, <1>6, <3>1 DEF Heeded
      <3>5. \A x \in 1 .. Posts : T(x) = u => req'[x].events \in Seq(Written)
        BY <1>3, <1>4, <3>1 DEF Heeded, Requests
      <3> QED  BY <1>5, <2>1, <3>3, <3>4, <3>5 DEF Heeded, Requests
    <2>5. Served(u)'
      <3> SUFFICES ASSUME f.life # "none" PROVE Kept(f, scenario.page, Heard(u)', Wanted(u)')
        BY <1>2, <1>5 DEF Served
      <3>1. Kept(f, scenario.page, IF req[r].round = "waiting" THEN <<>> ELSE Heard(u), v)
        BY <1>0, <1>1, <1>6 DEF f
      <3>2. Heard(u)' = (IF req[r].round = "waiting" THEN <<>> ELSE Heard(u))
        <4>1. CASE req[r].round = "waiting"
          <5>1. s.holder = r
            BY <1>0, <1>1, <4>1, NoRivals
          <5> QED  BY <1>5, <1>6, <4>1, <5>1 DEF Heard
        <4>2. CASE req[r].round # "waiting"
          <5>1. s.holder # r /\ (s.holder # 0 => s.holder \in Requests) /\ session[u].holder = s.holder
            <6>1. 0 \notin Requests
              BY HttpAssumption DEF Requests
            <6> QED  BY <1>0, <1>1, <2>1, <4>2, <6>1 DEF TurnInv, Heeded
          <5> QED  BY <1>4, <1>5, <1>6, <4>2, <5>1 DEF Heard
        <4> QED  BY <4>1, <4>2
      <3>3. Wanted(u)' => v
        <4>1. ASSUME Awaited(u)' PROVE Rivals(r)
          BY <1>0, <2>1, <2>2, <4>1 DEF Awaited, Rivals, Requests
        <4> QED  BY <1>5, <1>6, <4>1 DEF Wanted
      <3> QED  BY <3>1, <3>2, <3>3, LessWanted
    <2> QED  BY <2>3, <2>4, <2>5 DEF TurnInv
  <1> QED  BY <1>7, <1>8

LEMMA RetireFades ==
  ASSUME NEW s \in Session
  PROVE  Retire(s) \in Session /\ Faded(s, Retire(s)) /\ Retire(s).life # "live"
  <1> DEFINE outcome == IF s.outcome = "none" THEN "cancelled" ELSE s.outcome
             e == [s EXCEPT !.life = "retiring", !.outcome = outcome]
  <1>1. Retire(s) = (IF s.life = "live" THEN e ELSE s)
    BY DEF Retire
  <1>2. outcome \in Outcomes /\ (outcome = s.outcome \/ (s.outcome = "none" /\ outcome = "cancelled"))
    BY DEF Session, Outcomes
  <1> HIDE DEF outcome
  <1>3. s.life = "live" => Faded(s, e) /\ e \in Session /\ e.life = "retiring"
    BY <1>2 DEF Faded, Session
  <1>4. Faded(s, s)
    BY DEF Faded
  <1> HIDE DEF e
  <1> QED  BY <1>1, <1>3, <1>4

LEMMA TurnOf ==
  ASSUME KeptInv, NEW r \in Requests
  PROVE  /\ T(r) \in Turns /\ S(r) = session[T(r)] /\ S(r) \in Session /\ TurnInv(T(r)) /\ req[r] \in Request
         /\ scenario.page \in Seq(Acts) /\ PageEnds(scenario.page) /\ Scripted(S(r)) /\ 0 \notin Requests
         /\ S(r).life # "none" => Kept(S(r), scenario.page, Heard(T(r)), Wanted(T(r)))
         /\ req[r].events \in Seq(Written) /\ (InRound(r) => S(r).life # "none")
         /\ S(r).holder = r <=> req[r].round = "waiting"
         /\ req[r].round = "waiting" => Heard(T(r)) = req[r].events /\ req[r].segment = S(r).segment
         /\ S(r).holder = 0 => Heard(T(r)) = <<>>
  <1>1. /\ T(r) \in Turns /\ S(r) = session[T(r)] /\ S(r) \in Session /\ TurnInv(T(r)) /\ req[r] \in Request
        /\ scenario.page \in Seq(Acts) /\ scenario \in Scenarios /\ Scripted(S(r)) /\ Lives(r)
    BY RoundPlaces, Places DEF KeptInv, Typed
  <1>2. 0 \notin Requests
    BY HttpAssumption DEF Requests
  <1>3. PageEnds(scenario.page)
    BY <1>1, PagesEnd DEF PageEnds
  <1>4. Served(T(r)) /\ Heeded(T(r))
    BY <1>1 DEF TurnInv
  <1> QED  BY <1>1, <1>2, <1>3, <1>4 DEF Served, Heeded, Heard, Lives

\* A round ends with the session it stands for.
LEMMA RetiresTurn ==
  ASSUME KeptInv, NEW r \in Requests, InRound(r), NEW es, NEW b, Over(r, es, Retire(S(r)), b)
  PROVE  \A t \in Turns : TurnInv(t)'
  <1> DEFINE s == S(r)
             x == Retire(s)
             page == scenario.page
  <1>1. /\ s \in Session /\ s.life # "none" /\ Kept(s, page, Heard(T(r)), Wanted(T(r))) /\ S(r) = session[T(r)]
        /\ (s.holder = r <=> req[r].round = "waiting") /\ 0 \notin Requests
    BY TurnOf
  <1>2. x \in Session /\ Faded(s, x) /\ x.life # "live"
    BY <1>1, RetireFades
  <1>3. Over(r, es, x, b) /\ req[r].round \in {"queued", "waiting"}
    BY DEF InRound
  <1> HIDE DEF x
  <1>4. CASE req[r].round = "waiting"
    <2>1. s.holder = r /\ r # 0 /\ ~Rivals(r)
      BY <1>1, <1>4, NoRivals
    <2> DEFINE f == Freed(r, x)
    <2>2. f = [x EXCEPT !.holder = 0, !.held = "none"]
      BY <1>2, <2>1 DEF Freed, Faded
    <2>3. /\ f.holder = 0 /\ f.held = "none" /\ f.script = s.script /\ f.segment = s.segment /\ f.final = s.final
          /\ f.batch = s.batch /\ f.outstanding = s.outstanding /\ (f.outcome = s.outcome \/ f.outcome = "cancelled")
          /\ f.text = s.text /\ f.trace = s.trace
      BY <1>2, <2>2 DEF Session, Faded
    <2> HIDE DEF f
    <2>4. Kept(f, page, <<>>, FALSE)
      BY <1>1, <2>1, <2>3, LostKept
    <2>5. x.holder = s.holder /\ x.segment = s.segment /\ (x.life = "none" <=> s.life = "none")
      BY <1>2 DEF Faded
    <2>6. x.life = "live" \/ Rivals(r) => FALSE
      BY <1>2, <2>1
    <2> QED  BY <1>2, <1>3, <1>4, <2>4, <2>5, <2>6, OverTurn DEF f
  <1>5. CASE req[r].round = "queued"
    <2>1. Freed(r, x) = x
      BY <1>1, <1>2, <1>5 DEF Freed, Faded
    <2>2. Kept(x, page, Heard(T(r)), Wanted(T(r)))
      BY <1>1, <1>2, FadedKept
    <2>3. x.holder = s.holder /\ x.segment = s.segment /\ (x.life = "none" <=> s.life = "none")
      BY <1>2 DEF Faded
    <2>4. x.life = "live" \/ Rivals(r) => Wanted(T(r))
      BY <1>2 DEF Rivals, Wanted, Awaited
    <2> QED  BY <1>2, <1>3, <1>5, <2>1, <2>2, <2>3, <2>4, OverTurn
  <1> QED  BY <1>3, <1>4, <1>5

\* A round ends and leaves its session as it is.
LEMMA StaysTurn ==
  ASSUME KeptInv, NEW r \in Requests, NEW es, NEW b, Over(r, es, S(r), b),
         \/ req[r].round \in {"begin", "queued", "compacting"}
         \/ req[r].round = "waiting" /\ S(r).outcome \in {"retryable", "fatal"}
  PROVE  \A t \in Turns : TurnInv(t)'
  <1> DEFINE s == S(r)
             page == scenario.page
  <1>1. /\ s \in Session /\ (s.life # "none" => Kept(s, page, Heard(T(r)), Wanted(T(r)))) /\ S(r) = session[T(r)]
        /\ (s.holder = r <=> req[r].round = "waiting") /\ 0 \notin Requests
        /\ (InRound(r) => s.life # "none")
    BY TurnOf
  <1>2. CASE req[r].round = "waiting" /\ s.outcome \in {"retryable", "fatal"}
    <2>1. s.holder = r /\ r # 0 /\ s.life # "none"
      BY <1>1, <1>2 DEF InRound
    <2> DEFINE f == Freed(r, s)
    <2>2. f = [s EXCEPT !.holder = 0, !.held = "none"]
      BY <2>1 DEF Freed
    <2>3. /\ f.holder = 0 /\ f.held = "none" /\ f.script = s.script /\ f.segment = s.segment /\ f.final = s.final
          /\ f.batch = s.batch /\ f.outstanding = s.outstanding /\ f.outcome = s.outcome
          /\ f.text = s.text /\ f.trace = s.trace
      BY <1>1, <2>2 DEF Session
    <2> HIDE DEF f
    <2>4. Kept(f, page, <<>>, TRUE)
      BY <1>1, <1>2, <2>1, <2>3, LostKept
    <2> QED  BY <1>1, <1>2, <2>4, OverTurn DEF f
  <1>3. CASE req[r].round \in {"begin", "queued", "compacting"}
    <2>1. Freed(r, s) = s
      BY <1>1, <1>3 DEF Freed
    <2>2. s.life = "live" \/ Rivals(r) => Wanted(T(r))
      BY <1>1 DEF Rivals, Wanted, Awaited
    <2> QED  BY <1>1, <1>3, <2>1, <2>2, OverTurn
  <1> QED  BY <1>2, <1>3

LEMMA CatchTurn ==
  ASSUME KeptInv, NEW r \in Requests, InRound(r), NEW why,
         why \in {"retryable", "fatal"} => S(r).outcome = why, Catch(r, why)
  PROVE  \A t \in Turns : TurnInv(t)'
  <1>1. CASE why = "retryable"
    <2>1. \/ Over(r, <<"error">>, S(r), Recorded(T(r)))
          \/ Over(r, <<"error">>, Retire(S(r)), Recorded(T(r)))
      BY <1>1 DEF Catch
    <2> QED  BY <1>1, <2>1, RetiresTurn, StaysTurn DEF InRound
  <1>2. CASE why = "fatal"
    BY <1>2, StaysTurn DEF Catch, InRound
  <1>3. CASE why \notin {"retryable", "fatal"}
    BY <1>3, RetiresTurn DEF Catch
  <1> QED  BY <1>1, <1>2, <1>3

\* A round ends and keeps what it sent, to be sent again.
LEMMA ClosesTurn ==
  ASSUME KeptInv, NEW r \in Requests, InRound(r), req[r].round = "waiting" \/ S(r).holder = 0,
         NEW es, NEW s \in Session, NEW b, Over(r, es, s, b),
         s.script = S(r).script, s.segment = S(r).segment, s.outcome = S(r).outcome, s.life = S(r).life,
         s.holder = S(r).holder, s.held = S(r).held,
         s.text = 0, s.trace = 0, s.final \in Seq(Written),
         Count(s.final, {"text"}) = Count(S(r).final, {"text"}) + Count(Heard(T(r)), {"text"}) + S(r).text,
         Count(s.final, {"think"}) = Count(S(r).final, {"think"}) + Count(Heard(T(r)), {"think"}) + S(r).trace,
         s.batch \/ s.outstanding # 0 => S(r).batch \/ S(r).outstanding # 0,
         s.outstanding # 0 \/ s.outcome = "final"
  PROVE  \A t \in Turns : TurnInv(t)'
  <1> DEFINE o == S(r)
             f == Freed(r, s)
             es0 == Heard(T(r))
             page == scenario.page
  <1>1. /\ o \in Session /\ o.life # "none" /\ Kept(o, page, es0, Wanted(T(r))) /\ S(r) = session[T(r)]
        /\ (o.holder = r <=> req[r].round = "waiting") /\ 0 \notin Requests /\ page \in Seq(Acts)
        /\ req[r].events \in Seq(Written)
        /\ (req[r].round = "waiting" => es0 = req[r].events) /\ (o.holder = 0 => es0 = <<>>)
    BY TurnOf
  <1>2. es0 \in Seq(Written)
    <2>1. <<>> \in Seq(Written)
      OBVIOUS
    <2> QED  BY <1>1, <2>1
  <1>3. f = (IF s.holder = r THEN [s EXCEPT !.holder = 0, !.held = "none"] ELSE s)
    BY DEF Freed
  <1>4. /\ f.script = s.script /\ f.segment = s.segment /\ f.outcome = s.outcome
        /\ f.text = s.text /\ f.trace = s.trace /\ f.final = s.final /\ f.batch = s.batch /\ f.outstanding = s.outstanding
    BY <1>3 DEF Session
  <1>5. f \in Session
    BY FreedKeeps
  <1>6. f.holder = 0 /\ f.held = "none"
    <2>1. CASE s.holder = r
      BY <1>3, <2>1 DEF Session
    <2>2. CASE s.holder # r
      BY <1>1, <1>3, <2>2 DEF Kept, Keeps
    <2> QED  BY <2>1, <2>2
  <1>7. Kept(f, page, <<>>, Wanted(T(r)))
    <2>1. /\ f.script = o.script /\ f.segment = o.segment /\ f.outcome = o.outcome /\ f.text = 0 /\ f.trace = 0
          /\ f.final \in Seq(Written)
          /\ Count(f.final, {"text"}) = Count(o.final, {"text"}) + Count(es0, {"text"}) + o.text
          /\ Count(f.final, {"think"}) = Count(o.final, {"think"}) + Count(es0, {"think"}) + o.trace
          /\ f.batch \/ f.outstanding # 0 => o.batch \/ o.outstanding # 0
          /\ f.outstanding # 0 \/ f.outcome = "final"
      BY <1>4
    <2> HIDE DEF f, o, es0
    <2> QED  BY <1>1, <1>2, <1>5, <1>6, <2>1, ClosedKept
  <1>8. (IF req[r].round = "waiting" THEN <<>> ELSE Heard(T(r))) = <<>>
    BY <1>1
  <1>9. s.life = "live" \/ Rivals(r) => Wanted(T(r))
    BY <1>1 DEF Rivals, Wanted, Awaited
  <1>10. req[r].round \in {"begin", "queued", "waiting", "compacting"}
    BY DEF InRound
  <1>11. Kept(Freed(r, s), scenario.page, IF req[r].round = "waiting" THEN <<>> ELSE Heard(T(r)), Wanted(T(r)))
    BY <1>7, <1>8
  <1> HIDE DEF f, es0
  <1> QED  BY <1>9, <1>10, <1>11, OverTurn

LEMMA ConcludesTurn ==
  ASSUME KeptInv, NEW r \in Requests, InRound(r), req[r].round = "waiting" \/ S(r).holder = 0,
         NEW es, NEW s \in Session, NEW b, Concludes(r, es, s, b),
         s.script = S(r).script, s.segment = S(r).segment, s.outcome = S(r).outcome, s.life = S(r).life,
         s.holder = S(r).holder, s.held = S(r).held,
         s.text = 0, s.trace = 0, s.final \in Seq(Written),
         Count(s.final, {"text"}) = Count(S(r).final, {"text"}) + Count(Heard(T(r)), {"text"}) + S(r).text,
         Count(s.final, {"think"}) = Count(S(r).final, {"think"}) + Count(Heard(T(r)), {"think"}) + S(r).trace,
         s.batch \/ s.outstanding # 0 => S(r).batch \/ S(r).outstanding # 0,
         s.outstanding # 0 \/ s.outcome = "final"
  PROVE  \A t \in Turns : TurnInv(t)'
  <1>1. CASE Over(r, es, s, b)
    BY <1>1, ClosesTurn
  <1>2. CASE Over(r, es, Retire(S(r)), Cleared(T(r)))
    BY <1>2, RetiresTurn
  <1> QED  BY <1>1, <1>2 DEF Concludes

\* What a round takes.
LEMMA Waiting ==
  ASSUME KeptInv, NEW r \in Requests
  PROVE  /\ S(r).text \in Nat /\ S(r).trace \in Nat
         /\ Undrained(S(r)) \in Seq(Written) /\ (S(r).trace = 0 /\ S(r).text = 0 => Undrained(S(r)) = <<>>)
         /\ Count(Undrained(S(r)), {"text"}) = S(r).text /\ Count(Undrained(S(r)), {"think"}) = S(r).trace
         /\ Undrained(S(r)) \in Seq(Events)
  <1>1. S(r) \in Session
    BY TurnOf
  <1>2. S(r).text \in Nat /\ S(r).trace \in Nat
    BY <1>1 DEF Session
  <1>3. Undrained(S(r)) \in Seq(Events)
    BY <1>2, UndrainedTyped
  <1> QED  BY <1>2, <1>3, UndrainedCounts

LEMMA WrittenAreEvents == \A es \in Seq(Written) : es \in Seq(Events)
  <1>1. Written \subseteq Events
    BY DEF Written, Events
  <1> QED  BY <1>1

LEMMA TakesOutcomeTurn ==
  ASSUME KeptInv, NEW r \in Requests, TakesOutcome(r)
  PROVE  \A t \in Turns : TurnInv(t)'
  <1> DEFINE o == S(r)
             es == Undrained(o)
             fs == req[r].events \o es
             s == [Drained(o) EXCEPT !.final = fs]
  <1>1. req[r].round = "waiting" /\ InRound(r) /\ o.outcome # "none"
    BY DEF TakesOutcome, Others, Listens, InRound
  <1>2. CASE o.outcome = "final"
    <2>1. Concludes(r, es \o <<"doneStop">>, s, Cleared(T(r)))
      BY <1>2 DEF TakesOutcome
    <2>2. /\ o \in Session /\ req[r].events \in Seq(Written) /\ Heard(T(r)) = req[r].events
          /\ Keeps(o) /\ o.holder # 0 /\ o.life # "none"
      BY <1>1, TurnOf DEF Kept
    <2>3. /\ es \in Seq(Written) /\ Count(es, {"text"}) = o.text /\ Count(es, {"think"}) = o.trace
          /\ o.text \in Nat /\ o.trace \in Nat
      BY Waiting
    <2> HIDE DEF es
    <2>4. fs \in Seq(Written) /\ fs \in Seq(Events)
      BY <2>2, <2>3, WrittenAreEvents
    <2>5. Count(fs, {"text"}) = Count(req[r].events, {"text"}) + o.text
          /\ Count(fs, {"think"}) = Count(req[r].events, {"think"}) + o.trace
      BY <2>2, <2>3, CountOfBoth
    <2>6. /\ Count(req[r].events, {"text"}) \in Nat /\ Count(req[r].events, {"think"}) \in Nat
          /\ Count(o.final, {"text"}) = 0 /\ Count(o.final, {"think"}) = 0
      BY <2>2, CountTyped, CountOfNone DEF Keeps
    <2> HIDE DEF fs
    <2>7. /\ s \in Session /\ s.script = o.script /\ s.segment = o.segment /\ s.outcome = o.outcome /\ s.life = o.life
          /\ s.holder = o.holder /\ s.held = o.held /\ s.text = 0 /\ s.trace = 0 /\ s.final = fs
          /\ s.batch = o.batch /\ s.outstanding = o.outstanding
      BY <2>2, <2>4 DEF Drained, Session
    <2> HIDE DEF s
    <2>8. Count(fs, {"text"}) = Count(o.final, {"text"}) + Count(Heard(T(r)), {"text"}) + o.text
          /\ Count(fs, {"think"}) = Count(o.final, {"think"}) + Count(Heard(T(r)), {"think"}) + o.trace
      BY <2>2, <2>3, <2>5, <2>6
    <2> HIDE DEF o
    <2> QED  BY <1>1, <1>2, <2>1, <2>4, <2>7, <2>8, ConcludesTurn DEF o
  <1>3. CASE o.outcome # "final"
    BY <1>1, <1>3, CatchTurn DEF TakesOutcome
  <1> QED  BY <1>2, <1>3

LEMMA TakesBatchTurn ==
  ASSUME KeptInv, NEW r \in Requests, TakesBatch(r)
  PROVE  \A t \in Turns : TurnInv(t)'
  <1> DEFINE o == S(r)
             es == Undrained(o)
             fs == req[r].events \o es
             n == budget[T(r)].calls + 1
             s == [Drained(o) EXCEPT !.batch = FALSE, !.outstanding = n, !.final = fs]
             b == [budget[T(r)] EXCEPT !.calls = @ + 1]
  <1>1. req[r].round = "waiting" /\ InRound(r) /\ o.batch
    BY DEF TakesBatch, Others, Listens, InRound
  <1>2. Concludes(r, es \o Call, s, b)
    BY DEF TakesBatch
  <1>3. /\ o \in Session /\ req[r].events \in Seq(Written) /\ Heard(T(r)) = req[r].events
        /\ Keeps(o) /\ o.holder # 0 /\ o.life # "none"
    BY <1>1, TurnOf DEF Kept
  <1>4. /\ es \in Seq(Written) /\ Count(es, {"text"}) = o.text /\ Count(es, {"think"}) = o.trace
        /\ o.text \in Nat /\ o.trace \in Nat
    BY Waiting
  <1>5. n \in Nat \ {0}
    <2>1. budget[T(r)] \in Budgets
      BY RoundPlaces DEF KeptInv
    <2> QED  BY <2>1 DEF Budgets
  <1> HIDE DEF es, n, b
  <1>6. fs \in Seq(Written) /\ fs \in Seq(Events)
    BY <1>3, <1>4, WrittenAreEvents
  <1>7. Count(fs, {"text"}) = Count(req[r].events, {"text"}) + o.text
        /\ Count(fs, {"think"}) = Count(req[r].events, {"think"}) + o.trace
    BY <1>3, <1>4, CountOfBoth
  <1>8. /\ Count(req[r].events, {"text"}) \in Nat /\ Count(req[r].events, {"think"}) \in Nat
        /\ Count(o.final, {"text"}) = 0 /\ Count(o.final, {"think"}) = 0
    BY <1>3, CountTyped, CountOfNone DEF Keeps
  <1> HIDE DEF fs
  <1>9. /\ s \in Session /\ s.script = o.script /\ s.segment = o.segment /\ s.outcome = o.outcome /\ s.life = o.life
        /\ s.holder = o.holder /\ s.held = o.held /\ s.text = 0 /\ s.trace = 0 /\ s.final = fs
        /\ s.batch = FALSE /\ s.outstanding = n
    BY <1>3, <1>5, <1>6 DEF Drained, Session
  <1> HIDE DEF s
  <1>10. Count(fs, {"text"}) = Count(o.final, {"text"}) + Count(Heard(T(r)), {"text"}) + o.text
         /\ Count(fs, {"think"}) = Count(o.final, {"think"}) + Count(Heard(T(r)), {"think"}) + o.trace
    BY <1>3, <1>4, <1>7, <1>8
  <1> HIDE DEF o
  <1> QED  BY <1>1, <1>2, <1>5, <1>6, <1>9, <1>10, ConcludesTurn DEF o

\* The round of r takes es of what waits for it.
LEMMA SendsTurn ==
  ASSUME KeptInv, NEW r \in Requests, req[r].round = "waiting", NEW fs \in Seq(Written), NEW s \in Session,
         Sends(r, fs, s), s.script = S(r).script, s.segment = S(r).segment, s.outcome = S(r).outcome,
         s.batch = S(r).batch, s.outstanding = S(r).outstanding, s.final = S(r).final, s.holder = S(r).holder, s.life = S(r).life,
         Count(fs, {"text"}) + s.text = S(r).text,
         Count(fs, {"think"}) + s.trace + Holds(s) = S(r).trace + Holds(S(r))
  PROVE  \A t \in Turns : TurnInv(t)'
  <1>1. CASE ~Fits(stream[r], fs)
    BY <1>1, RetiresTurn DEF Sends, InRound
  <1>2. CASE Fits(stream[r], fs)
    <2>0. PICK u \in Turns : u = T(r)
      BY Places DEF KeptInv, IInv
    <2> DEFINE es == req[r].events
               q == [req[r] EXCEPT !.events = es \o fs]
               page == scenario.page
    <2>1. /\ S(r) = session[u] /\ S(r) \in Session /\ TurnInv(u) /\ req[r] \in Request /\ page \in Seq(Acts)
          /\ Kept(S(r), page, es, Wanted(u)) /\ es \in Seq(Written) /\ S(r).holder = r /\ r # 0
          /\ req[r].segment = S(r).segment /\ S(r).life # "none"
      BY <2>0, TurnOf DEF InRound
    <2>2. scenario' = scenario /\ session' = [session EXCEPT ![u] = s] /\ req' = [req EXCEPT ![r] = q]
      BY <1>2, <2>0 DEF Sends
    <2>3. req'[r] = q /\ session'[u] = s /\ (\A t \in Turns : t # u => session'[t] = session[t])
          /\ \A x \in Requests : x # r => req'[x] = req[x]
      BY <2>2 DEF KeptInv, IInv, Typed
    <2>4. /\ q.events = es \o fs /\ q.round = "waiting" /\ q.segment = req[r].segment /\ q.aborted = req[r].aborted
          /\ q.gone = req[r].gone /\ q.phase = req[r].phase
      BY <2>1 DEF Request
    <2> HIDE DEF q
    <2>5. es \o fs \in Seq(Written) /\ Kept(s, page, es \o fs, Wanted(u))
      BY <2>1, TakenKept
    <2>6. ASSUME NEW t \in Turns, t # u PROVE TurnInv(t)'
      BY <2>0, <2>2, <2>3, <2>6, OtherTurn
    <2>7. \A x \in 1 .. Posts : /\ T(x)' = T(x) /\ Kind(x)' = Kind(x) /\ req'[x].round = req[x].round
                                /\ req'[x].aborted = req[x].aborted /\ req'[x].segment = req[x].segment
                                /\ InRound(x)' = InRound(x)
      BY <2>2, <2>3, <2>4, SameScenario DEF Requests, InRound
    <2>8. Heeded(u)'
      <3>1. Heeded(u)
        BY <2>1 DEF TurnInv
      <3>2. \A x \in 1 .. Posts : T(x) = u => req'[x].events \in Seq(Written)
        BY <2>3, <2>4, <2>5, <3>1 DEF Heeded, Requests
      <3> QED  BY <2>1, <2>3, <2>7, <3>1, <3>2 DEF Heeded, Requests
    <2>9. Alone(u)'
      <3>1. Alone(u)
        BY <2>1 DEF TurnInv
      <3>2. ASSUME NEW x \in Requests, T(x) = u
            PROVE  /\ req[x].gone => req'[x].gone
                   /\ req'[x].gone => req[x].gone \/ req'[x].aborted
                   /\ req[x].aborted => req'[x].aborted
                   /\ req[x].phase \in {"over", "refused"} => req'[x].phase = req[x].phase
                   /\ req'[x].round \in {"begin", "queued", "waiting"} => Kind(x) \in {"stream", "json"}
                   /\ req'[x].round = "compacting" => Compacts(x)
                   /\ InRound(x)' => InRound(x) /\ req'[x].round = req[x].round
        <4>1. req'[x].gone = req[x].gone /\ req'[x].aborted = req[x].aborted /\ req'[x].phase = req[x].phase
          <5>1. CASE x = r
            BY <2>3, <2>4, <5>1
          <5>2. CASE x # r
            BY <2>3, <5>2
          <5> QED  BY <5>1, <5>2
        <4>2. req'[x].round = req[x].round /\ InRound(x)' = InRound(x)
          BY <2>7 DEF Requests
        <4>3. /\ req[x].gone => req[x].aborted
              /\ req[x].round \in {"begin", "queued", "waiting"} => Kind(x) \in {"stream", "json"}
              /\ req[x].round = "compacting" => Compacts(x)
          BY <3>1, <3>2 DEF Alone
        <4> QED  BY <4>1, <4>2, <4>3
      <3>3. ASSUME NEW a \in Requests, NEW c \in Requests, a < c, T(a) = u, OfTurn(c, a), req'[c].phase # "idle"
            PROVE  req[c].phase # "idle" \/ Known(a)
        BY <2>3, <2>4, <3>3
      <3> QED  BY <2>2, <3>1, <3>2, <3>3, AloneStill
    <2>10. Served(u)'
      <3>1. Heard(u)' = es \o fs
        BY <2>1, <2>3, <2>4 DEF Heard
      <3>2. Wanted(u)' => Wanted(u)
        BY <2>1, <2>3, <2>7 DEF Wanted, Awaited, Requests
      <3>3. Kept(s, page, es \o fs, Wanted(u)')
        BY <2>5, <3>2, LessWanted
      <3> QED  BY <2>2, <2>3, <3>1, <3>3 DEF Served
    <2>11. TurnInv(u)'
      BY <2>8, <2>9, <2>10 DEF TurnInv
    <2> QED  BY <2>6, <2>11
  <1> QED  BY <1>1, <1>2

LEMMA TakesTraceTurn ==
  ASSUME KeptInv, NEW r \in Requests, TakesTrace(r)
  PROVE  \A t \in Turns : TurnInv(t)'
  <1> DEFINE o == S(r)
             fs == <<"boundary", "think">>
             s == NextTrace(o)
  <1>1. req[r].round = "waiting" /\ o.held # "none" /\ Sends(r, fs, s)
    BY DEF TakesTrace, Listens
  <1>2. o \in Session
    BY TurnOf
  <1>3. /\ fs \in Seq(Written) /\ Count(fs, {"text"}) = 0 /\ Count(fs, {"think"}) = 1
    <2>1. <<"boundary">> \in Seq(Written) /\ <<"think">> \in Seq(Written) /\ fs = <<"boundary">> \o <<"think">>
      BY DEF Written
    <2>2. /\ Count(<<"boundary">>, {"text"}) = 0 /\ Count(<<"boundary">>, {"think"}) = 0
          /\ Count(<<"think">>, {"text"}) = 0 /\ Count(<<"think">>, {"think"}) = 1
      BY CountOfOne
    <2>3. \A X : Count(<<"boundary">> \o <<"think">>, X) = Count(<<"boundary">>, X) + Count(<<"think">>, X)
      BY <2>1, CountOfBoth
    <2>4. <<"boundary">> \o <<"think">> \in Seq(Written)
      BY <2>1
    <2>5. fs = <<"boundary">> \o <<"think">>
      BY <2>1
    <2> HIDE DEF fs
    <2>6. Count(fs, {"text"}) = 0 + 0 /\ Count(fs, {"think"}) = 0 + 1
      BY <2>2, <2>3, <2>5
    <2> QED  BY <2>4, <2>5, <2>6
  <1>4. /\ s \in Session /\ s.script = o.script /\ s.segment = o.segment /\ s.outcome = o.outcome
        /\ s.batch = o.batch /\ s.outstanding = o.outstanding /\ s.final = o.final /\ s.holder = o.holder /\ s.life = o.life
        /\ s.text = o.text /\ o.text \in Nat /\ o.trace \in Nat /\ 1 + s.trace + Holds(s) = o.trace + 1
    <2>1. CASE o.trace = 0
      <3>1. s = [o EXCEPT !.held = "none"]
        BY <2>1 DEF NextTrace
      <3>2. "none" \in Held /\ o.text \in Nat
        BY <1>2 DEF Held, Session
      <3>3. s \in Session /\ s.held = "none" /\ s.trace = 0
        BY <1>2, <2>1, <3>1, <3>2 DEF Session
      <3>4. Holds(s) = 0
        BY <3>3 DEF Holds
      <3>5. /\ s.script = o.script /\ s.segment = o.segment /\ s.outcome = o.outcome /\ s.batch = o.batch
            /\ s.outstanding = o.outstanding /\ s.final = o.final /\ s.holder = o.holder /\ s.life = o.life
            /\ s.text = o.text
        BY <1>2, <3>1 DEF Session
      <3>6. 1 + s.trace + Holds(s) = o.trace + 1 /\ o.trace \in Nat
        BY <2>1, <3>3, <3>4
      <3> QED  BY <3>2, <3>3, <3>5, <3>6
    <2>2. CASE o.trace # 0
      <3>1. s = [o EXCEPT !.held = "behind", !.trace = o.trace - 1]
        BY <2>2 DEF NextTrace
      <3>2. "behind" \in Held /\ o.trace \in Nat /\ o.trace - 1 \in Nat
        BY <1>2, <2>2 DEF Held, Session
      <3>3. s.held = "behind" /\ s.trace = o.trace - 1
        BY <1>2, <3>1 DEF Session
      <3>4. Holds(s) = 1 /\ 1 + s.trace + 1 = o.trace + 1
        BY <3>2, <3>3 DEF Holds
      <3> QED  BY <1>2, <3>1, <3>2, <3>4 DEF Session
    <2> QED  BY <2>1, <2>2
  <1>5. Holds(o) = 1
    BY <1>1 DEF Holds
  <1> HIDE DEF s, fs
  <1>6. Count(fs, {"text"}) + s.text = o.text /\ Count(fs, {"think"}) + s.trace + Holds(s) = o.trace + Holds(o)
    BY <1>3, <1>4, <1>5
  <1> QED  BY <1>1, <1>3, <1>4, <1>6, SendsTurn

LEMMA TakesTextTurn ==
  ASSUME KeptInv, NEW r \in Requests, TakesText(r)
  PROVE  \A t \in Turns : TurnInv(t)'
  <1> DEFINE o == S(r)
             m == [o EXCEPT !.trace = 0]
             fs == Undrained(m)
             s == [o EXCEPT !.text = 0]
  <1>1. req[r].round = "waiting" /\ Sends(r, fs, s)
    BY DEF TakesText, Others, Listens
  <1>2. o \in Session
    BY TurnOf
  <1>3. m.trace = 0 /\ m.text = o.text /\ o.text \in Nat /\ o.trace \in Nat
    BY <1>2 DEF Session
  <1> HIDE DEF m
  <1>4. fs \in Seq(Written) /\ Count(fs, {"text"}) = o.text /\ Count(fs, {"think"}) = 0
    BY <1>3, UndrainedCounts
  <1>5. /\ s \in Session /\ s.script = o.script /\ s.segment = o.segment /\ s.outcome = o.outcome
        /\ s.batch = o.batch /\ s.outstanding = o.outstanding /\ s.final = o.final /\ s.holder = o.holder /\ s.life = o.life
        /\ s.text = 0 /\ s.trace = o.trace /\ s.held = o.held
    BY <1>2 DEF Session
  <1> HIDE DEF s, fs
  <1>6. Holds(s) = Holds(o) /\ Holds(o) \in Nat
    BY <1>5 DEF Holds
  <1>7. Count(fs, {"text"}) + s.text = o.text /\ Count(fs, {"think"}) + s.trace + Holds(s) = o.trace + Holds(o)
    BY <1>3, <1>4, <1>5, <1>6
  <1> QED  BY <1>1, <1>4, <1>5, <1>7, SendsTurn

LEMMA GetsSessionTurn ==
  ASSUME KeptInv, NEW r \in Requests, GetsSession(r)
  PROVE  \A t \in Turns : TurnInv(t)'
  <1>1. CASE S(r).tombstone
    <2>1. Over(r, <<"error">>, S(r), budget[T(r)]) /\ req[r].round = "begin"
      BY <1>1 DEF GetsSession
    <2> QED  BY <2>1, StaysTurn
  <1>2. CASE ~S(r).tombstone
    <2>0. PICK u \in Turns : u = T(r)
      BY Places DEF KeptInv, IInv
    <2> DEFINE page == scenario.page
               q == [req[r] EXCEPT !.round = "queued"]
               new == [NoSession EXCEPT !.life = "live", !.script = page]
               s == IF S(r).life = "live" THEN S(r) ELSE new
    <2>1. /\ S(r) = session[u] /\ S(r) \in Session /\ TurnInv(u) /\ req[r] \in Request /\ page \in Seq(Acts)
          /\ (S(r).life # "none" => Kept(S(r), page, Heard(u), Wanted(u))) /\ 0 \notin Requests
      BY <2>0, TurnOf
    <2>2. /\ req[r].round = "begin" /\ S(r).life # "retiring" /\ AbortsCaught(u) /\ scenario' = scenario
          /\ req' = [req EXCEPT ![r] = q] /\ session'[u] = s /\ \A t \in Turns : t # u => session'[t] = session[t]
      <3>1. S(r).life = "live" => session' = session
        BY <1>2 DEF GetsSession
      <3>2. S(r).life # "live" => session' = [session EXCEPT ![u] = new]
        BY <1>2, <2>0 DEF GetsSession
      <3>3. session \in [Turns -> Session] /\ req \in [Requests -> Request]
        BY DEF KeptInv, IInv, Typed
      <3>4. req' = [req EXCEPT ![r] = q]
        BY <1>2, <3>3 DEF GetsSession
      <3> HIDE DEF new, q
      <3>5. session'[u] = s /\ \A t \in Turns : t # u => session'[t] = session[t]
        BY <2>1, <3>1, <3>2, <3>3
      <3> QED  BY <1>2, <2>0, <3>4, <3>5 DEF GetsSession
    <2>3. req'[r] = q /\ (\A x \in Requests : x # r => req'[x] = req[x])
      BY <2>2 DEF KeptInv, IInv, Typed
    <2>4. /\ q.events = req[r].events /\ q.round = "queued" /\ q.segment = req[r].segment /\ q.aborted = req[r].aborted
          /\ q.gone = req[r].gone /\ q.phase = req[r].phase
      BY <2>1 DEF Request
    <2> HIDE DEF q
    <2>5. ASSUME NEW t \in Turns, t # u PROVE TurnInv(t)'
      BY <2>0, <2>2, <2>3, <2>5, OtherTurn
    <2>6. \A x \in 1 .. Posts : /\ T(x)' = T(x) /\ Kind(x)' = Kind(x)
                                /\ (x # r => req'[x] = req[x] /\ InRound(x)' = InRound(x))
      BY <2>2, <2>3, SameScenario DEF Requests, InRound
    <2>7. Alone(u) /\ Heeded(u)
      BY <2>1 DEF TurnInv
    <2>8. ASSUME NEW x \in Requests, Known(x), req[x].round \in {"begin", "queued", "waiting"} PROVE req[x].aborted
      <3>1. Tracked(req[x], stream[x], Kind(x)) /\ T(x) \in Turns
        BY RoundPlaces DEF KeptInv
      <3>2. Alone(T(x))
        BY <3>1 DEF KeptInv, TurnInv
      <3> QED  BY <2>8, <3>1, <3>2 DEF Known, Tracked, Alone
    <2>9. ASSUME NEW x \in Requests, InRound(x) \/ x = r
          PROVE  /\ req[x].phase # "idle" /\ req[x].round \in {"begin", "queued", "waiting"}
                 /\ T(x) = u => Kind(x) \in {"stream", "json"}
      <3>1. Tracked(req[x], stream[x], Kind(x))
        BY RoundPlaces DEF KeptInv
      <3> QED  BY <2>2, <2>7, <2>9, <3>1 DEF Tracked, Alone, InRound
    <2>10. Alone(u)'
      <3>1. ASSUME NEW x \in Requests, T(x) = u
            PROVE  /\ req[x].gone => req'[x].gone
                   /\ req'[x].gone => req[x].gone \/ req'[x].aborted
                   /\ req[x].aborted => req'[x].aborted
                   /\ req[x].phase \in {"over", "refused"} => req'[x].phase = req[x].phase
                   /\ req'[x].round \in {"begin", "queued", "waiting"} => Kind(x) \in {"stream", "json"}
                   /\ req'[x].round = "compacting" => Compacts(x)
        BY <2>2, <2>3, <2>4, <2>7, <3>1 DEF Alone
      <3>2. ASSUME NEW a \in Requests, NEW c \in Requests, a < c, T(a) = u, OfTurn(c, a), req'[c].phase # "idle"
            PROVE  req[c].phase # "idle" \/ Known(a)
        BY <2>3, <2>4, <3>2
      <3>3. ASSUME NEW a \in Requests, NEW c \in Requests, a < c, T(a) = u, T(c) = u, InRound(a)', InRound(c)'
            PROVE  req'[a].aborted /\ req'[a].round = "queued"
        <4>1. (InRound(a) \/ a = r) /\ (InRound(c) \/ c = r)
          BY <2>6, <3>3 DEF Requests
        <4>2. CASE a # r /\ c # r
          BY <2>6, <2>7, <3>3, <4>1, <4>2 DEF Alone, Requests
        <4>3. CASE a = r \/ c = r
          <5>1. OfTurn(c, a) /\ req[c].phase # "idle"
            BY <2>9, <3>3, <4>1 DEF OfTurn
          <5>2. Known(a)
            BY <2>7, <3>3, <5>1 DEF Alone
          <5>3. req[a].aborted
            BY <2>8, <2>9, <4>1, <5>2
          <5>4. a # r => req[a].round = "queued"
            BY <2>0, <2>2, <3>3, <4>1, <5>3 DEF AbortsCaught, InRound
          <5> QED  BY <2>3, <2>4, <5>3, <5>4
        <4> QED  BY <4>2, <4>3
      <3> QED  BY <2>2, <2>7, <3>1, <3>2, <3>3, AloneAfter
    <2>11. CASE S(r).life = "live"
      <3>1. session'[u] = session[u] /\ Wanted(u) /\ Kept(session[u], page, Heard(u), Wanted(u))
        BY <2>1, <2>2, <2>11 DEF Wanted
      <3>2. Heeded(u)'
        <4>1. \A x \in 1 .. Posts : T(x) = u =>
                /\ (req'[x].round = "waiting" <=> req[x].round = "waiting")
                /\ req'[x].segment = req[x].segment /\ req'[x].events = req[x].events
          BY <2>2, <2>3, <2>4, <2>6 DEF Requests
        <4> QED  BY <2>6, <2>7, <3>1, <4>1 DEF Heeded, Requests
      <3>3. Heard(u)' = Heard(u)
        BY <2>3, <2>4, <2>7, <3>1 DEF Heard, Heeded
      <3>4. Kept(session[u], page, Heard(u), Wanted(u)')
        BY <3>1, LessWanted
      <3>5. Served(u)'
        BY <2>2, <3>1, <3>3, <3>4 DEF Served
      <3> QED  BY <2>5, <2>10, <3>2, <3>5 DEF TurnInv
    <2>12. CASE S(r).life # "live"
      <3>1. session'[u] = new /\ S(r).life = "none"
        BY <2>1, <2>2, <2>12 DEF Session
      <3>2. ASSUME NEW x \in Requests, T(x) = u PROVE ~InRound(x)
        BY <2>0, <2>1, <3>1, <3>2, TurnOf
      <3>3. new.holder = 0
        BY DEF NoSession
      <3>4. Kept(new, page, <<>>, Wanted(u)')
        BY <2>1, NewKept
      <3> HIDE DEF new
      <3>5. Heeded(u)'
        <4>1. \A x \in 1 .. Posts : T(x) = u => req'[x].round # "waiting" /\ req'[x].events \in Seq(Written)
          BY <2>3, <2>4, <2>7, <3>2 DEF Heeded, Requests, InRound
        <4> QED  BY <2>6, <3>1, <3>3, <4>1 DEF Heeded, Requests
      <3>6. Served(u)'
        BY <2>2, <3>1, <3>3, <3>4 DEF Served, Heard
      <3> QED  BY <2>5, <2>10, <3>5, <3>6 DEF TurnInv
    <2> QED  BY <2>11, <2>12
  <1> QED  BY <1>1, <1>2

LEMMA ListenerOf ==
  ASSUME NEW d \in Session, NEW r \in Requests
  PROVE  LET s == [Drained(d) EXCEPT !.holder = r] IN
           /\ s.holder = r /\ s.text = 0 /\ s.trace = 0 /\ s.held = d.held /\ s.outcome = d.outcome /\ s.batch = d.batch
           /\ s.outstanding = d.outstanding /\ s.final = d.final /\ s.script = d.script /\ s.segment = d.segment /\ s.life = d.life
           /\ s \in Session
  <1>1. [Drained(d) EXCEPT !.holder = r] = [d EXCEPT !.trace = 0, !.text = 0, !.holder = r]
    BY DEF Drained, Session
  <1>2. r \in 0 .. Posts
    BY HttpAssumption DEF Requests
  <1>3. 0 \in Nat
    OBVIOUS
  <1> DEFINE s == [d EXCEPT !.trace = 0, !.text = 0, !.holder = r]
  <1>4. s \in Session
    BY <1>2, <1>3 DEF Session
  <1>5. /\ s.holder = r /\ s.text = 0 /\ s.trace = 0 /\ s.held = d.held /\ s.outcome = d.outcome /\ s.batch = d.batch
        /\ s.outstanding = d.outstanding /\ s.final = d.final /\ s.script = d.script /\ s.segment = d.segment /\ s.life = d.life
    BY DEF Session
  <1> QED  BY <1>1, <1>4, <1>5

\* The round takes what waits, and listens.
LEMMA ListensTurn ==
  ASSUME KeptInv, NEW r \in Requests, req[r].round = "queued", S(r).holder = 0, ~req[r].aborted, S(r).outcome = "none",
         NEW es, es = Undrained(S(r)), NEW d \in Session,
         d = (IF S(r).outstanding # 0
              THEN [S(r) EXCEPT !.outstanding = 0, !.final = <<>>, !.segment = @ + 1, !.script = Tail(@)] ELSE S(r)),
         scenario' = scenario, session' = [session EXCEPT ![T(r)] = [Drained(d) EXCEPT !.holder = r]],
         req' = [req EXCEPT ![r].round = "waiting", ![r].segment = d.segment, ![r].events = es]
  PROVE  \A t \in Turns : TurnInv(t)'
  <1>0. PICK u \in Turns : u = T(r)
    BY Places DEF KeptInv, IInv
  <1> DEFINE o == S(r)
             page == scenario.page
             q == [req[r] EXCEPT !.round = "waiting", !.segment = d.segment, !.events = es]
             s == [Drained(d) EXCEPT !.holder = r]
  <1>1. /\ o = session[u] /\ o \in Session /\ TurnInv(u) /\ req[r] \in Request /\ page \in Seq(Acts)
        /\ Kept(o, page, <<>>, Wanted(u)) /\ 0 \notin Requests /\ Scripted(o) /\ o.life # "none"
    BY <1>0, TurnOf DEF InRound
  <1>2. /\ es \in Seq(Written) /\ Count(es, {"text"}) = o.text /\ Count(es, {"think"}) = o.trace
    BY Waiting
  <1>3. /\ d.text \in Nat /\ d.trace \in Nat /\ d.held = o.held /\ d.outcome = o.outcome /\ d.batch = o.batch /\ d.life = o.life
        /\ (o.outstanding = 0 => d = o)
        /\ (o.outstanding # 0 => d.outstanding = 0 /\ d.final = <<>> /\ d.segment = o.segment + 1 /\ d.script = Tail(o.script))
    BY <1>1 DEF Session
  <1>4. /\ s.holder = r /\ s.text = 0 /\ s.trace = 0 /\ s.held = d.held /\ s.outcome = d.outcome /\ s.batch = d.batch
        /\ s.outstanding = d.outstanding /\ s.final = d.final /\ s.script = d.script /\ s.segment = d.segment /\ s.life = d.life
        /\ s \in Session
    BY ListenerOf
  <1>5. session'[u] = s /\ (\A t \in Turns : t # u => session'[t] = session[t])
        /\ req'[r] = q /\ (\A x \in Requests : x # r => req'[x] = req[x])
    BY <1>0 DEF KeptInv, IInv, Typed
  <1>6. /\ q.events = es /\ q.round = "waiting" /\ q.segment = d.segment /\ q.aborted = req[r].aborted
        /\ q.gone = req[r].gone /\ q.phase = req[r].phase
    BY <1>1 DEF Request
  <1> HIDE DEF s, q
  <1>7. Kept(s, page, es, Wanted(u))
    <2>1. o.holder = 0 /\ o.outcome = "none"
      OBVIOUS
    <2>2. d.outstanding = 0
      BY <1>3
    <2>3. d.final = <<>>
      BY <1>1, <1>3, <2>1 DEF Kept, Keeps
    <2>4. /\ o.outstanding = 0 => s.script = o.script /\ s.segment = o.segment
          /\ o.outstanding # 0 => s.script = Tail(o.script) /\ s.segment = o.segment + 1
      BY <1>3, <1>4
    <2> HIDE DEF o
    <2> QED  BY <1>1, <1>2, <1>3, <1>4, <2>1, <2>2, <2>3, <2>4, EnteredKept
  <1>8. ASSUME NEW t \in Turns, t # u PROVE TurnInv(t)'
    BY <1>0, <1>5, <1>8, OtherTurn
  <1>9. ASSUME NEW x \in 1 .. Posts
        PROVE  /\ T(x)' = T(x) /\ Kind(x)' = Kind(x) /\ req'[x].aborted = req[x].aborted
               /\ (InRound(x)' <=> InRound(x))
    <2>1. x \in Requests
      BY DEF Requests
    <2>2. T(x)' = T(x) /\ Kind(x)' = Kind(x)
      BY <2>1, SameScenario
    <2>3. CASE x = r
      BY <1>5, <1>6, <2>2, <2>3 DEF InRound
    <2>4. CASE x # r
      BY <1>5, <2>1, <2>2, <2>4 DEF InRound
    <2> QED  BY <2>3, <2>4
  <1>10. Alone(u) /\ Heeded(u)
    BY <1>1 DEF TurnInv
  <1>11. Alone(u)'
    <2>1. ASSUME NEW x \in Requests, T(x) = u
          PROVE  /\ req[x].gone => req'[x].gone
                 /\ req'[x].gone => req[x].gone \/ req'[x].aborted
                 /\ req[x].aborted => req'[x].aborted
                 /\ req[x].phase \in {"over", "refused"} => req'[x].phase = req[x].phase
                 /\ req'[x].round \in {"begin", "queued", "waiting"} => Kind(x) \in {"stream", "json"}
                 /\ req'[x].round = "compacting" => Compacts(x)
      BY <1>5, <1>6, <1>10, <2>1 DEF Alone
    <2>2. ASSUME NEW a \in Requests, NEW c \in Requests, a < c, T(a) = u, OfTurn(c, a), req'[c].phase # "idle"
          PROVE  req[c].phase # "idle" \/ Known(a)
      BY <1>5, <1>6, <2>2
    <2>3. ASSUME NEW a \in Requests, NEW c \in Requests, a < c, T(a) = u, T(c) = u, InRound(a)', InRound(c)'
          PROVE  req'[a].aborted /\ req'[a].round = "queued"
      <3>1. req[a].aborted /\ req[a].round = "queued"
        BY <1>9, <1>10, <2>3 DEF Alone, Requests
      <3>2. a # r
        BY <3>1
      <3> QED  BY <1>5, <3>1, <3>2
    <2> QED  BY <1>10, <2>1, <2>2, <2>3, AloneAfter
  <1>12. Heeded(u)'
    <2>1. ASSUME NEW x \in 1 .. Posts, T(x) = u, req'[x].round = "waiting" PROVE x = r
      <3>1. SUFFICES ASSUME x # r PROVE FALSE
        OBVIOUS
      <3>2. req[x].round = "waiting"
        BY <1>5, <2>1, <3>1 DEF Requests
      <3>3. session[u].holder = x
        BY <1>10, <2>1, <3>2 DEF Heeded, Requests
      <3> QED  BY <1>1, <3>3 DEF Requests
    <2>2. ASSUME NEW x \in 1 .. Posts, T(x) = u PROVE req'[x].events \in Seq(Written)
      <3>1. CASE x = r
        BY <1>2, <1>5, <1>6, <3>1
      <3>2. CASE x # r
        BY <1>5, <1>10, <2>2, <3>2 DEF Heeded, Requests
      <3> QED  BY <3>1, <3>2
    <2>3. session'[u].holder = r /\ session'[u].segment = d.segment /\ req'[r].round = "waiting" /\ req'[r].segment = d.segment
      BY <1>4, <1>5, <1>6
    <2>4. ASSUME NEW x \in 1 .. Posts, T(x)' = u
          PROVE  /\ req'[x].round = "waiting" => session'[u].holder = x /\ req'[x].segment = session'[u].segment
                 /\ req'[x].events \in Seq(Written)
      BY <1>9, <2>1, <2>2, <2>3, <2>4
    <2>5. r \in 1 .. Posts /\ T(r)' = u
      BY <1>0, <1>9 DEF Requests
    <2> QED  BY <2>3, <2>4, <2>5 DEF Heeded, Requests
  <1>13. Served(u)'
    <2>1. Heard(u)' = es
      BY <1>1, <1>4, <1>5, <1>6 DEF Heard
    <2>2. Wanted(u)' => Wanted(u)
      <3>1. session'[u].life = session[u].life
        BY <1>1, <1>3, <1>4, <1>5
      <3>2. Awaited(u)' => Awaited(u)
        BY <1>9 DEF Awaited, Requests
      <3> QED  BY <3>1, <3>2 DEF Wanted
    <2>3. Kept(s, page, es, Wanted(u)')
      BY <1>7, <2>2, LessWanted
    <2> QED  BY <1>5, <2>1, <2>3 DEF Served
  <1> QED  BY <1>8, <1>11, <1>12, <1>13 DEF TurnInv

LEMMA EntersTurn ==
  ASSUME KeptInv, NEW r \in Requests, Enters(r)
  PROVE  \A t \in Turns : TurnInv(t)'
  <1> DEFINE s == S(r)
             es == Undrained(s)
             page == scenario.page
  <1>1. /\ s \in Session /\ InRound(r) /\ req[r].round = "queued" /\ s.holder = 0 /\ Kept(s, page, <<>>, Wanted(T(r))) /\ s.life # "none"
        /\ Heard(T(r)) = <<>>
    BY TurnOf DEF Enters, InRound
  <1>2. /\ es \in Seq(Written) /\ Count(es, {"text"}) = s.text /\ Count(es, {"think"}) = s.trace
        /\ s.text \in Nat /\ s.trace \in Nat /\ es \in Seq(Events) /\ (s.trace = 0 /\ s.text = 0 => es = <<>>)
    BY Waiting
  <1>3. Count(<<>>, {"text"}) = 0 /\ Count(<<>>, {"think"}) = 0
    BY CountOfNone
  <1>4. /\ s.final \in Seq(Written) /\ s.final \in Seq(Events) /\ (s.final # <<>> => s.text = 0 /\ s.trace = 0)
        /\ Count(s.final, {"text"}) \in Nat /\ Count(s.final, {"think"}) \in Nat
    BY <1>1, WrittenAreEvents, CountTyped DEF Kept, Keeps
  <1> HIDE DEF es
  <1>5. CASE s.outcome = "final"
    <2> DEFINE fs == IF s.final # <<>> THEN s.final ELSE es
               x == [Drained(s) EXCEPT !.final = fs]
    <2>1. Concludes(r, fs \o <<"doneStop">>, x, Cleared(T(r)))
      BY <1>5 DEF Enters, es
    <2>2. fs \in Seq(Written) /\ fs \in Seq(Events)
      BY <1>2, <1>4
    <2>3. Count(fs, {"text"}) = Count(s.final, {"text"}) + 0 + s.text
          /\ Count(fs, {"think"}) = Count(s.final, {"think"}) + 0 + s.trace
      BY <1>2, <1>3, <1>4
    <2> HIDE DEF fs
    <2>4. /\ x \in Session /\ x.script = s.script /\ x.segment = s.segment /\ x.outcome = s.outcome /\ x.life = s.life
          /\ x.holder = s.holder /\ x.held = s.held /\ x.text = 0 /\ x.trace = 0 /\ x.final = fs
          /\ x.batch = s.batch /\ x.outstanding = s.outstanding
      BY <1>1, <2>2 DEF Drained, Session
    <2> HIDE DEF x
    <2>5. Count(x.final, {"text"}) = Count(s.final, {"text"}) + Count(Heard(T(r)), {"text"}) + s.text
          /\ Count(x.final, {"think"}) = Count(s.final, {"think"}) + Count(Heard(T(r)), {"think"}) + s.trace
      BY <1>1, <1>3, <2>3, <2>4
    <2> HIDE DEF s
    <2> QED  BY <1>1, <1>5, <2>1, <2>2, <2>4, <2>5, ConcludesTurn DEF s
  <1>6. CASE s.outcome \notin {"none", "final"}
    <2>1. Catch(r, s.outcome)
      BY <1>6 DEF Enters
    <2> QED  BY <1>1, <2>1, CatchTurn
  <1>7. CASE s.outcome = "none" /\ req[r].aborted
    <2>1. Catch(r, "aborted")
      BY <1>7 DEF Enters
    <2> QED  BY <1>1, <2>1, CatchTurn
  <1>8. CASE s.outcome = "none" /\ ~req[r].aborted /\ s.outstanding \notin {0, req[r].results}
    <2>1. \/ Over(r, s.final \o Call, s, budget[T(r)])
          \/ Over(r, s.final \o Call, Retire(s), Cleared(T(r)))
      BY <1>8 DEF Enters, Concludes
    <2> QED  BY <1>1, <2>1, StaysTurn, RetiresTurn
  <1>9. CASE s.outcome = "none" /\ ~req[r].aborted /\ s.outstanding \in {0, req[r].results}
    <2> DEFINE d == IF s.outstanding # 0
                    THEN [s EXCEPT !.outstanding = 0, !.final = <<>>, !.segment = @ + 1, !.script = Tail(@)] ELSE s
    <2>1. CASE ~Fits(stream[r], es)
      <3>1. Over(r, es, Retire(s), Cleared(T(r)))
        BY <1>9, <2>1 DEF Enters, es
      <3> QED  BY <1>1, <3>1, RetiresTurn
    <2>2. CASE Fits(stream[r], es)
      <3>1. /\ session' = [session EXCEPT ![T(r)] = [Drained(d) EXCEPT !.holder = r]]
            /\ req' = [req EXCEPT ![r].round = "waiting", ![r].segment = d.segment, ![r].events = es]
            /\ scenario' = scenario
        BY <1>9, <2>2 DEF Enters, es
      <3>2. d \in Session
        <4>1. s.outstanding # 0 => s.script # <<>>
          BY TurnOf DEF Scripted
        <4>2. s.outstanding # 0 => Tail(s.script) \in Seq(Acts) /\ s.segment + 1 \in Nat /\ <<>> \in Seq(Events)
          BY <1>1, <4>1 DEF Session
        <4> QED  BY <1>1, <4>2 DEF Session
      <3> HIDE DEF d
      <3>3. d = (IF s.outstanding # 0
                 THEN [s EXCEPT !.outstanding = 0, !.final = <<>>, !.segment = @ + 1, !.script = Tail(@)] ELSE s)
        BY DEF d
      <3> HIDE DEF s
      <3> QED  BY <1>1, <1>9, <3>1, <3>2, <3>3, ListensTurn DEF s, es
    <2> QED  BY <2>1, <2>2
  <1> QED  BY <1>5, <1>6, <1>7, <1>8, <1>9

\* A step of the page of t.
LEMMA PageTurn ==
  ASSUME KeptInv, NEW t \in Turns, NEW x, session' = [session EXCEPT ![t] = x], req' = req, scenario' = scenario,
         x.life # "none" => Kept(x, scenario.page, Heard(t), Wanted(t)),
         x.life = "live" => session[t].life = "live",
         x.holder = session[t].holder,
         x.segment = session[t].segment \/ \A r \in Requests : T(r) = t => req[r].round # "waiting"
  PROVE  \A u \in Turns : TurnInv(u)'
  <1>1. session'[t] = x /\ \A u \in Turns : u # t => session'[u] = session[u]
    BY DEF KeptInv, IInv, Typed
  <1>2. ASSUME NEW u \in Turns, u # t PROVE TurnInv(u)'
    BY <1>1, <1>2, OtherTurn
  <1>3. TurnInv(t) /\ \A r \in 1 .. Posts : T(r)' = T(r) /\ Kind(r)' = Kind(r)
    BY SameScenario DEF KeptInv, Requests
  <1>4. Heeded(t)'
    BY <1>1, <1>3 DEF TurnInv, Heeded, Requests
  <1>5. Served(t)'
    <2> SUFFICES ASSUME session'[t].life # "none" PROVE Served(t)'
      BY DEF Served
    <2>1. Kept(x, scenario.page, Heard(t), Wanted(t))
      BY <1>1
    <2>2. Heard(t)' = Heard(t)
      BY <1>1 DEF Heard
    <2>3. Awaited(t)' => Awaited(t)
      BY <1>3 DEF Awaited, InRound, Requests
    <2>4. Wanted(t)' => Wanted(t)
      BY <1>1, <2>3 DEF Wanted
    <2>5. Kept(x, scenario.page, Heard(t), Wanted(t)')
      BY <2>1, <2>4, LessWanted
    <2> QED  BY <1>1, <2>2, <2>5 DEF Served
  <1>6. Alone(t)'
    <2>1. Alone(t)
      BY <1>3 DEF TurnInv
    <2>2. ASSUME NEW y \in Requests, T(y) = t
          PROVE  /\ req[y].gone => req'[y].gone
                 /\ req'[y].gone => req[y].gone \/ req'[y].aborted
                 /\ req[y].aborted => req'[y].aborted
                 /\ req[y].phase \in {"over", "refused"} => req'[y].phase = req[y].phase
                 /\ req'[y].round \in {"begin", "queued", "waiting"} => Kind(y) \in {"stream", "json"}
                 /\ req'[y].round = "compacting" => Compacts(y)
                 /\ InRound(y)' => InRound(y) /\ req'[y].round = req[y].round
      BY <2>1, <2>2 DEF Alone, InRound
    <2> QED  BY <2>1, <2>2, AloneStill
  <1> QED  BY <1>2, <1>4, <1>5, <1>6 DEF TurnInv

LEMMA PageGoneTurn ==
  ASSUME KeptInv, NEW t \in Turns, PageGone(t)
  PROVE  \A u \in Turns : TurnInv(u)'
  <1> DEFINE x == [NoSession EXCEPT !.tombstone = session[t].tombstone]
  <1>1. session' = [session EXCEPT ![t] = x] /\ req' = req /\ scenario' = scenario
        /\ \A r \in Requests : T(r) = t => req[r].round # "waiting"
    BY DEF PageGone, InRound
  <1>2. x.life = "none" /\ x.holder = 0
    BY DEF NoSession
  <1>3. Heeded(t)
    BY DEF KeptInv, TurnInv
  <1>4. session[t].holder = 0
    BY <1>1, <1>3 DEF Heeded
  <1> HIDE DEF x
  <1> QED  BY <1>1, <1>2, <1>4, PageTurn

LEMMA PageActsTurn ==
  ASSUME KeptInv, NEW t \in Turns, PageActs(t)
  PROVE  \A u \in Turns : TurnInv(u)'
  <1> DEFINE s == session[t]
             page == scenario.page
             tail == Tail(s.script)
  <1>1. /\ s \in Session /\ s.life = "live" /\ s.outcome = "none" /\ s.script # <<>> /\ ~s.batch /\ s.outstanding = 0
        /\ s.script \in Seq(Acts) /\ s.trace \in Nat /\ s.text \in Nat /\ req' = req /\ scenario' = scenario
    BY DEF KeptInv, IInv, Typed, PageActs, Session
  <1>2. tail \in Seq(Acts) /\ Head(s.script) \in Acts
    BY <1>1
  <1>3. /\ Kept(s, page, Heard(t), Wanted(t)) /\ page \in Seq(Acts) /\ PageEnds(page) /\ Heard(t) \in Seq(Events)
    <2>1. Served(t) /\ Heeded(t) /\ scenario \in Scenarios /\ page \in Seq(Acts) /\ Typed
      BY Places DEF KeptInv, IInv, TurnInv, Typed
    <2>2. PageEnds(page)
      BY <2>1, PagesEnd DEF PageEnds
    <2>3. Heard(t) \in Seq(Events)
      BY <2>1 DEF Heard, Heeded, Typed, Request
    <2> QED  BY <1>1, <2>1, <2>2, <2>3 DEF Served
  <1>4. ASSUME NEW x \in Session, session' = [session EXCEPT ![t] = x], Head(s.script) # "tools", x.script = tail, x.batch = s.batch,
               x.outstanding = s.outstanding, x.life = s.life,
               x.holder = s.holder, x.final = s.final, x.segment = s.segment, s.holder = 0 => x.held = s.held,
               x.text = s.text + (IF Head(s.script) = "text" THEN 1 ELSE 0),
               x.trace + Holds(x) = s.trace + Holds(s) + (IF Head(s.script) = "think" THEN 1 ELSE 0),
               x.outcome = (IF Head(s.script) \in {"think", "text"} THEN "none" ELSE Head(s.script))
        PROVE  \A u \in Turns : TurnInv(u)'
    <2>1. Kept(x, page, Heard(t), Wanted(t))
      BY <1>1, <1>3, <1>4, ActKept
    <2> QED  BY <1>1, <1>4, <2>1, PageTurn
  <1> DEFINE rest == [s EXCEPT !.script = tail]
  <1>5. /\ rest \in Session /\ rest.script = tail /\ rest.batch = s.batch /\ rest.outstanding = s.outstanding /\ rest.life = s.life
        /\ rest.holder = s.holder /\ rest.final = s.final /\ rest.segment = s.segment /\ rest.held = s.held
        /\ rest.text = s.text /\ rest.trace = s.trace /\ rest.outcome = s.outcome
    BY <1>1, <1>2 DEF Session
  <1>6. CASE Head(s.script) = "think"
    <2>1. session' = [session EXCEPT ![t] = Traced(rest)]
      BY <1>6 DEF PageActs
    <2>2. CASE s.holder = 0 \/ s.held # "none"
      <3> DEFINE x == [rest EXCEPT !.trace = rest.trace + 1]
      <3>1. Traced(rest) = x
        BY <1>5, <2>2 DEF Traced
      <3>2. x \in Session /\ x.script = rest.script /\ x.batch = rest.batch /\ x.outstanding = rest.outstanding /\ x.life = rest.life
            /\ x.holder = rest.holder /\ x.final = rest.final /\ x.segment = rest.segment /\ x.held = rest.held
            /\ x.text = rest.text /\ x.trace = rest.trace + 1 /\ x.outcome = rest.outcome
        <4> HIDE DEF rest
        <4>1. rest.trace + 1 \in Nat
          BY <1>1, <1>5
        <4> QED  BY <1>5, <4>1 DEF Session
      <3> HIDE DEF x, rest, tail
      <3>3. Holds(x) = Holds(s) /\ Holds(s) \in Nat
        BY <1>5, <3>2 DEF Holds
      <3>4. x.trace + Holds(x) = s.trace + Holds(s) + 1 /\ x.text = s.text + 0
        BY <1>1, <1>5, <3>2, <3>3
      <3> QED  BY <1>1, <1>4, <1>5, <1>6, <2>1, <3>1, <3>2, <3>4 DEF tail
    <2>3. CASE ~(s.holder = 0 \/ s.held # "none")
      <3> DEFINE held == IF rest.text = 0 THEN "fresh" ELSE "behind"
                 x == [rest EXCEPT !.held = held]
      <3>1. Traced(rest) = x
        BY <1>5, <2>3 DEF Traced
      <3>0. held \in Held /\ held # "none"
        BY DEF Held
      <3> HIDE DEF held
      <3>2. x \in Session /\ x.script = rest.script /\ x.batch = rest.batch /\ x.outstanding = rest.outstanding /\ x.life = rest.life
            /\ x.holder = rest.holder /\ x.final = rest.final /\ x.segment = rest.segment /\ x.held = held
            /\ x.text = rest.text /\ x.trace = rest.trace /\ x.outcome = rest.outcome
        <4> HIDE DEF rest
        <4> QED  BY <1>5, <3>0 DEF Session
      <3> HIDE DEF x, rest, tail
      <3>3. Holds(x) = 1 /\ Holds(s) = 0
        BY <2>3, <3>0, <3>2 DEF Holds
      <3>4. x.trace + Holds(x) = s.trace + Holds(s) + 1 /\ x.text = s.text + 0
        BY <1>1, <1>5, <3>2, <3>3
      <3> QED  BY <1>1, <1>4, <1>5, <1>6, <2>1, <2>3, <3>1, <3>2, <3>4 DEF tail
    <2> QED  BY <2>2, <2>3
  <1>7. CASE Head(s.script) = "text"
    <2> DEFINE x == [s EXCEPT !.script = tail, !.text = s.text + 1]
    <2>1. session' = [session EXCEPT ![t] = x]
      BY <1>7 DEF PageActs
    <2>2. x \in Session /\ x.script = tail /\ x.batch = s.batch /\ x.outstanding = s.outstanding /\ x.life = s.life
          /\ x.holder = s.holder /\ x.final = s.final /\ x.segment = s.segment /\ x.held = s.held
          /\ x.text = s.text + 1 /\ x.trace = s.trace /\ x.outcome = s.outcome
      <3> HIDE DEF tail
      <3>1. s.text + 1 \in Nat
        BY <1>1
      <3> QED  BY <1>1, <1>2, <3>1 DEF Session
    <2> HIDE DEF x, rest, tail
    <2>3. Holds(x) = Holds(s) /\ Holds(s) \in Nat
      BY <2>2 DEF Holds
    <2>4. x.trace + Holds(x) = s.trace + Holds(s) + 0
      BY <1>1, <2>2, <2>3
    <2> QED  BY <1>1, <1>4, <1>7, <2>1, <2>2, <2>4 DEF tail
  <1>8. CASE Head(s.script) = "tools"
    <2> DEFINE x == [s EXCEPT !.batch = TRUE]
    <2>1. session' = [session EXCEPT ![t] = x]
      BY <1>8 DEF PageActs
    <2>2. x.script = s.script /\ x.batch = TRUE /\ x.outstanding = s.outstanding /\ x.life = s.life
          /\ x.holder = s.holder /\ x.final = s.final /\ x.segment = s.segment /\ x.held = s.held
          /\ x.text = s.text /\ x.trace = s.trace /\ x.outcome = s.outcome
      BY <1>1 DEF Session
    <2> HIDE DEF x, rest, tail
    <2>3. Follows(x, page) /\ Keeps(x)
      BY <1>1, <1>3, <1>8, <2>2 DEF Kept, Follows, Keeps, Place
    <2>4. Balanced(s, page, Heard(t)) => Balanced(x, page, Heard(t))
      BY <2>2 DEF Balanced, Texts, Thoughts, Place
    <2>5. Kept(x, page, Heard(t), Wanted(t))
      BY <1>1, <1>3, <2>2, <2>3, <2>4 DEF Kept
    <2> QED  BY <1>1, <2>1, <2>2, <2>5, PageTurn
  <1>9. CASE Head(s.script) \notin {"think", "text", "tools"}
    <2> DEFINE how == Head(s.script)
               x == [s EXCEPT !.script = tail, !.outcome = how]
    <2>1. session' = [session EXCEPT ![t] = x]
      BY <1>9 DEF PageActs
    <2>2. how \in Outcomes
      BY <1>2, <1>9 DEF Acts, Outcomes
    <2> HIDE DEF how
    <2>3. x \in Session /\ x.script = tail /\ x.batch = s.batch /\ x.outstanding = s.outstanding /\ x.life = s.life
          /\ x.holder = s.holder /\ x.final = s.final /\ x.segment = s.segment /\ x.held = s.held
          /\ x.text = s.text /\ x.trace = s.trace /\ x.outcome = how
      BY <1>1, <1>2, <2>2 DEF Session
    <2> HIDE DEF x, rest, tail
    <2>4. Holds(x) = Holds(s) /\ Holds(s) \in Nat
      BY <2>3 DEF Holds
    <2>5. x.trace + Holds(x) = s.trace + Holds(s) + 0 /\ x.text = s.text + 0
      BY <1>1, <2>3, <2>4
    <2> QED  BY <1>1, <1>4, <1>9, <2>1, <2>3, <2>5 DEF tail, how
  <1> QED  BY <1>6, <1>7, <1>8, <1>9

LEMMA RoundTurn ==
  ASSUME KeptInv, NEW r \in Requests, Round(r)
  PROVE  \A t \in Turns : TurnInv(t)'
  <1>1. CASE Aborts(r)
    <2>1. InRound(r) /\ Catch(r, "aborted")
      BY <1>1 DEF Aborts, Listens, InRound
    <2> QED  BY <2>1, CatchTurn
  <1>2. CASE Compacted(r)
    <2>1. req[r].round = "compacting" /\ \E es : Over(r, es, S(r), budget[T(r)])
      BY <1>2 DEF Compacted
    <2> QED  BY <2>1, StaysTurn
  <1> QED  BY <1>1, <1>2, GetsSessionTurn, EntersTurn, TakesTraceTurn, TakesTextTurn, TakesBatchTurn, TakesOutcomeTurn DEF Round

LEMMA KeptInit == Init => KeptInv
  <1> SUFFICES ASSUME Init PROVE KeptInv
    OBVIOUS
  <1>1. IInv
    BY InitHolds
  <1>2. /\ NoSession.life = "none" /\ NoSession.holder = 0 /\ NewRequest.round = "none" /\ ~NewRequest.gone
        /\ NewRequest.events = <<>> /\ NewRequest.phase = "idle"
    BY DEF NoSession, NewRequest
  <1>3. (\A r \in Requests : req[r] = NewRequest) /\ \A t \in Turns : session[t] = NoSession
    BY DEF Init
  <1>4. ASSUME NEW t \in Turns PROVE TurnInv(t)
    <2>0. NewRequest.events \in Seq(Written)
      BY <1>2
    <2>1. \A r \in Requests : /\ req[r].round = "none" /\ ~req[r].gone /\ req[r].phase = "idle" /\ req[r].events \in Seq(Written)
      <3> TAKE r \in Requests
      <3> QED  BY <1>2, <1>3, <2>0
    <2>2. session[t].life = "none" /\ session[t].holder = 0
      BY <1>2, <1>3
    <2>3. Heeded(t)
      BY <2>1, <2>2 DEF Heeded
    <2>4. Alone(t)
      BY <2>1 DEF Alone, InRound
    <2> QED  BY <2>2, <2>3, <2>4 DEF TurnInv, Served
  <1> QED  BY <1>1, <1>4 DEF KeptInv

\* Every step keeps what the page wrote.
LEMMA KeptHolds == KeptInv /\ [Next]_vars => KeptInv'
  <1> SUFFICES ASSUME KeptInv, [Next]_vars PROVE KeptInv'
    OBVIOUS
  <1>1. IInv /\ IInv'
    BY NextHolds DEF KeptInv
  <1>2. ASSUME NEW r \in Requests, Post(r) \/ Leave(r) \/ Stalls(r) \/ Reply(r)
        PROVE  \A t \in Turns : TurnInv(t)'
    <2>1. /\ session' = session /\ scenario' = scenario
          /\ \A x \in Requests : Calm(req[x], req'[x], Kind(x)) /\ (x # r => req'[x] = req[x])
          /\ Post(r) \/ (req[r].phase = "idle" => req'[r].phase = "idle")
      BY <1>1, <1>2, CalmReply DEF Reply
    <2>2. \A t \in Turns : Faded(session[t], session'[t])
      BY <2>1 DEF Faded
    <2>3. (\A x \in Requests : req[x].phase = "idle" => req'[x].phase = "idle")
          \/ (\E y \in Requests : Post(y) /\ \A x \in Requests : x # y => req'[x] = req[x])
      BY <2>1
    <2> QED  BY <2>1, <2>2, <2>3, CalmTurn
  <1>3. ASSUME NEW r \in Requests, Round(r)
        PROVE  \A t \in Turns : TurnInv(t)'
    BY <1>3, RoundTurn
  <1>4. ASSUME NEW t \in Turns, PageActs(t) \/ PageGone(t)
        PROVE  \A u \in Turns : TurnInv(u)'
    BY <1>4, PageActsTurn, PageGoneTurn
  <1>5. CASE (\E t \in Turns : Interrupt(t) \/ CancelTrace(t)) \/ CancelTurns \/ Drain \/ Resume \/ Shutdown \/ ShutsDown \/ UNCHANGED vars
    <2>1. /\ scenario' = scenario /\ \A t \in Turns : Faded(session[t], session'[t])
          /\ \A x \in Requests : Calm(req[x], req'[x], Kind(x)) /\ (req[x].phase = "idle" => req'[x].phase = "idle")
      BY <1>1, <1>5, CalmCancel
    <2>2. \A t \in Turns : TurnInv(t)'
      BY <2>1, CalmTurn
    <2> QED  BY <1>1, <2>2 DEF KeptInv
  <1>6. \A t \in Turns : TurnInv(t)'
    BY <1>2, <1>3, <1>4, <1>5 DEF Next, Reply, Round, KeptInv
  <1> QED  BY <1>1, <1>6 DEF KeptInv

-----------------------------------------------------------------------------
(* What Codex is told of what the page wrote.                               *)

\* The frames that carry a piece of an item.
DeltaOf(item) == {f \in Frame : f.what = "delta" /\ f.item = item}
\* As many as before.
AsMuch(s, t) == \A item \in Items : Count(t.frames, DeltaOf(item)) = Count(s.frames, DeltaOf(item))

\* A frame says what it is.
LEMMA EmitSays ==
  ASSUME NEW s, StreamTyped(s), ~s.closed, NEW f \in Frame, NEW item \in Items
  PROVE  /\ Count(s.frames, DeltaOf(item)) \in Nat
         /\ Count(Emit(s, <<f>>).frames, DeltaOf(item)) = Count(s.frames, DeltaOf(item)) + (IF f \in DeltaOf(item) THEN 1 ELSE 0)
  <1>1. s.frames \in Seq(Frame) /\ Emit(s, <<f>>).frames = s.frames \o <<f>>
    BY EmitOne DEF StreamTyped, StreamRecord
  <1>2. Count(s.frames \o <<f>>, DeltaOf(item)) = Count(s.frames, DeltaOf(item)) + (IF f \in DeltaOf(item) THEN 1 ELSE 0)
    BY <1>1, CountOfMore
  <1> QED  BY <1>1, <1>2, CountTyped

LEMMA CloseSays ==
  ASSUME NEW s, StreamTyped(s), ~s.closed
  PROVE  AsMuch(s, Close(s)) /\ Close(s).terminated = s.terminated
  <1>1. CASE s.open = "none"
    BY <1>1 DEF Close, AsMuch
  <1>2. CASE s.open # "none"
    <2> DEFINE f == [what |-> "close", item |-> s.open, index |-> s.outputIndex]
               e == Emit(s, <<f>>)
               t == Close(s)
    <2>1. f \in Frame /\ f.what = "close"
      BY <1>2 DEF StreamTyped, StreamRecord, Frame
    <2>2. t = [e EXCEPT !.open = "none", !.outputIndex = e.outputIndex + 1]
      BY <1>2 DEF Close
    <2>3. e \in StreamRecord /\ e.terminated = s.terminated
      BY <2>1, EmitOne DEF Framed, StreamTyped
    <2>4. \A item \in Items : f \notin DeltaOf(item)
      BY <2>1 DEF DeltaOf
    <2>5. AsMuch(s, e)
      BY <2>1, <2>4, EmitSays DEF AsMuch
    <2> HIDE DEF e, f, t
    <2>6. t.frames = e.frames /\ t.terminated = e.terminated
      BY <2>2, <2>3 DEF StreamRecord
    <2> QED  BY <2>3, <2>5, <2>6 DEF AsMuch, t
  <1> QED  BY <1>1, <1>2

LEMMA DeltaSays ==
  ASSUME NEW s, StreamTyped(s), ~s.closed, Untold(s), ~s.compaction, NEW item \in Items, NEW i \in Items
  PROVE  /\ Count(Delta(s, item).frames, DeltaOf(i)) = Count(s.frames, DeltaOf(i)) + (IF i = item THEN 1 ELSE 0)
         /\ Delta(s, item).terminated = s.terminated
  <1> DEFINE c == Close(s)
             n == Open(c, item)
             o == IF s.open = item THEN s ELSE n
             f == [what |-> "delta", item |-> item, index |-> o.outputIndex]
  <1>1. Framed(s, c) /\ c.open = "none" /\ Untold(c) /\ AsMuch(s, c) /\ c.terminated = s.terminated
    BY CloseFrames, CloseShape, CloseSays
  <1>2. StreamTyped(c) /\ ~c.closed /\ ~c.compaction
    BY <1>1 DEF Framed
  <1>3. Untold(n) /\ Framed(c, n)
    BY <1>1, <1>2, OpenShape
  <1>4. AsMuch(c, n) /\ n.terminated = c.terminated
    <2> DEFINE g == [what |-> "open", item |-> item, index |-> c.outputIndex]
               e == Emit(c, <<g>>)
    <2>1. g \in Frame /\ g.what = "open"
      BY <1>2 DEF StreamTyped, StreamRecord, Frame
    <2>2. n = [e EXCEPT !.open = item]
      BY DEF Open
    <2>3. e \in StreamRecord /\ e.terminated = c.terminated
      BY <1>2, <2>1, EmitOne DEF Framed, StreamTyped
    <2>4. \A x \in Items : g \notin DeltaOf(x)
      BY <2>1 DEF DeltaOf
    <2> HIDE DEF c, n
    <2>5. AsMuch(c, e)
      BY <1>2, <2>1, <2>4, EmitSays DEF AsMuch
    <2> HIDE DEF e, g
    <2>6. n.frames = e.frames /\ n.terminated = e.terminated
      BY <2>2, <2>3 DEF StreamRecord
    <2> QED  BY <2>3, <2>5, <2>6 DEF AsMuch
  <1>5. StreamTyped(o) /\ ~o.closed /\ AsMuch(s, o) /\ o.terminated = s.terminated
    BY <1>1, <1>2, <1>3, <1>4 DEF Framed, AsMuch
  <1> HIDE DEF o
  <1>6. f \in Frame /\ f.what = "delta" /\ f.item = item
    BY <1>5 DEF StreamTyped, StreamRecord, Frame
  <1>7. Delta(s, item) = Emit(o, <<f>>)
    BY DEF Delta, o
  <1> HIDE DEF f
  <1>8. f \in DeltaOf(i) <=> i = item
    BY <1>6 DEF DeltaOf
  <1>9. /\ Count(Emit(o, <<f>>).frames, DeltaOf(i)) = Count(o.frames, DeltaOf(i)) + (IF f \in DeltaOf(i) THEN 1 ELSE 0)
        /\ Emit(o, <<f>>).terminated = o.terminated
    BY <1>5, <1>6, EmitSays, EmitOne
  <1> QED  BY <1>5, <1>7, <1>8, <1>9 DEF AsMuch

\* The terminal event.
LEMMA EndsSays ==
  ASSUME NEW s, StreamTyped(s), ~s.closed, Untold(s), s.open = "none", NEW status \in Terminal
  PROVE  AsMuch(s, Ends(s, status)) /\ Outcome(Ends(s, status)) = status
  <1> DEFINE f == [what |-> status]
             e == Emit(s, <<f>>)
             t == Ends(s, status)
  <1>1. f \in Frame /\ f.what = status /\ status # "delta"
    BY DEF Frame, Terminal
  <1>2. t = [e EXCEPT !.terminated = TRUE]
    BY DEF Ends
  <1>3. e \in StreamRecord
    BY <1>1, EmitOne DEF Framed, StreamTyped
  <1>4. \A item \in Items : f \notin DeltaOf(item)
    BY <1>1 DEF DeltaOf
  <1>5. AsMuch(s, e)
    BY <1>1, <1>4, EmitSays DEF AsMuch
  <1>6. Outcome(t) = status
    BY EndsShape DEF Untold
  <1> HIDE DEF e, f, t
  <1>7. t.frames = e.frames
    BY <1>2, <1>3 DEF StreamRecord
  <1> QED  BY <1>5, <1>6, <1>7 DEF AsMuch, t

LEMMA FinishSays ==
  ASSUME NEW s, StreamTyped(s), ~s.closed, Untold(s), NEW status \in Terminal
  PROVE  AsMuch(s, Finish(s, status)) /\ Outcome(Finish(s, status)) = status
  <1>1. Framed(s, Close(s)) /\ Close(s).open = "none" /\ Untold(Close(s)) /\ AsMuch(s, Close(s))
    BY CloseFrames, CloseShape, CloseSays
  <1>2. StreamTyped(Close(s)) /\ ~Close(s).closed
    BY <1>1 DEF Framed
  <1>3. AsMuch(Close(s), Ends(Close(s), status)) /\ Outcome(Ends(Close(s), status)) = status
    BY <1>1, <1>2, EndsSays
  <1> QED  BY <1>1, <1>3 DEF Finish, AsMuch

LEMMA CompletesSays ==
  ASSUME NEW s, StreamTyped(s), ~s.closed, Untold(s), ~s.compaction
  PROVE  AsMuch(s, Completes(s))
  <1> DEFINE e == Ends(Close(s), "completed")
  <1>1. "completed" \in Terminal
    BY DEF Terminal
  <1>2. AsMuch(s, e) /\ e \in StreamRecord
    BY <1>1, FinishSays, FinishFrames DEF Finish, Framed, StreamTyped
  <1>3. Completes(s) = [e EXCEPT !.remembered = TRUE]
    BY DEF Completes
  <1> HIDE DEF e
  <1>4. Completes(s).frames = e.frames
    BY <1>2, <1>3 DEF StreamRecord
  <1> QED  BY <1>2, <1>4 DEF AsMuch

\* One event says what it is, and a call or an end says nothing.
LEMMA HandleSays ==
  ASSUME NEW s, StreamTyped(s), ~s.closed, Untold(s), ~s.compaction, NEW e \in Events
  PROVE  /\ Count(Handle(s, e).frames, DeltaOf("message")) = Count(s.frames, DeltaOf("message")) + (IF e = "text" THEN 1 ELSE 0)
         /\ Count(Handle(s, e).frames, DeltaOf("reasoning")) = Count(s.frames, DeltaOf("reasoning")) + (IF e = "think" THEN 1 ELSE 0)
         /\ e \notin Dones \cup {"error"} => ~Handle(s, e).terminated
         /\ e = "error" => Handle(s, e).terminated /\ Outcome(Handle(s, e)) = "failed"
         /\ e \in Dones => Handle(s, e).terminated
  <1>1. Framed(s, Close(s)) /\ Untold(Close(s)) /\ AsMuch(s, Close(s)) /\ Close(s).terminated = s.terminated /\ ~s.terminated
    BY CloseFrames, CloseShape, CloseSays DEF Untold
  <1>2. StreamTyped(Close(s)) /\ ~Close(s).closed /\ ~Close(s).compaction
    BY <1>1 DEF Framed
  <1>3. "message" \in Items /\ "reasoning" \in Items /\ "tool" \in Items /\ "failed" \in Terminal
    BY DEF Items, Terminal
  <1>4. \A item \in Items : Count(s.frames, DeltaOf(item)) \in Nat
    BY CountTyped DEF StreamTyped, StreamRecord
  <1>5. CASE e \in {"boundary", "callEnd"}
    <2>1. Handle(s, e) = Close(s)
      BY <1>5 DEF Handle
    <2> QED  BY <1>1, <1>3, <1>4, <1>5, <2>1 DEF AsMuch, Dones
  <1>6. CASE e = "text"
    <2>1. Handle(s, e) = Delta(s, "message")
      BY <1>6 DEF Handle
    <2>2. \A i \in Items : /\ Count(Delta(s, "message").frames, DeltaOf(i)) = Count(s.frames, DeltaOf(i)) + (IF i = "message" THEN 1 ELSE 0)
                           /\ Delta(s, "message").terminated = s.terminated
      BY <1>3, DeltaSays
    <2> QED  BY <1>1, <1>3, <1>6, <2>1, <2>2 DEF Dones
  <1>7. CASE e = "think"
    <2>1. Handle(s, e) = Delta(s, "reasoning")
      BY <1>7 DEF Handle
    <2>2. \A i \in Items : /\ Count(Delta(s, "reasoning").frames, DeltaOf(i)) = Count(s.frames, DeltaOf(i)) + (IF i = "reasoning" THEN 1 ELSE 0)
                           /\ Delta(s, "reasoning").terminated = s.terminated
      BY <1>3, DeltaSays
    <2> QED  BY <1>1, <1>3, <1>7, <2>1, <2>2 DEF Dones
  <1>8. CASE e = "call"
    <2>1. Handle(s, e) = Delta(Close(s), "tool")
      BY <1>8 DEF Handle
    <2>2. \A i \in Items : /\ Count(Delta(Close(s), "tool").frames, DeltaOf(i)) = Count(Close(s).frames, DeltaOf(i)) + (IF i = "tool" THEN 1 ELSE 0)
                           /\ Delta(Close(s), "tool").terminated = Close(s).terminated
      BY <1>1, <1>2, <1>3, DeltaSays
    <2> QED  BY <1>1, <1>3, <1>8, <2>1, <2>2 DEF Dones, AsMuch
  <1>9. CASE e \in Dones
    <2>1. Handle(s, e) = Completes(s)
      BY <1>9 DEF Handle, Dones
    <2>2. AsMuch(s, Completes(s)) /\ Completes(s).terminated
      BY CompletesSays, CompletesFrames
    <2> QED  BY <1>3, <1>4, <1>9, <2>1, <2>2 DEF Dones, AsMuch
  <1>10. CASE e = "error"
    <2>1. Handle(s, e) = Finish(s, "failed")
      BY <1>10 DEF Handle
    <2>2. AsMuch(s, Finish(s, "failed")) /\ Finish(s, "failed").terminated /\ Outcome(Finish(s, "failed")) = "failed"
      BY <1>3, FinishSays, FinishFrames
    <2> QED  BY <1>3, <1>4, <1>10, <2>1, <2>2 DEF Dones, AsMuch
  <1> QED  BY <1>5, <1>6, <1>7, <1>8, <1>9, <1>10 DEF Events, Dones

\* What Codex was sent or waits for it, and that it is all of the n-th segment.
SaidText(s)     == Count(s.frames, DeltaOf("message")) + Count(s.queue, {"text"})
SaidThoughts(s) == Count(s.frames, DeltaOf("reasoning")) + Count(s.queue, {"think"})
Complete(page, n, texts, thoughts) ==
  /\ texts = Wrote(page, "text", Len(page), n)
  /\ thoughts <= Wrote(page, "think", Len(page), n) /\ thoughts + 1 >= Wrote(page, "think", Len(page), n)
AllSaid(q, s, page) == Complete(page, q.segment, SaidText(s), SaidThoughts(s))

\* A streamed response that is not closed: it says what its round has taken, and the event that
\* ends it is the last, when all is said.
Due(q, s, page) ==
  /\ q.round # "over" => s.queue \in Seq(Written) /\ ~s.shut
  /\ q.round \notin {"waiting", "over"} => s.queue = <<>> /\ s.frames = <<>>
  /\ q.round = "waiting" => SaidText(s) = Count(q.events, {"text"}) /\ SaidThoughts(s) = Count(q.events, {"think"})
  /\ \A i \in DOMAIN s.queue : s.queue[i] \in Dones => i = Len(s.queue) /\ AllSaid(q, s, page)
Streamed(q, s, page) ==
  /\ ~s.batch /\ ~s.compaction /\ q.phase # "running"
  /\ q.round # "none" => s.on
  /\ s.on /\ q.aborted => s.closed
  /\ s.closed => s.shut
  /\ ~s.closed => Due(q, s, page)
  /\ Outcome(s) = "completed" => q.round = "over" /\ s.queue = <<>> /\ AllSaid(q, s, page)

LEMMA StillStreamed ==
  ASSUME NEW q, NEW s, NEW x, NEW t, NEW page, Streamed(q, s, page),
         t.on = s.on, t.batch = s.batch, t.compaction = s.compaction, t.closed = s.closed, t.shut = s.shut,
         t.queue = s.queue, t.frames = s.frames,
         x.phase # "running", x.events = q.events, x.segment = q.segment,
         x.round = q.round \/ (q.round = "begin" /\ x.round = "queued"),
         x.aborted => q.aborted \/ ~s.on \/ s.closed
  PROVE  Streamed(x, t, page)
  <1>1. SaidText(t) = SaidText(s) /\ SaidThoughts(t) = SaidThoughts(s) /\ Outcome(t) = Outcome(s)
    BY DEF SaidText, SaidThoughts, Outcome, Terminals
  <1>2. AllSaid(x, t, page) <=> AllSaid(q, s, page)
    BY <1>1 DEF AllSaid
  <1>3. Due(q, s, page) => Due(x, t, page)
    BY <1>1, <1>2 DEF Due
  <1> QED  BY <1>1, <1>2, <1>3 DEF Streamed

\* A response that is closed, or that fails.
LEMMA ShutStreamed ==
  ASSUME NEW q, NEW s, NEW x, NEW t, NEW page, Streamed(q, s, page),
         t.on = s.on, t.batch = s.batch, t.compaction = s.compaction, t.closed, t.shut,
         x.phase # "running", x.segment = q.segment, x.round = q.round,
         Outcome(t) = "completed" => t.queue = s.queue /\ t.frames = s.frames
  PROVE  Streamed(x, t, page)
  <1>1. SUFFICES ASSUME Outcome(t) = "completed" PROVE x.round = "over" /\ t.queue = <<>> /\ AllSaid(x, t, page)
    BY DEF Streamed
  <1>2. SaidText(t) = SaidText(s) /\ SaidThoughts(t) = SaidThoughts(s) /\ Outcome(t) = Outcome(s)
    BY <1>1 DEF SaidText, SaidThoughts, Outcome, Terminals
  <1> QED  BY <1>1, <1>2 DEF Streamed, AllSaid

LEMMA EndStreamed ==
  ASSUME NEW q, NEW s, NEW x, NEW page, Streamed(q, s, page), StreamTyped(s), Shaped(s),
         x.phase # "running", x.events = q.events, x.segment = q.segment, x.round = q.round
  PROVE  /\ Streamed(x, Cancel(s), page)
         /\ ~s.closed => Streamed(x, Stall(s), page) /\ (s.shut => Streamed(x, Eof(s), page))
         /\ (x.aborted => q.aborted \/ ~s.on \/ s.closed) => Streamed(x, Pull(s), page)
  <1>1. Streamed(x, Cancel(s), page)
    <2> DEFINE t == Cancel(s)
    <2>1. /\ t.on = s.on /\ t.batch = s.batch /\ t.compaction = s.compaction /\ t.closed /\ t.shut
          /\ t.queue = s.queue /\ t.frames = s.frames
      BY DEF Cancel, StreamTyped, StreamRecord
    <2> HIDE DEF t
    <2> QED  BY <2>1, ShutStreamed DEF t
  <1>2. ASSUME ~s.closed PROVE Streamed(x, Stall(s), page) /\ (s.shut => Streamed(x, Eof(s), page))
    <2> DEFINE f == Finish(s, "incomplete")
               e == Eof(s)
               t == Stall(s)
    <2>1. "incomplete" \in Terminal
      BY DEF Terminal
    <2>2. Framed(s, f) /\ Outcome(f) = "incomplete"
      BY <1>2, <2>1, FinishFrames, FinishSays DEF Shaped
    <2>3. e = [f EXCEPT !.stepping = FALSE, !.closed = TRUE] /\ t = [f EXCEPT !.stepping = FALSE, !.closed = TRUE, !.shut = TRUE]
      BY DEF Eof, Stall
    <2>4. f \in StreamRecord
      BY <2>2 DEF Framed, StreamTyped
    <2> HIDE DEF f
    <2>5. e.frames = f.frames /\ t.frames = f.frames /\ e.closed /\ t.closed /\ t.shut /\ e.shut = f.shut
          /\ e.on = f.on /\ t.on = f.on /\ e.batch = f.batch /\ t.batch = f.batch
          /\ e.compaction = f.compaction /\ t.compaction = f.compaction
      BY <2>3, <2>4 DEF StreamRecord
    <2> HIDE DEF e, t
    <2>6. Outcome(e) = "incomplete" /\ Outcome(t) = "incomplete"
      BY <2>2, <2>5 DEF Outcome, Terminals
    <2>7. Streamed(x, t, page)
      BY <2>2, <2>5, <2>6, ShutStreamed DEF Framed
    <2>8. ASSUME s.shut PROVE Streamed(x, e, page)
      BY <2>2, <2>5, <2>6, <2>8, ShutStreamed DEF Framed
    <2> QED  BY <2>7, <2>8 DEF e, t
  <1>3. ASSUME x.aborted => q.aborted \/ ~s.on \/ s.closed PROVE Streamed(x, Pull(s), page)
    <2> DEFINE t == Pull(s)
    <2>1. /\ t.on = s.on /\ t.batch = s.batch /\ t.compaction = s.compaction /\ t.closed = s.closed /\ t.shut = s.shut
          /\ t.queue = s.queue /\ t.frames = s.frames
      BY DEF Pull, StreamTyped, StreamRecord
    <2> HIDE DEF t
    <2> QED  BY <1>3, <2>1, StillStreamed DEF t
  <1> QED  BY <1>1, <1>2, <1>3

\* The next event: what it says is no longer waiting, but sent.
LEMMA StepSays ==
  ASSUME NEW s, StreamTyped(s), Shaped(s), CanStep(s), ~s.compaction
  PROVE  /\ SaidText(Step(s)) = SaidText(s) /\ SaidThoughts(Step(s)) = SaidThoughts(s)
         /\ Step(s).queue = Tail(s.queue) /\ Step(s).on = s.on /\ Step(s).batch = s.batch /\ Step(s).compaction = s.compaction
         /\ (Step(s).closed <=> Head(s.queue) \in Dones \cup {"error"})
         /\ (Head(s.queue) \in Dones \cup {"error"} => Step(s).shut)
         /\ (Head(s.queue) \notin Dones \cup {"error"} => Step(s).shut = s.shut)
         /\ (Outcome(Step(s)) = "completed" => Head(s.queue) \in Dones)
         /\ Head(s.queue) \in Events
  <1> DEFINE e == Head(s.queue)
             rest == Tail(s.queue)
             t == [s EXCEPT !.queue = rest]
             h == Handle(t, e)
             framed == h.frames # s.frames \/ h.terminated
             n == Step(s)
  <1>1. e \in Events /\ rest \in Seq(Events) /\ Len(rest) <= MaxBuffered + 1 /\ s.queue \in Seq(Events) /\ s.queue # <<>>
    BY StreamAssumption DEF StreamTyped, StreamRecord, CanStep
  <1>2. StreamTyped(t) /\ ~t.closed /\ SameShape(s, t) /\ t.queue = rest /\ t.on = s.on /\ t.batch = s.batch
        /\ t.shut = s.shut /\ ~t.compaction
    <2> HIDE DEF rest
    <2> QED  BY <1>1 DEF StreamTyped, StreamRecord, CanStep, SameShape
  <1>3. Untold(t)
    BY <1>2, ShapeIsKept DEF Shaped, CanStep
  <1>4. n = [h EXCEPT !.stepping = ~framed, !.shut = h.shut \/ h.terminated, !.closed = h.terminated]
    BY DEF Step
  <1>5. Framed(t, h) /\ (Untold(h) \/ Told(h))
    BY <1>1, <1>2, <1>3, HandleShape, HandleFrames
  <1>6. /\ Count(h.frames, DeltaOf("message")) = Count(s.frames, DeltaOf("message")) + (IF e = "text" THEN 1 ELSE 0)
        /\ Count(h.frames, DeltaOf("reasoning")) = Count(s.frames, DeltaOf("reasoning")) + (IF e = "think" THEN 1 ELSE 0)
        /\ e \notin Dones \cup {"error"} => ~h.terminated
        /\ e = "error" => h.terminated /\ Outcome(h) = "failed"
        /\ e \in Dones => h.terminated
    <2>1. t.frames = s.frames
      BY <1>2 DEF SameShape
    <2> HIDE DEF t
    <2> QED  BY <1>1, <1>2, <1>3, <2>1, HandleSays
  <1> HIDE DEF t, h, framed, n
  <1>7. h \in StreamRecord
    BY <1>5 DEF Framed, StreamTyped
  <1>8. /\ n.frames = h.frames /\ n.queue = h.queue /\ n.on = h.on /\ n.batch = h.batch /\ n.compaction = h.compaction
        /\ n.shut = (h.shut \/ h.terminated) /\ n.closed = h.terminated
    BY <1>4, <1>7 DEF StreamRecord
  <1>9. /\ Count(s.queue, {"text"}) = (IF e = "text" THEN 1 ELSE 0) + Count(rest, {"text"}) /\ Count(rest, {"text"}) \in Nat
        /\ Count(s.queue, {"think"}) = (IF e = "think" THEN 1 ELSE 0) + Count(rest, {"think"}) /\ Count(rest, {"think"}) \in Nat
    BY <1>1, CountOfRest
  <1>10. Count(s.frames, DeltaOf("message")) \in Nat /\ Count(s.frames, DeltaOf("reasoning")) \in Nat
    BY CountTyped DEF StreamTyped, StreamRecord
  <1>11. n.queue = rest /\ n.on = s.on /\ n.batch = s.batch /\ h.shut = s.shut /\ n.compaction = s.compaction
    BY <1>2, <1>5, <1>8 DEF Framed, SameShape
  <1> HIDE DEF rest
  <1>12. SaidText(n) = SaidText(s)
    BY <1>6, <1>8, <1>9, <1>10, <1>11 DEF SaidText
  <1>13. SaidThoughts(n) = SaidThoughts(s)
    BY <1>6, <1>8, <1>9, <1>10, <1>11 DEF SaidThoughts
  <1>14. Outcome(n) = Outcome(h)
    BY <1>8 DEF Outcome, Terminals
  <1>15. Untold(h) => Outcome(h) = "none"
    BY DEF Untold, Outcome
  <1>16. Outcome(n) = "completed" => e \in Dones
    BY <1>5, <1>6, <1>14, <1>15 DEF Told
  <1>17. n.closed <=> e \in Dones \cup {"error"}
    BY <1>6, <1>8
  <1>18. /\ e \in Dones \cup {"error"} => n.shut
         /\ e \notin Dones \cup {"error"} => n.shut = s.shut
    BY <1>6, <1>8, <1>11, <1>7 DEF StreamRecord
  <1> QED  BY <1>1, <1>11, <1>12, <1>13, <1>16, <1>17, <1>18 DEF n, rest

LEMMA StepStreamed ==
  ASSUME NEW q, NEW s, NEW x, NEW page, Streamed(q, s, page), StreamTyped(s), Shaped(s), CanStep(s),
         x.phase # "running", x.events = q.events, x.segment = q.segment, x.round = q.round,
         x.aborted => q.aborted \/ Step(s).closed
  PROVE  Streamed(x, Step(s), page)
  <1> DEFINE e == Head(s.queue)
             rest == Tail(s.queue)
             n == Step(s)
  <1>1. ~s.closed /\ s.queue # <<>> /\ s.queue \in Seq(Events)
    BY DEF CanStep, StreamTyped, StreamRecord
  <1>2. Due(q, s, page) /\ ~s.compaction
    BY <1>1 DEF Streamed
  <1>3. /\ SaidText(n) = SaidText(s) /\ SaidThoughts(n) = SaidThoughts(s)
        /\ n.queue = rest /\ n.on = s.on /\ n.batch = s.batch /\ n.compaction = s.compaction
        /\ (n.closed <=> e \in Dones \cup {"error"}) /\ (e \in Dones \cup {"error"} => n.shut)
        /\ (e \notin Dones \cup {"error"} => n.shut = s.shut)
        /\ (Outcome(n) = "completed" => e \in Dones)
    BY <1>2, StepSays
  <1>4. /\ Len(s.queue) \in Nat \ {0} /\ DOMAIN s.queue = 1 .. Len(s.queue) /\ e = s.queue[1]
        /\ DOMAIN rest = 1 .. Len(s.queue) - 1 /\ Len(rest) = Len(s.queue) - 1
        /\ \A i \in DOMAIN rest : i + 1 \in DOMAIN s.queue /\ rest[i] = s.queue[i + 1]
        /\ (Len(s.queue) = 1 => rest = <<>>)
    <2> DEFINE k == Len(s.queue)
    <2>1. k \in Nat \ {0} /\ DOMAIN s.queue = 1 .. k /\ e = s.queue[1]
      BY <1>1
    <2>2. rest \in Seq(Events) /\ Len(rest) = k - 1 /\ \A i \in 1 .. k - 1 : rest[i] = s.queue[i + 1]
      BY <1>1
    <2>3. DOMAIN rest = 1 .. k - 1
      BY <2>2
    <2> HIDE DEF k, rest
    <2>4. k = 1 => rest = <<>>
      BY <2>2
    <2>5. \A i \in 1 .. k - 1 : i + 1 \in 1 .. k
      BY <2>1
    <2> QED  BY <2>1, <2>2, <2>3, <2>4, <2>5 DEF k
  <1>5. AllSaid(x, n, page) <=> AllSaid(q, s, page)
    BY <1>3 DEF AllSaid
  <1>6. q.round # "over" => s.queue \in Seq(Written) /\ ~s.shut /\ e \in Written /\ rest \in Seq(Written)
    BY <1>1, <1>2 DEF Due
  <1>7. q.round \in {"waiting", "over"}
    BY <1>1, <1>2 DEF Due
  <1> HIDE DEF e, rest, n
  <1>8. Outcome(n) = "completed" => x.round = "over" /\ n.queue = <<>> /\ AllSaid(x, n, page)
    <2>1. SUFFICES ASSUME e \in Dones PROVE x.round = "over" /\ n.queue = <<>> /\ AllSaid(x, n, page)
      BY <1>3
    <2>2. 1 \in DOMAIN s.queue /\ s.queue[1] \in Dones
      BY <1>4, <2>1
    <2>3. 1 = Len(s.queue) /\ AllSaid(q, s, page)
      BY <1>2, <2>2 DEF Due
    <2>4. e \notin Written
      BY <2>1 DEF Dones, Written
    <2> QED  BY <1>3, <1>4, <1>5, <1>6, <2>3, <2>4
  <1>9. ASSUME ~n.closed PROVE Due(x, n, page)
    <2>1. \A i \in DOMAIN n.queue : n.queue[i] \in Dones => i = Len(n.queue) /\ AllSaid(x, n, page)
      <3> TAKE i \in DOMAIN n.queue
      <3> HAVE n.queue[i] \in Dones
      <3>1. i + 1 \in DOMAIN s.queue /\ s.queue[i + 1] \in Dones
        BY <1>3, <1>4
      <3>2. i + 1 = Len(s.queue) /\ AllSaid(q, s, page)
        BY <1>2, <3>1 DEF Due
      <3>3. i \in Nat
        BY <1>3, <1>4
      <3> QED  BY <1>3, <1>4, <1>5, <3>2, <3>3
    <2>2. n.shut = s.shut
      BY <1>3, <1>9
    <2> QED  BY <1>2, <1>3, <1>6, <1>7, <2>1, <2>2 DEF Due
  <1>10. n.closed => n.shut
    BY <1>3
  <1>11. n.on /\ x.aborted => n.closed
    BY <1>1, <1>3 DEF Streamed, n
  <1> QED  BY <1>3, <1>8, <1>9, <1>10, <1>11 DEF Streamed, n

LEMMA PushSays ==
  ASSUME NEW s, StreamTyped(s), NEW es \in Seq(Events)
  PROVE  /\ s.shut => PushLast(s, es).queue = s.queue /\ Push(s, es) = s
         /\ ~s.shut /\ Fits(s, es) => PushLast(s, es).queue = s.queue \o es /\ Push(s, es).queue = s.queue \o es
         /\ ~s.shut /\ ~Fits(s, es) => /\ PushLast(s, es).queue = SubSeq(s.queue \o es, 1, Room(s))
                                       /\ Room(s) \in Nat /\ Room(s) < Len(s.queue \o es)
  <1>1. Room(s) \in Nat /\ s.queue \o es \in Seq(Events) /\ Len(s.queue \o es) \in Nat
    BY StreamAssumption DEF Room, StreamTyped, StreamRecord
  <1>2. Push(s, es) \in StreamRecord
    BY PushTyped DEF StreamTyped
  <1>3. PushLast(s, es).queue = Push(s, es).queue
    BY <1>2 DEF PushLast, StreamRecord
  <1>4. s.shut => Push(s, es) = s
    BY DEF Push
  <1>5. ~s.shut /\ Fits(s, es) => Push(s, es).queue = s.queue \o es
    BY DEF Push, StreamTyped, StreamRecord
  <1>6. ~s.shut /\ ~Fits(s, es) => Push(s, es).queue = SubSeq(s.queue \o es, 1, Room(s))
    BY DEF Push, StreamTyped, StreamRecord
  <1>7. ~s.shut /\ ~Fits(s, es) => Room(s) < Len(s.queue \o es)
    BY <1>1 DEF Fits
  <1> QED  BY <1>1, <1>3, <1>4, <1>5, <1>6, <1>7

LEMMA PushedSays ==
  ASSUME NEW s, NEW t, StreamTyped(s), NEW es \in Seq(Events), t.frames = s.frames, t.queue = s.queue \o es
  PROVE  /\ SaidText(t) = SaidText(s) + Count(es, {"text"}) /\ SaidThoughts(t) = SaidThoughts(s) + Count(es, {"think"})
         /\ SaidText(s) \in Nat /\ SaidThoughts(s) \in Nat /\ Count(es, {"text"}) \in Nat /\ Count(es, {"think"}) \in Nat
  <1>1. s.queue \in Seq(Events) /\ s.frames \in Seq(Frame)
    BY DEF StreamTyped, StreamRecord
  <1>2. /\ Count(s.queue \o es, {"text"}) = Count(s.queue, {"text"}) + Count(es, {"text"})
        /\ Count(s.queue \o es, {"think"}) = Count(s.queue, {"think"}) + Count(es, {"think"})
    BY <1>1, CountOfBoth
  <1>3. /\ Count(s.queue, {"text"}) \in Nat /\ Count(s.queue, {"think"}) \in Nat /\ Count(es, {"text"}) \in Nat /\ Count(es, {"think"}) \in Nat
        /\ Count(s.frames, DeltaOf("message")) \in Nat /\ Count(s.frames, DeltaOf("reasoning")) \in Nat
    BY <1>1, CountTyped
  <1>4. /\ SaidText(s) = Count(s.frames, DeltaOf("message")) + Count(s.queue, {"text"})
        /\ SaidText(t) = Count(s.frames, DeltaOf("message")) + Count(s.queue \o es, {"text"})
        /\ SaidThoughts(s) = Count(s.frames, DeltaOf("reasoning")) + Count(s.queue, {"think"})
        /\ SaidThoughts(t) = Count(s.frames, DeltaOf("reasoning")) + Count(s.queue \o es, {"think"})
    BY DEF SaidText, SaidThoughts
  <1> DEFINE a == Count(s.frames, DeltaOf("message"))
             b == Count(s.queue, {"text"})
             c == Count(es, {"text"})
             d == Count(s.frames, DeltaOf("reasoning"))
             e == Count(s.queue, {"think"})
             f == Count(es, {"think"})
  <1>5. a \in Nat /\ b \in Nat /\ c \in Nat /\ d \in Nat /\ e \in Nat /\ f \in Nat
    BY <1>3
  <1>6. SaidText(s) = a + b /\ SaidText(t) = a + (b + c) /\ SaidThoughts(s) = d + e /\ SaidThoughts(t) = d + (e + f)
    BY <1>2, <1>4
  <1> HIDE DEF a, b, c, d, e, f
  <1>7. /\ SaidText(t) = SaidText(s) + c /\ SaidThoughts(t) = SaidThoughts(s) + f
        /\ SaidText(s) \in Nat /\ SaidThoughts(s) \in Nat
    BY <1>5, <1>6
  <1> QED  BY <1>5, <1>7 DEF c, f

\* The round is over; the event that ends it says so only when all is said, and is lost if it does
\* not fit into the queue.
LEMMA LastStreamed ==
  ASSUME NEW q, NEW s, NEW x, NEW page, NEW es \in Seq(Events), StreamTyped(s), Streamed(q, s, page),
         q.round \notin {"none", "over"}, x.round = "over", x.phase = q.phase, x.aborted = q.aborted,
         ~s.closed => \A i \in DOMAIN es : es[i] \in Dones =>
           i = Len(es) /\ Complete(page, x.segment, SaidText(s) + Count(es, {"text"}), SaidThoughts(s) + Count(es, {"think"}))
  PROVE  Streamed(x, PushLast(s, es), page)
  <1> DEFINE p == PushLast(s, es)
             all == s.queue \o es
  <1>1. /\ p.on = s.on /\ p.closed = s.closed /\ p.batch = s.batch /\ p.frames = s.frames /\ p.compaction = s.compaction /\ p.shut
    BY PushTyped
  <1>2. /\ s.shut => p.queue = s.queue
        /\ ~s.shut /\ Fits(s, es) => p.queue = all
        /\ ~s.shut /\ ~Fits(s, es) => p.queue = SubSeq(all, 1, Room(s)) /\ Room(s) \in Nat /\ Room(s) < Len(all)
    BY PushSays
  <1> HIDE DEF p
  <1>3. Outcome(p) # "completed"
    <2>1. Outcome(p) = Outcome(s)
      BY <1>1 DEF Outcome, Terminals
    <2> QED  BY <2>1 DEF Streamed
  <1>4. ASSUME ~s.closed PROVE Due(x, p, page)
    <2>1. s.queue \in Seq(Written) /\ ~s.shut
      BY <1>4 DEF Streamed, Due
    <2>2. /\ Len(s.queue) \in Nat /\ Len(es) \in Nat /\ all \in Seq(Events) /\ Len(all) = Len(s.queue) + Len(es)
          /\ DOMAIN all = 1 .. Len(all) /\ DOMAIN es = 1 .. Len(es)
          /\ \A i \in 1 .. Len(s.queue) : all[i] \in Written
          /\ \A i \in 1 .. Len(all) : i > Len(s.queue) => i - Len(s.queue) \in DOMAIN es /\ all[i] = es[i - Len(s.queue)]
      <3>1. s.queue \in Seq(Events)
        BY DEF StreamTyped, StreamRecord
      <3> QED  BY <2>1, <3>1
    <2>3. Written \cap Dones = {}
      BY DEF Written, Dones
    <2>4. ASSUME NEW i \in 1 .. Len(all), all[i] \in Dones
          PROVE  i = Len(all) /\ Complete(page, x.segment, SaidText(s) + Count(es, {"text"}), SaidThoughts(s) + Count(es, {"think"}))
      <3>1. i > Len(s.queue)
        BY <2>2, <2>3, <2>4
      <3>2. i - Len(s.queue) \in DOMAIN es /\ es[i - Len(s.queue)] \in Dones
        BY <2>2, <2>4, <3>1
      <3>3. i - Len(s.queue) = Len(es) /\ Complete(page, x.segment, SaidText(s) + Count(es, {"text"}), SaidThoughts(s) + Count(es, {"think"}))
        BY <1>4, <3>2
      <3> QED  BY <2>2, <3>3
    <2>5. CASE Fits(s, es)
      <3>1. p.queue = all
        BY <1>2, <2>1, <2>5
      <3>2. SaidText(p) = SaidText(s) + Count(es, {"text"}) /\ SaidThoughts(p) = SaidThoughts(s) + Count(es, {"think"})
        BY <1>1, <3>1, PushedSays
      <3> HIDE DEF all
      <3> QED  BY <2>2, <2>4, <3>1, <3>2 DEF Due, AllSaid
    <2>6. CASE ~Fits(s, es)
      <3>1. p.queue = SubSeq(all, 1, Room(s)) /\ Room(s) \in Nat /\ Room(s) < Len(all)
        BY <1>2, <2>1, <2>6
      <3> HIDE DEF all
      <3>2. ASSUME NEW i \in DOMAIN p.queue PROVE p.queue[i] \notin Dones
        <4>1. i \in 1 .. Room(s) /\ p.queue[i] = all[i]
          BY <2>2, <3>1, <3>2
        <4>2. i \in 1 .. Len(all) /\ i # Len(all)
          BY <2>2, <3>1, <4>1
        <4> QED  BY <2>4, <4>1, <4>2
      <3> QED  BY <3>2 DEF Due
    <2> QED  BY <2>5, <2>6
  <1> QED  BY <1>1, <1>3, <1>4 DEF Streamed, p

\* The round sends es and listens.
LEMMA PushStreamed ==
  ASSUME NEW q, NEW s, NEW x, NEW page, NEW es \in Seq(Written), StreamTyped(s), Streamed(q, s, page), Fits(s, es),
         x.round = "waiting", x.phase = q.phase, x.aborted = q.aborted,
         \/ q.round = "queued" /\ x.events = es
         \/ q.round = "waiting" /\ q.events \in Seq(Written) /\ x.events = q.events \o es
  PROVE  Streamed(x, Push(s, es), page)
  <1> DEFINE p == Push(s, es)
  <1>0. es \in Seq(Events)
    BY WrittenAreEvents
  <1>1. /\ p.on = s.on /\ p.closed = s.closed /\ p.batch = s.batch /\ p.frames = s.frames /\ p.compaction = s.compaction
        /\ p.shut = s.shut
    BY <1>0, PushTyped
  <1>2. ~s.shut => p.queue = s.queue \o es
    BY <1>0, PushSays
  <1> HIDE DEF p
  <1>3. Outcome(p) # "completed"
    <2>1. Outcome(p) = Outcome(s)
      BY <1>1 DEF Outcome, Terminals
    <2> QED  BY <2>1 DEF Streamed
  <1>4. ASSUME ~s.closed PROVE Due(x, p, page)
    <2>1. s.queue \in Seq(Written) /\ ~s.shut
      BY <1>4 DEF Streamed, Due
    <2>2. p.queue = s.queue \o es /\ p.queue \in Seq(Written)
      <3>1. s.queue \o es \in Seq(Written)
        BY <2>1
      <3>2. p.queue = s.queue \o es
        BY <1>2, <2>1
      <3> QED  BY <3>1, <3>2
    <2>3. /\ SaidText(p) = SaidText(s) + Count(es, {"text"}) /\ SaidThoughts(p) = SaidThoughts(s) + Count(es, {"think"})
          /\ Count(es, {"text"}) \in Nat /\ Count(es, {"think"}) \in Nat
      BY <1>0, <1>1, <2>2, PushedSays
    <2>4. SaidText(p) = Count(x.events, {"text"}) /\ SaidThoughts(p) = Count(x.events, {"think"})
      <3>1. CASE q.round = "queued" /\ x.events = es
        <4>1. s.queue = <<>> /\ s.frames = <<>>
          BY <1>4, <3>1 DEF Streamed, Due
        <4>2. SaidText(s) = 0 /\ SaidThoughts(s) = 0
          BY <4>1, CountOfNone DEF SaidText, SaidThoughts
        <4> QED  BY <2>3, <3>1, <4>2
      <3>2. CASE q.round = "waiting" /\ q.events \in Seq(Written) /\ x.events = q.events \o es
        <4>1. SaidText(s) = Count(q.events, {"text"}) /\ SaidThoughts(s) = Count(q.events, {"think"})
          BY <1>4, <3>2 DEF Streamed, Due
        <4>2. /\ Count(x.events, {"text"}) = Count(q.events, {"text"}) + Count(es, {"text"})
              /\ Count(x.events, {"think"}) = Count(q.events, {"think"}) + Count(es, {"think"})
          BY <3>2, CountOfBoth
        <4> QED  BY <2>3, <4>1, <4>2
      <3> QED  BY <3>1, <3>2
    <2>5. \A i \in DOMAIN p.queue : p.queue[i] \notin Dones
      <3>1. \A i \in DOMAIN p.queue : p.queue[i] \in Written
        BY <2>2
      <3> QED  BY <3>1 DEF Written, Dones
    <2> QED  BY <1>1, <2>1, <2>2, <2>4, <2>5 DEF Due
  <1> QED  BY <1>1, <1>3, <1>4 DEF Streamed, p

\* When the page waits for results, or has ended, all of the segment is written.
LEMMA SegmentEnds ==
  ASSUME NEW s \in Session, NEW page \in Seq(Acts), Follows(s, page),
         ((s.batch \/ s.outstanding # 0) /\ s.script # <<>>) \/ s.outcome = "final", NEW what, what # "tools"
  PROVE  /\ Wrote(page, what, Len(page), s.segment) = Wrote(page, what, Place(s, page), s.segment)
         /\ Wrote(page, what, Len(page), s.segment) \in Nat
  <1>1. s.script \in Seq(Acts) /\ s.segment \in Nat /\ Len(page) \in Nat
    BY DEF Session
  <1>2. Wrote(page, what, Len(page), s.segment) \in Nat
    BY <1>1, WroteFurther
  <1>3. CASE s.outcome = "final"
    <2>1. Place(s, page) = Len(page)
      BY <1>1, <1>3 DEF Follows, Place
    <2> QED  BY <1>2, <2>1
  <1>4. CASE (s.batch \/ s.outstanding # 0) /\ s.script # <<>>
    <2> DEFINE k == Place(s, page)
    <2>1. k \in Nat /\ k < Len(page) /\ page[k + 1] = Head(s.script)
      <3> DEFINE n == Len(page)
                 m == Len(s.script)
      <3>1. /\ n \in Nat /\ m \in Nat \ {0} /\ m <= n /\ 1 \in DOMAIN s.script /\ Head(s.script) = s.script[1]
            /\ k = n - m
        BY <1>1, <1>4 DEF Follows, Place
      <3>2. s.script[1] = page[k + 1]
        BY <3>1 DEF Follows
      <3> HIDE DEF n, m, k
      <3>3. k \in Nat /\ k < n
        BY <3>1
      <3> QED  BY <3>1, <3>2, <3>3 DEF n
    <2>2. Head(s.script) = "tools" /\ s.segment = Turned(page, k)
      BY <1>4 DEF Follows
    <2> HIDE DEF k
    <2>3. Wrote(page, what, Len(page), Turned(page, k)) = Wrote(page, what, k, Turned(page, k))
      BY <2>1, <2>2, NewSegment
    <2> QED  BY <1>2, <2>2, <2>3 DEF k
  <1> QED  BY <1>3, <1>4

-----------------------------------------------------------------------------
(* Every step keeps what a response says.                                   *)

SaysInv == ShapeInv /\ KeptInv /\ \A r \in Requests : Kind(r) = "stream" => Streamed(req[r], stream[r], scenario.page)

\* A step of one request.
LEMMA SaidOfOne ==
  ASSUME SaysInv, NEW r \in Requests, NEW q, NEW s, req' = [req EXCEPT ![r] = q], stream' = [stream EXCEPT ![r] = s],
         scenario' = scenario, Kind(r) = "stream" => Streamed(q, s, scenario.page)
  PROVE  \A x \in Requests : Kind(x)' = "stream" => Streamed(req'[x], stream'[x], scenario'.page)
  <1>1. req \in [Requests -> Request] /\ stream \in [Requests -> StreamRecord]
    BY DEF SaysInv, KeptInv, IInv, Typed
  <1>2. \A x \in Requests : Kind(x)' = Kind(x)
    BY SameScenario
  <1> QED  BY <1>1, <1>2 DEF SaysInv

LEMMA SaidPlaces ==
  ASSUME SaysInv, NEW r \in Requests
  PROVE  /\ StreamTyped(stream[r]) /\ Shaped(stream[r]) /\ req[r] \in Request /\ Tracked(req[r], stream[r], Kind(r))
         /\ Kind(r) = "stream" => Streamed(req[r], stream[r], scenario.page)
         /\ KeptInv /\ ShapeInv /\ IInv
         /\ [stream EXCEPT ![r] = stream[r]] = stream /\ [req EXCEPT ![r] = req[r]] = req
  <1>1. KeptInv /\ ShapeInv /\ IInv
    BY DEF SaysInv, KeptInv
  <1>2. stream \in [Requests -> StreamRecord] /\ req \in [Requests -> Request]
    BY <1>1 DEF IInv, Typed
  <1> QED  BY <1>1, <1>2, RoundPlaces DEF SaysInv, ShapeInv

LEMMA OverSaid ==
  ASSUME SaysInv, NEW r \in Requests, req[r].round \notin {"none", "over"}, NEW es \in Seq(Events), NEW s, NEW b, Over(r, es, s, b),
         Kind(r) = "stream" /\ ~stream[r].closed => \A i \in DOMAIN es : es[i] \in Dones =>
           i = Len(es) /\ Complete(scenario.page, S(r).segment, SaidText(stream[r]) + Count(es, {"text"}), SaidThoughts(stream[r]) + Count(es, {"think"}))
  PROVE  \A x \in Requests : Kind(x)' = "stream" => Streamed(req'[x], stream'[x], scenario'.page)
  <1> DEFINE call == IF Batch(es) THEN s.outstanding ELSE 0
             segment == S(r).segment
             q == [req[r] EXCEPT !.round = "over", !.segment = segment, !.call = call]
  <1>1. req' = [req EXCEPT ![r] = q] /\ stream' = [stream EXCEPT ![r] = PushLast(stream[r], es)] /\ scenario' = scenario
    <2>1. req \in [Requests -> Request]
      BY DEF SaysInv, KeptInv, IInv, Typed
    <2> QED  BY <2>1 DEF Over
  <1>2. req[r] \in Request /\ StreamTyped(stream[r]) /\ (Kind(r) = "stream" => Streamed(req[r], stream[r], scenario.page))
    BY SaidPlaces
  <1> HIDE DEF call
  <1>3. q.round = "over" /\ q.segment = S(r).segment /\ q.phase = req[r].phase /\ q.aborted = req[r].aborted
    BY <1>2 DEF Request
  <1> HIDE DEF q, segment
  <1>4. Kind(r) = "stream" => Streamed(q, PushLast(stream[r], es), scenario.page)
    BY <1>2, <1>3, LastStreamed
  <1> QED  BY <1>1, <1>4, SaidOfOne

\* A round that ends otherwise than with all it has to say does not say that it is complete.
LEMMA FailsSaid ==
  ASSUME SaysInv, NEW r \in Requests, req[r].round \notin {"none", "over"}, NEW es \in Seq(Events), NEW s, NEW b, Over(r, es, s, b),
         es \in Seq(Written) \/ es = <<"error">>
  PROVE  \A x \in Requests : Kind(x)' = "stream" => Streamed(req'[x], stream'[x], scenario'.page)
  <1>1. \A i \in DOMAIN es : es[i] \notin Dones
    <2>1. CASE es \in Seq(Written)
      BY <2>1 DEF Written, Dones
    <2>2. CASE es = <<"error">>
      BY <2>2 DEF Dones
    <2> QED  BY <2>1, <2>2
  <1> QED  BY <1>1, OverSaid

LEMMA CatchSaid ==
  ASSUME SaysInv, NEW r \in Requests, req[r].round \notin {"none", "over"}, NEW why, Catch(r, why)
  PROVE  \A x \in Requests : Kind(x)' = "stream" => Streamed(req'[x], stream'[x], scenario'.page)
  <1>1. <<"error">> \in Seq(Events)
    BY DEF Events
  <1>2. \E s, b : Over(r, <<"error">>, s, b)
    BY DEF Catch
  <1> QED  BY <1>1, <1>2, FailsSaid

\* What ends a segment carries neither text nor thoughts, and only its last event is a done.
LEMMA EndsOnly ==
  ASSUME NEW end \in {<<"doneStop">>, Call}
  PROVE  /\ end \in Seq(Events) /\ Len(end) \in Nat
         /\ \A j \in 1 .. Len(end) : end[j] \notin {"text", "think"}
         /\ \A j \in 1 .. Len(end) : end[j] \in Dones => j = Len(end)
  <1>1. CASE end = <<"doneStop">>
    BY <1>1 DEF Events
  <1>2. CASE end = Call
    <2>1. end = <<"call", "callEnd", "doneTools">>
      BY <1>2 DEF Call
    <2>2. end \in Seq(Events) /\ Len(end) = 3
      BY <2>1 DEF Events
    <2>3. end[1] = "call" /\ end[2] = "callEnd" /\ end[3] = "doneTools"
      BY <2>1
    <2> QED  BY <2>2, <2>3 DEF Dones
  <1> QED  BY <1>1, <1>2

\* After what a turn wrote, the first done is the last event, and the end says nothing more.
LEMMA TheEndIsLast ==
  ASSUME NEW ws \in Seq(Written), NEW end \in {<<"doneStop">>, Call}, NEW i \in DOMAIN (ws \o end), (ws \o end)[i] \in Dones
  PROVE  /\ Count(ws \o end, {"text"}) = Count(ws, {"text"}) /\ Count(ws \o end, {"think"}) = Count(ws, {"think"})
         /\ i = Len(ws \o end)
  <1>1. /\ end \in Seq(Events) /\ Len(end) \in Nat
        /\ \A j \in 1 .. Len(end) : end[j] \notin {"text", "think"}
        /\ \A j \in 1 .. Len(end) : end[j] \in Dones => j = Len(end)
    BY EndsOnly
  <1>2. ws \in Seq(Events)
    BY WrittenAreEvents
  <1>3. Len(ws) \in Nat /\ \A j \in 1 .. Len(ws) : ws[j] \notin Dones
    <2>1. Len(ws) \in Nat /\ \A j \in 1 .. Len(ws) : ws[j] \in Written
      OBVIOUS
    <2> QED  BY <2>1 DEF Written, Dones
  <1>4. Len(ws \o end) = Len(ws) + Len(end) /\ i \in 1 .. Len(ws) + Len(end)
    BY <1>1, <1>2
  <1>5. \A j \in 1 .. Len(ws) + Len(end) : (ws \o end)[j] = IF j <= Len(ws) THEN ws[j] ELSE end[j - Len(ws)]
    BY <1>1, <1>2
  <1>6. Count(ws \o end, {"text"}) = Count(ws, {"text"}) /\ Count(ws \o end, {"think"}) = Count(ws, {"think"})
    <2>1. DOMAIN end = 1 .. Len(end)
      BY <1>1
    <2>2. Count(end, {"text"}) = 0 /\ Count(end, {"think"}) = 0
      BY <1>1, <2>1, CountOfNo
    <2>3. /\ Count(ws \o end, {"text"}) = Count(ws, {"text"}) + Count(end, {"text"}) /\ Count(ws, {"text"}) \in Nat
          /\ Count(ws \o end, {"think"}) = Count(ws, {"think"}) + Count(end, {"think"}) /\ Count(ws, {"think"}) \in Nat
      BY <1>1, <1>2, CountOfBoth, CountTyped
    <2> QED  BY <2>2, <2>3
  <1> DEFINE a == Len(ws)
             c == Len(end)
             w == ws \o end
  <1>7. a \in Nat /\ c \in Nat /\ i \in 1 .. a + c /\ Len(w) = a + c
    BY <1>1, <1>3, <1>4
  <1>8. \A j \in 1 .. a + c : w[j] = IF j <= a THEN ws[j] ELSE end[j - a]
    BY <1>5
  <1>9. /\ w[i] \in Dones
        /\ \A j \in 1 .. a : ws[j] \notin Dones
        /\ \A j \in 1 .. c : end[j] \in Dones => j = c
    BY <1>1, <1>3
  <1> HIDE DEF a, c, w
  <1>10. i > a
    <2>1. i <= a => w[i] = ws[i] /\ i \in 1 .. a
      BY <1>7, <1>8
    <2> QED  BY <1>7, <1>9, <2>1
  <1>11. w[i] = end[i - a] /\ i - a \in 1 .. c
    BY <1>7, <1>8, <1>10
  <1>12. i = a + c
    BY <1>7, <1>9, <1>11
  <1> QED  BY <1>6, <1>7, <1>12 DEF w

\* The end of a round that has said all its page wrote.
LEMMA SaysAll ==
  ASSUME SaysInv, NEW r \in Requests, InRound(r), req[r].round = "waiting" \/ S(r).holder = 0,
         Kind(r) = "stream", ~stream[r].closed,
         NEW ws \in Seq(Written), NEW end \in {<<"doneStop">>, Call},
         S(r).outcome = "final" \/ (S(r).outcome = "none" /\ (S(r).batch \/ S(r).outstanding # 0)),
         Count(ws, {"text"}) = Count(S(r).final, {"text"}) + S(r).text,
         Count(ws, {"think"}) = Count(S(r).final, {"think"}) + S(r).trace,
         NEW i \in DOMAIN (ws \o end), (ws \o end)[i] \in Dones
  PROVE  i = Len(ws \o end) /\ Complete(scenario.page, S(r).segment, SaidText(stream[r]) + Count(ws \o end, {"text"}), SaidThoughts(stream[r]) + Count(ws \o end, {"think"}))
  <1> DEFINE s == S(r)
             page == scenario.page
             es == Heard(T(r))
             wt == Wrote(page, "text", Len(page), s.segment)
             wk == Wrote(page, "think", Len(page), s.segment)
  <1>1. Streamed(req[r], stream[r], page) /\ req[r].round # "none" /\ Due(req[r], stream[r], page) /\ ~req[r].aborted
    BY SaidPlaces DEF Streamed, InRound
  <1>2. /\ s \in Session /\ page \in Seq(Acts) /\ s.life # "none" /\ Kept(s, page, es, Wanted(T(r))) /\ 0 \notin Requests
        /\ (req[r].round = "waiting" => es = req[r].events /\ s.holder = r) /\ (s.holder = 0 => es = <<>>)
        /\ req[r].events \in Seq(Written) /\ Scripted(s)
    BY TurnOf DEF SaysInv
  <1>3. Wanted(T(r))
    BY <1>1 DEF Wanted, Awaited
  <1>4. Follows(s, page) /\ Keeps(s) /\ Balanced(s, page, es)
    BY <1>2, <1>3 DEF Kept
  <1>5. wt = Wrote(page, "text", Place(s, page), s.segment) /\ wk = Wrote(page, "think", Place(s, page), s.segment)
        /\ wt \in Nat /\ wk \in Nat
    <2> DEFINE o == s
    <2>1. ((o.batch \/ o.outstanding # 0) /\ o.script # <<>>) \/ o.outcome = "final"
      BY <1>2 DEF Scripted
    <2>2. o \in Session /\ Follows(o, page)
      BY <1>2, <1>4
    <2> HIDE DEF o
    <2>3. /\ Wrote(page, "text", Len(page), o.segment) = Wrote(page, "text", Place(o, page), o.segment)
          /\ Wrote(page, "text", Len(page), o.segment) \in Nat
      BY <1>2, <2>1, <2>2, SegmentEnds
    <2>4. /\ Wrote(page, "think", Len(page), o.segment) = Wrote(page, "think", Place(o, page), o.segment)
          /\ Wrote(page, "think", Len(page), o.segment) \in Nat
      BY <1>2, <2>1, <2>2, SegmentEnds
    <2> QED  BY <2>3, <2>4 DEF o
  <1>6. SaidText(stream[r]) = Count(es, {"text"}) /\ SaidThoughts(stream[r]) = Count(es, {"think"})
    <2>1. CASE req[r].round = "waiting"
      BY <1>1, <1>2, <2>1 DEF Due
    <2>2. CASE req[r].round = "queued"
      <3>1. es = <<>> /\ stream[r].queue = <<>> /\ stream[r].frames = <<>>
        BY <1>1, <1>2, <2>2 DEF Due
      <3> QED  BY <3>1, CountOfNone DEF SaidText, SaidThoughts
    <2> QED  BY <2>1, <2>2 DEF InRound
  <1>7. /\ Count(ws \o end, {"text"}) = Count(ws, {"text"}) /\ Count(ws \o end, {"think"}) = Count(ws, {"think"})
        /\ i = Len(ws \o end)
    BY TheEndIsLast
  <1>8. /\ Count(s.final, {"text"}) \in Nat /\ Count(es, {"text"}) \in Nat /\ s.text \in Nat
        /\ Count(s.final, {"think"}) \in Nat /\ Count(es, {"think"}) \in Nat /\ s.trace \in Nat
    <2>1. s.final \in Seq(Events) /\ s.text \in Nat /\ s.trace \in Nat /\ req[r].events \in Seq(Events)
      BY <1>2, WrittenAreEvents DEF Session
    <2>2. es \in Seq(Events)
      <3>1. es = req[r].events \/ es = <<>>
        BY <1>2
      <3>2. <<>> \in Seq(Events) /\ req[r].events \in Seq(Events)
        BY <2>1
      <3> HIDE DEF es
      <3> QED  BY <3>1, <3>2
    <2> QED  BY <2>1, <2>2, CountTyped
  <1> DEFINE hold == IF s.held = "none" THEN 0 ELSE 1
             texts == SaidText(stream[r]) + Count(ws \o end, {"text"})
             thoughts == SaidThoughts(stream[r]) + Count(ws \o end, {"think"})
  <1>9. texts = Texts(s, es) /\ thoughts + hold = Thoughts(s, es) /\ thoughts \in Nat
    <2> DEFINE ft == Count(s.final, {"text"})
               fk == Count(s.final, {"think"})
               et == Count(es, {"text"})
               ek == Count(es, {"think"})
               nt == s.text
               nk == s.trace
    <2>1. texts = et + (ft + nt) /\ thoughts = ek + (fk + nk)
      BY <1>6, <1>7
    <2>2. Texts(s, es) = ft + et + nt /\ Thoughts(s, es) = fk + ek + nk + hold
      BY DEF Texts, Thoughts
    <2>3. hold \in Nat
      OBVIOUS
    <2>4. ft \in Nat /\ fk \in Nat /\ et \in Nat /\ ek \in Nat /\ nt \in Nat /\ nk \in Nat
      BY <1>8
    <2> HIDE DEF ft, fk, et, ek, nt, nk, texts, thoughts, hold
    <2>5. et + (ft + nt) = ft + et + nt /\ ek + (fk + nk) + hold = fk + ek + nk + hold /\ ek + (fk + nk) \in Nat
      BY <2>3, <2>4
    <2> QED  BY <2>1, <2>2, <2>5
  <1>10. /\ Texts(s, es) = wt /\ Thoughts(s, es) <= wk /\ Thoughts(s, es) + 1 >= wk
         /\ s.holder # 0 => Thoughts(s, es) = wk
    BY <1>4, <1>5 DEF Balanced
  <1>11. s.holder = 0 => hold = 0
    BY <1>4 DEF Keeps
  <1>12. hold \in {0, 1}
    OBVIOUS
  <1>13. texts = wt /\ thoughts <= wk /\ thoughts + 1 >= wk
    <2> HIDE DEF s, es, texts, thoughts, hold, wt, wk
    <2>1. texts = wt
      BY <1>9, <1>10
    <2>2. CASE s.holder = 0
      BY <1>5, <1>9, <1>10, <1>11, <2>1, <2>2
    <2>3. CASE s.holder # 0
      <3>1. thoughts + hold = wk
        BY <1>9, <1>10, <2>3
      <3> QED  BY <1>5, <1>9, <1>12, <2>1, <3>1
    <2> QED  BY <2>2, <2>3
  <1> QED  BY <1>7, <1>13 DEF Complete

LEMMA ConcludesSaid ==
  ASSUME SaysInv, NEW r \in Requests, InRound(r), req[r].round = "waiting" \/ S(r).holder = 0,
         NEW ws \in Seq(Written), NEW end \in {<<"doneStop">>, Call},
         S(r).outcome = "final" \/ (S(r).outcome = "none" /\ (S(r).batch \/ S(r).outstanding # 0)),
         Count(ws, {"text"}) = Count(S(r).final, {"text"}) + S(r).text,
         Count(ws, {"think"}) = Count(S(r).final, {"think"}) + S(r).trace,
         NEW s, NEW b, Concludes(r, ws \o end, s, b)
  PROVE  \A x \in Requests : Kind(x)' = "stream" => Streamed(req'[x], stream'[x], scenario'.page)
  <1> DEFINE es == ws \o end
  <1>1. es \in Seq(Events)
    <2>1. <<"doneStop">> \in Seq(Events) /\ Call \in Seq(Events)
      BY DEF Call, Events
    <2>2. ws \in Seq(Events)
      BY WrittenAreEvents
    <2>3. end \in Seq(Events)
      BY <2>1
    <2> QED  BY <2>2, <2>3
  <1>2. Kind(r) = "stream" /\ ~stream[r].closed => \A i \in DOMAIN es : es[i] \in Dones =>
           i = Len(es) /\ Complete(scenario.page, S(r).segment, SaidText(stream[r]) + Count(es, {"text"}), SaidThoughts(stream[r]) + Count(es, {"think"}))
    BY SaysAll
  <1>3. \E x, c : Over(r, es, x, c)
    BY DEF Concludes
  <1>4. req[r].round \notin {"none", "over"}
    BY DEF InRound
  <1> HIDE DEF es
  <1> QED  BY <1>1, <1>2, <1>3, <1>4, OverSaid

LEMMA SendsSaid ==
  ASSUME SaysInv, NEW r \in Requests, req[r].round = "waiting", NEW es \in Seq(Written), NEW s, Sends(r, es, s)
  PROVE  \A x \in Requests : Kind(x)' = "stream" => Streamed(req'[x], stream'[x], scenario'.page)
  <1>1. es \in Seq(Events)
    BY WrittenAreEvents
  <1>2. CASE ~Fits(stream[r], es)
    <2>1. \E x, c : Over(r, es, x, c)
      BY <1>2 DEF Sends
    <2> QED  BY <1>1, <2>1, FailsSaid
  <1>3. CASE Fits(stream[r], es)
    <2> DEFINE q == [req[r] EXCEPT !.events = req[r].events \o es]
    <2>1. req' = [req EXCEPT ![r] = q] /\ stream' = [stream EXCEPT ![r] = Push(stream[r], es)] /\ scenario' = scenario
      BY <1>3 DEF Sends
    <2>2. req[r] \in Request /\ StreamTyped(stream[r]) /\ (Kind(r) = "stream" => Streamed(req[r], stream[r], scenario.page))
          /\ req[r].events \in Seq(Written)
      BY SaidPlaces, TurnOf
    <2>3. q.events = req[r].events \o es /\ q.round = "waiting" /\ q.phase = req[r].phase /\ q.aborted = req[r].aborted
      BY <2>2 DEF Request
    <2> HIDE DEF q
    <2>4. Kind(r) = "stream" => Streamed(q, Push(stream[r], es), scenario.page)
      BY <1>3, <2>2, <2>3, PushStreamed
    <2> QED  BY <2>1, <2>4, SaidOfOne
  <1> QED  BY <1>2, <1>3

LEMMA GetsSessionSaid ==
  ASSUME SaysInv, NEW r \in Requests, GetsSession(r)
  PROVE  \A x \in Requests : Kind(x)' = "stream" => Streamed(req'[x], stream'[x], scenario'.page)
  <1>1. CASE S(r).tombstone
    <2>1. <<"error">> \in Seq(Events)
      BY DEF Events
    <2>2. Over(r, <<"error">>, S(r), budget[T(r)]) /\ req[r].round = "begin"
      BY <1>1 DEF GetsSession
    <2> QED  BY <2>1, <2>2, FailsSaid
  <1>2. CASE ~S(r).tombstone
    <2> DEFINE q == [req[r] EXCEPT !.round = "queued"]
    <2>1. req' = [req EXCEPT ![r] = q] /\ stream' = stream /\ scenario' = scenario /\ req[r].round = "begin"
      BY <1>2 DEF GetsSession
    <2>2. req[r] \in Request /\ stream = [stream EXCEPT ![r] = stream[r]] /\ (Kind(r) = "stream" => Streamed(req[r], stream[r], scenario.page))
      BY SaidPlaces
    <2>3. q.events = req[r].events /\ q.round = "queued" /\ q.phase = req[r].phase /\ q.aborted = req[r].aborted /\ q.segment = req[r].segment
      BY <2>2 DEF Request
    <2> HIDE DEF q
    <2>4. Kind(r) = "stream" => q.phase # "running"
      BY <2>2, <2>3 DEF Streamed
    <2>5. Kind(r) = "stream" => Streamed(q, stream[r], scenario.page)
      BY <2>1, <2>2, <2>3, <2>4, StillStreamed
    <2> QED  BY <2>1, <2>2, <2>5, SaidOfOne
  <1> QED  BY <1>1, <1>2

LEMMA EntersSaid ==
  ASSUME SaysInv, NEW r \in Requests, Enters(r)
  PROVE  \A x \in Requests : Kind(x)' = "stream" => Streamed(req'[x], stream'[x], scenario'.page)
  <1> DEFINE s == S(r)
             es == Undrained(s)
  <1>1. /\ s \in Session /\ InRound(r) /\ req[r].round = "queued" /\ s.holder = 0 /\ Keeps(s) /\ KeptInv /\ s.life # "none"
    <2>1. KeptInv /\ InRound(r)
      BY SaidPlaces DEF Enters, InRound
    <2> QED  BY <2>1, TurnOf DEF Enters, Kept
  <1>2. /\ es \in Seq(Written) /\ Count(es, {"text"}) = s.text /\ Count(es, {"think"}) = s.trace
        /\ s.text \in Nat /\ s.trace \in Nat /\ es \in Seq(Events)
    BY <1>1, Waiting
  <1>3. Count(<<>>, {"text"}) = 0 /\ Count(<<>>, {"think"}) = 0
    BY CountOfNone
  <1>4. /\ s.final \in Seq(Written) /\ s.final \in Seq(Events) /\ (s.final # <<>> => s.text = 0 /\ s.trace = 0)
        /\ (s.outstanding # 0 => s.text = 0 /\ s.trace = 0)
        /\ Count(s.final, {"text"}) \in Nat /\ Count(s.final, {"think"}) \in Nat
    BY <1>1, WrittenAreEvents, CountTyped DEF Keeps
  <1> HIDE DEF es
  <1>5. CASE s.outcome = "final"
    <2> DEFINE fs == IF s.final # <<>> THEN s.final ELSE es
    <2>1. Concludes(r, fs \o <<"doneStop">>, [Drained(s) EXCEPT !.final = fs], Cleared(T(r)))
      BY <1>5 DEF Enters, es
    <2>2. fs \in Seq(Written)
      BY <1>2, <1>4
    <2>3. Count(fs, {"text"}) = Count(s.final, {"text"}) + s.text /\ Count(fs, {"think"}) = Count(s.final, {"think"}) + s.trace
      BY <1>2, <1>3, <1>4
    <2> HIDE DEF fs
    <2> QED  BY <1>1, <1>5, <2>1, <2>2, <2>3, ConcludesSaid
  <1>6. CASE s.outcome \notin {"none", "final"}
    <2>1. Catch(r, s.outcome)
      BY <1>6 DEF Enters
    <2> QED  BY <1>1, <2>1, CatchSaid
  <1>7. CASE s.outcome = "none" /\ req[r].aborted
    <2>1. Catch(r, "aborted")
      BY <1>7 DEF Enters
    <2> QED  BY <1>1, <2>1, CatchSaid
  <1>8. CASE s.outcome = "none" /\ ~req[r].aborted /\ s.outstanding \notin {0, req[r].results}
    <2>1. Concludes(r, s.final \o Call, s, budget[T(r)])
      BY <1>8 DEF Enters
    <2>2. s.text = 0 /\ s.trace = 0
      BY <1>4, <1>8
    <2>3. Count(s.final, {"text"}) = Count(s.final, {"text"}) + s.text /\ Count(s.final, {"think"}) = Count(s.final, {"think"}) + s.trace
      BY <1>4, <2>2
    <2> QED  BY <1>1, <1>4, <1>8, <2>1, <2>3, ConcludesSaid
  <1>9. CASE s.outcome = "none" /\ ~req[r].aborted /\ s.outstanding \in {0, req[r].results}
    <2> DEFINE d == IF s.outstanding # 0
                    THEN [s EXCEPT !.outstanding = 0, !.final = <<>>, !.segment = @ + 1, !.script = Tail(@)] ELSE s
    <2>1. CASE ~Fits(stream[r], es)
      <3>1. Over(r, es, Retire(s), Cleared(T(r)))
        BY <1>9, <2>1 DEF Enters, es
      <3> QED  BY <1>1, <1>2, <3>1, FailsSaid
    <2>2. CASE Fits(stream[r], es)
      <3> DEFINE segment == d.segment
                 q == [req[r] EXCEPT !.round = "waiting", !.segment = segment, !.events = es]
      <3>1. req' = [req EXCEPT ![r].round = "waiting", ![r].segment = segment, ![r].events = es]
            /\ stream' = [stream EXCEPT ![r] = Push(stream[r], es)] /\ scenario' = scenario
        BY <1>9, <2>2 DEF Enters, es
      <3>2. req[r] \in Request /\ StreamTyped(stream[r]) /\ (Kind(r) = "stream" => Streamed(req[r], stream[r], scenario.page))
            /\ req \in [Requests -> Request]
        BY SaidPlaces DEF IInv, Typed
      <3> HIDE DEF d, segment
      <3>3. req' = [req EXCEPT ![r] = q]
        BY <3>1, <3>2
      <3>4. q.events = es /\ q.round = "waiting" /\ q.phase = req[r].phase /\ q.aborted = req[r].aborted
        BY <3>2 DEF Request
      <3> HIDE DEF q
      <3>5. Kind(r) = "stream" => Streamed(q, Push(stream[r], es), scenario.page)
        BY <1>1, <1>2, <2>2, <3>2, <3>4, PushStreamed
      <3> QED  BY <3>1, <3>3, <3>5, SaidOfOne
    <2> QED  BY <2>1, <2>2
  <1> QED  BY <1>5, <1>6, <1>7, <1>8, <1>9

LEMMA RoundSaid ==
  ASSUME SaysInv, NEW r \in Requests, Round(r)
  PROVE  \A x \in Requests : Kind(x)' = "stream" => Streamed(req'[x], stream'[x], scenario'.page)
  <1> DEFINE s == S(r)
             es == Undrained(s)
             text == Undrained([s EXCEPT !.trace = 0])
             trace == <<"boundary", "think">>
  <1>1. KeptInv /\ s \in Session /\ s.text \in Nat
    BY SaidPlaces, TurnOf, Waiting
  <1>2. es \in Seq(Written) /\ Count(es, {"text"}) = s.text /\ Count(es, {"think"}) = s.trace
        /\ s.text \in Nat /\ s.trace \in Nat
    BY <1>1, Waiting
  <1>3. text \in Seq(Written) /\ trace \in Seq(Written)
    <2>1. trace \in Seq(Written)
      BY DEF Written
    <2> DEFINE m == [s EXCEPT !.trace = 0]
    <2>2. m.trace \in Nat /\ m.text \in Nat
      BY <1>1 DEF Session
    <2> HIDE DEF m
    <2>3. Undrained(m) \in Seq(Written)
      BY <2>2, UndrainedCounts
    <2> QED  BY <2>1, <2>3 DEF m
  <1> HIDE DEF es, text, trace
  <1>4. ASSUME req[r].round = "waiting" PROVE /\ InRound(r) /\ Count(s.final, {"text"}) = 0 /\ Count(s.final, {"think"}) = 0
    <2>1. InRound(r)
      BY <1>4 DEF InRound
    <2>2. Keeps(s) /\ s.holder # 0
      BY <1>1, <1>4, <2>1, TurnOf DEF Kept
    <2>3. s.final = <<>>
      BY <2>2 DEF Keeps
    <2> QED  BY <2>1, <2>3, CountOfNone
  <1>5. CASE TakesTrace(r) \/ TakesText(r)
    <2>1. req[r].round = "waiting" /\ (Sends(r, trace, NextTrace(s)) \/ Sends(r, text, [s EXCEPT !.text = 0]))
      BY <1>5 DEF TakesTrace, TakesText, Listens, Others, trace, text
    <2> QED  BY <1>3, <2>1, SendsSaid
  <1>6. CASE TakesBatch(r)
    <2>1. req[r].round = "waiting" /\ s.batch /\ s.life = "live" /\ \E x, b : Concludes(r, es \o Call, x, b)
      BY <1>6 DEF TakesBatch, Others, Listens, es
    <2>2. s.outcome = "none"
      BY <1>1, <2>1, TurnOf DEF Scripted
    <2>3. Count(es, {"text"}) = Count(s.final, {"text"}) + s.text /\ Count(es, {"think"}) = Count(s.final, {"think"}) + s.trace
      BY <1>2, <1>4, <2>1
    <2> QED  BY <1>2, <1>4, <2>1, <2>2, <2>3, ConcludesSaid
  <1>7. CASE TakesOutcome(r)
    <2>1. req[r].round = "waiting"
      BY <1>7 DEF TakesOutcome, Others, Listens
    <2>2. CASE s.outcome = "final"
      <3>1. \E x, b : Concludes(r, es \o <<"doneStop">>, x, b)
        BY <1>7, <2>2 DEF TakesOutcome, es
      <3>2. Count(es, {"text"}) = Count(s.final, {"text"}) + s.text /\ Count(es, {"think"}) = Count(s.final, {"think"}) + s.trace
        BY <1>2, <1>4, <2>1
      <3> QED  BY <1>2, <1>4, <2>1, <2>2, <3>1, <3>2, ConcludesSaid
    <2>3. CASE s.outcome # "final"
      <3>1. Catch(r, s.outcome)
        BY <1>7, <2>3 DEF TakesOutcome
      <3> QED  BY <2>1, <3>1, CatchSaid
    <2> QED  BY <2>2, <2>3
  <1>8. CASE Aborts(r)
    <2>1. req[r].round = "waiting" /\ Catch(r, "aborted")
      BY <1>8 DEF Aborts, Listens
    <2> QED  BY <2>1, CatchSaid
  <1>9. CASE Compacted(r)
    <2>1. req[r].round = "compacting" /\ \E es1 \in {<<"text", "doneStop">>, <<"error">>} : Over(r, es1, S(r), budget[T(r)])
      BY <1>9 DEF Compacted
    <2>2. Kind(r) # "stream"
      <3>1. Alone(T(r))
        BY <1>1, TurnOf DEF TurnInv
      <3>2. Compacts(r)
        BY <2>1, <3>1 DEF Alone
      <3> QED  BY <3>2 DEF Compacts
    <2>3. <<"text", "doneStop">> \in Seq(Events) /\ <<"error">> \in Seq(Events)
      BY DEF Events
    <2> QED  BY <2>1, <2>2, <2>3, OverSaid
  <1> QED  BY <1>5, <1>6, <1>7, <1>8, <1>9, GetsSessionSaid, EntersSaid DEF Round

\* What an action does to a request that does not touch what it is sent.
LEMMA QuietSaid ==
  ASSUME SaysInv, NEW r \in Requests, NEW q, req' = [req EXCEPT ![r] = q], stream' = stream, scenario' = scenario,
         Kind(r) = "stream" => q.phase # "running",
         q.events = req[r].events, q.segment = req[r].segment, q.round = req[r].round, q.aborted = req[r].aborted
  PROVE  \A x \in Requests : Kind(x)' = "stream" => Streamed(req'[x], stream'[x], scenario'.page)
  <1>1. stream' = [stream EXCEPT ![r] = stream[r]] /\ (Kind(r) = "stream" => Streamed(req[r], stream[r], scenario.page))
    BY SaidPlaces
  <1>2. Kind(r) = "stream" => Streamed(q, stream[r], scenario.page)
    BY <1>1, StillStreamed
  <1> QED  BY <1>1, <1>2, SaidOfOne

\* A response that begins has said nothing; one that is refused has its error only.
LEMMA BeginsSaid ==
  ASSUME SaysInv, NEW r \in Requests, Begins(r)
  PROVE  \A x \in Requests : Kind(x)' = "stream" => Streamed(req'[x], stream'[x], scenario'.page)
  <1> DEFINE aborted  == IF Kind(r) = "native" THEN req[r].aborted ELSE Bound(r)
             streams  == Kind(r) \in {"stream", "compactStream"}
             refused  == Exhausted(T(r)) /\ ~Compacts(r) /\ Kind(r) # "native"
             phase    == IF streams THEN "streaming" ELSE "running"
             round    == IF Kind(r) = "native" THEN "none" ELSE IF refused THEN "over"
                         ELSE IF Compacts(r) THEN "compacting" ELSE "begin"
             bound    == Kind(r) # "native"
             began    == [req[r] EXCEPT !.bound = bound, !.aborted = aborted, !.phase = phase, !.round = round]
             q        == IF aborted /\ streams THEN Release(began) ELSE began
             stepping == streams /\ ~scenario.slow
             batch    == ~streams
             compaction == Compacts(r)
             new      == [NewStream EXCEPT !.on = streams, !.stepping = stepping, !.batch = batch, !.compaction = compaction]
             started  == IF refused THEN PushLast(new, <<"error">>) ELSE new
             s        == IF aborted /\ streams THEN Cancel(started) ELSE started
  <1>1. req' = [req EXCEPT ![r] = q] /\ stream' = [stream EXCEPT ![r] = s] /\ scenario' = scenario
    BY DEF Begins
  <1>2. ASSUME Kind(r) = "stream" PROVE Streamed(q, s, scenario.page)
    <2>1. streams /\ ~compaction /\ ~batch /\ phase = "streaming" /\ round = (IF refused THEN "over" ELSE "begin") /\ req[r] \in Request
          /\ aborted \in BOOLEAN /\ bound \in BOOLEAN /\ stepping \in BOOLEAN
      BY <1>2, SaidPlaces DEF Compacts, Bound, Request
    <2> HIDE DEF aborted, streams, refused, phase, round, bound, stepping, batch, compaction
    <2>2. began.round = round /\ began.aborted = aborted /\ began.phase = "streaming"
      BY <2>1 DEF Request
    <2>3. began \in Request
      <3>1. phase \in Phases /\ round \in Rounds
        BY <2>1 DEF Phases, Rounds
      <3> QED  BY <2>1, <3>1 DEF Request
    <2> HIDE DEF began
    <2>4. q.round = round /\ q.aborted = aborted /\ q.phase # "running"
      BY <2>2, <2>3 DEF Release, Request
    <2> HIDE DEF q
    <2>5. new.on /\ ~new.batch /\ ~new.compaction /\ ~new.closed /\ ~new.shut /\ new.queue = <<>> /\ new.frames = <<>> /\ StreamTyped(new)
      <3>1. NewStream \in StreamRecord
        BY NewTyped DEF StreamTyped
      <3>2. batch \in BOOLEAN /\ compaction \in BOOLEAN /\ streams \in BOOLEAN
        BY <2>1 DEF batch, compaction, streams, Compacts
      <3>3. new.on = streams /\ new.batch = batch /\ new.compaction = compaction /\ new.closed = NewStream.closed
            /\ new.shut = NewStream.shut /\ new.queue = NewStream.queue /\ new.frames = NewStream.frames
        BY <3>1 DEF StreamRecord
      <3>4. StreamTyped(new)
        BY <2>1, <3>2, BegunTyped DEF Begun
      <3>5. ~NewStream.closed /\ ~NewStream.shut /\ NewStream.queue = <<>> /\ NewStream.frames = <<>>
        BY DEF NewStream
      <3> HIDE DEF new
      <3> QED  BY <2>1, <3>3, <3>4, <3>5
    <2> HIDE DEF new
    <2>6. /\ started.on /\ ~started.batch /\ ~started.compaction /\ ~started.closed /\ started.frames = <<>> /\ StreamTyped(started)
          /\ ~refused => started.queue = <<>> /\ ~started.shut
          /\ \A i \in DOMAIN started.queue : started.queue[i] \notin Dones
      <3>1. CASE ~refused
        <4>1. started = new /\ DOMAIN new.queue = {}
          BY <2>5, <3>1
        <4> QED  BY <2>5, <3>1, <4>1
      <3>2. CASE refused
        <4> DEFINE p == PushLast(new, <<"error">>)
        <4>0. <<"error">> \in Seq(Events)
          BY DEF Events
        <4>1. /\ p.on = new.on /\ p.closed = new.closed /\ p.batch = new.batch /\ p.frames = new.frames
              /\ p.compaction = new.compaction /\ StreamTyped(p)
          BY <2>5, <4>0, PushTyped
        <4>2. Fits(new, <<"error">>)
          <5>1. Len(<<>> \o <<"error">>) = 1
            OBVIOUS
          <5>2. Room(new) >= 1
            BY <2>5, StreamAssumption DEF Room
          <5> QED  BY <2>5, <5>1, <5>2 DEF Fits
        <4>3. p.queue = <<>> \o <<"error">>
          BY <2>5, <4>0, <4>2, PushSays
        <4>4. \A i \in DOMAIN (<<>> \o <<"error">>) : (<<>> \o <<"error">>)[i] = "error"
          OBVIOUS
        <4>5. started = p
          BY <3>2
        <4> HIDE DEF p, started
        <4>6. \A i \in DOMAIN p.queue : p.queue[i] = "error"
          BY <4>3, <4>4
        <4> QED  BY <2>5, <3>2, <4>1, <4>5, <4>6 DEF Dones
      <3> QED  BY <3>1, <3>2
    <2> HIDE DEF started
    <2>7. s.on /\ ~s.batch /\ ~s.compaction /\ s.frames = <<>> /\ s.queue = started.queue /\ (s.closed => s.shut)
          /\ (aborted => s.closed) /\ (~s.closed => s = started)
      <3>1. CASE aborted
        <4>1. s = Cancel(started)
          BY <2>1, <3>1
        <4> QED  BY <2>6, <3>1, <4>1 DEF Cancel, StreamTyped, StreamRecord
      <3>2. CASE ~aborted
        BY <2>6, <3>2
      <3> QED  BY <2>1, <3>1, <3>2
    <2>8. Outcome(s) = "none"
      <3>1. DOMAIN s.frames = {}
        BY <2>7
      <3> QED  BY <3>1 DEF Outcome, Terminals
    <2> HIDE DEF s
    <2>9. q.round # "over" => ~refused /\ q.round = "begin"
      BY <2>1, <2>4
    <2>10. q.round # "none" /\ q.round # "waiting"
      BY <2>1, <2>4
    <2>11. ASSUME ~s.closed PROVE Due(q, s, scenario.page)
      <3>1. s = started /\ <<>> \in Seq(Written)
        BY <2>7, <2>11
      <3> QED  BY <2>6, <2>9, <2>10, <3>1 DEF Due
    <2> QED  BY <2>4, <2>7, <2>8, <2>11 DEF Streamed
  <1> HIDE DEF q, s
  <1> QED  BY <1>1, <1>2, SaidOfOne

\* The bridge sends the next event, or finds the end.
LEMMA StepsSaid ==
  ASSUME SaysInv, NEW r \in Requests, Steps(r)
  PROVE  \A x \in Requests : Kind(x)' = "stream" => Streamed(req'[x], stream'[x], scenario'.page)
  <1> DEFINE s == stream[r]
             c == s.closed
  <1>1. /\ StreamTyped(s) /\ Shaped(s) /\ req[r] \in Request /\ (Kind(r) = "stream" => Streamed(req[r], s, scenario.page))
        /\ stream \in [Requests -> StreamRecord] /\ req \in [Requests -> Request] /\ scenario' = scenario
    BY SaidPlaces DEF IInv, Typed, Steps
  <1>2. ASSUME NEW n, NEW a, stream' = [stream EXCEPT ![r] = n], n.closed = a, a \in BOOLEAN,
               \A x : Kind(r) = "stream" /\ x.phase # "running" /\ x.events = req[r].events /\ x.segment = req[r].segment /\ x.round = req[r].round
                      /\ (x.aborted => req[r].aborted \/ a) => Streamed(x, n, scenario.page)
        PROVE  \A x \in Requests : Kind(x)' = "stream" => Streamed(req'[x], stream'[x], scenario'.page)
    <2> DEFINE q == [req[r] EXCEPT !.aborted = @ \/ a]
    <2>1. stream'[r] = n
      BY <1>1, <1>2
    <2>2. req' = [req EXCEPT ![r].aborted = @ \/ stream'[r].closed]
      BY DEF Steps
    <2>3. req' = [req EXCEPT ![r] = q]
      BY <1>1, <1>2, <2>1, <2>2
    <2>4. q.phase = req[r].phase /\ q.events = req[r].events /\ q.segment = req[r].segment /\ q.round = req[r].round
          /\ (q.aborted => req[r].aborted \/ a)
      BY <1>1 DEF Request
    <2> HIDE DEF q
    <2>5. Kind(r) = "stream" => Streamed(q, n, scenario.page)
      BY <1>1, <1>2, <2>4 DEF Streamed
    <2> QED  BY <1>1, <1>2, <2>3, <2>5, SaidOfOne
  <1>3. CASE CanStep(s) /\ stream' = [stream EXCEPT ![r] = ReadOn(Step(@))]
    <2> DEFINE n == Step(s)
               m == ReadOn(n)
    <2>1. StreamTyped(n) /\ Shaped(n)
      BY <1>1, <1>3, StepKeeps, StepShape
    <2>2. ~s.closed
      BY <1>3 DEF CanStep
    <2>3. m.closed = n.closed /\ n.closed \in BOOLEAN
      BY <2>1 DEF ReadOn, Pull, StreamTyped, StreamRecord
    <2>4. ASSUME NEW x, Kind(r) = "stream", x.phase # "running", x.events = req[r].events, x.segment = req[r].segment,
                 x.round = req[r].round, x.aborted => req[r].aborted \/ n.closed
          PROVE  Streamed(x, m, scenario.page)
      <3>1. Streamed(x, n, scenario.page)
        BY <1>1, <1>3, <2>4, StepStreamed
      <3> HIDE DEF n
      <3>2. Streamed(x, Pull(n), scenario.page)
        <4>1. x.aborted => x.aborted \/ ~n.on \/ n.closed
          OBVIOUS
        <4> QED  BY <2>1, <2>4, <3>1, <4>1, EndStreamed
      <3> QED  BY <3>1, <3>2 DEF ReadOn
    <2>5. stream' = [stream EXCEPT ![r] = m]
      BY <1>3
    <2> HIDE DEF m, n
    <2> QED  BY <1>2, <2>3, <2>4, <2>5
  <1>4. CASE CanEof(s) /\ stream' = [stream EXCEPT ![r] = Eof(@)]
    <2> DEFINE n == Eof(s)
    <2>1. ~s.closed /\ s.shut
      BY <1>4 DEF CanEof
    <2>2. n.closed = TRUE
      <3> DEFINE f == Finish(s, "incomplete")
      <3>1. "incomplete" \in Terminal
        BY DEF Terminal
      <3>2. f \in StreamRecord
        BY <1>1, <2>1, <3>1, FinishFrames DEF Framed, StreamTyped
      <3> HIDE DEF f
      <3>3. n = [f EXCEPT !.stepping = FALSE, !.closed = TRUE]
        BY DEF Eof, f
      <3> QED  BY <3>2, <3>3 DEF StreamRecord
    <2>3. ASSUME NEW x, Kind(r) = "stream", x.phase # "running", x.events = req[r].events, x.segment = req[r].segment,
                 x.round = req[r].round
          PROVE  Streamed(x, n, scenario.page)
      BY <1>1, <2>1, <2>3, EndStreamed
    <2>4. stream' = [stream EXCEPT ![r] = n]
      BY <1>4
    <2> HIDE DEF n
    <2> QED  BY <1>2, <2>2, <2>3, <2>4
  <1> QED  BY <1>3, <1>4 DEF Steps

\* The client leaves, or the bridge gives up a run that is silent.
LEMMA LeaveSaid ==
  ASSUME SaysInv, NEW r \in Requests, Leave(r) \/ Stalls(r)
  PROVE  \A x \in Requests : Kind(x)' = "stream" => Streamed(req'[x], stream'[x], scenario'.page)
  <1> DEFINE s == stream[r]
  <1>1. /\ StreamTyped(s) /\ Shaped(s) /\ req[r] \in Request /\ (Kind(r) = "stream" => Streamed(req[r], s, scenario.page))
        /\ stream \in [Requests -> StreamRecord] /\ req \in [Requests -> Request] /\ scenario' = scenario
    BY SaidPlaces DEF IInv, Typed, Leave, Stalls
  <1>2. CASE Leave(r)
    <2> DEFINE a == [req[r] EXCEPT !.gone = TRUE, !.aborted = TRUE]
               q == IF req[r].phase \in {"streaming", "plain"} THEN Release(a) ELSE a
               n == IF s.on /\ ~s.closed THEN Cancel(s) ELSE s
    <2>1. req' = [req EXCEPT ![r] = q] /\ stream' = [stream EXCEPT ![r] = n]
      BY <1>1, <1>2 DEF Leave
    <2>2. q.events = req[r].events /\ q.segment = req[r].segment /\ q.round = req[r].round
          /\ (req[r].phase # "running" => q.phase # "running")
      BY <1>1 DEF Release, Request
    <2> HIDE DEF q
    <2>3. ASSUME Kind(r) = "stream" PROVE Streamed(q, n, scenario.page)
      <3>1. Streamed(req[r], s, scenario.page) /\ q.phase # "running"
        BY <1>1, <2>2, <2>3 DEF Streamed
      <3>2. CASE s.on /\ ~s.closed
        BY <1>1, <2>2, <3>1, <3>2, EndStreamed
      <3>3. CASE ~(s.on /\ ~s.closed)
        BY <2>2, <3>1, <3>3, StillStreamed
      <3> QED  BY <3>2, <3>3
    <2> HIDE DEF n
    <2> QED  BY <1>1, <2>1, <2>3, SaidOfOne
  <1>3. CASE Stalls(r)
    <2> DEFINE q == [req[r] EXCEPT !.aborted = TRUE]
    <2>1. req' = [req EXCEPT ![r] = q] /\ stream' = [stream EXCEPT ![r] = Stall(s)] /\ ~s.closed
      BY <1>1, <1>3 DEF Stalls, CanStall
    <2>2. q.events = req[r].events /\ q.segment = req[r].segment /\ q.round = req[r].round /\ q.phase = req[r].phase
      BY <1>1 DEF Request
    <2> HIDE DEF q
    <2>3. ASSUME Kind(r) = "stream" PROVE Streamed(q, Stall(s), scenario.page)
      <3>1. Streamed(req[r], s, scenario.page) /\ q.phase # "running"
        BY <1>1, <2>2, <2>3 DEF Streamed
      <3> QED  BY <1>1, <2>1, <2>2, <3>1, EndStreamed
    <2> QED  BY <1>1, <2>1, <2>3, SaidOfOne
  <1> QED  BY <1>2, <1>3

LEMMA ReplySaid ==
  ASSUME SaysInv, NEW r \in Requests, Reply(r) \/ Leave(r) \/ Stalls(r) \/ Post(r)
  PROVE  \A x \in Requests : Kind(x)' = "stream" => Streamed(req'[x], stream'[x], scenario'.page)
  <1> DEFINE q == req[r]
             s == stream[r]
  <1>1. /\ StreamTyped(s) /\ Shaped(s) /\ q \in Request /\ (Kind(r) = "stream" => Streamed(q, s, scenario.page))
        /\ stream \in [Requests -> StreamRecord] /\ req \in [Requests -> Request]
        /\ [stream EXCEPT ![r] = s] = stream /\ [req EXCEPT ![r] = q] = req
    BY SaidPlaces DEF IInv, Typed
  <1>2. Kind(r) = "stream" => q.phase # "running"
    BY <1>1 DEF Streamed
  <1>3. CASE Post(r)
    <2> DEFINE n == IF \E y \in Requests : Latest(r, y) THEN Answered(CHOOSE y \in Requests : Latest(r, y)) ELSE 0
               x == IF Refused THEN [q EXCEPT !.phase = "refused"]
                    ELSE [q EXCEPT !.phase = "reading", !.counted = TRUE, !.results = n]
    <2>1. req' = [req EXCEPT ![r] = x] /\ stream' = stream /\ scenario' = scenario
      BY <1>3 DEF Post
    <2> HIDE DEF n
    <2>2. x.phase # "running" /\ x.events = q.events /\ x.segment = q.segment /\ x.round = q.round /\ x.aborted = q.aborted
      BY <1>1 DEF Request
    <2> HIDE DEF x, q
    <2> QED  BY <2>1, <2>2, QuietSaid DEF q
  <1>4. CASE Rejects(r)
    <2> DEFINE x == IF q.aborted THEN Release(q) ELSE [q EXCEPT !.phase = "plain"]
    <2>1. req' = [req EXCEPT ![r] = x] /\ stream' = stream /\ scenario' = scenario
      BY <1>4 DEF Rejects
    <2>2. x.phase # "running" /\ x.events = q.events /\ x.segment = q.segment /\ x.round = q.round /\ x.aborted = q.aborted
      BY <1>1 DEF Release, Request
    <2> HIDE DEF x, q
    <2> QED  BY <2>1, <2>2, QuietSaid DEF q
  <1>5. CASE Ended(r)
    <2> DEFINE x == Release(q)
    <2>1. req' = [req EXCEPT ![r] = x] /\ stream' = stream /\ scenario' = scenario
      BY <1>5 DEF Ended
    <2>2. x.phase # "running" /\ x.events = q.events /\ x.segment = q.segment /\ x.round = q.round /\ x.aborted = q.aborted
      BY <1>1 DEF Release, Request
    <2> HIDE DEF x, q
    <2> QED  BY <2>1, <2>2, QuietSaid DEF q
  <1>6. CASE Reads(r)
    <2>1. req' = [req EXCEPT ![r] = q] /\ stream' = [stream EXCEPT ![r] = Pull(s)] /\ scenario' = scenario
      BY <1>1, <1>6 DEF Reads
    <2>2. Kind(r) = "stream" => Streamed(q, Pull(s), scenario.page)
      BY <1>1, <1>2, EndStreamed
    <2> QED  BY <2>1, <2>2, SaidOfOne
  <1>7. CASE Answers(r)
    <2> DEFINE x == IF q.aborted \/ s.dropped THEN Release(q) ELSE [q EXCEPT !.phase = "plain"]
               n == IF s.dropped THEN s ELSE IF s.compaction THEN Compaction(Build(s)) ELSE Build(s)
    <2>1. req' = [req EXCEPT ![r] = x] /\ scenario' = scenario /\ Kind(r) # "stream"
      BY <1>2, <1>7 DEF Answers
    <2>2. stream' = [stream EXCEPT ![r] = s] \/ stream' = [stream EXCEPT ![r] = n]
      BY <1>1, <1>7 DEF Answers
    <2> HIDE DEF x, n
    <2> QED  BY <2>1, <2>2, SaidOfOne
  <1> QED  BY <1>3, <1>4, <1>5, <1>6, <1>7, StepsSaid, LeaveSaid, BeginsSaid DEF Reply

LEMMA AbortedSaid ==
  ASSUME SaysInv, NEW rs, Aborted(rs), scenario' = scenario
  PROVE  \A x \in Requests : Kind(x)' = "stream" => Streamed(req'[x], stream'[x], scenario'.page)
  <1>1. ASSUME NEW r \in Requests, Kind(r) = "stream" PROVE Streamed(req'[r], stream'[r], scenario.page)
    <2> DEFINE q == req[r]
               s == stream[r]
               a == [q EXCEPT !.aborted = TRUE]
               b == IF q.phase \in {"streaming", "plain"} THEN Release(a) ELSE a
               n == IF s.on /\ ~s.closed THEN Cancel(s) ELSE s
    <2>1. StreamTyped(s) /\ Shaped(s) /\ q \in Request /\ Streamed(q, s, scenario.page)
      BY <1>1, SaidPlaces
    <2>2. r \notin rs => req'[r] = q /\ stream'[r] = s
      BY DEF Aborted
    <2>3. r \in rs => req'[r] = b /\ stream'[r] = n
      BY DEF Aborted
    <2>4. b.events = q.events /\ b.segment = q.segment /\ b.round = q.round /\ b.phase # "running"
      BY <2>1 DEF Release, Request, Streamed
    <2> HIDE DEF b
    <2>5. Streamed(b, n, scenario.page)
      <3>1. CASE s.on /\ ~s.closed
        BY <2>1, <2>4, <3>1, EndStreamed
      <3>2. CASE ~(s.on /\ ~s.closed)
        BY <2>1, <2>4, <3>2, StillStreamed
      <3> QED  BY <3>1, <3>2
    <2> HIDE DEF n, q, s
    <2> QED  BY <2>1, <2>2, <2>3, <2>5
  <1>2. \A x \in Requests : Kind(x)' = Kind(x)
    BY SameScenario
  <1> QED  BY <1>1, <1>2

LEMMA SaysInit == Init => SaysInv
  <1> SUFFICES ASSUME Init PROVE SaysInv
    OBVIOUS
  <1>1. ShapeInv
    BY ShapeInit
  <1>2. Streamed(NewRequest, NewStream, scenario.page)
    <2>1. /\ ~NewStream.on /\ ~NewStream.batch /\ ~NewStream.compaction /\ ~NewStream.closed /\ ~NewStream.shut
          /\ NewStream.queue = <<>> /\ NewStream.frames = <<>> /\ DOMAIN NewStream.queue = {} /\ DOMAIN NewStream.frames = {}
      BY DEF NewStream
    <2>2. NewRequest.round = "none" /\ NewRequest.phase = "idle"
      BY DEF NewRequest
    <2>3. Outcome(NewStream) = "none"
      BY <2>1 DEF Outcome, Terminals
    <2>4. <<>> \in Seq(Written)
      OBVIOUS
    <2>5. Due(NewRequest, NewStream, scenario.page)
      BY <2>1, <2>2, <2>4 DEF Due
    <2> QED  BY <2>1, <2>2, <2>3, <2>5 DEF Streamed
  <1>3. \A r \in Requests : req[r] = NewRequest /\ stream[r] = NewStream
    <2>1. req = [r \in Requests |-> NewRequest] /\ stream = [r \in Requests |-> NewStream]
      BY DEF Init
    <2> QED  BY <2>1
  <1> QED  BY <1>1, <1>2, <1>3, KeptInit DEF SaysInv

\* Every step keeps what is said of it.
LEMMA SaysHolds == SaysInv /\ [Next]_vars => SaysInv'
  <1> SUFFICES ASSUME SaysInv, [Next]_vars PROVE SaysInv'
    OBVIOUS
  <1>1. ShapeInv' /\ KeptInv'
    BY ShapeHolds, KeptHolds DEF SaysInv
  <1>2. \A x \in Requests : Kind(x)' = "stream" => Streamed(req'[x], stream'[x], scenario'.page)
    <2>0. ASSUME req' = req, stream' = stream, scenario' = scenario
          PROVE  \A x \in Requests : Kind(x)' = "stream" => Streamed(req'[x], stream'[x], scenario'.page)
      <3>1. \A x \in Requests : Kind(x)' = Kind(x)
        BY <2>0, SameScenario
      <3> QED  BY <2>0, <3>1 DEF SaysInv
    <2>1. ASSUME NEW r \in Requests, Post(r) \/ Leave(r) \/ Stalls(r) \/ Reply(r)
          PROVE  \A x \in Requests : Kind(x)' = "stream" => Streamed(req'[x], stream'[x], scenario'.page)
      BY <2>1, ReplySaid
    <2>2. ASSUME NEW r \in Requests, Round(r)
          PROVE  \A x \in Requests : Kind(x)' = "stream" => Streamed(req'[x], stream'[x], scenario'.page)
      BY <2>2, RoundSaid
    <2>3. ASSUME NEW t \in Turns, Interrupt(t) \/ CancelTrace(t) \/ PageActs(t) \/ PageGone(t)
          PROVE  \A x \in Requests : Kind(x)' = "stream" => Streamed(req'[x], stream'[x], scenario'.page)
      <3>1. CASE Interrupt(t)
        BY <3>1, AbortedSaid DEF Interrupt
      <3>2. CASE CancelTrace(t) \/ PageActs(t) \/ PageGone(t)
        BY <2>0, <3>2 DEF CancelTrace, PageActs, PageGone
      <3> QED  BY <2>3, <3>1, <3>2
    <2>4. CASE CancelTurns
      BY <2>4, AbortedSaid DEF CancelTurns
    <2>5. CASE Drain \/ Resume \/ Shutdown \/ ShutsDown \/ UNCHANGED vars
      BY <2>0, <2>5 DEF Drain, Resume, Shutdown, ShutsDown, vars
    <2> QED  BY <2>1, <2>2, <2>3, <2>4, <2>5 DEF Next, Reply, Round
  <1>3. \A x \in Requests' : Kind(x)' = "stream" => Streamed(req'[x], stream'[x], scenario'.page)
    BY <1>2 DEF Requests
  <1> QED  BY <1>1, <1>3 DEF SaysInv, Streamed, Due, AllSaid, Complete, SaidText, SaidThoughts, Count, DeltaOf, Outcome, Terminals, Wrote, Turned

\* What Codex is sent is well formed, and of a streamed turn that is reported as completed it is
\* all the page wrote since the results before: every text once, however the events came to the
\* round, and every thought but at most one.
THEOREM ResponsesWhole == Spec => []ResponsesAreWhole
  <1>1. SaysInv => ResponsesAreWhole
    <2> SUFFICES ASSUME SaysInv, NEW r \in Requests
                 PROVE  WellFormed(stream[r]) /\ RoundIsWhole(r) /\ CompactionIsOneItem(r) /\ RememberedIsComplete(r)
      BY DEF ResponsesAreWhole
    <2>1. WellFormed(stream[r]) /\ CompactionIsOneItem(r) /\ RememberedIsComplete(r)
      BY ShapedIsFormed DEF SaysInv
    <2>2. RoundIsWhole(r)
      <3> DEFINE s == stream[r]
                 page == scenario.page
                 n == req[r].segment
      <3>1. SUFFICES ASSUME Kind(r) = "stream", Outcome(s) = "completed"
                     PROVE  /\ Deltas(r, "message") = Did("text", n)
                            /\ Deltas(r, "reasoning") <= Did("think", n) /\ Deltas(r, "reasoning") >= Did("think", n) - 1
        BY DEF RoundIsWhole, Whole
      <3>2. s.queue = <<>> /\ AllSaid(req[r], s, page) /\ s.frames \in Seq(Frame) /\ page \in Seq(Acts) /\ n \in Nat
        BY <3>1, SaidPlaces, Places DEF Streamed, StreamTyped, StreamRecord, IInv, Request
      <3>3. SaidText(s) = Count(s.frames, DeltaOf("message")) + 0 /\ SaidThoughts(s) = Count(s.frames, DeltaOf("reasoning")) + 0
        BY <3>2, CountOfNone DEF SaidText, SaidThoughts
      <3>4. ASSUME NEW item PROVE Deltas(r, item) = Count(s.frames, DeltaOf(item))
        <4>1. \A i \in DOMAIN s.frames : s.frames[i] \in Frame
          BY <3>2
        <4>2. {i \in DOMAIN s.frames : s.frames[i].what = "delta" /\ s.frames[i].item = item} = {i \in DOMAIN s.frames : s.frames[i] \in DeltaOf(item)}
          BY <4>1 DEF DeltaOf
        <4> QED  BY <4>2 DEF Deltas, Count
      <3>5. Count(s.frames, DeltaOf("message")) \in Nat /\ Count(s.frames, DeltaOf("reasoning")) \in Nat
        BY <3>2, CountTyped
      <3>6. Did("text", n) = Wrote(page, "text", Len(page), n) /\ Did("think", n) = Wrote(page, "think", Len(page), n)
        BY <3>2, DidIsWrote
      <3>7. Wrote(page, "text", Len(page), n) \in Nat /\ Wrote(page, "think", Len(page), n) \in Nat
        <4>1. Len(page) \in Nat
          BY <3>2
        <4> HIDE DEF page, n
        <4> QED  BY <3>2, <4>1, WroteFurther
      <3>8. Complete(page, n, SaidText(s), SaidThoughts(s))
        BY <3>2 DEF AllSaid
      <3>9. /\ SaidText(s) = Deltas(r, "message") /\ SaidThoughts(s) = Deltas(r, "reasoning")
            /\ Deltas(r, "message") \in Nat /\ Deltas(r, "reasoning") \in Nat
        BY <3>3, <3>4, <3>5
      <3> HIDE DEF n, page, s
      <3> QED  BY <3>6, <3>7, <3>8, <3>9 DEF Complete
    <2> QED  BY <2>1, <2>2
  <1> QED  BY <1>1, SaysInit, SaysHolds, PTL DEF Spec

=============================================================================
