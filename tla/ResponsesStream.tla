--------------------------- MODULE ResponsesStream ---------------------------
(***************************************************************************)
(* How the events of an adapter's run become the response of an HTTP       *)
(* request: AsyncEventQueue (event-queue.ts), the stream of server-sent    *)
(* events (bridgeToResponsesSSE in bridge.ts) and the single JSON body     *)
(* (buildResponseJSON).  A stream is a record; the operators here are what *)
(* the callbacks of the bridge do to it.                                   *)
(*                                                                         *)
(* Text is abstracted to one delta per event.  Codex is sent, per item:    *)
(* it was opened, it was closed, and in the end one terminal event.        *)
(* Content of hidden or signed reasoning, usage and ids are left out: the  *)
(* adapter of this repository sends no signed or raw reasoning.            *)
(***************************************************************************)
EXTENDS Naturals, Sequences, SequencesExt

CONSTANT MaxBuffered   \* the queue's maxBuffered

ASSUME StreamAssumption == MaxBuffered \in Nat \ {0}

Events == {"boundary", "think", "text", "call", "callEnd", "doneTools", "doneStop", "error"}
Terminal == {"completed", "failed", "incomplete"}
Items == {"message", "reasoning", "tool"}
Frame == [what : {"open", "delta", "close"}, item : Items, index : Nat]
         \cup [what : {"compaction"}, index : Nat] \cup [what : Terminal]

\* on: a bridge reads the queue; batch: the response is one JSON body; dropped: history,
\* an event did not fit into the queue
NewStream == [on |-> FALSE, batch |-> FALSE, compaction |-> FALSE, queue |-> <<>>, shut |-> FALSE,
  dropped |-> FALSE, closed |-> FALSE, clientCancelled |-> FALSE, terminated |-> FALSE, stepping |-> FALSE,
  open |-> "none", outputIndex |-> 0, frames |-> <<>>, remembered |-> FALSE]

-----------------------------------------------------------------------------
(* The queue.                                                              *)

\* push throws when nobody waits and the backlog is full; the events before it stay.
\* Mutant: the backlog has no bound.
RoomForAll(s) == 3 * MaxBuffered
Room(s) == MaxBuffered + (IF s.stepping /\ s.queue = <<>> THEN 1 ELSE 0)
Fits(s, es) == s.shut \/ Len(s.queue \o es) <= Room(s)
Push(s, es) == IF s.shut THEN s
               ELSE IF Fits(s, es) THEN [s EXCEPT !.queue = @ \o es]
               ELSE [s EXCEPT !.queue = SubSeq(@ \o es, 1, Room(s)), !.dropped = TRUE]
\* Mutant: the queue is not closed when the run ends.
PushOnly(s, es) == Push(s, es)
\* run(): the last events of a run, or the error it failed with; the queue is closed in any case.
PushLast(s, es) == [Push(s, es) EXCEPT !.shut = TRUE]

-----------------------------------------------------------------------------
(* The bridge.                                                             *)

Emit(s, fs) == IF s.closed THEN s ELSE [s EXCEPT !.frames = @ \o fs]

\* closeCurrentMessage, closeCurrentReasoning, closeCurrentToolCall
Close(s) == IF s.open = "none" THEN s
            ELSE [Emit(s, <<[what |-> "close", item |-> s.open, index |-> s.outputIndex]>>)
                  EXCEPT !.open = "none", !.outputIndex = @ + 1]
Open(s, item) == [Emit(s, <<[what |-> "open", item |-> item, index |-> s.outputIndex]>>) EXCEPT !.open = item]
Delta(s, item) == LET o == IF s.open = item THEN s ELSE Open(Close(s), item)
                  IN  Emit(o, <<[what |-> "delta", item |-> item, index |-> o.outputIndex]>>)
Ends(s, status) == [Emit(s, <<[what |-> status]>>) EXCEPT !.terminated = TRUE]

\* The terminal event comes after the open item's end.
Finish(s, status) == Ends(Close(s), status)

\* done: a compaction sends its one item first; what Codex may continue from is remembered.
Completes(s) ==
  LET c == Close(s)
      item == <<[what |-> "compaction", index |-> c.outputIndex]>>
  IN  IF s.compaction THEN Ends([Emit(c, item) EXCEPT !.outputIndex = @ + 1], "completed")
      ELSE [Ends(c, "completed") EXCEPT !.remembered = TRUE]

\* One event in step(); a compaction's text is only accumulated.
Handle(s, e) ==
  IF s.compaction /\ e \in {"boundary", "think", "text", "call", "callEnd"} THEN s
  ELSE CASE e \in {"boundary", "callEnd"} -> Close(s)
         [] e = "text"  -> Delta(s, "message")
         [] e = "think" -> Delta(s, "reasoning")
         [] e = "call"  -> Delta(Close(s), "tool")
         [] e \in {"doneTools", "doneStop"} -> Completes(s)
         [] e = "error" -> Finish(s, "failed")

\* pull: a step begins, and ends with the first event that makes a frame.
Pull(s) == [s EXCEPT !.stepping = TRUE]
CanPull(s) == s.on /\ ~s.stepping /\ ~s.closed
Step(s) ==
  LET h == Handle([s EXCEPT !.queue = Tail(@)], Head(s.queue))
      framed == h.frames # s.frames \/ h.terminated
  IN  [h EXCEPT !.stepping = ~framed, !.shut = @ \/ h.terminated, !.closed = h.terminated]
CanStep(s) == s.stepping /\ s.queue # <<>> /\ ~s.closed
\* The run is over without a terminal event.
Eof(s) == [Finish(s, "incomplete") EXCEPT !.stepping = FALSE, !.closed = TRUE]
CanEof(s) == s.stepping /\ s.queue = <<>> /\ s.shut /\ ~s.closed
\* The heartbeat's timer: upstream has been silent for too long while a step waits.
Stall(s) == [Finish(s, "incomplete") EXCEPT !.stepping = FALSE, !.closed = TRUE, !.shut = TRUE]
CanStall(s) == s.stepping /\ s.queue = <<>> /\ ~s.shut /\ ~s.closed
\* cancelStream
Cancel(s) == [s EXCEPT !.clientCancelled = TRUE, !.closed = TRUE, !.shut = TRUE, !.stepping = FALSE]

-----------------------------------------------------------------------------
(* The JSON body of a request that does not stream.                        *)

\* buildResponseJSON: the status is decided by the error, if any; a failed turn has no compaction item.
Build(s) ==
  LET es == s.queue
      failed == \E i \in DOMAIN es : es[i] = "error"
      status == IF failed THEN "failed" ELSE "completed"
      done == s.compaction /\ ~failed
  IN  [s EXCEPT !.queue = <<>>, !.closed = TRUE, !.terminated = TRUE,
         !.remembered = ~s.compaction /\ ~failed,
         !.frames = (IF done THEN <<[what |-> "compaction", index |-> 0]>> ELSE <<>>) \o <<[what |-> status]>>]
\* compactRequest: only a completed response with exactly one compaction item is passed on.
Compaction(s) ==
  LET items == {i \in DOMAIN s.frames : s.frames[i].what = "compaction"}
  IN  IF Last(s.frames).what = "completed" /\ Cardinality(items) = 1 THEN s
      ELSE [s EXCEPT !.frames = <<[what |-> "failed"]>>]

-----------------------------------------------------------------------------
(* What Codex relies on.                                                   *)

Terminals(s) == {i \in DOMAIN s.frames : s.frames[i].what \in Terminal}
Outcome(s) == IF Terminals(s) = {} THEN "none" ELSE s.frames[Len(s.frames)].what
IsOpen(s, i) == s.frames[i].what = "open"
Closing(f)   == [f EXCEPT !.what = "close"]
\* At most one terminal event, the last of all; no two items share an index, and each is closed
\* before the next is opened and before the end.
WellFormed(s) ==
  /\ \A i \in Terminals(s) : i = Len(s.frames)
  /\ \A i \in DOMAIN s.frames : IsOpen(s, i) =>
       \A j \in (i + 1) .. Len(s.frames) : IsOpen(s, j) \/ j \in Terminals(s) =>
         /\ \E k \in i .. j : s.frames[k] = Closing(s.frames[i])
         /\ IsOpen(s, j) => s.frames[j].index > s.frames[i].index
==============================================================================
