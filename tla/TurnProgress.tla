----------------------------- MODULE TurnProgress -----------------------------
(***************************************************************************)
(* What the two sides of a browser turn know of its Codex tool calls       *)
(* (turn-progress.ts).  The daemon owns the counts, the page's worker sees *)
(* snapshots of them and reports back which batch of calls it has seen.    *)
(* Times are left out: they only grow, and no snapshot goes backwards      *)
(* because of one.                                                         *)
(***************************************************************************)
EXTENDS Naturals, FiniteSetsExt

\* ChatGptExternalTurnProgress
Progress == [revision : Nat, batch : Nat, observed : Nat, active : Nat]
NewProgress == [revision |-> 0, batch |-> 0, observed |-> 0, active |-> 0]

\* recordToolBatch: a batch is named by the revision it makes
Recorded(p, calls) ==
  [p EXCEPT !.revision = @ + 1, !.batch = p.revision + 1, !.active = @ + calls]
\* recordToolResult
Answered(p) == [p EXCEPT !.revision = @ + 1, !.active = @ - 1]

\* acknowledgeToolBatch, on either side: only a batch that exists
Exists(p, revision) == revision \in 1 .. p.batch
Observed(p, revision) == [p EXCEPT !.observed = Max({@, revision})]
\* waitForToolBatchObservation has resolved.
IsObserved(p) == p.observed >= p.batch

\* ChatGptMirroredTurnProgress: a snapshot is taken unless it is stale or goes back
Snapshot(p) == [revision |-> p.revision, batch |-> p.batch, active |-> p.active]
Applied(mirror, s) ==
  IF s.revision > mirror.revision /\ s.batch >= mirror.batch
  THEN [mirror EXCEPT !.revision = s.revision, !.batch = s.batch, !.active = s.active] ELSE mirror
=============================================================================
