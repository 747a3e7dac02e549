--------------------------- MODULE MCTurnSessions ---------------------------
(* TLC instances of TurnSessions: turn 1 (key a, asked for by a1 and, again, *)
(* a2) and turn 2 (key b) of one thread on one retained conversation, and a  *)
(* compaction in turn 2 (key c) that replaces the response of turn 1.        *)
EXTENDS TurnSessions

CONSTANTS a, b, c, a1, a2, b1, c1, T, C

Scenario(asks, n) == [asks |-> asks, controls |-> n]
\* A turn, its retry and the compaction that replaces its response, with a cancellation,
\* retirement or expiry from outside at any point; two turns, with one; and with the compaction.
MCScenarios == {Scenario({a1, a2, c1}, 1), Scenario({a1, b1}, 1), Scenario({a1, b1, c1}, 0)}

MCKeyOf ==
  (a1 :> a) @@ (a2 :> a) @@ (b1 :> b) @@ (c1 :> c)
MCSourceOf == [r \in Requests |-> IF r = c1 THEN a ELSE NoKey]
MCThreadOf == [k \in Keys |-> T]
MCTurnOf == [k \in Keys |-> IF k = a THEN 1 ELSE 2]
MCConversationOf == [k \in Keys |-> IF k \in {a, b} THEN C ELSE NoConversation]
=============================================================================
