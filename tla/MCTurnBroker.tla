---------------------------- MODULE MCTurnBroker ----------------------------
(* TLC instances of TurnBroker. *)
EXTENDS TurnBroker

Symmetry == Permutations(Calls) \cup Permutations(Observers) \cup Permutations(Sessions)
=============================================================================
