------------------------- MODULE MCCompactionHandoff -------------------------
(* TLC instances of CompactionHandoff. *)
EXTENDS CompactionHandoff
=============================================================================
