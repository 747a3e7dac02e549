------------------------- MODULE MCIntegrationJournal -------------------------
(* TLC instances of IntegrationJournal. *)
EXTENDS IntegrationJournal, TLC

Symmetry == Permutations(Routes) \cup Permutations(Catalogs)
=============================================================================
