---------------------------- MODULE Subsequences ----------------------------
(***************************************************************************)
(* What Array.filter and the deletion of an entry of a Map leave: the      *)
(* elements at some positions, in their order.  SelectSeq says the same of *)
(* a test; this form can be reasoned about without recursion.              *)
(***************************************************************************)
EXTENDS Naturals, Sequences, FiniteSets

Rank(is, i) == Cardinality({j \in is : j <= i})
Picked(s, is) == [n \in 1 .. Cardinality(is) |-> s[CHOOSE i \in is : Rank(is, i) = n]]
=============================================================================
