------------------------------ MODULE Ordered ------------------------------
(***************************************************************************)
(* The order in which an ordered map or a numbered list gives what it      *)
(* holds.  It is SetToSortSeq(S, <), stated so that it can be reasoned     *)
(* about: that operator rests on one of TLC's, which has no axioms.        *)
(***************************************************************************)
EXTENDS Naturals, FiniteSets

(* The numbers in the set S, the least first.                              *)
InOrder(S) ==
  CHOOSE s \in [1..Cardinality(S) -> S] : \A i, j \in 1..Cardinality(S) : i < j => s[i] < s[j]

=============================================================================
