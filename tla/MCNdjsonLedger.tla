--------------------------- MODULE MCNdjsonLedger ---------------------------
(* Symmetry of the ledger's keys and of the tasks that record them. *)
EXTENDS NdjsonLedger, TLC

Symmetry == Permutations(Keys) \cup Permutations(Workers)
=============================================================================
