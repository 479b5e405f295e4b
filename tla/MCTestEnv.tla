----------------------------- MODULE MCTestEnv ------------------------------
(* TestEnv with invocations that are alike.                                *)
EXTENDS TestEnv

MCSymmetry == Permutations(Runs)

=============================================================================
