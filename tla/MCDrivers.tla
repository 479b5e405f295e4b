----------------------------- MODULE MCDrivers -----------------------------
EXTENDS Drivers, TLC

MCTargets == {[abs |-> TRUE, comps |-> << 1 >>]}
MCPaths == UNION {[1..k -> Names] : k \in 1..2}

MCSymmetry == Permutations(Handles)

=============================================================================
