------------------------------ MODULE MCMemFs ------------------------------
EXTENDS MemFs

MCTargets == {[abs |-> TRUE, comps |-> << 1 >>],
              [abs |-> FALSE, comps |-> << 2 >>],
              [abs |-> FALSE, comps |-> << DotDot, 1 >>]}
MCPaths == UNION {[1..k -> Names \cup {DotDot}] : k \in 1..3}

=============================================================================
