------------------------------ MODULE MCLogin ------------------------------
(* Values for the constants of Login.                                      *)
EXTENDS Login, TLC

\* No policy at all; the gate alone, for one template and for none; both gates.
MCPolicies == { [gate |-> FALSE, allowed |-> {}, group |-> FALSE],
                [gate |-> TRUE, allowed |-> {"shell"}, group |-> FALSE],
                [gate |-> TRUE, allowed |-> {}, group |-> FALSE],
                [gate |-> TRUE, allowed |-> {"shell"}, group |-> TRUE] }

Symmetry == Permutations(Names)
=============================================================================
