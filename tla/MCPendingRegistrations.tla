---------------------- MODULE MCPendingRegistrations ----------------------
(* PendingRegistrations on a small instance: two requests at a time, two    *)
(* parties, a code that lives less than the run.                            *)
EXTENDS PendingRegistrations, TLC

CONSTANTS r1, r2, owner, stranger

Symmetry == Permutations({r1, r2}) \union Permutations({owner, stranger})
===========================================================================
