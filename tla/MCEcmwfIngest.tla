-------------------------- MODULE MCEcmwfIngest --------------------------
(* EcmwfIngest on a small instance: two instances, three cycles.          *)
EXTENDS EcmwfIngest, TLC

CONSTANTS a, b

Symmetry == Permutations(Instances)
==========================================================================
