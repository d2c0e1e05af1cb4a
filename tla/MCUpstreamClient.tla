-------------------------- MODULE MCUpstreamClient --------------------------
(* UpstreamClient on small instances.                                      *)
EXTENDS UpstreamClient, TLC

\* Calls are interchangeable; safety runs only.
CallSymmetry == Permutations(Calls)

=============================================================================
