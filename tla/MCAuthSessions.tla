--------------------------- MODULE MCAuthSessions ---------------------------
(* AuthSessions on small instances.                                        *)
EXTENDS AuthSessions, TLC

\* Requests are interchangeable; safety runs only.
RequestSymmetry == Permutations(Requests)

=============================================================================
