-------------------------- MODULE MCResendLimits --------------------------
(* ResendLimits on a small instance: a day is two ticks, the cooldown one. *)
EXTENDS ResendLimits, TLC

CONSTANTS r1, r2, r3

MCLimit  == [cooldown |-> 1, daily |-> 2]
MCLength == [cooldown |-> 1, daily |-> 2]

Symmetry == Permutations(Requests)
===========================================================================
