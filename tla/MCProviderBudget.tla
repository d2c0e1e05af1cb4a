-------------------------- MODULE MCProviderBudget --------------------------
(* ProviderBudget on a small instance: two windows, the second twice as     *)
(* long; a call on each of two instances at a time.                          *)
EXTENDS ProviderBudget, TLC

CONSTANTS i1, i2, c1, c2

MCHome   == (c1 :> i1) @@ (c2 :> i2)
MCLimit  == <<1, 1>>
MCLength == <<1, 2>>
\* The instances, with their calls, are alike.
Symmetry == {(i1 :> i2) @@ (i2 :> i1) @@ (c1 :> c2) @@ (c2 :> c1)}
=============================================================================
