-------------------------- MODULE SessionFamilies --------------------------
(***************************************************************************)
(* What the refresh endpoint promises, whatever runs beside it: a login    *)
(* opens a family with one current refresh token; a refresh exchanges the  *)
(* current token of ONE family for a token nobody has seen before; logout, *)
(* reuse detection, expiry, reset and change end families for good; and    *)
(* closing the account takes every family and token with it.               *)
(***************************************************************************)
EXTENDS Naturals

CONSTANT Tokens          \* refresh tokens; a family is named by its first one

VARIABLES open,          \* the account exists
          current,       \* the one token of a family that still works, or 0
          issued         \* every token that was ever a family's current one

OpenFamily(f) ==
  /\ open
  /\ f \notin issued
  /\ current' = [current EXCEPT ![f] = f]
  /\ issued' = issued \cup {f}
  /\ UNCHANGED open

Exchange(f, t) ==
  /\ open
  /\ current[f] # 0
  /\ t \notin issued
  /\ current' = [current EXCEPT ![f] = t]
  /\ issued' = issued \cup {t}
  /\ UNCHANGED open

EndFamilies(F) ==
  /\ \A f \in F : current[f] # 0
  /\ current' = [f \in Tokens |-> IF f \in F THEN 0 ELSE current[f]]
  /\ UNCHANGED <<open, issued>>

CloseAccount ==
  /\ open' = FALSE
  /\ current' = [f \in Tokens |-> 0]
  /\ issued' = {}

Init == open = TRUE /\ current = [f \in Tokens |-> 0] /\ issued = {}

Next ==
  \/ \E f \in Tokens : OpenFamily(f)
  \/ \E f, t \in Tokens : Exchange(f, t)
  \/ \E F \in SUBSET Tokens : EndFamilies(F)
  \/ CloseAccount

Spec == Init /\ [][Next]_<<open, current, issued>>

=============================================================================
