--------------------------- MODULE AuthRateLimits ---------------------------
(***************************************************************************)
(* AuthRateLimitService for one identity: the rows of auth_rate_limits, a  *)
(* counter for each scope and fixed window.  consume is two autocommitted  *)
(* statements, the DELETE of older windows and the upsert that counts, and *)
(* both work on the window computed before the first; refund is one.       *)
(* Modules that limit something extend this one and order its steps.       *)
(***************************************************************************)
EXTENDS Integers

CONSTANTS Scopes,
          Limit,     \* AUTH_RATE_LIMIT_RULES: limit, by scope
          Length,    \* AUTH_RATE_LIMIT_RULES: windowMs, by scope, in ticks
          MaxTime    \* bound: the last instant

ASSUME RateConstantsOK ==
  /\ Limit \in [Scopes -> Nat \ {0}]
  /\ Length \in [Scopes -> Nat \ {0}]
  /\ MaxTime \in Nat

VARIABLES now,      \* the clock
          counts    \* attempt_count by scope and window; 0 where there is no row

Windows == 0 .. MaxTime

WindowAt(scope, time) == time \div Length[scope]

\* consume, first statement: this identity's older windows go.
Kept(rows, window) == [w \in Windows |-> IF w < window THEN 0 ELSE rows[w]]
Sweep(scope, window) == counts' = [counts EXCEPT ![scope] = Kept(@, window)]

\* consume, second statement.
Count(scope, window) == counts' = [counts EXCEPT ![scope][window] = @ + 1]

Allowed(scope, window) == counts[scope][window] + 1 <= Limit[scope]

\* MUTANTS: a definition named Of_How is Of with one plausible slip in the code.
\* None is part of the model; each shows that a property can fail.
Refund_CurrentWindow(scope, window) ==
  LET w == WindowAt(scope, now)
  IN counts' = [counts EXCEPT ![scope][w] = IF @ > 0 THEN @ - 1 ELSE 0]

\* refund: the unit goes back to the window that consume returned.
Refund(scope, window) ==
  counts' = [counts EXCEPT ![scope][window] = IF @ > 0 THEN @ - 1 ELSE 0]
=============================================================================
