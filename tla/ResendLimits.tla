---------------------------- MODULE ResendLimits ----------------------------
(***************************************************************************)
(* RegistrationService.resendVerification for one address: the cooldown,   *)
(* then the daily unit, then the transaction that clones a candidate, and  *)
(* the refund of the unit when that transaction refuses an ambiguous group.*)
(*                                                                         *)
(* What the transaction decides is PendingRegistrations' matter: here it   *)
(* issues a code, declines or refuses, whichever.  Requests overlap, and   *)
(* the day may change between any two of their steps.                      *)
(***************************************************************************)
EXTENDS AuthRateLimits, FiniteSets

CONSTANTS Requests,   \* the resends that run at one time
          MaxCount    \* bound: a resend arrives while its cooldown counter is less

ASSUME ResendConstantsOK ==
  /\ Scopes = {"cooldown", "daily"}
  /\ IsFiniteSet(Requests)
  /\ MaxCount \in Nat

VARIABLES req,      \* the resends under way
          mailed,   \* history: codes mailed, by the day whose row their unit is in;
                    \* only of units counted while that day lasted
          kept      \* history: units never given back, by the day of their row

vars == <<now, counts, req, mailed, kept>>

Idle == [at |-> "idle", window |-> 0, timely |-> FALSE]

Today == WindowAt("daily", now)
At(r, where) == req[r].at = where
End(r)       == req' = [req EXCEPT ![r] = Idle]

\* The unit of this request stays spent.
Keep(r) == kept' = [kept EXCEPT ![req[r].window] = @ + 1]

-----------------------------------------------------------------------------

\* consume(VerifyResendCooldown): the clock, the DELETE.
Resend(r) ==
  /\ At(r, "idle")
  /\ LET window == WindowAt("cooldown", now)
     IN /\ counts["cooldown"][window] < MaxCount
        /\ Sweep("cooldown", window)
        /\ req' = [req EXCEPT ![r] = [at |-> "cooldown", window |-> window, timely |-> FALSE]]
  /\ UNCHANGED <<now, mailed, kept>>

TooSoon(r) ==
  /\ At(r, "cooldown")
  /\ ~Allowed("cooldown", req[r].window)
  /\ Count("cooldown", req[r].window)
  /\ End(r)
  /\ UNCHANGED <<now, mailed, kept>>

CooledDown(r) ==
  /\ At(r, "cooldown")
  /\ Allowed("cooldown", req[r].window)
  /\ Count("cooldown", req[r].window)
  /\ req' = [req EXCEPT ![r].at = "cooled"]
  /\ UNCHANGED <<now, mailed, kept>>

\* consume(VerifyResendDaily) reads the clock again.
ConsumeDaily(r) ==
  /\ At(r, "cooled")
  /\ Sweep("daily", Today)
  /\ req' = [req EXCEPT ![r].at = "daily", ![r].window = Today]
  /\ UNCHANGED <<now, mailed, kept>>

\* A refused resend has been counted all the same.
OverTheCap(r) ==
  /\ At(r, "daily")
  /\ ~Allowed("daily", req[r].window)
  /\ Count("daily", req[r].window)
  /\ Keep(r)
  /\ End(r)
  /\ UNCHANGED <<now, mailed>>

UnderTheCap(r) ==
  /\ At(r, "daily")
  /\ Allowed("daily", req[r].window)
  /\ Count("daily", req[r].window)
  /\ req' = [req EXCEPT ![r].at = "cloning", ![r].timely = req[r].window = Today]
  /\ UNCHANGED <<now, mailed, kept>>

\* resendCandidateCode: 'issued', and the code is mailed.
Issued(r) ==
  /\ At(r, "cloning")
  /\ mailed' = [mailed EXCEPT ![req[r].window] = @ + IF req[r].timely THEN 1 ELSE 0]
  /\ Keep(r)
  /\ End(r)
  /\ UNCHANGED <<now, counts>>

\* 'declined': the ceiling, nothing to clone, contention.
Declined(r) ==
  /\ At(r, "cloning")
  /\ Keep(r)
  /\ End(r)
  /\ UNCHANGED <<now, counts, mailed>>

\* 'ambiguous-source'.
Ambiguous(r) ==
  /\ At(r, "cloning")
  /\ req' = [req EXCEPT ![r].at = "refund"]
  /\ UNCHANGED <<now, counts, mailed, kept>>

\* MUTANTS: see AuthRateLimits.
GiveBack_Dropped(r) ==
  /\ At(r, "refund")
  /\ End(r)
  /\ UNCHANGED <<now, counts, mailed, kept>>

GiveBack(r) ==
  /\ At(r, "refund")
  /\ Refund("daily", req[r].window)
  /\ End(r)
  /\ UNCHANGED <<now, mailed, kept>>

\* The refund is fail-soft.
RefundFails(r) ==
  /\ At(r, "refund")
  /\ Keep(r)
  /\ End(r)
  /\ UNCHANGED <<now, counts, mailed>>

Tick ==
  /\ now < MaxTime
  /\ now' = now + 1
  /\ UNCHANGED <<counts, req, mailed, kept>>

Init ==
  /\ now = 0
  /\ counts = [s \in Scopes |-> [w \in Windows |-> 0]]
  /\ req = [r \in Requests |-> Idle]
  /\ mailed = [w \in Windows |-> 0]
  /\ kept = [w \in Windows |-> 0]

Next ==
  \/ Tick
  \/ \E r \in Requests :
       \/ Resend(r) \/ TooSoon(r) \/ CooledDown(r)
       \/ ConsumeDaily(r) \/ OverTheCap(r) \/ UnderTheCap(r)
       \/ Issued(r) \/ Declined(r) \/ Ambiguous(r)
       \/ GiveBack(r) \/ RefundFails(r)

Spec == Init /\ [][Next]_vars

-----------------------------------------------------------------------------
(* Properties.                                                             *)

TypeOK ==
  /\ now \in 0 .. MaxTime
  /\ counts \in [Scopes -> [Windows -> Nat]]
  /\ req \in [Requests -> [at : {"idle", "cooldown", "cooled", "daily", "cloning", "refund"},
                           window : Windows, timely : BOOLEAN]]
  /\ mailed \in [Windows -> Nat]
  /\ kept \in [Windows -> Nat]

\* A day never sees more resent codes than its cap, however many units are
\* refunded, in that day or after it (registration.service.ts:142-176,
\* auth-rate-limit.service.ts:136-148).  A request that counts after its day is
\* over, when the row may be gone and begin again, is not among them.
DailyCapHolds == \A day \in Windows : mailed[day] <= Limit["daily"]

\* Requests whose unit is in that day's row and may still come back.
Unsettled(day) == {r \in Requests : req[r].at \in {"cloning", "refund"} /\ req[r].window = day}

\* A third party's candidate costs the owner nothing: the counter stands for no
\* more units than were kept or are still under way (registration.service.ts:155-175).
AmbiguityCostsNothing ==
  \A day \in Windows : counts["daily"][day] <= kept[day] + Cardinality(Unsettled(day))
=============================================================================
