--------------------------- MODULE UpstreamClient ---------------------------
(***************************************************************************)
(* UpstreamHttpClient.request over one provider's CircuitBreaker and the   *)
(* OperationDeadline each call is given: who may call, what an outcome     *)
(* does to the circuit, what the half-open trial costs, when a call is     *)
(* retried and when it is given up.                                        *)
(*                                                                         *)
(* Time is kept as what is LEFT: of the cooldown, of each operation budget *)
(* and of each attempt, so no bound on the clock is needed.  One action is *)
(* what runs between two awaits; in particular the finally of request runs *)
(* after attemptLoop has settled, as a step of its own.                    *)
(***************************************************************************)
EXTENDS Integers

CONSTANTS Calls,        \* the calls to this provider in flight at one time
          Threshold,    \* failureThreshold
          OpenTime,     \* openMs
          Cap,          \* singleCallTimeoutMs
          Budgets,      \* budgetMs of the operations that call this provider
          RetryAfters,  \* the Retry-After values, 0 for an absent header
          Backoff,      \* RETRY_BACKOFF_MS
          MinRemaining  \* MIN_REMAINING_MS_FOR_RETRY

ASSUME ConstantsOK ==
  /\ Threshold \in Nat \ {0}
  /\ OpenTime \in Nat \ {0}
  /\ Cap \in Nat \ {0}
  /\ Budgets \subseteq Nat \ {0}
  /\ RetryAfters \subseteq Nat
  /\ Backoff \in Nat
  /\ MinRemaining \in Nat

VARIABLES failures,     \* consecutiveFailures; counted up to Threshold, which is
                        \* all the code compares it with
          cooldown,     \* openUntilMs - now, 0 once half-open, Closed for null
          trial,        \* trialInFlight
          asked,        \* history: what is left of the longest Retry-After sent
          warned,       \* history: the calls that were under way when it was sent
          overtaken,    \* history: one of those has reported its outcome since
          call          \* where each call is, and its locals

vars == <<failures, cooldown, trial, asked, warned, overtaken, call>>
breaker == <<failures, cooldown, trial>>
pause == <<asked, warned, overtaken>>

Closed == -1
MaxAttempts == 2

NoCall == [pc |-> "idle", budget |-> 0, left |-> 0, attempt |-> 0, allowance |-> 0,
           timer |-> 0, cut |-> FALSE, probing |-> FALSE]

Lesser(a, b)  == IF a < b THEN a ELSE b
Greater(a, b) == IF a < b THEN b ELSE a

Elapse(t) == IF t > 0 THEN t - 1 ELSE t

Goto(c, pc) == call' = [call EXCEPT ![c].pc = pc]

-----------------------------------------------------------------------------
(* CircuitBreaker.                                                         *)

\* canAttempt without its side effect.
CanAttempt == cooldown = Closed \/ (cooldown = 0 /\ ~trial)

RecordSuccess ==
  /\ failures' = 0
  /\ cooldown' = Closed
  /\ trial' = FALSE
  /\ UNCHANGED asked

\* abandonTrial and releaseTrial: the flag and nothing else.
\* MUTANTS: a definition named Of_How is Of with one plausible slip in the code.
\* None is part of the model; each shows that a property can fail.
DropTrial_LeftToRecord == UNCHANGED <<failures, cooldown, trial, asked>>
DropTrial ==
  /\ trial' = FALSE
  /\ UNCHANGED <<failures, cooldown, asked>>

\* A failure that is not a 429 opens the circuit at the threshold only.
RecordFailure ==
  LET n == Lesser(failures + 1, Threshold)
  IN /\ failures' = n
     /\ cooldown' = IF n = Threshold THEN OpenTime ELSE cooldown
     /\ trial' = FALSE
     /\ UNCHANGED asked

\* A 429 opens it at once, for Retry-After floored at openMs.
RecordRateLimited_FixedPause(retryAfter) ==
  /\ failures' = Lesser(failures + 1, Threshold)
  /\ cooldown' = OpenTime
  /\ trial' = FALSE
  /\ asked' = Greater(asked, retryAfter)

RecordRateLimited(retryAfter) ==
  /\ failures' = Lesser(failures + 1, Threshold)
  /\ cooldown' = Greater(retryAfter, OpenTime)
  /\ trial' = FALSE
  /\ asked' = Greater(asked, retryAfter)

\* History: an outcome is reported, or the pause that a 429 asks for begins anew.
Reports(c) == overtaken' = (overtaken \/ c \in warned) /\ UNCHANGED warned

Warns(c) ==
  /\ overtaken' = FALSE
  /\ warned' = {d \in Calls \ {c} : call[d].pc # "idle"}

-----------------------------------------------------------------------------
(* UpstreamHttpClient.request.                                             *)

\* request refuses an expired deadline and a closed gate without any effect;
\* otherwise the call leaves with, in half-open, the one trial in its hand.
\* The operation may have begun earlier and spent part of its budget.
Admit(c) ==
  /\ call[c].pc = "idle"
  /\ CanAttempt
  /\ trial' = (cooldown = 0)
  /\ \E b \in Budgets : \E left \in 1 .. b :
       call' = [call EXCEPT ![c] = [NoCall EXCEPT !.pc = "budget", !.attempt = 1,
                  !.budget = b, !.left = left, !.probing = (cooldown = 0)]]
  /\ UNCHANGED <<failures, cooldown, pause>>

\* Awaiting ProviderBudget.tryConsume, which may refuse.
BudgetRefuses(c) ==
  /\ call[c].pc = "budget"
  /\ Goto(c, "finally")
  /\ UNCHANGED <<breaker, pause>>

\* OperationDeadline.cutsCallShort and the span that signalFor allows.
CutsCallShort_AnyCap(budget, left) == left < Cap
CutsCallShort(budget, left) == Cap < budget /\ left < Cap
Allowance(left) == Lesser(Cap, left)

StartAttempt(c) ==
  /\ call[c].pc = "budget"
  /\ call' = [call EXCEPT ![c] =
       [@ EXCEPT !.pc = "fetch",
                 !.cut = CutsCallShort(call[c].budget, call[c].left),
                 !.allowance = Allowance(call[c].left),
                 !.timer = Allowance(call[c].left)]]
  /\ UNCHANGED <<breaker, pause>>

\* A fetch that starts with its signal aborted never reaches the provider.
Answers(c) == call[c].pc = "fetch" /\ call[c].allowance > 0

\* Data or no_data.
Succeed(c) ==
  /\ Answers(c)
  /\ RecordSuccess
  /\ Reports(c)
  /\ Goto(c, "finally")

\* client_error or schema_error: never retried, never excused.
Reject(c) ==
  /\ Answers(c)
  /\ RecordFailure
  /\ Reports(c)
  /\ Goto(c, "finally")

RateLimit(c) ==
  /\ Answers(c)
  /\ \E s \in RetryAfters :
       /\ RecordRateLimited(s)
       /\ IF s > 0 /\ s >= asked THEN Warns(c) ELSE Reports(c)
  /\ Goto(c, "finally")

\* An exception of ours escapes parse: nothing is reported to the breaker.
ParseThrows(c) ==
  /\ Answers(c)
  /\ Goto(c, "finally")
  /\ UNCHANGED <<breaker, pause>>

Affordable(c) == call[c].attempt < MaxAttempts /\ call[c].left > MinRemaining + Backoff

Retry(c) ==
  /\ Affordable(c)
  /\ call' = [call EXCEPT ![c] =
       [@ EXCEPT !.pc = "backoff", !.attempt = call[c].attempt + 1, !.timer = Backoff]]
  /\ UNCHANGED <<breaker, pause>>

\* The operation ceiling, not the provider, ended the call.
Excused(c) == call[c].left = 0 /\ call[c].cut

\* An affordable retry is skipped by a caller that is not retryable.
GiveUp(c) ==
  /\ IF Excused(c) THEN DropTrial /\ UNCHANGED <<warned, overtaken>>
     ELSE RecordFailure /\ Reports(c)
  /\ Goto(c, "finally")

\* A transient outcome: a 5xx, a refused connection ...
FailTransiently(c) ==
  /\ Answers(c)
  /\ Retry(c) \/ GiveUp(c)

\* ... or the signal, which aborts the fetch when the allowance is used up.
Abort(c) ==
  /\ call[c].pc = "fetch"
  /\ call[c].timer = 0
  /\ Retry(c) \/ GiveUp(c)

Resume(c) ==
  /\ call[c].pc = "backoff"
  /\ call[c].timer = 0
  /\ Goto(c, "budget")
  /\ UNCHANGED <<breaker, pause>>

\* The finally of request: abandonTrial, whoever the trial belongs to.
Finish_NoFinally(c) ==
  /\ call[c].pc = "finally"
  /\ call' = [call EXCEPT ![c] = NoCall]
  /\ warned' = warned \ {c}
  /\ UNCHANGED <<breaker, asked, overtaken>>

Finish(c) ==
  /\ call[c].pc = "finally"
  /\ call' = [call EXCEPT ![c] = NoCall]
  /\ warned' = warned \ {c}
  /\ DropTrial
  /\ UNCHANGED overtaken

\* Timers fire when they are due and a settled call runs its finally before time
\* passes; a provider may stay silent and Redis may keep tryConsume waiting.
Tick ==
  /\ \A c \in Calls : /\ call[c].pc \in {"fetch", "backoff"} => call[c].timer > 0
                      /\ call[c].pc # "finally"
  /\ cooldown' = Elapse(cooldown)
  /\ asked' = Elapse(asked)
  /\ IF asked' = 0 THEN warned' = {} /\ overtaken' = FALSE ELSE UNCHANGED <<warned, overtaken>>
  /\ call' = [c \in Calls |-> [call[c] EXCEPT !.left = Elapse(@), !.timer = Elapse(@)]]
  /\ UNCHANGED <<failures, trial>>

-----------------------------------------------------------------------------

Init ==
  /\ failures = 0
  /\ cooldown = Closed
  /\ trial = FALSE
  /\ asked = 0
  /\ warned = {}
  /\ overtaken = FALSE
  /\ call = [c \in Calls |-> NoCall]

\* What the process does on its own once a call has been admitted.
Proceed(c) ==
  BudgetRefuses(c) \/ StartAttempt(c) \/ Abort(c) \/ Resume(c) \/ Finish(c)

Answer(c) ==
  Succeed(c) \/ Reject(c) \/ RateLimit(c) \/ ParseThrows(c) \/ FailTransiently(c)

Next == (\E c \in Calls : Admit(c) \/ Proceed(c) \/ Answer(c)) \/ Tick

Spec == Init /\ [][Next]_vars

\* The event loop runs what is ready and the clock never stops for good, however
\* often the callers come back; nothing obliges the provider to answer.
FairSpec == Spec /\ SF_vars(Tick) /\ \A c \in Calls : WF_vars(Proceed(c))

-----------------------------------------------------------------------------
(* Properties.                                                             *)

TypeOK ==
  /\ failures \in 0 .. Threshold
  /\ cooldown \in Nat \cup {Closed}
  /\ trial \in BOOLEAN
  /\ asked \in Nat
  /\ warned \subseteq Calls
  /\ overtaken \in BOOLEAN
  /\ call \in [Calls -> [pc : {"idle", "budget", "fetch", "backoff", "finally"},
                         budget : Nat, left : Nat, attempt : 0 .. MaxAttempts,
                         allowance : Nat, timer : Nat, cut : BOOLEAN, probing : BOOLEAN]]

\* The half-open trial is never leaked (review #73): while the flag refuses every
\* other call, a call that was given the trial is still in flight, whichever of
\* the five ways out of request it will take.
NoLeakedTrial ==
  trial => \E c \in Calls : call[c].pc # "idle" /\ call[c].probing

\* A pause that the provider asked for is cut short only by the outcome of a call
\* that was already under way when it asked: a late success that closes the
\* circuit, a late failure that opens it for less (circuit-breaker.ts:108-118,
\* 194-214).  Until such an outcome comes, the circuit stays open for all of it.
PauseCutOnlyByStragglers == asked > 0 /\ ~overtaken => cooldown >= asked

\* An attempt that times out counts against the provider exactly when it was
\* given the whole per-call cap, or the whole budget of an operation that has no
\* more than the cap: our own brake is not evidence, a hang is.
TimeoutIsEvidence ==
  [][\A c \in Calls :
       Abort(c) /\ call'[c].pc = "finally" /\ failures < Threshold =>
         (failures' > failures <=>
            call[c].budget <= Cap \/ call[c].allowance = Cap)]_vars

\* However calls fail, hang, throw or are refused, the provider is never shut out
\* for good: again and again there is an instant at which a call would be let in.
AlwaysProbesAgain == []<>CanAttempt

-----------------------------------------------------------------------------
(* What the comments and tests say and the code does not keep.             *)

\* circuit-breaker.ts: "429 opens the circuit immediately, for as long as the
\* provider asked".
RetryAfterObeyed == [][\A c \in Calls : Admit(c) => asked = 0]_vars

\* circuit-breaker.spec.ts: "re-opens when the trial call also fails".
FailedTrialReopens ==
  [][\A c \in Calls :
       /\ Reject(c) \/ FailTransiently(c) \/ Abort(c)
       /\ trial /\ call[c].probing /\ call'[c].pc = "finally" /\ ~Excused(c)
       => cooldown' > 0]_vars

\* circuit-breaker.ts: "Half-open lets exactly ONE trial call through".  A call of
\* before the circuit opened ends while the trial is out, and its finally clears
\* the flag of the trial.
OnTrial(c) == call[c].probing /\ call[c].pc \in {"budget", "fetch", "backoff"}
AtMostOneTrial == \A c, d \in Calls : OnTrial(c) /\ OnTrial(d) => c = d

=============================================================================
