------------------------ MODULE UpstreamClientProofs ------------------------
(***************************************************************************)
(* What UpstreamClient guarantees for any number of calls, any thresholds  *)
(* and any deadlines.  Assumed: ConstantsOK, nothing else.                 *)
(*                                                                         *)
(* The breaker is arithmetic and goes to SMT; updates of several fields of *)
(* a call's record go to Zenon.  BreakerStep is what the two share: the    *)
(* ways in which any step of the system can move the circuit.              *)
(***************************************************************************)
EXTENDS UpstreamClient, TLAPS

NumbersOK ==
  /\ failures \in 0 .. Threshold
  /\ cooldown \in Nat \cup {Closed}
  /\ asked \in Nat

CallRecords == [pc : {"idle", "budget", "fetch", "backoff", "finally"},
                budget : Nat, left : Nat, attempt : 0 .. MaxAttempts,
                allowance : Nat, timer : Nat, cut : BOOLEAN, probing : BOOLEAN]

CallsOK == call \in [Calls -> CallRecords]

PauseTyped == warned \subseteq Calls /\ overtaken \in BOOLEAN

\* The ways in which a step moves the circuit.
TimePasses ==
  cooldown' = Elapse(cooldown) /\ asked' = Elapse(asked) /\ UNCHANGED <<failures, trial>>
TakesTrial ==
  CanAttempt /\ trial' = (cooldown = 0) /\ UNCHANGED <<failures, cooldown, asked>>
RateLimited == \E s \in RetryAfters : RecordRateLimited(s)
CircuitUnmoved == UNCHANGED <<failures, cooldown, trial, asked>>

BreakerStep ==
  \/ TimePasses \/ TakesTrial \/ RateLimited \/ CircuitUnmoved
  \/ RecordFailure \/ RecordSuccess \/ DropTrial

-----------------------------------------------------------------------------

\* Whatever a step does to the calls, it moves the circuit in one of these ways.
LEMMA StepMovesBreaker == [Next]_vars => BreakerStep
<1> SUFFICES ASSUME [Next]_vars PROVE BreakerStep
  OBVIOUS
<1> USE DEF BreakerStep, CircuitUnmoved, breaker, pause
<1>1. CASE Tick
  BY <1>1, Zenon DEF Tick, TimePasses
<1>2. ASSUME NEW c \in Calls, Admit(c) PROVE BreakerStep
  BY <1>2, Zenon DEF Admit, TakesTrial
<1>3. ASSUME NEW c \in Calls, Proceed(c) PROVE BreakerStep
  BY <1>3, Zenon DEF Proceed, BudgetRefuses, StartAttempt, Abort, Retry, GiveUp, Resume, Finish
<1>4. ASSUME NEW c \in Calls, Answer(c) PROVE BreakerStep
  BY <1>4, Zenon DEF Answer, Succeed, Reject, RateLimit, ParseThrows, FailTransiently, Retry,
                    GiveUp, RateLimited
<1>5. CASE UNCHANGED vars
  BY <1>5, Zenon DEF vars
<1> QED
  BY <1>1, <1>2, <1>3, <1>4, <1>5, Zenon DEF Next

\* A step leaves the numbers of the breaker in their ranges.
LEMMA NumbersStep == NumbersOK /\ BreakerStep => NumbersOK'
<1> SUFFICES ASSUME NumbersOK, BreakerStep PROVE NumbersOK'
  OBVIOUS
<1> USE ConstantsOK DEF ConstantsOK, NumbersOK, Closed
<1>1. CASE TimePasses
  BY <1>1 DEF TimePasses, Elapse
<1>2. CASE TakesTrial \/ CircuitUnmoved \/ DropTrial
  BY <1>2 DEF TakesTrial, CircuitUnmoved, DropTrial
<1>3. CASE RateLimited
  BY <1>3 DEF RateLimited, RecordRateLimited, Lesser, Greater
<1>4. CASE RecordFailure \/ RecordSuccess
  BY <1>4 DEF RecordFailure, RecordSuccess, Lesser
<1> QED
  BY <1>1, <1>2, <1>3, <1>4, Zenon DEF BreakerStep

\* A step leaves every call a record of its type.
LEMMA CallsStep == CallsOK /\ [Next]_vars => CallsOK'
<1> SUFFICES ASSUME CallsOK, [Next]_vars PROVE CallsOK'
  OBVIOUS
<1> USE DEF CallsOK, CallRecords
<1>1. /\ 0 \in Nat /\ 0 \in 0 .. MaxAttempts /\ 1 \in 0 .. MaxAttempts
      /\ \A n \in Nat : Elapse(n) \in Nat /\ Allowance(n) \in Nat
      /\ Backoff \in Nat
      /\ \A n \in 0 .. MaxAttempts : n < MaxAttempts => n + 1 \in 0 .. MaxAttempts
  BY ConstantsOK DEF ConstantsOK, MaxAttempts, Elapse, Allowance, Lesser
<1>2. \A b \in Budgets : b \in Nat /\ \A left \in 1 .. b : left \in Nat
  BY ConstantsOK DEF ConstantsOK
<1>3. CASE Tick
  <2>1. \A c \in Calls : [call[c] EXCEPT !.left = Elapse(@), !.timer = Elapse(@)] \in CallRecords
    BY <1>1, Zenon
  <2> QED
    BY <1>3, <2>1, Zenon DEF Tick
<1>4. ASSUME NEW c \in Calls, Admit(c) PROVE CallsOK'
  <2>1. PICK b \in Budgets : \E left \in 1 .. b :
          call' = [call EXCEPT ![c] = [NoCall EXCEPT !.pc = "budget", !.attempt = 1,
                     !.budget = b, !.left = left, !.probing = (cooldown = 0)]]
    BY <1>4, Zenon DEF Admit
  <2>2. PICK left \in 1 .. b :
          call' = [call EXCEPT ![c] = [NoCall EXCEPT !.pc = "budget", !.attempt = 1,
                     !.budget = b, !.left = left, !.probing = (cooldown = 0)]]
    BY <2>1, Zenon
  <2>3. NoCall \in CallRecords
    BY <1>1, Zenon DEF NoCall
  <2>4. (cooldown = 0) \in BOOLEAN
    BY Zenon
  <2>5. [NoCall EXCEPT !.pc = "budget", !.attempt = 1, !.budget = b, !.left = left,
                       !.probing = (cooldown = 0)] \in CallRecords
    BY <1>1, <1>2, <2>3, <2>4, Zenon
  <2> QED
    BY <2>2, <2>5, Zenon
<1>5. ASSUME NEW c \in Calls, StartAttempt(c) PROVE CallsOK'
  <2> DEFINE cut == CutsCallShort(call[c].budget, call[c].left)
             allowed == Allowance(call[c].left)
             started == [call[c] EXCEPT !.pc = "fetch", !.cut = cut, !.allowance = allowed,
                                        !.timer = allowed]
  <2>1. cut \in BOOLEAN
    BY Zenon DEF CutsCallShort
  <2>2. allowed \in Nat /\ call[c] \in CallRecords
    BY <1>1, Zenon
  <2>3. call' = [call EXCEPT ![c] = started]
    BY <1>5, Zenon DEF StartAttempt
  <2> HIDE DEF cut, allowed
  <2>4. started \in CallRecords
    BY <2>1, <2>2, Zenon
  <2> HIDE DEF started
  <2> QED
    BY <2>3, <2>4, Zenon
<1>6. ASSUME NEW c \in Calls, Retry(c) PROVE CallsOK'
  <2>1. call[c].attempt + 1 \in 0 .. MaxAttempts
    <3>1. call[c].attempt \in 0 .. MaxAttempts /\ call[c].attempt < MaxAttempts
      BY <1>6, Zenon DEF Retry, Affordable
    <3> QED
      BY <1>1, <3>1, Zenon
  <2> DEFINE again == [call[c] EXCEPT !.pc = "backoff", !.attempt = call[c].attempt + 1,
                                      !.timer = Backoff]
  <2>2. call' = [call EXCEPT ![c] = again]
    BY <1>6, Zenon DEF Retry
  <2>3. again \in CallRecords
    BY <1>1, <2>1, Zenon
  <2> HIDE DEF again
  <2> QED
    BY <2>2, <2>3, Zenon
<1>7. ASSUME NEW c \in Calls, NEW pc \in {"budget", "finally"}, Goto(c, pc) PROVE CallsOK'
  BY <1>7, Zenon DEF Goto
<1>8. ASSUME NEW c \in Calls, Finish(c) PROVE CallsOK'
  BY <1>1, <1>8, Zenon DEF Finish, NoCall
<1>9. CASE UNCHANGED vars
  BY <1>9, Zenon DEF vars
<1> QED
  BY <1>3, <1>4, <1>5, <1>6, <1>7, <1>8, <1>9, Zenon
     DEF Next, Proceed, Answer, BudgetRefuses, Resume, Abort, FailTransiently, GiveUp,
         Succeed, Reject, RateLimit, ParseThrows

\* A step keeps the history of the pause in its type.
LEMMA PauseStep == PauseTyped /\ [Next]_vars => PauseTyped'
<1> SUFFICES ASSUME PauseTyped, [Next]_vars PROVE PauseTyped'
  OBVIOUS
<1> USE DEF PauseTyped
<1>1. ASSUME NEW c \in Calls, Reports(c) \/ Warns(c) PROVE PauseTyped'
  BY <1>1, Zenon DEF Reports, Warns
<1>2. ASSUME UNCHANGED <<warned, overtaken>> PROVE PauseTyped'
  BY <1>2, Zenon
<1>3. ASSUME NEW c \in Calls, Finish(c) PROVE PauseTyped'
  BY <1>3, Zenon DEF Finish
<1>4. CASE Tick
  BY <1>4, <1>2, Zenon DEF Tick
<1>5. CASE UNCHANGED vars
  BY <1>5, Zenon DEF vars
<1> QED
  BY <1>1, <1>2, <1>3, <1>4, <1>5, Zenon
     DEF Next, Proceed, Answer, Admit, BudgetRefuses, StartAttempt, Abort, Resume, Succeed,
         Reject, RateLimit, ParseThrows, FailTransiently, Retry, GiveUp, pause

\* Every action keeps every variable in its type, whatever the constants are.
THEOREM TypeCorrect == Spec => []TypeOK
<1>1. TypeOK <=> NumbersOK /\ trial \in BOOLEAN /\ CallsOK /\ PauseTyped
  BY Zenon DEF TypeOK, NumbersOK, CallsOK, CallRecords, PauseTyped
<1>2. Init => NumbersOK /\ CallsOK
  BY ConstantsOK DEF ConstantsOK, Init, NoCall, NumbersOK, CallsOK, CallRecords, Closed,
                     MaxAttempts
<1>3. Init => trial \in BOOLEAN /\ PauseTyped
  BY Zenon DEF Init, PauseTyped
<1>4. trial \in BOOLEAN /\ BreakerStep => trial' \in BOOLEAN
  BY Zenon DEF BreakerStep, TimePasses, TakesTrial, RateLimited, RecordRateLimited,
               CircuitUnmoved, RecordFailure, RecordSuccess, DropTrial
<1>5. TypeOK /\ [Next]_vars => TypeOK'
  BY <1>1, <1>4, StepMovesBreaker, NumbersStep, CallsStep, PauseStep, Zenon
     DEF TypeOK, NumbersOK, CallsOK, CallRecords, PauseTyped
<1> QED
  BY <1>1, <1>2, <1>3, <1>5, PTL DEF Spec

\* While a pause stands, it is in force, and whoever is under way was so when it
\* was asked for: nobody is let in before its end.
UnderWay(c) == call[c].pc \in {"budget", "fetch", "backoff"}
PauseInForce == asked > 0 /\ ~overtaken => /\ cooldown >= asked
                                           /\ \A c \in Calls : UnderWay(c) => c \in warned

\* The steps that a pause has to stand.
LEMMA PauseKept ==
  ASSUME TypeOK, PauseInForce, asked' = asked, cooldown' = cooldown, warned' = warned,
         overtaken' = overtaken, \A c \in Calls : UnderWay(c)' => UnderWay(c)
  PROVE  PauseInForce'
BY Zenon DEF PauseInForce

\* A call that reports while a pause stands is one that was warned.
LEMMA ReportOvertakes ==
  ASSUME PauseInForce, asked > 0, NEW c \in Calls, UnderWay(c), Reports(c)
  PROVE  overtaken'
BY Zenon DEF PauseInForce, Reports

LEMMA PauseInForceStep == TypeOK /\ PauseInForce /\ [Next]_vars => PauseInForce'
<1> SUFFICES ASSUME TypeOK, PauseInForce, [Next]_vars PROVE PauseInForce'
  OBVIOUS
<1>0. CallsOK /\ NumbersOK
  BY Zenon DEF TypeOK, CallsOK, CallRecords, NumbersOK
<1>1. CASE Tick
  <2>1. /\ cooldown' = Elapse(cooldown) /\ asked' = Elapse(asked)
        /\ asked' # 0 => warned' = warned /\ overtaken' = overtaken
    BY <1>1, Zenon DEF Tick
  <2>2. \A c \in Calls : UnderWay(c)' => UnderWay(c)
    BY <1>0, <1>1, Zenon DEF Tick, UnderWay, CallsOK, CallRecords
  <2>3. asked' > 0 => asked > 0 /\ asked' # 0 /\ (cooldown >= asked => cooldown' >= asked')
    BY <1>0, <2>1 DEF NumbersOK, Elapse, Closed
  <2> QED
    BY <2>1, <2>2, <2>3, Zenon DEF PauseInForce
<1>2. ASSUME NEW c \in Calls, Admit(c) PROVE PauseInForce'
  <2>1. CanAttempt /\ cooldown' = cooldown /\ asked' = asked /\ overtaken' = overtaken
    BY <1>2, Zenon DEF Admit, pause
  <2>2. ~(asked > 0 /\ cooldown >= asked)
    BY <1>0, <2>1 DEF CanAttempt, NumbersOK, Closed
  <2> QED
    BY <2>1, <2>2, Zenon DEF PauseInForce
<1>3. ASSUME NEW c \in Calls, NEW pc \in {"budget", "finally"}, call[c].pc # "idle",
             pc = "budget" => UnderWay(c), Goto(c, pc)
      PROVE  \A d \in Calls : UnderWay(d)' => UnderWay(d)
  BY <1>0, <1>3, Zenon DEF Goto, UnderWay, CallsOK, CallRecords
<1>4. ASSUME NEW c \in Calls, BudgetRefuses(c) \/ Resume(c) \/ ParseThrows(c)
      PROVE  PauseInForce'
  <2>1. UNCHANGED <<breaker, pause>> /\ UnderWay(c) /\ call[c].pc # "idle"
    BY <1>4, Zenon DEF BudgetRefuses, Resume, ParseThrows, Answers, UnderWay
  <2>2. Goto(c, "finally") \/ Goto(c, "budget")
    BY <1>4, Zenon DEF BudgetRefuses, Resume, ParseThrows
  <2>3. \A d \in Calls : UnderWay(d)' => UnderWay(d)
    BY <1>3, <2>1, <2>2, Zenon
  <2> QED
    BY <2>1, <2>3, PauseKept, Zenon DEF breaker, pause
<1>5. ASSUME NEW c \in Calls, StartAttempt(c) PROVE PauseInForce'
  <2>1. \A d \in Calls : UnderWay(d)' => UnderWay(d)
    BY <1>0, <1>5, Zenon DEF StartAttempt, UnderWay, CallsOK, CallRecords
  <2> QED
    BY <1>5, <2>1, PauseKept, Zenon DEF StartAttempt, breaker, pause
<1>6. ASSUME NEW c \in Calls, call[c].pc = "fetch", Retry(c) PROVE PauseInForce'
  <2>1. \A d \in Calls : UnderWay(d)' => UnderWay(d)
    BY <1>0, <1>6, Zenon DEF Retry, UnderWay, CallsOK, CallRecords
  <2> QED
    BY <1>6, <2>1, PauseKept, Zenon DEF Retry, breaker, pause
<1>7. ASSUME NEW c \in Calls, UnderWay(c), Reports(c), asked' = asked PROVE PauseInForce'
  BY <1>7, ReportOvertakes, Zenon DEF PauseInForce
<1>8. ASSUME NEW c \in Calls, call[c].pc = "fetch", GiveUp(c) PROVE PauseInForce'
  <2>1. UnderWay(c) /\ Goto(c, "finally") /\ call[c].pc # "idle"
    BY <1>8, Zenon DEF GiveUp, UnderWay
  <2>2. CASE Excused(c)
    <3>1. \A d \in Calls : UnderWay(d)' => UnderWay(d)
      BY <1>3, <2>1, Zenon
    <3> QED
      BY <1>8, <2>2, <3>1, PauseKept, Zenon DEF GiveUp, DropTrial
  <2>3. CASE ~Excused(c)
    BY <1>7, <1>8, <2>1, <2>3, Zenon DEF GiveUp, RecordFailure
  <2> QED
    BY <2>2, <2>3
<1>9. ASSUME NEW c \in Calls, Succeed(c) \/ Reject(c) PROVE PauseInForce'
  BY <1>7, <1>9, Zenon DEF Succeed, Reject, Answers, UnderWay, RecordSuccess, RecordFailure
<1>10. ASSUME NEW c \in Calls, RateLimit(c) PROVE PauseInForce'
  <2>1. PICK s \in RetryAfters :
          /\ RecordRateLimited(s)
          /\ IF s > 0 /\ s >= asked THEN Warns(c) ELSE Reports(c)
    BY <1>10, Zenon DEF RateLimit
  <2>2. call[c].pc = "fetch" /\ UnderWay(c) /\ Goto(c, "finally")
    BY <1>10, Zenon DEF RateLimit, Answers, UnderWay
  <2>3. s \in Nat /\ OpenTime \in Nat /\ asked \in Nat
    BY <1>0, ConstantsOK DEF ConstantsOK, NumbersOK
  <2>4. cooldown' = Greater(s, OpenTime) /\ asked' = Greater(asked, s)
    BY <2>1, Zenon DEF RecordRateLimited
  <2>5. CASE s > 0 /\ s >= asked
    <3>1. cooldown' >= asked'
      BY <2>3, <2>4, <2>5 DEF Greater
    <3>2. \A d \in Calls : UnderWay(d)' => d # c /\ call[d].pc # "idle"
      BY <1>0, <2>2, Zenon DEF Goto, UnderWay, CallsOK, CallRecords
    <3>3. warned' = {d \in Calls \ {c} : call[d].pc # "idle"}
      BY <2>1, <2>5, Zenon DEF Warns
    <3> QED
      BY <3>1, <3>2, <3>3, Zenon DEF PauseInForce
  <2>6. CASE ~(s > 0 /\ s >= asked)
    <3>1. asked' = asked
      BY <2>3, <2>4, <2>6 DEF Greater
    <3> QED
      BY <1>7, <2>1, <2>2, <2>6, <3>1, Zenon
  <2> QED
    BY <2>5, <2>6
<1>11. ASSUME NEW c \in Calls, Finish(c) PROVE PauseInForce'
  <2>1. /\ cooldown' = cooldown /\ asked' = asked /\ overtaken' = overtaken
        /\ warned' = warned \ {c}
    BY <1>11, Zenon DEF Finish, DropTrial
  <2>2. \A d \in Calls : UnderWay(d)' => UnderWay(d) /\ d # c
    BY <1>0, <1>11, Zenon DEF Finish, NoCall, UnderWay, CallsOK, CallRecords
  <2> QED
    BY <2>1, <2>2, Zenon DEF PauseInForce
<1>12. CASE UNCHANGED vars
  BY <1>12, Zenon DEF vars, PauseInForce, UnderWay
<1> QED
  BY <1>1, <1>2, <1>4, <1>5, <1>6, <1>8, <1>9, <1>10, <1>11, <1>12, Zenon
     DEF Next, Proceed, Answer, Abort, FailTransiently, Answers

\* A pause is cut short only by the outcome of a call that was under way when the
\* provider asked for it, for any number of calls and any Retry-After.
THEOREM PauseStands == Spec => []PauseCutOnlyByStragglers
<1>1. Init => PauseInForce
  BY DEF Init, PauseInForce
<1>2. PauseInForce => PauseCutOnlyByStragglers
  BY Zenon DEF PauseInForce, PauseCutOnlyByStragglers
<1> QED
  BY <1>1, <1>2, PauseInForceStep, TypeCorrect, PTL DEF Spec

-----------------------------------------------------------------------------

\* A step that neither admits nor finishes a call keeps the call's claim to the
\* trial; finishing one drops the trial itself.
LEMMA ClaimSurvives ==
  CallsOK /\ [Next]_vars =>
    \/ trial' = FALSE
    \/ \E c \in Calls : Admit(c)
    \/ \A c \in Calls : /\ call[c].pc # "idle" => call'[c].pc # "idle"
                        /\ call'[c].probing = call[c].probing
<1> DEFINE Claim(c) == /\ call[c].pc # "idle" => call'[c].pc # "idle"
                       /\ call'[c].probing = call[c].probing
<1> SUFFICES ASSUME CallsOK, [Next]_vars, \A c \in Calls : ~Admit(c), trial' # FALSE
             PROVE  \A c \in Calls : Claim(c)
  BY Zenon
<1> USE DEF CallsOK, CallRecords
<1>1. CASE Tick
  BY <1>1, Zenon DEF Tick
<1>2. ASSUME NEW d \in Calls, NEW pc \in {"budget", "finally"}, Goto(d, pc)
      PROVE  \A c \in Calls : Claim(c)
  BY <1>2, Zenon DEF Goto
<1>3. ASSUME NEW d \in Calls, StartAttempt(d) PROVE \A c \in Calls : Claim(c)
  BY <1>3, Zenon DEF StartAttempt
<1>4. ASSUME NEW d \in Calls, Retry(d) PROVE \A c \in Calls : Claim(c)
  BY <1>4, Zenon DEF Retry
<1>5. ASSUME NEW d \in Calls, Finish(d) PROVE FALSE
  BY <1>5, Zenon DEF Finish, DropTrial
<1>6. CASE UNCHANGED vars
  BY <1>6, Zenon DEF vars
<1> QED
  BY <1>1, <1>2, <1>3, <1>4, <1>5, <1>6, Zenon
     DEF Next, Proceed, Answer, BudgetRefuses, Resume, Abort, FailTransiently, GiveUp,
         Succeed, Reject, RateLimit, ParseThrows

\* The trial is taken by canAttempt and by nothing else.
LEMMA OnlyAdmitTakesTrial ==
  [Next]_vars /\ trial' /\ ~trial => \E c \in Calls : Admit(c)
BY Zenon DEF Next, Proceed, Answer, BudgetRefuses, StartAttempt, Abort, Resume, Finish, Succeed,
   Reject, RateLimit, ParseThrows, FailTransiently, Retry, GiveUp, DropTrial, RecordFailure,
   RecordSuccess, RecordRateLimited, Tick, breaker, vars

\* No path out of request leaves the half-open trial behind: the flag never
\* outlives the call it was given to.
THEOREM TrialNeverLeaks == Spec => []NoLeakedTrial
<1>1. Init => NoLeakedTrial
  BY Zenon DEF Init, NoLeakedTrial
<1>2. CallsOK /\ NoLeakedTrial /\ [Next]_vars => NoLeakedTrial'
  <2> SUFFICES ASSUME CallsOK, NoLeakedTrial, [Next]_vars, trial' PROVE NoLeakedTrial'
    BY Zenon DEF NoLeakedTrial
  <2>1. ASSUME NEW c \in Calls, Admit(c) PROVE NoLeakedTrial'
    <3>1. call'[c].pc = "budget" /\ call'[c].probing = (cooldown = 0)
      BY <2>1, Zenon DEF Admit, NoCall, CallsOK
    <3>2. trial' = (cooldown = 0)
      BY <2>1, Zenon DEF Admit
    <3> QED
      BY <3>1, <3>2, Zenon DEF NoLeakedTrial
  <2>2. ASSUME \A c \in Calls : /\ call[c].pc # "idle" => call'[c].pc # "idle"
                                /\ call'[c].probing = call[c].probing
        PROVE  NoLeakedTrial'
    <3>1. CASE trial
      BY <2>2, <3>1, Zenon DEF NoLeakedTrial
    <3>2. CASE ~trial
      BY <2>1, <3>2, OnlyAdmitTakesTrial, Zenon
    <3> QED
      BY <3>1, <3>2
  <2> QED
    BY <2>1, <2>2, ClaimSurvives, Zenon
<1>3. TypeOK => CallsOK
  BY Zenon DEF TypeOK, CallsOK, CallRecords
<1> QED
  BY <1>1, <1>2, <1>3, TypeCorrect, PTL DEF Spec

-----------------------------------------------------------------------------

\* What an attempt in flight remembers of its deadline.  When the ceiling cuts it
\* short, the attempt and the budget run out together, which is why "expired" and
\* "cut" read after the abort judge the allowance given before it.
AttemptOK(c) ==
  call[c].pc = "fetch" =>
    /\ call[c].allowance <= Cap
    /\ call[c].cut <=> Cap < call[c].budget /\ call[c].allowance < Cap
    /\ call[c].cut => call[c].left = call[c].timer

AttemptsOK == \A c \in Calls : AttemptOK(c)

LEMMA AttemptsStep == TypeOK /\ AttemptsOK /\ [Next]_vars => AttemptsOK'
<1> SUFFICES ASSUME TypeOK, AttemptsOK, [Next]_vars, NEW c \in Calls PROVE AttemptOK(c)'
  BY DEF AttemptsOK
<1>0. CallsOK
  BY Zenon DEF TypeOK, CallsOK, CallRecords
<1>1. AttemptOK(c)
  BY DEF AttemptsOK
<1>2. CASE Tick
  <2>1. /\ call'[c].pc = call[c].pc /\ call'[c].allowance = call[c].allowance
        /\ call'[c].budget = call[c].budget /\ call'[c].cut = call[c].cut
        /\ call'[c].left = Elapse(call[c].left) /\ call'[c].timer = Elapse(call[c].timer)
    BY <1>0, <1>2, Zenon DEF Tick, CallsOK, CallRecords
  <2> QED
    BY <1>1, <2>1, Zenon DEF AttemptOK
<1>3. ASSUME call'[c] = call[c] PROVE AttemptOK(c)'
  BY <1>1, <1>3, Zenon DEF AttemptOK
<1>4. ASSUME call'[c].pc # "fetch" PROVE AttemptOK(c)'
  BY <1>4, Zenon DEF AttemptOK
<1>5. CASE StartAttempt(c)
  <2>1. /\ call'[c].allowance = Allowance(call[c].left)
        /\ call'[c].timer = Allowance(call[c].left)
        /\ call'[c].cut = CutsCallShort(call[c].budget, call[c].left)
        /\ call'[c].left = call[c].left /\ call'[c].budget = call[c].budget
    BY <1>0, <1>5, Zenon DEF StartAttempt, CallsOK, CallRecords
  <2>2. call[c].left \in Nat
    BY <1>0, Zenon DEF CallsOK, CallRecords
  <2>3. Allowance(call[c].left) <= Cap
    BY <2>2, ConstantsOK DEF ConstantsOK, Allowance, Lesser
  <2>4. CutsCallShort(call[c].budget, call[c].left)
        <=> Cap < call[c].budget /\ Allowance(call[c].left) < Cap
    BY <2>2, ConstantsOK DEF ConstantsOK, Allowance, Lesser, CutsCallShort
  <2>5. CutsCallShort(call[c].budget, call[c].left)
        => call[c].left = Allowance(call[c].left)
    BY <2>2, ConstantsOK DEF ConstantsOK, Allowance, Lesser, CutsCallShort
  <2> QED
    BY <2>1, <2>3, <2>4, <2>5, Zenon DEF AttemptOK
<1>6. ASSUME ~Tick, ~StartAttempt(c) PROVE call'[c] = call[c] \/ call'[c].pc # "fetch"
  <2>1. ASSUME NEW d \in Calls, NEW pc \in {"budget", "finally"}, Goto(d, pc)
        PROVE  call'[c] = call[c] \/ call'[c].pc # "fetch"
    BY <1>0, <2>1, Zenon DEF Goto, CallsOK, CallRecords
  <2>2. ASSUME NEW d \in Calls, StartAttempt(d) PROVE call'[c] = call[c]
    BY <1>0, <1>6, <2>2, Zenon DEF StartAttempt, CallsOK
  <2>3. ASSUME NEW d \in Calls, Retry(d)
        PROVE  call'[c] = call[c] \/ call'[c].pc # "fetch"
    BY <1>0, <2>3, Zenon DEF Retry, CallsOK, CallRecords
  <2>4. ASSUME NEW d \in Calls, Admit(d) \/ Finish(d)
        PROVE  call'[c] = call[c] \/ call'[c].pc # "fetch"
    <3>1. Admit(d) => call'[d].pc = "budget" /\ (c # d => call'[c] = call[c])
      BY <1>0, Zenon DEF Admit, NoCall, CallsOK
    <3>2. Finish(d) => call'[d] = NoCall /\ (c # d => call'[c] = call[c])
      BY <1>0, Zenon DEF Finish, CallsOK
    <3>3. NoCall.pc # "fetch" /\ "budget" # "fetch"
      BY Zenon DEF NoCall
    <3> QED
      BY <2>4, <3>1, <3>2, <3>3, Zenon
  <2>5. CASE UNCHANGED vars
    BY <2>5, Zenon DEF vars
  <2> QED
    BY <1>6, <2>1, <2>2, <2>3, <2>4, <2>5, Zenon
       DEF Next, Proceed, Answer, BudgetRefuses, Resume, Abort, FailTransiently, GiveUp,
           Succeed, Reject, RateLimit, ParseThrows
<1> QED
  BY <1>2, <1>3, <1>4, <1>5, <1>6

\* A timeout moves the failure counter exactly when the attempt had all the time
\* that one call can have: our own brake is not evidence and a hang always is.
THEOREM TimeoutsJudgedByAllowance == Spec => TimeoutIsEvidence
<1> DEFINE Judged(c) == Abort(c) /\ call'[c].pc = "finally" /\ failures < Threshold =>
                          (failures' > failures <=>
                             call[c].budget <= Cap \/ call[c].allowance = Cap)
<1>1. Init => AttemptsOK
  <2>1. NoCall.pc # "fetch"
    BY Zenon DEF NoCall
  <2> QED
    BY <2>1, Zenon DEF Init, AttemptsOK, AttemptOK
<1>2. TypeOK /\ AttemptsOK => \A c \in Calls : Judged(c)
  <2> SUFFICES ASSUME TypeOK, AttemptsOK, NEW c \in Calls,
                      Abort(c), call'[c].pc = "finally", failures < Threshold
               PROVE  failures' > failures <=> call[c].budget <= Cap \/ call[c].allowance = Cap
    OBVIOUS
  <2>0. CallsOK /\ NumbersOK
    BY Zenon DEF TypeOK, CallsOK, CallRecords, NumbersOK
  <2>1. /\ call[c].allowance \in Nat /\ call[c].budget \in Nat
        /\ call[c].left \in Nat /\ call[c].cut \in BOOLEAN
    BY <2>0, Zenon DEF CallsOK, CallRecords
  <2>2. ~Retry(c)
    BY <2>0, Zenon DEF Retry, CallsOK, CallRecords
  <2>3. GiveUp(c) /\ call[c].pc = "fetch" /\ call[c].timer = 0
    BY <2>2, Zenon DEF Abort
  <2>4. /\ call[c].allowance <= Cap
        /\ call[c].cut <=> Cap < call[c].budget /\ call[c].allowance < Cap
        /\ call[c].cut => call[c].left = 0
    BY <2>3, Zenon DEF AttemptsOK, AttemptOK
  <2>5. Excused(c) <=> call[c].cut
    BY <2>4, Zenon DEF Excused
  <2>6. call[c].cut <=> ~(call[c].budget <= Cap \/ call[c].allowance = Cap)
    <3>1. Cap < call[c].budget /\ call[c].allowance < Cap
          <=> ~(call[c].budget <= Cap \/ call[c].allowance = Cap)
      BY <2>1, <2>4, ConstantsOK DEF ConstantsOK
    <3> QED
      BY <2>4, <3>1, Zenon
  <2>7. ASSUME Excused(c) PROVE ~(failures' > failures)
    <3>1. failures' = failures
      BY <2>3, <2>7, Zenon DEF GiveUp, DropTrial
    <3> QED
      BY <2>0, <3>1, ConstantsOK DEF NumbersOK, ConstantsOK
  <2>8. ASSUME ~Excused(c) PROVE failures' > failures
    <3>1. failures' = Lesser(failures + 1, Threshold)
      BY <2>3, <2>8, Zenon DEF GiveUp, RecordFailure
    <3> QED
      BY <2>0, <3>1, ConstantsOK DEF NumbersOK, ConstantsOK, Lesser
  <2> QED
    BY <2>5, <2>6, <2>7, <2>8, Zenon
<1>3. TypeOK /\ AttemptsOK /\ [Next]_vars => [\A c \in Calls : Judged(c)]_vars
  BY <1>2, Zenon
<1> QED
  BY <1>1, <1>3, AttemptsStep, TypeCorrect, PTL DEF Spec, TimeoutIsEvidence

=============================================================================
