--------------------------- MODULE ProviderBudget ---------------------------
(***************************************************************************)
(* ProviderBudget.tryConsume for one provider, called from every instance. *)
(* A call asks the windows one after the other (minute, hour, day: levels  *)
(* 1, 2, 3) and stops at the first that refuses.  To ask is to count: in   *)
(* Redis, in one atomic script, and when that fails in this instance's own *)
(* map.  The clock is read once per window, before Redis is asked, and     *)
(* gives the bucket that is counted in; the answer may come when that      *)
(* bucket is over.                                                         *)
(*                                                                         *)
(* A counter lives for at least the length of its window (EXPIRE, the test *)
(* in incrementLocal, pruneLocal), hence at least as long as its bucket,   *)
(* and goes some time after that.                                          *)
(***************************************************************************)
EXTENDS Integers, FiniteSets, Functions

CONSTANTS Instances, \* processes: one that restarts is a new one, its map empty
          Calls,     \* the calls that ask at one time
          Home,      \* the instance of each
          Levels,    \* the number of windows
          Limit,     \* ProviderBudgetLimits, by level
          Length,    \* WINDOW_SECONDS, by level, in ticks
          Weights,   \* the units a call may cost
          MaxCount,  \* bound: a counter is asked while it is less
          MaxTime    \* bound: the last instant

Redis == "redis"
Sources == Instances \union {Redis}
Buckets == 0 .. MaxTime

ASSUME BudgetConstantsOK ==
  /\ Levels \in Nat \ {0}
  /\ Limit \in [1 .. Levels -> Nat]
  /\ Length \in [1 .. Levels -> Nat \ {0}]
  /\ Weights \subseteq Nat \ {0}
  /\ Home \in [Calls -> Instances]
  /\ Redis \notin Instances
  /\ IsFiniteSet(Instances) /\ IsFiniteSet(Calls)
  /\ MaxCount \in Nat
  /\ MaxTime \in Nat

VARIABLES now,       \* the clock
          count,     \* the counters, by place, level and bucket; 0: there is none
          call,      \* how far each call has got
          admitted,  \* history: units that a counter let through while its bucket lasted
          straggled  \* history: a call was let through by a bucket that was over

vars == <<now, count, call, admitted, straggled>>

Idle == [level |-> 0, units |-> 0, bucket |-> 0]

Over(level, bucket)    == (bucket + 1) * Length[level] <= now
Current(level, bucket) == bucket * Length[level] <= now /\ ~Over(level, bucket)

-----------------------------------------------------------------------------

\* tryConsume begins, or goes on to its next window: the clock is read.
Asks(c, level, units) ==
  \E bucket \in Buckets :
    /\ Current(level, bucket)
    /\ call' = [call EXCEPT ![c] = [level |-> level, units |-> units, bucket |-> bucket]]

TryConsume(c, units) ==
  /\ call[c] = Idle
  /\ Asks(c, 1, units)
  /\ UNCHANGED <<now, count, admitted, straggled>>

Ends(c) == call' = [call EXCEPT ![c] = Idle]

\* MUTANTS: a definition named Of_How is Of with one plausible slip in the code.
\* None is part of the model; each shows that a property can fail.
Fits_CheckFirst(c, source) ==
  count[source][call[c].level][call[c].bucket] <= Limit[call[c].level]

\* The verdict is on the count with this call's units in it.
Fits(c, source) ==
  count[source][call[c].level][call[c].bucket] + call[c].units <= Limit[call[c].level]

LetThrough(c, source) ==
  LET level == call[c].level  bucket == call[c].bucket  units == call[c].units
  IN IF Current(level, bucket)
     THEN /\ admitted' = [admitted EXCEPT ![source][level][bucket] = @ + units]
          /\ UNCHANGED straggled
     ELSE /\ straggled' = TRUE
          /\ UNCHANGED admitted

\* The last window's answer is the verdict; before it, the next one is asked.
GoOn(c) == IF call[c].level = Levels THEN Ends(c) ELSE Asks(c, call[c].level + 1, call[c].units)

Refuse_GoOn(c) == GoOn(c) /\ UNCHANGED <<admitted, straggled>>
Refuse(c) == Ends(c) /\ UNCHANGED <<admitted, straggled>>

Verdict(c, source) ==
  IF Fits(c, source) THEN LetThrough(c, source) /\ GoOn(c) ELSE Refuse(c)

Counts(c, source) ==
  [count EXCEPT ![source][call[c].level][call[c].bucket] = @ + call[c].units]

Asking(c, source) ==
  /\ call[c] # Idle
  /\ count[source][call[c].level][call[c].bucket] < MaxCount

\* incrementWithTtl answers.
CountShared(c) ==
  /\ Asking(c, Redis)
  /\ count' = Counts(c, Redis)
  /\ Verdict(c, Redis)
  /\ UNCHANGED now

\* Redis fails, and this instance counts for itself.
CountLocal(c) ==
  /\ Asking(c, Home[c])
  /\ count' = Counts(c, Home[c])
  /\ Verdict(c, Home[c])
  /\ UNCHANGED now

\* Redis has counted, and fails all the same: the answer is lost.
LoseAnswer(c) ==
  /\ Asking(c, Redis)
  /\ Asking(c, Home[c])
  /\ LET level == call[c].level  bucket == call[c].bucket
     IN count' = [count EXCEPT ![Redis][level][bucket] = @ + call[c].units,
                               ![Home[c]][level][bucket] = @ + call[c].units]
  /\ Verdict(c, Home[c])
  /\ UNCHANGED now

\* A counter whose bucket is over goes; asked once more, it begins again.
Expire(source, level, bucket) ==
  /\ Over(level, bucket)
  /\ count[source][level][bucket] # 0
  /\ count' = [count EXCEPT ![source][level][bucket] = 0]
  /\ UNCHANGED <<now, call, admitted, straggled>>

Tick ==
  /\ now < MaxTime
  /\ now' = now + 1
  /\ UNCHANGED <<count, call, admitted, straggled>>

None == [s \in Sources |-> [l \in 1 .. Levels |-> [b \in Buckets |-> 0]]]

Init ==
  /\ now = 0
  /\ count = None
  /\ call = [c \in Calls |-> Idle]
  /\ admitted = None
  /\ straggled = FALSE

Next ==
  \/ Tick
  \/ \E c \in Calls :
       \/ \E units \in Weights : TryConsume(c, units)
       \/ CountShared(c) \/ CountLocal(c) \/ LoseAnswer(c)
  \/ \E source \in Sources, level \in 1 .. Levels, bucket \in Buckets :
       Expire(source, level, bucket)

Spec == Init /\ [][Next]_vars

-----------------------------------------------------------------------------
(* Properties.                                                             *)

TypeOK ==
  /\ now \in 0 .. MaxTime
  /\ count \in [Sources -> [1 .. Levels -> [Buckets -> Nat]]]
  /\ call \in [Calls -> {Idle} \union [level : 1 .. Levels, units : Nat, bucket : Buckets]]
  /\ admitted \in [Sources -> [1 .. Levels -> [Buckets -> Nat]]]
  /\ straggled \in BOOLEAN

\* However the calls of all instances interleave, and Redis fails and comes back
\* between or within them, no counter lets more through in a window than the
\* limit: together never more than one limit for Redis and one for each instance
\* that fell back (provider-budget.ts:78-88, 176-207).
BudgetHolds ==
  \A source \in Sources, level \in 1 .. Levels, bucket \in Buckets :
    admitted[source][level][bucket] <= Limit[level]

\* What a counter let through, in all the buckets of a level.
LetThroughAt(level) ==
  SumFunction([p \in Sources \X Buckets |-> admitted[p[1]][level][p[2]]])

\* Calls that are refused, however many, spend nothing of the windows after: the
\* counter of a later window holds no more than the window before let through, so
\* calls that are never sent do not exhaust the day (provider-budget.ts:129-139).
RefusalsSpareLaterWindows ==
  ~straggled => \A level \in 1 .. Levels - 1, bucket \in Buckets :
                  count[Redis][level + 1][bucket] <= LetThroughAt(level)
=============================================================================
