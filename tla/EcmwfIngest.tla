---------------------------- MODULE EcmwfIngest ----------------------------
(***************************************************************************)
(* The marine forecast ingest (EcmwfIngestTarget, EcmwfIngestStore) run by *)
(* the warm-up tours of WarmupTours, and the choice of the cycle a read is *)
(* served from (ecmwf-series-compile.ts).                                  *)
(*                                                                         *)
(* A step of a cycle is one tick, and Interval ticks pass between cycles.  *)
(* Cycles are numbered from the first that a tour may ask for, and the     *)
(* clock runs from that instant, which is Lag ticks after the start of     *)
(* that cycle.  `rows' holds, for each cycle, the steps in its point       *)
(* series: one transaction writes all points, so the steps are those of    *)
(* every point.  A tour selects a cycle by its ledger row, and then        *)
(* fetches and records one missing step after another.  recordStep reads   *)
(* the ledger row without a lock, writes it from what it read, which does  *)
(* lock it, and merges into the series as they are by then: reading is one *)
(* action, the rest up to the commit another.  The provider is external; a *)
(* deadline, a step or byte cap, a failed download and a refused or        *)
(* crashed decode all end the slice between two steps.                     *)
(***************************************************************************)
EXTENDS WarmupTours, FiniteSets

CONSTANTS Interval,      \* ECMWF_CYCLE_INTERVAL_HOURS, in steps
          Lag,           \* ECMWF_PUBLICATION_LAG_HOURS, in steps
          LastStep,      \* forecastHours, in steps
          Fallbacks,     \* ECMWF_MAX_FALLBACK_CYCLES
          Retained,      \* ECMWF_RETAINED_CYCLES
          MaxAge,        \* ECMWF_CYCLE_MAX_AGE_SECONDS, in ticks
          MaxTime        \* bound: the last instant

ASSUME EcmwfConstantsOK ==
  /\ Interval \in Nat \ {0}
  /\ Lag \in Nat
  /\ LastStep \in Nat
  /\ Fallbacks \in Nat
  /\ Retained \in Nat \ {0}
  /\ MaxAge \in Nat
  /\ MaxTime \in Nat

VARIABLES now,         \* the clock
          published,   \* cycles the provider answers for
          ledger,      \* marine_ecmwf_cycles: steps_done by cycle
          rows,        \* marine_ecmwf_point_series: steps by cycle
          tour         \* what the tour of each instance works on

vars == <<lock, at, outlived, now, published, ledger, rows, tour>>

Steps == 0 .. LastStep
Cycles == 0 .. MaxTime \div Interval
CycleStart(c) == c * Interval - Lag

\* candidateCycles: the newest cycle that started Lag ticks ago or more.
NewestCycle == now \div Interval

NoCycle == {-1}
Known(c) == ledger[c] # NoCycle
StepsDone(c) == IF Known(c) THEN ledger[c] ELSE {}

\* isCycleComplete, and completed_at with it.
Complete(c) == ledger[c] = Steps

NoTour == [cycle |-> 0, oldest |-> 0, asOf |-> 0, todo |-> {}, first |-> 0, fresh |-> FALSE,
           recorded |-> FALSE, read |-> {}]

-----------------------------------------------------------------------------
(* What a read is served from.                                             *)

Distance(c, s, t) == LET d == CycleStart(c) + s - t IN IF d < 0 THEN -d ELSE d

\* The stored step nearest to now; the earlier of two.
Anchor(c) ==
  CHOOSE s \in rows[c] :
    \A other \in rows[c] : \/ Distance(c, s, now) < Distance(c, other, now)
                           \/ Distance(c, s, now) = Distance(c, other, now) /\ s <= other

\* selectPublishedRun: the contiguous steps around it.
Run(c) ==
  IF rows[c] = {} THEN {}
  ELSE LET Between(s) == (s .. Anchor(c)) \union (Anchor(c) .. s)
       IN {s \in rows[c] : Between(s) \subseteq rows[c]}

Newest(n) ==
  {c \in Cycles : Known(c) /\ Cardinality({d \in Cycles : Known(d) /\ d > c}) < n}

Candidates == {c \in Newest(Retained) : rows[c] # {} /\ now - CycleStart(c) <= MaxAge}

\* selectPublishableCycle: the longest run, the newest of equals.
Served_Newest == {c \in Candidates : \A d \in Candidates : d <= c}
Served ==
  {c \in Candidates : \A d \in Candidates :
     \/ Cardinality(Run(c)) > Cardinality(Run(d))
     \/ Cardinality(Run(c)) = Cardinality(Run(d)) /\ d <= c}

-----------------------------------------------------------------------------
(* selectCycle.                                                            *)

\* A slice begins; the clock is read, once, and gives the candidates, newest first.
StartTour(i) ==
  /\ Take(i, "select")
  /\ tour' = [tour EXCEPT ![i] = [NoTour EXCEPT !.asOf = now,
                                               !.cycle = NewestCycle,
                                               !.oldest = NewestCycle - Fallbacks]]
  /\ UNCHANGED <<now, published, ledger, rows>>

\* Goes on to its pruning when it recorded something, else ends.
Leave(i, to) == at' = [at EXCEPT ![i] = to] /\ tour' = [tour EXCEPT ![i] = NoTour]
Finish(i) == Leave(i, IF tour[i].recorded THEN "prune" ELSE "release")

\* The newest candidate is complete: no work.
NothingToDo(i) ==
  /\ at[i] = "select"
  /\ Complete(tour[i].cycle)
  /\ Finish(i)
  /\ UNCHANGED <<lock, outlived, now, published, ledger, rows>>

\* orderStepsForIngest: the missing step nearest to that instant, then the others upwards.
Select(i) ==
  LET c == tour[i].cycle
      missing == Steps \ StepsDone(c)
      Nearer(s, other) == Distance(c, s, tour[i].asOf) < Distance(c, other, tour[i].asOf)
  IN /\ at[i] = "select"
     /\ ~Complete(c)
     /\ at' = [at EXCEPT ![i] = "step"]
     /\ tour' = [tour EXCEPT ![i].todo = missing,
                             ![i].first = CHOOSE s \in missing :
                               \A other \in missing : ~Nearer(other, s) /\ (Nearer(s, other) \/ s <= other),
                             ![i].fresh = ~Known(c)]
     /\ UNCHANGED <<lock, outlived, now, published, ledger, rows>>

\* Once the nearest is done, `first' is 0, which is first anyway where it is missing.
NextStep(i) ==
  IF tour[i].first \in tour[i].todo THEN tour[i].first
  ELSE CHOOSE s \in tour[i].todo : \A other \in tour[i].todo : s <= other

-----------------------------------------------------------------------------
(* ingestSteps.                                                            *)

\* A missing index means an unpublished cycle only at a new candidate's first
\* request; the walk falls back, and ends after the oldest candidate.
Unpublished(i) ==
  /\ at[i] = "step"
  /\ tour[i].fresh
  /\ tour[i].cycle \notin published
  /\ LET older == tour[i].cycle - 1
         last  == tour[i].cycle = tour[i].oldest \/ tour[i].cycle = 0
     IN IF last THEN Leave(i, "release")
        ELSE /\ at' = [at EXCEPT ![i] = "select"]
             /\ tour' = [tour EXCEPT ![i].cycle = older]
  /\ UNCHANGED <<lock, outlived, now, published, ledger, rows>>

\* Nothing is left, nothing more can be afforded, or a request or decode failed.
Stop(i) ==
  /\ at[i] = "step"
  /\ Finish(i)
  /\ UNCHANGED <<lock, outlived, now, published, ledger, rows>>

\* Index, ranges and decode succeed; recordStep reads the ledger row.
Fetch(i) ==
  /\ at[i] = "step"
  /\ tour[i].todo # {}
  /\ tour[i].cycle \in published
  /\ at' = [at EXCEPT ![i] = "record"]
  /\ tour' = [tour EXCEPT ![i].read = StepsDone(tour[i].cycle)]
  /\ UNCHANGED <<lock, outlived, now, published, ledger, rows>>

\* The series a step is merged into: as they are when the ledger row is locked.
Merged_AsRead(i) == tour[i].read \union {NextStep(i)}
Merged(i) == rows[tour[i].cycle] \union {NextStep(i)}

\* recordStep commits the ledger row and the series together.
Record(i) ==
  LET c == tour[i].cycle
      s == NextStep(i)
  IN /\ at[i] = "record"
     /\ ledger' = [ledger EXCEPT ![c] = tour[i].read \union {s}]
     /\ rows' = [rows EXCEPT ![c] = Merged(i)]
     /\ at' = [at EXCEPT ![i] = "step"]
     /\ tour' = [tour EXCEPT ![i] = [NoTour EXCEPT !.cycle = c, !.todo = tour[i].todo \ {s},
                                                  !.recorded = TRUE]]
     /\ UNCHANGED <<lock, outlived, now, published>>

\* The transaction fails and is rolled back; the slice is aborted.
RecordFails_LedgerKept(i) ==
  /\ at[i] = "record"
  /\ Leave(i, "release")
  /\ ledger' = [ledger EXCEPT ![tour[i].cycle] = tour[i].read \union {NextStep(i)}]
  /\ UNCHANGED <<lock, outlived, now, published, rows>>

RecordFails(i) ==
  /\ at[i] = "record"
  /\ Leave(i, "release")
  /\ UNCHANGED <<lock, outlived, now, published, ledger, rows>>

\* pruneCycles finds the oldest cycle to keep; with fewer cycles nothing goes.
FindOldest(i) ==
  /\ at[i] = "prune"
  /\ LET kept == Newest(Retained)
     IN IF Cardinality(kept) < Retained
        THEN Leave(i, "release")
        ELSE \E oldest \in kept :
               /\ \A c \in kept : oldest <= c
               /\ at' = [at EXCEPT ![i] = "delete"]
               /\ tour' = [tour EXCEPT ![i] = [NoTour EXCEPT !.oldest = oldest]]
  /\ UNCHANGED <<lock, outlived, now, published, ledger, rows>>

\* Another statement deletes what is older, series and all.
Prune(i) ==
  /\ at[i] = "delete"
  /\ LET gone == {c \in Cycles : c < tour[i].oldest}
     IN /\ ledger' = [c \in Cycles |-> IF c \in gone THEN NoCycle ELSE ledger[c]]
        /\ rows' = [c \in Cycles |-> IF c \in gone THEN {} ELSE rows[c]]
  /\ Leave(i, "release")
  /\ UNCHANGED <<lock, outlived, now, published>>

\* Either statement fails, and the tour ends.
PruneFails(i) ==
  /\ at[i] \in {"prune", "delete"}
  /\ Leave(i, "release")
  /\ UNCHANGED <<lock, outlived, now, published, ledger, rows>>

EndTour(i) ==
  /\ at[i] = "release"
  /\ Release(i)
  /\ UNCHANGED <<now, published, ledger, rows, tour>>

Crash(i) ==
  /\ Die(i)
  /\ tour' = [tour EXCEPT ![i] = NoTour]
  /\ UNCHANGED <<now, published, ledger, rows>>

-----------------------------------------------------------------------------

LockStep ==
  /\ \/ Expire
     \/ \E i \in Instances : AnswerLost(i)
  /\ UNCHANGED <<now, published, ledger, rows, tour>>

\* External: the provider publishes a cycle whose time has come.
Publish(c) ==
  /\ c <= NewestCycle
  /\ c \notin published
  /\ published' = published \union {c}
  /\ UNCHANGED <<lock, at, outlived, now, ledger, rows, tour>>

Tick ==
  /\ now < MaxTime
  /\ now' = now + 1
  /\ UNCHANGED <<lock, at, outlived, published, ledger, rows, tour>>

Init ==
  /\ InitTours
  /\ now = 0
  /\ published = {}
  /\ ledger = [c \in Cycles |-> NoCycle]
  /\ rows = [c \in Cycles |-> {}]
  /\ tour = [i \in Instances |-> NoTour]

Next ==
  \/ LockStep
  \/ Tick
  \/ \E c \in Cycles : Publish(c)
  \/ \E i \in Instances :
       \/ StartTour(i) \/ NothingToDo(i) \/ Select(i) \/ Unpublished(i) \/ Stop(i)
       \/ Fetch(i) \/ Record(i) \/ RecordFails(i) \/ FindOldest(i) \/ Prune(i)
       \/ PruneFails(i) \/ EndTour(i) \/ Crash(i)

Spec == Init /\ [][Next]_vars

-----------------------------------------------------------------------------
(* Properties.                                                             *)

TypeOK ==
  /\ lock \in Instances \union {Nobody}
  /\ at \in [Instances -> {"idle", "select", "step", "record", "prune", "delete",
                           "release"}]
  /\ now \in 0 .. MaxTime
  /\ published \subseteq Cycles
  /\ \A c \in Cycles : ledger[c] \in (SUBSET Steps) \union {NoCycle} /\ rows[c] \subseteq Steps

\* A step the ledger lists, and no tour will fetch again, is in every series
\* (ecmwf-ingest.store.ts:90-97).  Only a tour that outlived its lock may break it.
ListedStepsAreStored ==
  outlived = 0 => \A c \in Cycles : StepsDone(c) \subseteq rows[c]

\* The same whatever the tours do (a half-written step is to be unrepresentable).
NoHoleIsEverListed == \A c \in Cycles : StepsDone(c) \subseteq rows[c]

\* A stored step goes only with its whole cycle, even when two tours record the
\* same cycle and one overwrites what the other listed.
StoredStepsStay ==
  [][\A c \in Cycles : rows[c] \subseteq rows'[c] \/ ledger'[c] = NoCycle]_vars

\* What was fetched is not fetched again: a listed step stays listed while its
\* cycle is retained, unless a tour outlived its lock and wrote from an older
\* reading (ecmwf-ingest.store.ts:94-97).
ListedStepsStay ==
  [][outlived = 0 =>
       \A c \in Cycles : StepsDone(c) \subseteq StepsDone(c)' \/ ledger'[c] = NoCycle]_vars

\* A cycle that begins to fill takes nothing from what is served: while a whole
\* cycle is retained and young enough, the published horizon reaches its end
\* (ecmwf-series.reader.ts:100-104, ecmwf-series-compile.ts:105-120).
WholeCycleHoldsTheHorizon ==
  \A c \in Cycles : rows[c] = Steps /\ c \in Candidates =>
    \E d \in Served : \E s \in Run(d) : d * Interval + s >= c * Interval + LastStep
=============================================================================
