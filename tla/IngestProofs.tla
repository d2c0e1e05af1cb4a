---------------------------- MODULE IngestProofs ----------------------------
(***************************************************************************)
(* Proofs about the two ingests that warm-up tours feed.                   *)
(*                                                                         *)
(* EcmwfIngest, for any number of instances, steps, retained cycles and    *)
(* ticks.  Between the reading of a ledger row and the commit that writes  *)
(* it back nothing else may write it; that is so while no tour outlived    *)
(* its lock, because then the lock is of the one that works (`Owned').     *)
(* What the readers are given holds of any rows whatever, by a choice of a *)
(* least element.                                                          *)
(*                                                                         *)
(* EarthquakeIngest, for any events, windows, retention and bounds.  What  *)
(* a tour still has to write is no older than the row it will meet while   *)
(* it is the only tour (`AnswersFresh'); the anchor rests on runs that end *)
(* before now, so that a newest clean one exists and pruning spares it.    *)
(*                                                                         *)
(* The two share no variable and no constant.                              *)
(***************************************************************************)
EXTENDS EcmwfIngest, EarthquakeIngest, FiniteSetTheorems, WellFoundedInduction, TLAPS

Places == {"idle", "select", "step", "record", "prune", "delete", "release"}
Tours  == [cycle : Cycles, oldest : Int, asOf : 0 .. MaxTime, todo : SUBSET Steps, first : Steps,
           fresh : BOOLEAN, recorded : BOOLEAN, read : SUBSET Steps]

Typed ==
  /\ lock \in Instances \union {Nobody}
  /\ at \in [Instances -> Places]
  /\ outlived \in Nat
  /\ now \in 0 .. MaxTime
  /\ published \subseteq Cycles
  /\ ledger \in [Cycles -> (SUBSET Steps) \union {NoCycle}]
  /\ rows \in [Cycles -> SUBSET Steps]
  /\ tour \in [Instances -> Tours]

\* A tour records a step that it had to fetch.
Pending == \A i \in Instances : at[i] = "record" => tour[i].todo # {}

\* While no tour outlived its lock, the lock is of the one that works.
Owned == outlived = 0 => \A i \in Instances : at[i] # "idle" => lock = i

\* So the ledger row that a tour read is the row that it writes back.
ReadsStand ==
  outlived = 0 => \A i \in Instances : at[i] = "record" =>
                    tour[i].read = StepsDone(tour[i].cycle)

IInv == Typed /\ Pending /\ Owned /\ ReadsStand /\ ListedStepsAreStored

-----------------------------------------------------------------------------
(* Cycles and steps.                                                       *)

LEMMA DivWithin ==
  ASSUME NEW t \in Nat, NEW n \in Nat \ {0}
  PROVE  t \div n \in Nat
OBVIOUS

LEMMA DivMonotone ==
  ASSUME NEW t \in Nat, NEW u \in Nat, t <= u, NEW n \in Nat \ {0}
  PROVE  t \div n <= u \div n
<1> DEFINE q == t \div n
           p == u \div n
<1>1. q \in Int /\ p \in Int /\ q * n <= t /\ u < (p + 1) * n
  OBVIOUS
<1> HIDE DEF q, p
<1>2. q * n < (p + 1) * n
  BY <1>1
<1>3. q < p + 1
  BY <1>1, <1>2
<1> QED
  BY <1>1, <1>3 DEF q, p

LEMMA CyclesAreNat ==
  /\ MaxTime \div Interval \in Nat /\ Cycles \subseteq Nat
  /\ 0 \in Cycles
  /\ \A c \in Cycles : c # 0 => c - 1 \in Cycles
<1>1. MaxTime \div Interval \in Nat
  BY DivWithin, EcmwfConstantsOK
<1> QED
  BY <1>1 DEF Cycles

LEMMA StepsAreNat == Steps \subseteq Nat /\ 0 \in Steps /\ LastStep \in Steps
BY EcmwfConstantsOK DEF Steps

LEMMA NewestIsACycle == ASSUME Typed PROVE NewestCycle \in Cycles
<1>1. now \in Nat /\ MaxTime \in Nat /\ now <= MaxTime /\ Interval \in Nat \ {0}
  BY EcmwfConstantsOK DEF Typed
<1>2. now \div Interval \in Nat /\ now \div Interval <= MaxTime \div Interval
  BY <1>1, DivWithin, DivMonotone
<1> QED
  BY <1>2, CyclesAreNat DEF NewestCycle, Cycles

\* A set of numbers has a least one.
LEMMA Least ==
  ASSUME NEW S, S \subseteq Nat, S # {}
  PROVE  \E least \in S : \A n \in S : least <= n
<1>1. IsWellFoundedOn(OpToRel(<, Nat), Nat)
  BY NatLessThanWellFounded, Zenon
<1>2. PICK least \in S : \A n \in S : ~(<<n, least>> \in OpToRel(<, Nat))
  BY <1>1, WFMin, Zenon
<1>3. ASSUME NEW n \in S PROVE least <= n
  <2>1. SUFFICES ASSUME n < least PROVE FALSE
    OBVIOUS
  <2>2. <<n, least>> \in Nat \X Nat /\ <<n, least>>[1] < <<n, least>>[2]
    BY <2>1
  <2>3. <<n, least>> \in OpToRel(<, Nat)
    BY <2>2, Zenon DEF OpToRel
  <2> QED
    BY <1>2, <2>3
<1> QED
  BY <1>3

\* A set of cycles has a newest one: the one farthest from below the last.
LEMMA Greatest ==
  ASSUME NEW S, S \subseteq Cycles, S # {}
  PROVE  \E top \in S : \A d \in S : d <= top
<1> DEFINE last == MaxTime \div Interval
<1>1. last \in Nat /\ Cycles = 0 .. last
  BY CyclesAreNat DEF Cycles
<1> HIDE DEF last
<1> DEFINE T == {last - d : d \in S}
<1>2. T \subseteq Nat /\ T # {}
  <2>1. \A d \in S : last - d \in Nat
    BY <1>1
  <2> QED
    BY <2>1
<1> HIDE DEF T
<1>3. PICK least \in T : \A n \in T : least <= n
  BY <1>2, Least
<1>4. PICK top \in S : least = last - top
  BY DEF T
<1>5. ASSUME NEW d \in S PROVE d <= top
  <2>1. last - top <= last - d
    BY <1>3, <1>4 DEF T
  <2>2. d \in Int /\ top \in Int /\ last \in Int
    BY <1>1
  <2> QED
    BY <2>1, <2>2
<1> QED
  BY <1>5

LEMMA DistanceIsNat ==
  ASSUME NEW c \in Cycles, NEW s \in Steps, NEW time \in 0 .. MaxTime
  PROVE  Distance(c, s, time) \in Nat
<1>1. c \in Nat /\ s \in Nat /\ Interval \in Nat /\ Lag \in Nat /\ time \in Int
  BY CyclesAreNat, StepsAreNat, EcmwfConstantsOK
<1>2. c * Interval \in Int
  BY <1>1
<1> DEFINE d == CycleStart(c) + s - time
<1>3. d \in Int
  BY <1>1, <1>2 DEF CycleStart
<1>4. Distance(c, s, time) = IF d < 0 THEN -d ELSE d
  BY DEF Distance
<1> HIDE DEF d
<1> QED
  BY <1>3, <1>4

\* Of some steps one is nearest to an instant, and the earliest of those as near.
LEMMA Nearest ==
  ASSUME NEW c \in Cycles, NEW time \in 0 .. MaxTime, NEW S, S \subseteq Steps, S # {}
  PROVE  \E s \in S : \A other \in S :
           \/ Distance(c, s, time) < Distance(c, other, time)
           \/ Distance(c, s, time) = Distance(c, other, time) /\ s <= other
<1> DEFINE D == {Distance(c, s, time) : s \in S}
<1>1. D \subseteq Nat /\ D # {}
  BY DistanceIsNat
<1> HIDE DEF D
<1>2. PICK d \in D : \A e \in D : d <= e
  BY <1>1, Least
<1> DEFINE T == {s \in S : Distance(c, s, time) = d}
<1>3. T \subseteq Nat /\ T # {}
  BY StepsAreNat DEF D
<1> HIDE DEF T
<1>4. PICK s \in T : \A other \in T : s <= other
  BY <1>3, Least
<1>5. s \in S /\ Distance(c, s, time) = d
  BY DEF T
<1>6. ASSUME NEW other \in S
      PROVE  \/ Distance(c, s, time) < Distance(c, other, time)
             \/ Distance(c, s, time) = Distance(c, other, time) /\ s <= other
  <2>1. Distance(c, other, time) \in Nat /\ d \in Nat
    BY <1>1, DistanceIsNat
  <2>2. d <= Distance(c, other, time)
    BY <1>2 DEF D
  <2>3. CASE Distance(c, other, time) = d
    BY <1>4, <1>5, <2>3 DEF T
  <2>4. CASE Distance(c, other, time) # d
    BY <1>5, <2>1, <2>2, <2>4
  <2> QED
    BY <2>3, <2>4
<1> QED
  BY <1>5, <1>6

-----------------------------------------------------------------------------
(* Operators.                                                              *)

LEMMA NoTourTyped == NoTour \in Tours /\ NoTour.todo = {}
BY CyclesAreNat, StepsAreNat, EcmwfConstantsOK DEF NoTour, Tours

\* The fields of a tour.
LEMMA TourFields ==
  ASSUME Typed, NEW i \in Instances
  PROVE  /\ tour[i] \in Tours
         /\ tour[i].cycle \in Cycles /\ tour[i].oldest \in Int
         /\ tour[i].asOf \in 0 .. MaxTime
         /\ tour[i].todo \subseteq Steps /\ tour[i].first \in Steps
         /\ tour[i].fresh \in BOOLEAN /\ tour[i].recorded \in BOOLEAN
         /\ tour[i].read \subseteq Steps
<1>1. tour[i] \in Tours
  BY DEF Typed
<1> QED
  BY <1>1 DEF Tours

LEMMA SetsOfStepsAreKnown == ASSUME NEW S, S \subseteq Steps PROVE S # NoCycle
BY StepsAreNat DEF NoCycle

LEMMA StepsDoneTyped ==
  ASSUME Typed, NEW c \in Cycles
  PROVE  StepsDone(c) \subseteq Steps /\ (~Complete(c) => Steps \ StepsDone(c) # {})
<1>1. ledger[c] \in (SUBSET Steps) \union {NoCycle}
  BY DEF Typed
<1>2. CASE Known(c)
  <2>1. ledger[c] # NoCycle /\ StepsDone(c) = ledger[c]
    BY <1>2 DEF Known, StepsDone
  <2>2. ledger[c] \in SUBSET Steps
    BY <1>1, <2>1, Zenon
  <2> QED
    BY <2>1, <2>2 DEF Complete
<1>3. CASE ~Known(c)
  <2>1. StepsDone(c) = {}
    BY <1>3 DEF StepsDone
  <2> QED
    BY <2>1, StepsAreNat
<1> QED
  BY <1>2, <1>3

\* There is a next step to take while any is left.
LEMMA NextStepIsLeft ==
  ASSUME Typed, NEW i \in Instances, tour[i].todo # {}
  PROVE  NextStep(i) \in tour[i].todo /\ NextStep(i) \in Steps
<1>1. tour[i].todo \subseteq Steps /\ tour[i].todo \subseteq Nat
  BY TourFields, StepsAreNat
<1>2. CASE tour[i].first \in tour[i].todo
  BY <1>1, <1>2 DEF NextStep
<1>3. CASE tour[i].first \notin tour[i].todo
  <2>1. \E s \in tour[i].todo : \A other \in tour[i].todo : s <= other
    BY <1>1, Least
  <2>2. NextStep(i) = CHOOSE s \in tour[i].todo : \A other \in tour[i].todo : s <= other
    BY <1>3 DEF NextStep
  <2>3. NextStep(i) \in tour[i].todo
    BY <2>1, <2>2, Zenon
  <2> QED
    BY <1>1, <2>3
<1> QED
  BY <1>2, <1>3

-----------------------------------------------------------------------------
(* Steps that leave the tables alone.                                      *)

\* A tour that goes on to record has something to record, and has just read the row.
Ready(to, t) == to = "record" => t.todo # {} /\ t.read = StepsDone(t.cycle)

LEMMA TourMoves ==
  ASSUME IInv, NEW i \in Instances, NEW to \in Places, NEW t \in Tours,
         at' = [at EXCEPT ![i] = to], tour' = [tour EXCEPT ![i] = t], Ready(to, t),
         lock' \in Instances \union {Nobody},
         outlived' = 0 => \A j \in Instances : at'[j] # "idle" => lock' = j,
         UNCHANGED <<outlived, now, published, ledger, rows>>
  PROVE  IInv'
<1>1. Typed'
  BY DEF IInv, Typed, Cycles, Steps
<1>2. \A j \in Instances : \/ j # i /\ at'[j] = at[j] /\ tour'[j] = tour[j]
                           \/ j = i /\ at'[j] = to /\ tour'[j] = t
  BY DEF IInv, Typed
<1>3. Pending'
  BY <1>2 DEF IInv, Pending, Ready
<1>4. Owned'
  BY DEF Owned
<1>5. \A c : StepsDone(c)' = StepsDone(c)
  BY DEF StepsDone, Known
<1>6. ReadsStand'
  <2> SUFFICES ASSUME outlived' = 0, NEW j \in Instances, at'[j] = "record"
               PROVE  tour'[j].read = StepsDone(tour[j].cycle)'
    BY DEF ReadsStand
  <2>1. CASE j # i
    BY <1>2, <2>1 DEF IInv, ReadsStand, StepsDone, Known
  <2>2. CASE j = i
    BY <1>2, <2>2 DEF Ready, StepsDone, Known
  <2> QED
    BY <2>1, <2>2
<1>7. ListedStepsAreStored'
  BY <1>5 DEF IInv, ListedStepsAreStored
<1> QED
  BY <1>1, <1>3, <1>4, <1>6, <1>7 DEF IInv

\* The same while the lock stays with whom it is.
LEMMA WorkerMoves ==
  ASSUME IInv, NEW i \in Instances, at[i] # "idle", NEW to \in Places, NEW t \in Tours,
         at' = [at EXCEPT ![i] = to], tour' = [tour EXCEPT ![i] = t], Ready(to, t),
         UNCHANGED <<lock, outlived, now, published, ledger, rows>>
  PROVE  IInv'
<1>1. lock' \in Instances \union {Nobody}
  BY DEF IInv, Typed
<1>2. \A j \in Instances : at'[j] # "idle" => at[j] # "idle"
  BY DEF IInv, Typed
<1>3. outlived' = 0 => \A j \in Instances : at'[j] # "idle" => lock' = j
  BY <1>2 DEF IInv, Owned
<1> QED
  BY <1>1, <1>3, TourMoves

LEMMA LeaveKeeps ==
  ASSUME IInv, NEW i \in Instances, at[i] # "idle", NEW to \in Places \ {"record"},
         Leave(i, to), UNCHANGED <<lock, outlived, now, published, ledger, rows>>
  PROVE  IInv'
<1>1. Ready(to, NoTour)
  BY DEF Ready
<1> QED
  BY <1>1, NoTourTyped, WorkerMoves DEF Leave

LEMMA FinishKeeps ==
  ASSUME IInv, NEW i \in Instances, at[i] # "idle", Finish(i),
         UNCHANGED <<lock, outlived, now, published, ledger, rows>>
  PROVE  IInv'
<1>1. (IF tour[i].recorded THEN "prune" ELSE "release") \in Places \ {"record"}
  BY DEF Places
<1> QED
  BY <1>1, LeaveKeeps DEF Finish

LEMMA StartTourKeeps == ASSUME IInv, NEW i \in Instances, StartTour(i) PROVE IInv'
<1> DEFINE t == [NoTour EXCEPT !.asOf = now, !.cycle = NewestCycle, !.oldest = NewestCycle - Fallbacks]
<1>1. t \in Tours
  <2>1. NewestCycle \in Cycles
    BY NewestIsACycle DEF IInv
  <2>2. NewestCycle - Fallbacks \in Int
    BY <2>1, CyclesAreNat, EcmwfConstantsOK
  <2> QED
    BY <2>1, <2>2, NoTourTyped DEF Tours, NoTour, IInv, Typed
<1>2. tour' = [tour EXCEPT ![i] = t]
  BY DEF StartTour
<1> HIDE DEF t
<1>3. at' = [at EXCEPT ![i] = "select"] /\ lock = Nobody /\ lock' = i
  BY DEF StartTour, Take, LockTaken
<1>4. "select" \in Places /\ Ready("select", t)
  BY DEF Places, Ready
<1>5. outlived' = 0 => \A j \in Instances : at'[j] # "idle" => lock' = j
  <2>1. outlived = 0 => \A j \in Instances : at[j] = "idle"
    BY <1>3, WarmupConstantsOK DEF IInv, Owned
  <2>2. outlived' = outlived
    BY DEF StartTour, Take
  <2> QED
    BY <1>3, <2>1, <2>2 DEF IInv, Typed
<1>6. UNCHANGED <<outlived, now, published, ledger, rows>>
  BY DEF StartTour, Take
<1> QED
  BY <1>1, <1>2, <1>3, <1>4, <1>5, <1>6, TourMoves

LEMMA ThreeFields ==
  ASSUME NEW f \in [Instances -> Tours], NEW i \in Instances, NEW x, NEW y, NEW z
  PROVE  [f EXCEPT ![i].todo = x, ![i].first = y, ![i].fresh = z] =
         [f EXCEPT ![i] = [f[i] EXCEPT !.todo = x, !.first = y, !.fresh = z]]
OBVIOUS

LEMMA SelectKeeps == ASSUME IInv, NEW i \in Instances, Select(i) PROVE IInv'
<1> DEFINE c == tour[i].cycle
           asOf == tour[i].asOf
           missing == Steps \ StepsDone(c)
           Nearer(s, other) == Distance(c, s, asOf) < Distance(c, other, asOf)
           first == CHOOSE s \in missing :
                      \A other \in missing : ~Nearer(other, s) /\ (Nearer(s, other) \/ s <= other)
           t == [tour[i] EXCEPT !.todo = missing, !.first = first, !.fresh = ~Known(c)]
<1>1. Typed /\ c \in Cycles /\ ~Complete(c) /\ asOf \in 0 .. MaxTime
  BY TourFields DEF IInv, Select
<1>2. missing \subseteq Steps /\ missing # {}
  BY <1>1, StepsDoneTyped
<1>3. first \in missing
  <2>1. PICK s \in missing : \A other \in missing :
           \/ Distance(c, s, asOf) < Distance(c, other, asOf)
           \/ Distance(c, s, asOf) = Distance(c, other, asOf) /\ s <= other
    BY <1>1, <1>2, Nearest
  <2>2. \A r \in missing : Distance(c, r, asOf) \in Nat
    BY <1>1, <1>2, DistanceIsNat
  <2> HIDE DEF missing, c, asOf
  <2>3. \A other \in missing : ~Nearer(other, s) /\ (Nearer(s, other) \/ s <= other)
    BY <2>1, <2>2
  <2> HIDE DEF Nearer
  <2> QED
    BY <2>3, Zenon
<1>4. tour' = [tour EXCEPT ![i] = t]
  <2>1. tour' = [tour EXCEPT ![i].todo = missing, ![i].first = first, ![i].fresh = ~Known(c)]
    BY DEF Select
  <2>2. tour \in [Instances -> Tours]
    BY DEF IInv, Typed
  <2> HIDE DEF first, missing, c
  <2>3. [tour EXCEPT ![i].todo = missing, ![i].first = first, ![i].fresh = ~Known(c)] =
        [tour EXCEPT ![i] = [tour[i] EXCEPT !.todo = missing, !.first = first, !.fresh = ~Known(c)]]
    BY <2>2, ThreeFields
  <2> QED
    BY <2>1, <2>3
<1>5. t \in Tours
  <2>1. tour[i] \in Tours /\ first \in Steps
    BY <1>2, <1>3, TourFields DEF IInv
  <2> HIDE DEF first, missing
  <2> QED
    BY <1>2, <2>1 DEF Tours, Known
<1> HIDE DEF t
<1>6. at' = [at EXCEPT ![i] = "step"] /\ "step" \in Places /\ Ready("step", t) /\ at[i] # "idle"
  BY DEF Select, Places, Ready
<1>7. UNCHANGED <<lock, outlived, now, published, ledger, rows>>
  BY DEF Select
<1> QED
  BY <1>4, <1>5, <1>6, <1>7, WorkerMoves

LEMMA UnpublishedKeeps == ASSUME IInv, NEW i \in Instances, Unpublished(i) PROVE IInv'
<1>1. at[i] # "idle" /\ UNCHANGED <<lock, outlived, now, published, ledger, rows>>
  BY DEF Unpublished
<1> DEFINE last == tour[i].cycle = tour[i].oldest \/ tour[i].cycle = 0
<1>2. CASE last
  <2>1. Leave(i, "release")
    BY <1>2 DEF Unpublished
  <2> QED
    BY <1>1, <2>1, LeaveKeeps DEF Places
<1>3. CASE ~last
  <2> DEFINE t == [tour[i] EXCEPT !.cycle = tour[i].cycle - 1]
  <2>1. at' = [at EXCEPT ![i] = "select"] /\ tour' = [tour EXCEPT ![i] = t]
    BY <1>3 DEF Unpublished
  <2>2. tour[i] \in Tours /\ tour[i].cycle - 1 \in Cycles
    BY <1>3, TourFields, CyclesAreNat DEF IInv
  <2>3. t \in Tours
    BY <2>2 DEF Tours
  <2> HIDE DEF t
  <2>4. "select" \in Places /\ Ready("select", t)
    BY DEF Places, Ready
  <2> QED
    BY <1>1, <2>1, <2>3, <2>4, WorkerMoves
<1> QED
  BY <1>2, <1>3

LEMMA FetchKeeps == ASSUME IInv, NEW i \in Instances, Fetch(i) PROVE IInv'
<1> DEFINE t == [tour[i] EXCEPT !.read = StepsDone(tour[i].cycle)]
<1>1. tour[i] \in Tours /\ StepsDone(tour[i].cycle) \subseteq Steps
  BY TourFields, StepsDoneTyped DEF IInv
<1>2. t \in Tours
  BY <1>1 DEF Tours
<1>3. tour' = [tour EXCEPT ![i] = t] /\ at' = [at EXCEPT ![i] = "record"] /\ at[i] # "idle"
  BY DEF Fetch
<1>4. t.todo # {} /\ t.read = StepsDone(t.cycle)
  BY <1>1 DEF Fetch, Tours
<1> HIDE DEF t
<1>5. "record" \in Places /\ Ready("record", t)
  BY <1>4 DEF Places, Ready
<1>6. UNCHANGED <<lock, outlived, now, published, ledger, rows>>
  BY DEF Fetch
<1> QED
  BY <1>2, <1>3, <1>5, <1>6, WorkerMoves

LEMMA FindOldestKeeps == ASSUME IInv, NEW i \in Instances, FindOldest(i) PROVE IInv'
<1>1. at[i] # "idle" /\ UNCHANGED <<lock, outlived, now, published, ledger, rows>>
  BY DEF FindOldest
<1> DEFINE kept == Newest(Retained)
<1>2. CASE Cardinality(kept) < Retained
  <2>1. Leave(i, "release")
    BY <1>2 DEF FindOldest
  <2> QED
    BY <1>1, <2>1, LeaveKeeps DEF Places
<1>3. CASE ~(Cardinality(kept) < Retained)
  <2>1. PICK oldest \in kept : /\ at' = [at EXCEPT ![i] = "delete"]
                               /\ tour' = [tour EXCEPT ![i] = [NoTour EXCEPT !.oldest = oldest]]
    BY <1>3 DEF FindOldest
  <2>2. oldest \in Int
    BY CyclesAreNat DEF Newest
  <2> DEFINE t == [NoTour EXCEPT !.oldest = oldest]
  <2>3. t \in Tours
    BY <2>2, NoTourTyped DEF Tours, NoTour
  <2> HIDE DEF t
  <2>4. "delete" \in Places /\ Ready("delete", t)
    BY DEF Places, Ready
  <2> QED
    BY <1>1, <2>1, <2>3, <2>4, WorkerMoves DEF t
<1> QED
  BY <1>2, <1>3

LEMMA EndTourKeeps == ASSUME IInv, NEW i \in Instances, EndTour(i) PROVE IInv'
<1>1. /\ at' = [at EXCEPT ![i] = "idle"] /\ tour' = tour /\ lock' \in {Released(i), lock}
      /\ UNCHANGED <<outlived, now, published, ledger, rows>>
  BY DEF EndTour, Release
<1> DEFINE t == tour[i]
<1>2. t \in Tours /\ tour' = [tour EXCEPT ![i] = t]
  BY <1>1, TourFields DEF IInv, Typed
<1>3. "idle" \in Places /\ Ready("idle", t)
  BY DEF Places, Ready
<1>4. lock' \in Instances \union {Nobody}
  BY <1>1 DEF IInv, Typed, Released
<1>5. ASSUME outlived' = 0, NEW j \in Instances, at'[j] # "idle" PROVE lock' = j
  <2>1. j # i /\ at[j] # "idle"
    BY <1>1, <1>5 DEF IInv, Typed
  <2>2. lock = j
    BY <1>1, <1>5, <2>1 DEF IInv, Owned
  <2> QED
    BY <1>1, <2>1, <2>2 DEF Released
<1> HIDE DEF t
<1> QED
  BY <1>1, <1>2, <1>3, <1>4, <1>5, TourMoves

LEMMA CrashKeeps == ASSUME IInv, NEW i \in Instances, Crash(i) PROVE IInv'
<1>1. /\ at[i] # "idle" /\ at' = [at EXCEPT ![i] = "idle"] /\ tour' = [tour EXCEPT ![i] = NoTour]
      /\ UNCHANGED <<lock, outlived, now, published, ledger, rows>>
  BY DEF Crash, Die, lockVars
<1>2. "idle" \in Places /\ Ready("idle", NoTour)
  BY DEF Places, Ready
<1> QED
  BY <1>1, <1>2, NoTourTyped, WorkerMoves

\* The lock is lost or taken in vain, or time passes, or a cycle is published.
LEMMA OthersKeep ==
  ASSUME IInv, LockStep \/ Tick \/ (\E c \in Cycles : Publish(c)) \/ UNCHANGED vars
  PROVE  IInv'
<1>1. UNCHANGED <<at, ledger, rows, tour>>
  BY DEF LockStep, Expire, AnswerLost, Tick, Publish, vars
<1>2. now' \in 0 .. MaxTime /\ published' \subseteq Cycles
  <2>1. now \in 0 .. MaxTime /\ MaxTime \in Nat /\ published \subseteq Cycles
    BY EcmwfConstantsOK DEF IInv, Typed
  <2>2. now' = now \/ (now < MaxTime /\ now' = now + 1)
    BY DEF LockStep, Tick, Publish, vars
  <2>3. published' = published \/ \E c \in Cycles : published' = published \union {c}
    BY DEF LockStep, Tick, Publish, vars
  <2>4. published' \subseteq Cycles
    BY <2>1, <2>3
  <2> QED
    BY <2>1, <2>2, <2>4
<1>3. /\ lock' \in Instances \union {Nobody}
      /\ \/ lock' = lock /\ outlived' = outlived
         \/ lock = Nobody /\ outlived' = outlived
         \/ lock \in Instances /\ at[lock] = "idle" /\ outlived' = outlived
         \/ outlived' = outlived + 1
  <2>1. lock \in Instances \union {Nobody}
    BY DEF IInv, Typed
  <2>2. CASE Expire
    BY <2>1, <2>2 DEF Expire
  <2>3. CASE \E i \in Instances : AnswerLost(i)
    BY <2>1, <2>3 DEF AnswerLost, LockTaken
  <2>4. CASE UNCHANGED <<lock, outlived>>
    BY <2>1, <2>4
  <2>5. Expire \/ (\E i \in Instances : AnswerLost(i)) \/ UNCHANGED <<lock, outlived>>
    BY DEF LockStep, Tick, Publish, vars
  <2> QED
    BY <2>2, <2>3, <2>4, <2>5
<1>4. outlived \in Nat /\ outlived' \in Nat /\ (outlived' = 0 => outlived = 0)
  BY <1>3 DEF IInv, Typed
<1>5. Typed'
  BY <1>1, <1>2, <1>3, <1>4 DEF IInv, Typed, Cycles, Steps
<1>6. Owned'
  <2> SUFFICES ASSUME outlived' = 0, NEW i \in Instances, at[i] # "idle" PROVE lock' = i
    BY <1>1 DEF Owned
  <2>1. outlived = 0 /\ lock = i /\ lock # Nobody
    BY <1>4, WarmupConstantsOK DEF IInv, Owned
  <2>2. outlived' # outlived + 1
    BY <1>4
  <2> QED
    BY <1>3, <2>1, <2>2
<1>7. \A c : StepsDone(c)' = StepsDone(c)
  BY <1>1 DEF StepsDone, Known
<1>8. Pending' /\ ReadsStand' /\ ListedStepsAreStored'
  <2>1. Pending'
    BY <1>1 DEF IInv, Pending
  <2>2. ReadsStand'
    <3> SUFFICES ASSUME outlived' = 0, NEW i \in Instances, at[i] = "record"
                 PROVE  tour[i].read = StepsDone(tour[i].cycle)
      BY <1>1 DEF ReadsStand, StepsDone, Known
    <3> QED
      BY <1>4 DEF IInv, ReadsStand
  <2>3. ListedStepsAreStored'
    BY <1>1, <1>4, <1>7 DEF IInv, ListedStepsAreStored
  <2> QED
    BY <2>1, <2>2, <2>3
<1> QED
  BY <1>5, <1>6, <1>8 DEF IInv

-----------------------------------------------------------------------------
(* Steps that write the tables.                                            *)

\* While no tour outlived its lock, only one works.
LEMMA OneWorks ==
  ASSUME IInv, outlived = 0, NEW i \in Instances, NEW j \in Instances,
         at[i] # "idle", at[j] # "idle"
  PROVE  i = j
BY DEF IInv, Owned

\* What the commit of a step does to the tables.
LEMMA RecordedStep ==
  ASSUME IInv, NEW i \in Instances, Record(i)
  PROVE  /\ NextStep(i) \in Steps /\ tour[i].cycle \in Cycles
         /\ \A c \in Cycles \ {tour[i].cycle} :
              ledger'[c] = ledger[c] /\ rows'[c] = rows[c]
         /\ LET c == tour[i].cycle
            IN /\ ledger'[c] = tour[i].read \union {NextStep(i)} /\ ledger'[c] # NoCycle
               /\ rows'[c] = rows[c] \union {NextStep(i)}
<1>1. Typed /\ tour[i].todo # {} /\ tour[i].cycle \in Cycles /\ tour[i].read \subseteq Steps
  BY TourFields DEF IInv, Pending, Record
<1>2. NextStep(i) \in Steps
  BY <1>1, NextStepIsLeft
<1> DEFINE c == tour[i].cycle
           s == NextStep(i)
<1>3. ledger' = [ledger EXCEPT ![c] = tour[i].read \union {s}] /\
      rows' = [rows EXCEPT ![c] = rows[c] \union {s}]
  BY DEF Record, Merged
<1> HIDE DEF c, s
<1>4. DOMAIN ledger = Cycles /\ DOMAIN rows = Cycles /\ c \in Cycles
  BY <1>1 DEF c, Typed
<1>5. ledger'[c] = tour[i].read \union {s} /\ rows'[c] = rows[c] \union {s}
  BY <1>3, <1>4
<1>6. ledger'[c] # NoCycle
  <2>1. tour[i].read \union {s} \subseteq Steps
    BY <1>1, <1>2 DEF s
  <2> QED
    BY <1>5, <2>1, SetsOfStepsAreKnown
<1>7. \A d \in Cycles \ {c} : ledger'[d] = ledger[d] /\ rows'[d] = rows[d]
  BY <1>3, <1>4
<1> QED
  BY <1>1, <1>2, <1>5, <1>6, <1>7 DEF c, s

LEMMA RecordKeeps == ASSUME IInv, NEW i \in Instances, Record(i) PROVE IInv'
<1> DEFINE c == tour[i].cycle
           s == NextStep(i)
           t == [NoTour EXCEPT !.cycle = c, !.todo = tour[i].todo \ {s}, !.recorded = TRUE]
<1>1. /\ at[i] = "record" /\ at' = [at EXCEPT ![i] = "step"] /\ tour' = [tour EXCEPT ![i] = t]
      /\ UNCHANGED <<lock, outlived, now, published>>
  BY DEF Record
<1>2. t \in Tours
  <2>1. c \in Cycles /\ tour[i].todo \ {s} \subseteq Steps
    BY TourFields DEF IInv
  <2> HIDE DEF c, s
  <2> QED
    BY <2>1, NoTourTyped DEF Tours, NoTour
<1> HIDE DEF t
<1>3. Typed'
  <2>1. ledger' \in [Cycles -> (SUBSET Steps) \union {NoCycle}] /\ rows' \in [Cycles -> SUBSET Steps]
    <3>1. tour[i].read \union {s} \subseteq Steps /\ rows[c] \union {s} \subseteq Steps
      BY RecordedStep, TourFields DEF IInv, Typed
    <3>2. ledger' = [ledger EXCEPT ![c] = tour[i].read \union {s}] /\
          rows' = [rows EXCEPT ![c] = rows[c] \union {s}]
      BY DEF Record, Merged
    <3> HIDE DEF c, s
    <3> QED
      BY <3>1, <3>2 DEF IInv, Typed
  <2>2. at' \in [Instances -> Places] /\ tour' \in [Instances -> Tours]
    BY <1>1, <1>2 DEF IInv, Typed, Places
  <2> QED
    BY <1>1, <2>1, <2>2 DEF IInv, Typed, Cycles, Steps, Tours
<1>4. \A j \in Instances : at'[j] # "idle" => at[j] # "idle"
  BY <1>1 DEF IInv, Typed
<1>5. \A j \in Instances : at'[j] = "record" => j # i /\ at[j] = "record" /\ tour'[j] = tour[j]
  BY <1>1 DEF IInv, Typed
<1>6. Pending' /\ Owned'
  BY <1>1, <1>4, <1>5 DEF IInv, Pending, Owned
<1>7. ReadsStand'
  BY <1>1, <1>5, OneWorks DEF ReadsStand
<1>8. ListedStepsAreStored'
  <2> SUFFICES ASSUME outlived = 0, NEW d \in Cycles PROVE StepsDone(d)' \subseteq rows'[d]
    BY <1>1 DEF ListedStepsAreStored, Cycles
  <2>1. StepsDone(d) \subseteq rows[d] /\ tour[i].read = StepsDone(c)
    BY <1>1 DEF IInv, ListedStepsAreStored, ReadsStand
  <2>2. CASE d = c
    BY <2>1, <2>2, RecordedStep DEF StepsDone, Known
  <2>3. CASE d # c
    BY <2>1, <2>3, RecordedStep DEF StepsDone, Known
  <2> QED
    BY <2>2, <2>3
<1> QED
  BY <1>3, <1>6, <1>7, <1>8 DEF IInv

\* What the pruning does to the tables: a cycle goes whole or stays as it is.
LEMMA Pruned ==
  ASSUME NEW i \in Instances, Prune(i), NEW c \in Cycles
  PROVE  \/ ledger'[c] = NoCycle /\ rows'[c] = {}
         \/ ledger'[c] = ledger[c] /\ rows'[c] = rows[c]
<1> DEFINE gone == {d \in Cycles : d < tour[i].oldest}
<1>1. /\ ledger' = [d \in Cycles |-> IF d \in gone THEN NoCycle ELSE ledger[d]]
      /\ rows' = [d \in Cycles |-> IF d \in gone THEN {} ELSE rows[d]]
  BY DEF Prune
<1> HIDE DEF gone
<1> QED
  BY <1>1

LEMMA PruneKeeps == ASSUME IInv, NEW i \in Instances, Prune(i) PROVE IInv'
<1>1. /\ at[i] = "delete" /\ at' = [at EXCEPT ![i] = "release"]
      /\ tour' = [tour EXCEPT ![i] = NoTour]
      /\ UNCHANGED <<lock, outlived, now, published>>
  BY DEF Prune, Leave
<1>2. Typed'
  <2>1. ledger' \in [Cycles -> (SUBSET Steps) \union {NoCycle}] /\ rows' \in [Cycles -> SUBSET Steps]
    <3> DEFINE gone == {d \in Cycles : d < tour[i].oldest}
    <3>1. /\ ledger' = [d \in Cycles |-> IF d \in gone THEN NoCycle ELSE ledger[d]]
          /\ rows' = [d \in Cycles |-> IF d \in gone THEN {} ELSE rows[d]]
      BY DEF Prune
    <3> HIDE DEF gone
    <3> QED
      BY <3>1 DEF IInv, Typed
  <2>2. at' \in [Instances -> Places] /\ tour' \in [Instances -> Tours]
    BY <1>1, NoTourTyped DEF IInv, Typed, Places
  <2> QED
    BY <1>1, <2>1, <2>2 DEF IInv, Typed, Cycles, Steps, Tours
<1>3. \A j \in Instances : at'[j] # "idle" => at[j] # "idle"
  BY <1>1 DEF IInv, Typed
<1>4. \A j \in Instances : at'[j] = "record" => j # i /\ at[j] = "record" /\ tour'[j] = tour[j]
  BY <1>1 DEF IInv, Typed
<1>5. Pending' /\ Owned'
  BY <1>1, <1>3, <1>4 DEF IInv, Pending, Owned
<1>6. ReadsStand'
  BY <1>1, <1>4, OneWorks DEF ReadsStand
<1>7. ListedStepsAreStored'
  <2> SUFFICES ASSUME outlived = 0, NEW d \in Cycles PROVE StepsDone(d)' \subseteq rows'[d]
    BY <1>1 DEF ListedStepsAreStored, Cycles
  <2>1. StepsDone(d) \subseteq rows[d]
    BY DEF IInv, ListedStepsAreStored
  <2> QED
    BY <2>1, Pruned DEF StepsDone, Known
<1> QED
  BY <1>2, <1>5, <1>6, <1>7 DEF IInv

-----------------------------------------------------------------------------
(* The invariant.                                                          *)

LEMMA InitIInv == Init => IInv
<1> SUFFICES ASSUME Init PROVE IInv
  OBVIOUS
<1>1. Typed
  <2>1. now \in 0 .. MaxTime /\ outlived \in Nat
    BY EcmwfConstantsOK DEF Init, InitTours
  <2> QED
    BY <2>1, NoTourTyped DEF Init, InitTours, Typed, Places
<1>2. \A i \in Instances : at[i] = "idle"
  BY DEF Init, InitTours
<1>3. \A c \in Cycles : StepsDone(c) = {}
  BY DEF Init, StepsDone, Known
<1> QED
  BY <1>1, <1>2, <1>3 DEF IInv, Pending, Owned, ReadsStand, ListedStepsAreStored

LEMMA StepIInv == IInv /\ [Next]_vars => IInv'
<1> SUFFICES ASSUME IInv, [Next]_vars PROVE IInv'
  OBVIOUS
<1>1. CASE LockStep \/ Tick \/ (\E c \in Cycles : Publish(c)) \/ UNCHANGED vars
  BY <1>1, OthersKeep
<1>2. ASSUME NEW i \in Instances, NothingToDo(i) \/ Stop(i) PROVE IInv'
  BY <1>2, FinishKeeps DEF NothingToDo, Stop
<1>3. ASSUME NEW i \in Instances, RecordFails(i) \/ PruneFails(i) PROVE IInv'
  BY <1>3, LeaveKeeps DEF RecordFails, PruneFails, Places
<1>4. ASSUME NEW i \in Instances, StartTour(i) \/ Select(i) \/ Unpublished(i) PROVE IInv'
  BY <1>4, StartTourKeeps, SelectKeeps, UnpublishedKeeps
<1>5. ASSUME NEW i \in Instances, Fetch(i) \/ Record(i) \/ FindOldest(i) \/ Prune(i) PROVE IInv'
  BY <1>5, FetchKeeps, RecordKeeps, FindOldestKeeps, PruneKeeps
<1>6. ASSUME NEW i \in Instances, EndTour(i) \/ Crash(i) PROVE IInv'
  BY <1>6, EndTourKeeps, CrashKeeps
<1> QED
  BY <1>1, <1>2, <1>3, <1>4, <1>5, <1>6 DEF Next

LEMMA Inductive == Spec => []IInv
BY InitIInv, StepIInv, PTL DEF Spec

\* The types of the state (of the ledger and the series rows, the tours and the
\* lock), whatever the tours do (ecmwf-ingest.store.ts).
THEOREM TypeCorrect == Spec => []TypeOK
<1>1. IInv => TypeOK
  BY DEF IInv, Typed, TypeOK, Places
<1> QED
  BY <1>1, Inductive, PTL

\* No hole is listed while no tour outlived its lock, for any number of
\* instances, steps and cycles (ecmwf-ingest.store.ts:90-97).
THEOREM ListedAreStored == Spec => []ListedStepsAreStored
BY Inductive, PTL DEF IInv

-----------------------------------------------------------------------------
(* What a step may not do to the tables.                                   *)

LEMMA WhoWrites ==
  ASSUME [Next]_vars
  PROVE  \/ UNCHANGED <<ledger, rows>>
         \/ \E i \in Instances : Record(i) \/ Prune(i)
<1>1. ASSUME NEW i \in Instances,
             \/ StartTour(i) \/ NothingToDo(i) \/ Select(i) \/ Unpublished(i) \/ Stop(i)
             \/ Fetch(i) \/ RecordFails(i) \/ FindOldest(i)
             \/ PruneFails(i) \/ EndTour(i) \/ Crash(i)
      PROVE  UNCHANGED <<ledger, rows>>
  BY <1>1 DEF StartTour, NothingToDo, Select, Unpublished, Stop, Fetch, RecordFails,
              FindOldest, PruneFails, EndTour, Crash
<1>2. LockStep \/ Tick \/ (\E c \in Cycles : Publish(c)) \/ UNCHANGED vars
        => UNCHANGED <<ledger, rows>>
  BY DEF LockStep, Tick, Publish, vars
<1> QED
  BY <1>1, <1>2 DEF Next

\* A stored step goes only with its whole cycle, whatever the tours do: two that
\* record the same cycle merge into the series as they are (ecmwf-ingest.store.ts).
THEOREM StoredStay == Spec => StoredStepsStay
<1>1. IInv /\ [Next]_vars => \A c \in Cycles : rows[c] \subseteq rows'[c] \/ ledger'[c] = NoCycle
  <2> SUFFICES ASSUME IInv, [Next]_vars, NEW c \in Cycles
               PROVE  rows[c] \subseteq rows'[c] \/ ledger'[c] = NoCycle
    OBVIOUS
  <2>1. CASE UNCHANGED <<ledger, rows>>
    BY <2>1
  <2>2. ASSUME NEW i \in Instances, Record(i) PROVE rows[c] \subseteq rows'[c]
    <3>1. CASE c = tour[i].cycle
      BY <2>2, <3>1, RecordedStep
    <3>2. CASE c # tour[i].cycle
      BY <2>2, <3>2, RecordedStep
    <3> QED
      BY <3>1, <3>2
  <2>3. ASSUME NEW i \in Instances, Prune(i)
        PROVE  rows[c] \subseteq rows'[c] \/ ledger'[c] = NoCycle
    BY <2>3, Pruned
  <2> QED
    BY <2>1, <2>2, <2>3, WhoWrites
<1> QED
  BY <1>1, Inductive, PTL DEF Spec, StoredStepsStay

\* What was fetched is not fetched again while its cycle is retained and no tour
\* outlived its lock (ecmwf-ingest.store.ts:94-97).
THEOREM ListedStay == Spec => ListedStepsStay
<1>1. IInv /\ [Next]_vars =>
        (outlived = 0 =>
           \A c \in Cycles : StepsDone(c) \subseteq StepsDone(c)' \/ ledger'[c] = NoCycle)
  <2> SUFFICES ASSUME IInv, [Next]_vars, outlived = 0, NEW c \in Cycles
               PROVE  StepsDone(c) \subseteq StepsDone(c)' \/ ledger'[c] = NoCycle
    OBVIOUS
  <2>1. CASE UNCHANGED <<ledger, rows>>
    BY <2>1 DEF StepsDone, Known
  <2>2. ASSUME NEW i \in Instances, Record(i) PROVE StepsDone(c) \subseteq StepsDone(c)'
    <3>1. CASE c = tour[i].cycle
      <4>1. tour[i].read = StepsDone(c)
        BY <2>2, <3>1 DEF IInv, ReadsStand, Record
      <4>2. StepsDone(c)' = tour[i].read \union {NextStep(i)}
        BY <2>2, <3>1, RecordedStep DEF StepsDone, Known
      <4> QED
        BY <4>1, <4>2
    <3>2. CASE c # tour[i].cycle
      BY <2>2, <3>2, RecordedStep DEF StepsDone, Known
    <3> QED
      BY <3>1, <3>2
  <2>3. ASSUME NEW i \in Instances, Prune(i)
        PROVE  StepsDone(c) \subseteq StepsDone(c)' \/ ledger'[c] = NoCycle
    BY <2>3, Pruned DEF StepsDone, Known
  <2> QED
    BY <2>1, <2>2, <2>3, WhoWrites
<1> QED
  BY <1>1, Inductive, PTL DEF Spec, ListedStepsStay

-----------------------------------------------------------------------------
(* What a read is served from.                                             *)

\* The run around any step that is stored is made of stored steps.
LEMMA RunIsStored == ASSUME NEW c \in Cycles PROVE Run(c) \subseteq rows[c]
BY DEF Run

LEMMA AnchorIsStored ==
  ASSUME Typed, NEW c \in Cycles, rows[c] # {}
  PROVE  Anchor(c) \in rows[c]
<1>1. rows[c] \subseteq Steps
  BY DEF Typed
<1>2. \E s \in rows[c] : \A other \in rows[c] :
         \/ Distance(c, s, now) < Distance(c, other, now)
         \/ Distance(c, s, now) = Distance(c, other, now) /\ s <= other
  BY <1>1, Nearest DEF Typed
<1> QED
  BY <1>2, Zenon DEF Anchor

\* A whole cycle is one run.
LEMMA WholeRun ==
  ASSUME Typed, NEW c \in Cycles, rows[c] = Steps
  PROVE  Run(c) = Steps
<1>1. rows[c] # {} /\ Anchor(c) \in Steps
  BY StepsAreNat, AnchorIsStored
<1> DEFINE a == Anchor(c)
<1>2. Run(c) = {s \in Steps : (s .. a) \union (a .. s) \subseteq Steps}
  BY <1>1 DEF Run
<1> HIDE DEF a
<1>3. ASSUME NEW s \in Steps PROVE (s .. a) \union (a .. s) \subseteq Steps
  <2>1. a \in Steps /\ Steps = 0 .. LastStep /\ LastStep \in Nat
    BY <1>1, EcmwfConstantsOK DEF a, Steps
  <2> QED
    BY <2>1
<1> QED
  BY <1>2, <1>3

\* No run is longer than a whole one, and as long only the whole one.
LEMMA RunsAreShorter ==
  ASSUME Typed, NEW c \in Cycles
  PROVE  /\ Cardinality(Run(c)) \in Nat /\ Cardinality(Steps) \in Nat
         /\ Run(c) # Steps => Cardinality(Steps) > Cardinality(Run(c))
<1>1. Run(c) \in SUBSET Steps
  BY RunIsStored DEF Typed
<1>2. IsFiniteSet(Steps)
  BY FS_Interval, EcmwfConstantsOK DEF Steps
<1>3. /\ Cardinality(Run(c)) <= Cardinality(Steps)
      /\ Cardinality(Steps) = Cardinality(Run(c)) => Steps = Run(c)
      /\ IsFiniteSet(Run(c))
  BY <1>1, <1>2, FS_Subset
<1>4. Cardinality(Run(c)) \in Nat /\ Cardinality(Steps) \in Nat
  BY <1>2, <1>3, FS_CardinalityType
<1> QED
  BY <1>3, <1>4

LEMMA Horizon ==
  ASSUME Typed, NEW c \in Cycles, rows[c] = Steps, c \in Candidates
  PROVE  \E d \in Served : \E s \in Run(d) : d * Interval + s >= c * Interval + LastStep
<1>1. Candidates \subseteq Cycles
  BY DEF Candidates, Newest
<1> DEFINE W == {d \in Candidates : Run(d) = Steps}
<1>2. W \subseteq Cycles /\ c \in W
  BY <1>1, WholeRun
<1> HIDE DEF W
<1>3. PICK d \in W : \A e \in W : e <= d
  BY <1>2, Greatest
<1>4. d \in Candidates /\ d \in Cycles /\ Run(d) = Steps /\ c <= d
  BY <1>1, <1>2, <1>3 DEF W
<1>5. ASSUME NEW e \in Candidates
      PROVE  \/ Cardinality(Run(d)) > Cardinality(Run(e))
             \/ Cardinality(Run(d)) = Cardinality(Run(e)) /\ e <= d
  <2>1. CASE Run(e) = Steps
    BY <1>3, <1>4, <2>1 DEF W
  <2>2. CASE Run(e) # Steps
    BY <1>1, <1>4, <2>2, RunsAreShorter
  <2> QED
    BY <2>1, <2>2
<1>6. d \in Served
  BY <1>4, <1>5 DEF Served
<1>7. d * Interval + LastStep >= c * Interval + LastStep
  <2>1. c \in Nat /\ d \in Nat /\ Interval \in Nat /\ LastStep \in Nat
    BY <1>4, CyclesAreNat, EcmwfConstantsOK
  <2>2. d * Interval >= c * Interval /\ d * Interval \in Int /\ c * Interval \in Int
    BY <1>4, <2>1
  <2> QED
    BY <2>1, <2>2
<1>8. LastStep \in Run(d)
  BY <1>4, StepsAreNat
<1> QED
  BY <1>6, <1>7, <1>8

\* A cycle that begins to fill takes nothing from what is served: the choice of
\* the longest run keeps the horizon of a whole cycle, whatever else is stored
\* (ecmwf-series.reader.ts:100-104, ecmwf-series-compile.ts:105-120).
THEOREM WholeHolds == Spec => []WholeCycleHoldsTheHorizon
<1>1. IInv => WholeCycleHoldsTheHorizon
  BY Horizon DEF IInv, WholeCycleHoldsTheHorizon
<1> QED
  BY <1>1, Inductive, PTL

-----------------------------------------------------------------------------
(* The earthquake ingest.                                                  *)

EventRecords == [solution : 0 .. MaxSolution, since : Nat]
RowRecords   == [solution : 0 .. MaxSolution, revisions : Nat]
RunRecords   == [started : Nat, finished : Nat, ok : BOOLEAN, clean : BOOLEAN]
QuakeTours   == [at : {"idle", "request", "failed", "write", "prune"}, started : Nat,
                 returned : SUBSET Events, todo : SUBSET Events,
                 answer : [Events -> EventRecords], landed : SUBSET Events,
                 refused : SUBSET Events, cutoff : Int]

QuakeTyped ==
  /\ clock \in 0 .. MaxClock
  /\ provider \in [Events -> EventRecords]
  /\ stored \in [Events -> RowRecords]
  /\ runs \subseteq RunRecords
  /\ tours \in [Jobs -> QuakeTours]
  /\ overlapped \in BOOLEAN

\* A run ended when it was recorded, and is clean only if it succeeded.
RunsOrdered ==
  /\ \A job \in Jobs : tours[job].started <= clock
  /\ \A run \in runs : /\ run.started <= run.finished /\ run.finished <= clock
                       /\ run.clean => run.ok

\* What is stored or was answered the provider had published by then.
NothingInvented ==
  \A e \in Events :
    /\ provider[e].solution = 0 => provider[e] = NoEvent
    /\ stored[e].solution <= provider[e].solution
    /\ \A job \in Jobs : tours[job].answer[e].solution <= provider[e].solution

\* What a tour is to write is an event, and no older than the row it will meet
\* while it is the only tour.
AnswersFresh ==
  \A job \in Jobs : At(job, "write") => \A e \in tours[job].todo :
    /\ tours[job].answer[e].solution > 0
    /\ ~overlapped => stored[e].solution <= tours[job].answer[e].solution

OneTour ==
  ~overlapped => \A job, other \in Jobs : job # other => At(job, "idle") \/ At(other, "idle")

\* While it is the only tour, a row is met again without a revision.
RevisionsAlone ==
  ~overlapped => \A e \in Events : stored[e] # NoRow =>
                   stored[e].revisions < stored[e].solution

QuakeInv ==
  QuakeTyped /\ RunsOrdered /\ NothingInvented /\ AnswersFresh /\ OneTour /\ RevisionsAlone

LEMMA NoQuakeTourTyped == NoQuakeTour \in QuakeTours /\ NoEvent \in EventRecords
<1>1. NoEvent \in EventRecords
  BY EarthquakeConstantsOK DEF NoEvent, EventRecords
<1>2. [e \in Events |-> NoEvent] \in [Events -> EventRecords]
  BY <1>1
<1> QED
  BY <1>1, <1>2 DEF NoQuakeTour, QuakeTours

\* A step of one tour: what becomes of it, and that the others stay.
TourBecomes(job, t) == tours' = [tours EXCEPT ![job] = t]

LEMMA TourBecame ==
  ASSUME QuakeTyped, NEW job \in Jobs, NEW t \in QuakeTours, TourBecomes(job, t)
  PROVE  /\ tours' \in [Jobs -> QuakeTours]
         /\ tours'[job] = t
         /\ \A other \in Jobs \ {job} : tours'[other] = tours[other]
BY DEF QuakeTyped, TourBecomes

\* Updates of several fields are updates of the record.
LEMMA TwoFields ==
  ASSUME NEW f \in [Jobs -> QuakeTours], NEW job \in Jobs, NEW x, NEW y
  PROVE  /\ [f EXCEPT ![job].todo = x, ![job].landed = y] =
            [f EXCEPT ![job] = [f[job] EXCEPT !.todo = x, !.landed = y]]
         /\ [f EXCEPT ![job].todo = x, ![job].refused = y] =
            [f EXCEPT ![job] = [f[job] EXCEPT !.todo = x, !.refused = y]]
OBVIOUS

LEMMA QuakeTourFields ==
  ASSUME QuakeTyped, NEW job \in Jobs
  PROVE  /\ tours[job] \in QuakeTours
         /\ tours[job].todo \subseteq Events /\ tours[job].landed \subseteq Events
         /\ tours[job].refused \subseteq Events /\ tours[job].started \in Nat
         /\ tours[job].answer \in [Events -> EventRecords] /\ tours[job].cutoff \in Int
         /\ clock \in Nat
BY EarthquakeConstantsOK DEF QuakeTyped, QuakeTours

-----------------------------------------------------------------------------
(* Each step keeps the invariant.                                          *)

\* A step that only moves a tour, to a place where it writes nothing.
LEMMA QuakeTourMoves ==
  ASSUME QuakeInv, NEW job \in Jobs, NEW t \in QuakeTours, TourBecomes(job, t),
         UNCHANGED <<clock, provider, stored>>,
         t.at # "write", t.started <= clock, t.answer = [e \in Events |-> NoEvent],
         runs' \subseteq RunRecords,
         \A run \in runs' : /\ run.started <= run.finished /\ run.finished <= clock
                            /\ run.clean => run.ok,
         overlapped' \in BOOLEAN, overlapped => overlapped',
         ~overlapped' => \/ t.at = "idle"
                         \/ ~At(job, "idle")
                         \/ \A other \in Jobs \ {job} : At(other, "idle")
  PROVE  QuakeInv'
<1>1. /\ tours' \in [Jobs -> QuakeTours] /\ tours'[job] = t
      /\ \A other \in Jobs \ {job} : tours'[other] = tours[other]
  BY TourBecame DEF QuakeInv
<1>2. QuakeTyped'
  BY <1>1 DEF QuakeInv, QuakeTyped
<1>3. RunsOrdered'
  BY <1>1 DEF QuakeInv, RunsOrdered
<1>4. NothingInvented'
  <2>1. ASSUME NEW e \in Events, NEW other \in Jobs
        PROVE  tours'[other].answer[e].solution <= provider[e].solution
    <3>1. CASE other = job
      <4>1. t.answer[e].solution = 0
        BY DEF NoEvent
      <4>2. provider[e] \in EventRecords
        BY DEF QuakeInv, QuakeTyped
      <4>3. provider[e].solution \in Nat
        BY <4>2, EarthquakeConstantsOK DEF EventRecords
      <4> QED
        BY <1>1, <3>1, <4>1, <4>3
    <3>2. CASE other # job
      BY <1>1, <3>2 DEF QuakeInv, NothingInvented
    <3> QED
      BY <3>1, <3>2
  <2> QED
    BY <2>1 DEF QuakeInv, NothingInvented
<1>5. AnswersFresh'
  <2> SUFFICES ASSUME NEW other \in Jobs, At(other, "write")' PROVE
        \A e \in tours'[other].todo :
          /\ tours'[other].answer[e].solution > 0
          /\ ~overlapped' => stored'[e].solution <= tours'[other].answer[e].solution
    BY Zenon DEF AnswersFresh
  <2>1. other # job
    BY <1>1 DEF At
  <2>2. tours'[other] = tours[other]
    BY <1>1, <2>1
  <2>3. At(other, "write")
    BY <2>2 DEF At
  <2> QED
    BY <2>2, <2>3 DEF QuakeInv, AnswersFresh
<1>6. OneTour'
  <2> SUFFICES ASSUME ~overlapped', NEW j \in Jobs, NEW k \in Jobs, j # k
               PROVE  tours'[j].at = "idle" \/ tours'[k].at = "idle"
    BY Zenon DEF OneTour, At
  <2>1. ~overlapped
    OBVIOUS
  <2>2. \/ t.at = "idle" \/ tours[job].at # "idle"
        \/ \A other \in Jobs \ {job} : tours[other].at = "idle"
    BY Zenon DEF At
  <2>3. tours[j].at = "idle" \/ tours[k].at = "idle"
    BY <2>1, Zenon DEF QuakeInv, OneTour, At
  <2> QED
    BY <1>1, <2>2, <2>3
<1>7. RevisionsAlone'
  BY DEF QuakeInv, RevisionsAlone
<1> QED
  BY <1>2, <1>3, <1>4, <1>5, <1>6, <1>7 DEF QuakeInv

\* What an ingest run leaves in its table.
LEMMA RecordedRuns ==
  ASSUME QuakeInv, NEW job \in Jobs, NEW ok \in BOOLEAN, NEW clean \in BOOLEAN, clean => ok,
         Recorded(job, ok, clean)
  PROVE  /\ runs \subseteq runs' /\ runs' \subseteq RunRecords
         /\ \A run \in runs' : /\ run.started <= run.finished /\ run.finished <= clock
                               /\ run.clean => run.ok
<1> DEFINE new == [started |-> tours[job].started, finished |-> clock, ok |-> ok, clean |-> clean]
<1>1. runs' = runs \/ runs' = runs \union {new}
  BY Zenon DEF Recorded
<1>2. new \in RunRecords /\ new.started <= new.finished /\ new.finished <= clock
      /\ (new.clean => new.ok)
  BY QuakeTourFields DEF QuakeInv, RunRecords, RunsOrdered
<1> HIDE DEF new
<1>3. runs \subseteq RunRecords
  BY DEF QuakeInv, QuakeTyped
<1> QED
  BY <1>1, <1>2, <1>3 DEF QuakeInv, RunsOrdered

LEMMA ToPruneBecomes ==
  ASSUME NEW job \in Jobs, NEW cutoff \in Int, ToPrune(job, cutoff)
  PROVE  \E t \in QuakeTours : /\ TourBecomes(job, t) /\ t.at = "prune" /\ t.started = 0
                               /\ t.answer = [e \in Events |-> NoEvent]
<1> DEFINE t == [NoQuakeTour EXCEPT !.at = "prune", !.cutoff = cutoff]
<1>1. t \in QuakeTours
  BY NoQuakeTourTyped DEF QuakeTours
<1>2. t.at = "prune" /\ t.started = 0 /\ t.answer = [e \in Events |-> NoEvent]
  BY DEF NoQuakeTour
<1>3. TourBecomes(job, t)
  BY DEF ToPrune, TourBecomes
<1> QED
  BY <1>1, <1>2, <1>3

LEMMA StartKeeps == ASSUME QuakeInv, NEW job \in Jobs, Start(job) PROVE QuakeInv'
<1> DEFINE t == [NoQuakeTour EXCEPT !.at = "request", !.started = clock]
<1>1. QuakeTyped /\ clock \in Nat
  BY QuakeTourFields DEF QuakeInv
<1>2. t \in QuakeTours
  BY <1>1, NoQuakeTourTyped DEF QuakeTours
<1>3. t.at = "request" /\ t.started = clock /\ t.answer = [e \in Events |-> NoEvent]
  BY DEF NoQuakeTour
<1>4. TourBecomes(job, t) /\ UNCHANGED <<clock, provider, stored, runs>>
  BY DEF Start, TourBecomes
<1> HIDE DEF t
<1>5. overlapped' = (overlapped \/ \E other \in Jobs \ {job} : ~At(other, "idle"))
  BY Zenon DEF Start
<1>6. overlapped' \in BOOLEAN /\ (overlapped => overlapped')
      /\ (~overlapped' => \A other \in Jobs \ {job} : At(other, "idle"))
  BY <1>1, <1>5, Zenon DEF QuakeTyped
<1>7. runs' \subseteq RunRecords /\ \A run \in runs' :
        run.started <= run.finished /\ run.finished <= clock /\ (run.clean => run.ok)
  BY <1>4 DEF QuakeInv, QuakeTyped, RunsOrdered
<1> QED
  BY <1>1, <1>2, <1>3, <1>4, <1>6, <1>7, QuakeTourMoves

LEMMA FailKeeps == ASSUME QuakeInv, NEW job \in Jobs, Fail(job) PROVE QuakeInv'
<1> DEFINE t == [NoQuakeTour EXCEPT !.at = "failed"]
<1>1. QuakeTyped /\ clock \in Nat
  BY QuakeTourFields DEF QuakeInv
<1>2. t \in QuakeTours
  BY NoQuakeTourTyped DEF QuakeTours
<1>3. t.at = "failed" /\ t.started = 0 /\ t.answer = [e \in Events |-> NoEvent]
  BY DEF NoQuakeTour
<1>4. TourBecomes(job, t) /\ UNCHANGED <<clock, provider, stored, overlapped>> /\ ~At(job, "idle")
  BY DEF Fail, TourBecomes, At
<1> HIDE DEF t
<1>5. /\ runs' \subseteq RunRecords
      /\ \A run \in runs' : /\ run.started <= run.finished /\ run.finished <= clock
                            /\ run.clean => run.ok
  BY RecordedRuns DEF Fail
<1>6. overlapped' \in BOOLEAN /\ (overlapped => overlapped')
  BY <1>1, <1>4 DEF QuakeTyped
<1> QED
  BY <1>1, <1>2, <1>3, <1>4, <1>5, <1>6, QuakeTourMoves

LEMMA ReadCutoffKeeps == ASSUME QuakeInv, NEW job \in Jobs, ReadCutoff(job) PROVE QuakeInv'
<1>1. QuakeTyped /\ clock \in Nat /\ clock - Retention \in Int
  BY QuakeTourFields, EarthquakeConstantsOK DEF QuakeInv
<1>2. PICK t \in QuakeTours : /\ TourBecomes(job, t) /\ t.at = "prune" /\ t.started = 0
                              /\ t.answer = [e \in Events |-> NoEvent]
  BY <1>1, ToPruneBecomes DEF ReadCutoff
<1>3. ~At(job, "idle") /\ UNCHANGED <<clock, provider, stored, runs, overlapped>>
  BY DEF ReadCutoff, At
<1>4. /\ runs' \subseteq RunRecords
      /\ \A run \in runs' : /\ run.started <= run.finished /\ run.finished <= clock
                            /\ run.clean => run.ok
  BY <1>3 DEF QuakeInv, QuakeTyped, RunsOrdered
<1>5. overlapped' \in BOOLEAN /\ (overlapped => overlapped')
  BY <1>1, <1>3 DEF QuakeTyped
<1> QED
  BY <1>1, <1>2, <1>3, <1>4, <1>5, QuakeTourMoves

LEMMA RecordRunKeeps == ASSUME QuakeInv, NEW job \in Jobs, RecordRun(job) PROVE QuakeInv'
<1>1. QuakeTyped /\ clock \in Nat /\ tours[job].cutoff \in Int
  BY QuakeTourFields DEF QuakeInv
<1>2. PICK t \in QuakeTours : /\ TourBecomes(job, t) /\ t.at = "prune" /\ t.started = 0
                              /\ t.answer = [e \in Events |-> NoEvent]
  BY <1>1, ToPruneBecomes DEF RecordRun
<1>3. /\ runs' \subseteq RunRecords
      /\ \A run \in runs' : /\ run.started <= run.finished /\ run.finished <= clock
                            /\ run.clean => run.ok
  <2> DEFINE ok == tours[job].landed # {} \/ tours[job].refused = {}
  <2>1. ok \in BOOLEAN /\ Diagnosis(job) \in BOOLEAN /\ (Diagnosis(job) => ok)
    BY Zenon DEF Diagnosis
  <2>2. Recorded(job, ok, Diagnosis(job))
    BY Zenon DEF RecordRun
  <2> HIDE DEF ok
  <2> QED
    BY <2>1, <2>2, RecordedRuns
<1>4. ~At(job, "idle") /\ UNCHANGED <<clock, provider, stored, overlapped>>
  BY DEF RecordRun, At
<1>5. overlapped' \in BOOLEAN /\ (overlapped => overlapped')
  BY <1>1, <1>4 DEF QuakeTyped
<1> QED
  BY <1>1, <1>2, <1>3, <1>4, <1>5, QuakeTourMoves

\* A tour ends.
LEMMA EndingKeeps ==
  ASSUME QuakeInv, NEW job \in Jobs, tours' = [tours EXCEPT ![job] = NoQuakeTour],
         UNCHANGED <<clock, provider, stored, overlapped>>, runs' \subseteq runs
  PROVE  QuakeInv'
<1>1. QuakeTyped /\ clock \in Nat /\ TourBecomes(job, NoQuakeTour)
  BY QuakeTourFields DEF QuakeInv, TourBecomes
<1>2. /\ NoQuakeTour \in QuakeTours /\ NoQuakeTour.at = "idle" /\ NoQuakeTour.started <= clock
      /\ NoQuakeTour.answer = [e \in Events |-> NoEvent]
  BY <1>1, NoQuakeTourTyped DEF NoQuakeTour
<1>3. /\ runs' \subseteq RunRecords
      /\ \A run \in runs' : /\ run.started <= run.finished /\ run.finished <= clock
                            /\ run.clean => run.ok
  BY DEF QuakeInv, QuakeTyped, RunsOrdered
<1>4. overlapped' \in BOOLEAN /\ (overlapped => overlapped')
  BY <1>1 DEF QuakeTyped
<1> QED
  BY <1>1, <1>2, <1>3, <1>4, QuakeTourMoves

LEMMA PrunedRuns ==
  ASSUME NEW job \in Jobs, PruneRuns(job)
  PROVE  runs' \subseteq runs
<1>1. PICK keep \in SUBSET Exempt :
        runs' \in {{run \in runs : run.started >= tours[job].cutoff \/ run \in keep}, runs}
  BY DEF PruneRuns
<1> QED
  BY <1>1

LEMMA EndsKeep ==
  ASSUME QuakeInv, NEW job \in Jobs, PruneRuns(job) \/ TourDies(job)
  PROVE  QuakeInv'
<1>1. runs' \subseteq runs
  BY PrunedRuns DEF TourDies
<1>2. tours' = [tours EXCEPT ![job] = NoQuakeTour]
  BY Zenon DEF PruneRuns, TourDies
<1>3. UNCHANGED <<clock, provider, stored, overlapped>>
  BY Zenon DEF PruneRuns, TourDies
<1> QED
  BY <1>1, <1>2, <1>3, EndingKeeps

\* The provider's answer is what it knows now, and every row of it is an event.
LEMMA AnswerKeeps ==
  ASSUME QuakeInv, NEW job \in Jobs, NEW returned \in SUBSET Events, NEW accepted \in SUBSET Events,
         Answer(job, returned, accepted)
  PROVE  QuakeInv'
<1> DEFINE t == [tours[job] EXCEPT !.at = "write", !.answer = provider, !.returned = returned,
                                   !.todo = accepted, !.cutoff = clock - Retention]
<1>1. QuakeTyped /\ clock \in Nat /\ tours[job] \in QuakeTours /\ tours \in [Jobs -> QuakeTours]
      /\ clock - Retention \in Int /\ provider \in [Events -> EventRecords]
  BY QuakeTourFields, EarthquakeConstantsOK DEF QuakeInv, QuakeTyped
<1>2. t \in QuakeTours
  BY <1>1 DEF QuakeTours
<1>3. t.at = "write" /\ t.answer = provider /\ t.todo = accepted /\ t.started = tours[job].started
  BY <1>1 DEF QuakeTours
<1>4. TourBecomes(job, t)
  <2>1. tours' = [tours EXCEPT ![job].at = "write", ![job].answer = provider,
                               ![job].returned = returned, ![job].todo = accepted,
                               ![job].cutoff = clock - Retention]
    BY Zenon DEF Answer
  <2>2. [tours EXCEPT ![job].at = "write", ![job].answer = provider,
                      ![job].returned = returned, ![job].todo = accepted,
                      ![job].cutoff = clock - Retention] = [tours EXCEPT ![job] = t]
    <3>1. tours \in [Jobs -> QuakeTours]
      BY <1>1
    <3> QED
      BY <3>1
  <2> QED
    BY <2>1, <2>2, Zenon DEF TourBecomes
<1> HIDE DEF t
<1>5. UNCHANGED <<clock, provider, stored, runs, overlapped>> /\ tours[job].at = "request"
      /\ accepted \subseteq InWindow(job)
  BY DEF Answer, At
<1>6. /\ tours' \in [Jobs -> QuakeTours] /\ tours'[job] = t
      /\ \A other \in Jobs \ {job} : tours'[other] = tours[other]
  BY <1>1, <1>2, <1>4, TourBecame
<1>7. QuakeTyped' /\ RunsOrdered'
  BY <1>3, <1>5, <1>6 DEF QuakeInv, QuakeTyped, RunsOrdered
<1>8. \A e \in Events : /\ provider[e].solution \in Nat /\ stored[e].solution <= provider[e].solution
                        /\ provider[e].solution = 0 => provider[e] = NoEvent
  BY <1>1, EarthquakeConstantsOK DEF EventRecords, QuakeInv, NothingInvented
<1>9. NothingInvented'
  <2>1. ASSUME NEW e \in Events, NEW other \in Jobs
        PROVE  tours'[other].answer[e].solution <= provider[e].solution
    <3>1. CASE other = job
      BY <1>3, <1>6, <1>8, <3>1
    <3>2. CASE other # job
      BY <1>6, <3>2 DEF QuakeInv, NothingInvented
    <3> QED
      BY <3>1, <3>2
  <2> QED
    BY <1>5, <1>8, <2>1 DEF NothingInvented
<1>10. AnswersFresh'
  <2> SUFFICES ASSUME NEW other \in Jobs, At(other, "write")', NEW e \in tours'[other].todo
               PROVE  /\ tours'[other].answer[e].solution > 0
                      /\ ~overlapped' => stored'[e].solution <= tours'[other].answer[e].solution
    BY Zenon DEF AnswersFresh
  <2>1. CASE other = job
    <3>1. e \in accepted /\ e \in Events /\ tours'[job].answer[e] = provider[e]
      BY <1>3, <1>6, <2>1
    <3>2. provider[e] # NoEvent
      BY <1>5, <3>1 DEF InWindow
    <3> QED
      BY <1>5, <1>8, <2>1, <3>1, <3>2
  <2>2. CASE other # job
    <3>1. tours'[other] = tours[other] /\ At(other, "write")
      BY <1>6, <2>2 DEF At
    <3> QED
      BY <1>5, <3>1 DEF QuakeInv, AnswersFresh
  <2> QED
    BY <2>1, <2>2
<1>11. OneTour'
  BY <1>5, <1>6 DEF QuakeInv, OneTour, At
<1>12. RevisionsAlone'
  BY <1>5 DEF QuakeInv, RevisionsAlone
<1> QED
  BY <1>7, <1>9, <1>10, <1>11, <1>12 DEF QuakeInv

\* A tour takes a row off its list, and changes nothing else that matters here.
LEMMA RowTaken ==
  ASSUME QuakeInv, NEW job \in Jobs, NEW e \in Events, At(job, "write"), NEW t \in QuakeTours,
         TourBecomes(job, t), t.at = "write", t.todo = tours[job].todo \ {e},
         t.answer = tours[job].answer, t.started = tours[job].started,
         UNCHANGED <<clock, provider, runs, overlapped>>,
         stored' \in [Events -> RowRecords],
         \A other \in Events \ {e} : stored'[other] = stored[other],
         stored'[e] = stored[e] \/ stored'[e].solution = tours[job].answer[e].solution
  PROVE  QuakeTyped' /\ RunsOrdered' /\ NothingInvented' /\ AnswersFresh' /\ OneTour'
<1>1. /\ tours' \in [Jobs -> QuakeTours] /\ tours'[job] = t
      /\ \A other \in Jobs \ {job} : tours'[other] = tours[other]
  BY TourBecame DEF QuakeInv
<1>2. QuakeTyped' /\ RunsOrdered'
  BY <1>1 DEF QuakeInv, QuakeTyped, RunsOrdered
<1>3. \A j \in Jobs : tours'[j].answer = tours[j].answer /\ tours'[j].todo \subseteq tours[j].todo
                      /\ (At(j, "write")' => At(j, "write")) /\ (At(j, "idle")' <=> At(j, "idle"))
  BY <1>1 DEF At
<1>4. NothingInvented'
  <2>1. ASSUME NEW d \in Events PROVE stored'[d].solution <= provider[d].solution
    BY DEF QuakeInv, NothingInvented
  <2> QED
    BY <1>3, <2>1 DEF QuakeInv, NothingInvented
<1>5. AnswersFresh'
  <2> SUFFICES ASSUME NEW j \in Jobs, At(j, "write")', NEW d \in tours'[j].todo
               PROVE  /\ tours'[j].answer[d].solution > 0
                      /\ ~overlapped' => stored'[d].solution <= tours'[j].answer[d].solution
    BY Zenon DEF AnswersFresh
  <2>1. /\ At(j, "write") /\ d \in tours[j].todo /\ tours'[j].answer = tours[j].answer
        /\ d \in Events
    BY <1>3, QuakeTourFields DEF QuakeInv
  <2>2. /\ tours[j].answer[d].solution > 0
        /\ ~overlapped => stored[d].solution <= tours[j].answer[d].solution
    BY <2>1 DEF QuakeInv, AnswersFresh
  <2>3. ~overlapped => j = job
    BY <2>1 DEF QuakeInv, OneTour, At
  <2>4. j = job => d # e
    BY <1>1
  <2> QED
    BY <2>1, <2>2, <2>3, <2>4
<1>6. OneTour'
  BY <1>3, Zenon DEF QuakeInv, OneTour
<1> QED
  BY <1>2, <1>4, <1>5, <1>6

\* A statement stores a newer solution, or the one that is there, once.
LEMMA WriteKeeps ==
  ASSUME QuakeInv, NEW job \in Jobs, NEW e \in Events, Write(job, e)
  PROVE  QuakeInv'
<1> DEFINE t == [tours[job] EXCEPT !.todo = tours[job].todo \ {e},
                                   !.landed = tours[job].landed \union {e}]
           event == tours[job].answer[e]
           row == stored[e]
<1>1. /\ tours \in [Jobs -> QuakeTours] /\ tours[job] \in QuakeTours
      /\ stored \in [Events -> RowRecords]
  BY DEF QuakeInv, QuakeTyped
<1>2. t \in QuakeTours /\ t.at = tours[job].at /\ t.todo = tours[job].todo \ {e}
      /\ t.answer = tours[job].answer /\ t.started = tours[job].started
  BY <1>1 DEF QuakeTours
<1>3. TourBecomes(job, t)
  <2>1. tours' = [tours EXCEPT ![job].todo = tours[job].todo \ {e},
                               ![job].landed = tours[job].landed \union {e}]
    BY DEF Write
  <2> QED
    BY <1>1, <2>1, TwoFields DEF TourBecomes
<1> HIDE DEF t
<1>4. /\ At(job, "write") /\ e \in tours[job].todo
      /\ UNCHANGED <<clock, provider, runs, overlapped>>
      /\ stored' = [stored EXCEPT ![e] = Upserted(row, event)]
  BY DEF Write
<1>5. event \in EventRecords /\ row \in RowRecords
  BY <1>1 DEF QuakeTours
<1> HIDE DEF event, row
<1>6. /\ event.solution \in 0 .. MaxSolution /\ row.solution \in 0 .. MaxSolution
      /\ row.revisions \in Nat /\ MaxSolution \in Nat
  BY <1>5, EarthquakeConstantsOK DEF EventRecords, RowRecords
<1>7. Upserted(row, event) \in RowRecords /\ Upserted(row, event).solution = event.solution
  BY <1>6 DEF Upserted, RowRecords
<1>8. /\ stored' \in [Events -> RowRecords] /\ stored'[e] = Upserted(row, event)
      /\ \A other \in Events \ {e} : stored'[other] = stored[other]
  BY <1>1, <1>4, <1>7
<1>9. QuakeTyped' /\ RunsOrdered' /\ NothingInvented' /\ AnswersFresh' /\ OneTour'
  <2>1. t.at = "write"
    BY <1>2, <1>4 DEF At
  <2>2. stored'[e].solution = tours[job].answer[e].solution
    BY <1>7, <1>8 DEF event
  <2> QED
    BY <1>2, <1>3, <1>4, <1>8, <2>1, <2>2, RowTaken
<1>10. RevisionsAlone'
  <2> SUFFICES ASSUME ~overlapped', NEW d \in Events, stored'[d] # NoRow
               PROVE  stored'[d].revisions < stored'[d].solution
    BY Zenon DEF RevisionsAlone
  <2>1. ~overlapped
    BY <1>4
  <2>2. CASE d = e
    <3>1. event.solution > 0 /\ row.solution <= event.solution
      BY <1>4, <2>1 DEF QuakeInv, AnswersFresh, event, row
    <3>2. row # NoRow => row.revisions < row.solution
      BY <2>1 DEF QuakeInv, RevisionsAlone, row
    <3>3. row = NoRow => row.revisions = 0
      BY DEF NoRow
    <3>4. Upserted(row, event).revisions < event.solution
      <4>1. Upserted(row, event).revisions =
              row.revisions + IF row # NoRow /\ row.solution # event.solution THEN 1 ELSE 0
        BY DEF Upserted, Revised
      <4>2. CASE row = NoRow
        BY <1>6, <3>1, <3>3, <4>1, <4>2
      <4>3. CASE row # NoRow /\ row.solution # event.solution
        <5>1. Upserted(row, event).revisions = row.revisions + 1
          BY <4>1, <4>3
        <5> QED
          BY <1>6, <3>1, <3>2, <4>3, <5>1
      <4>4. CASE row # NoRow /\ row.solution = event.solution
        <5>1. Upserted(row, event).revisions = row.revisions
          BY <1>6, <4>1, <4>4
        <5> QED
          BY <1>6, <3>2, <4>4, <5>1
      <4> QED
        BY <4>2, <4>3, <4>4
    <3> QED
      BY <1>7, <1>8, <2>2, <3>4
  <2>3. CASE d # e
    BY <1>8, <2>1, <2>3 DEF QuakeInv, RevisionsAlone
  <2> QED
    BY <2>2, <2>3
<1> QED
  BY <1>9, <1>10 DEF QuakeInv

LEMMA WriteFailsKeeps ==
  ASSUME QuakeInv, NEW job \in Jobs, NEW e \in Events, WriteFails(job, e)
  PROVE  QuakeInv'
<1> DEFINE t == [tours[job] EXCEPT !.todo = tours[job].todo \ {e},
                                   !.refused = tours[job].refused \union {e}]
<1>1. /\ tours \in [Jobs -> QuakeTours] /\ tours[job] \in QuakeTours
      /\ stored \in [Events -> RowRecords]
  BY DEF QuakeInv, QuakeTyped
<1>2. t \in QuakeTours /\ t.at = tours[job].at /\ t.todo = tours[job].todo \ {e}
      /\ t.answer = tours[job].answer /\ t.started = tours[job].started
  BY <1>1 DEF QuakeTours
<1>3. TourBecomes(job, t)
  <2>1. tours' = [tours EXCEPT ![job].todo = tours[job].todo \ {e},
                               ![job].refused = tours[job].refused \union {e}]
    BY DEF WriteFails
  <2> QED
    BY <1>1, <2>1, TwoFields DEF TourBecomes
<1> HIDE DEF t
<1>4. At(job, "write") /\ UNCHANGED <<clock, provider, runs, overlapped>> /\ stored' = stored
  BY DEF WriteFails
<1>5. t.at = "write"
  BY <1>2, <1>4 DEF At
<1>6. QuakeTyped' /\ RunsOrdered' /\ NothingInvented' /\ AnswersFresh' /\ OneTour'
  BY <1>1, <1>2, <1>3, <1>4, <1>5, RowTaken
<1>7. RevisionsAlone'
  BY <1>4 DEF QuakeInv, RevisionsAlone
<1> QED
  BY <1>6, <1>7 DEF QuakeInv

LEMMA SolveKeeps == ASSUME QuakeInv, NEW e \in Events, Solve(e) PROVE QuakeInv'
<1> DEFINE since == IF provider[e] = NoEvent THEN clock ELSE provider[e].since
           new == [provider[e] EXCEPT !.solution = provider[e].solution + 1, !.since = since]
<1>1. /\ clock \in Nat /\ MaxSolution \in Nat /\ provider \in [Events -> EventRecords]
      /\ \A d \in Events : /\ provider[d].solution \in 0 .. MaxSolution
                           /\ provider[d].since \in Nat
  BY EarthquakeConstantsOK DEF QuakeInv, QuakeTyped, EventRecords
<1>2. provider' = [provider EXCEPT ![e] = new]
  <2>1. provider' = [provider EXCEPT ![e].solution = provider[e].solution + 1, ![e].since = since]
    BY Zenon DEF Solve
  <2>2. [provider EXCEPT ![e].solution = provider[e].solution + 1, ![e].since = since] =
        [provider EXCEPT ![e] = new]
    <3>1. provider \in [Events -> EventRecords]
      BY <1>1
    <3> QED
      BY <3>1
  <2> QED
    BY <2>1, <2>2, Zenon
<1>3. new \in EventRecords /\ new.solution = provider[e].solution + 1
  <2>1. since \in Nat
    BY <1>1
  <2>2. provider[e].solution + 1 \in 0 .. MaxSolution
    BY <1>1 DEF Solve
  <2>3. provider[e] \in EventRecords
    BY <1>1
  <2> HIDE DEF since
  <2> QED
    BY <2>1, <2>2, <2>3 DEF EventRecords
<1> HIDE DEF new
<1>4. /\ provider' \in [Events -> EventRecords] /\ provider'[e] = new
      /\ \A d \in Events \ {e} : provider'[d] = provider[d]
  BY <1>1, <1>2, <1>3
<1>5. UNCHANGED <<clock, stored, runs, tours, overlapped>>
  BY DEF Solve
<1>6. QuakeTyped' /\ RunsOrdered' /\ AnswersFresh' /\ OneTour' /\ RevisionsAlone'
  BY <1>4, <1>5 DEF QuakeInv, QuakeTyped, RunsOrdered, AnswersFresh, OneTour, At,
                    RevisionsAlone
<1>7. NothingInvented'
  <2> SUFFICES ASSUME NEW d \in Events
               PROVE  /\ provider'[d].solution = 0 => provider'[d] = NoEvent
                      /\ stored[d].solution <= provider'[d].solution
                      /\ \A job \in Jobs : tours[job].answer[d].solution <= provider'[d].solution
    BY <1>5 DEF NothingInvented
  <2>1. /\ provider[d].solution = 0 => provider[d] = NoEvent
        /\ stored[d].solution <= provider[d].solution
        /\ \A job \in Jobs : tours[job].answer[d].solution <= provider[d].solution
    BY DEF QuakeInv, NothingInvented
  <2>2. CASE d # e
    BY <1>4, <2>1, <2>2
  <2>3. CASE d = e
    <3>1. provider'[d].solution = provider[d].solution + 1 /\ provider[d].solution \in Nat
      BY <1>1, <1>3, <1>4, <2>3
    <3>2. stored[d].solution \in Int
      BY <1>1 DEF QuakeInv, QuakeTyped, RowRecords
    <3>3. \A job \in Jobs : tours[job].answer[d].solution \in Int
      BY DEF QuakeInv, QuakeTyped, QuakeTours, EventRecords
    <3> QED
      BY <2>1, <3>1, <3>2, <3>3
  <2> QED
    BY <2>2, <2>3
<1> QED
  BY <1>6, <1>7 DEF QuakeInv

LEMMA ClockTickKeeps == ASSUME QuakeInv, ClockTick PROVE QuakeInv'
<1>1. clock \in Nat /\ MaxClock \in Nat /\ clock < MaxClock /\ clock' = clock + 1
      /\ UNCHANGED <<provider, stored, runs, tours, overlapped>>
  BY EarthquakeConstantsOK DEF QuakeInv, QuakeTyped, ClockTick
<1>2. QuakeTyped'
  BY <1>1 DEF QuakeInv, QuakeTyped
<1>3. RunsOrdered'
  <2>1. \A job \in Jobs : tours[job].started \in Nat
    BY DEF QuakeInv, QuakeTyped, QuakeTours
  <2>2. \A run \in runs : run.finished \in Nat
    BY DEF QuakeInv, QuakeTyped, RunRecords
  <2> QED
    BY <1>1, <2>1, <2>2 DEF QuakeInv, RunsOrdered
<1>4. NothingInvented' /\ AnswersFresh' /\ OneTour' /\ RevisionsAlone'
  BY <1>1 DEF QuakeInv, NothingInvented, AnswersFresh, OneTour, At, RevisionsAlone
<1> QED
  BY <1>2, <1>3, <1>4 DEF QuakeInv

LEMMA QuakeInvInit == QuakeInit => QuakeInv
<1> SUFFICES ASSUME QuakeInit PROVE QuakeInv
  OBVIOUS
<1>1. /\ clock = 0 /\ provider = [e \in Events |-> NoEvent] /\ stored = [e \in Events |-> NoRow]
      /\ runs = {} /\ tours = [job \in Jobs |-> NoQuakeTour] /\ overlapped = FALSE
  BY Zenon DEF QuakeInit
<1>2. NoRow \in RowRecords
  BY EarthquakeConstantsOK DEF NoRow, RowRecords
<1>3. QuakeTyped
  <2>1. clock \in 0 .. MaxClock
    BY <1>1, EarthquakeConstantsOK
  <2>2. tours \in [Jobs -> QuakeTours] /\ provider \in [Events -> EventRecords]
    BY <1>1, NoQuakeTourTyped
  <2>3. stored \in [Events -> RowRecords]
    BY <1>1, <1>2
  <2> QED
    BY <1>1, <2>1, <2>2, <2>3 DEF QuakeTyped
<1>4. NoQuakeTour.at = "idle" /\ NoQuakeTour.started = 0
      /\ NoQuakeTour.answer = [e \in Events |-> NoEvent]
  BY DEF NoQuakeTour
<1>5. RunsOrdered /\ AnswersFresh /\ OneTour
  BY <1>1, <1>4 DEF RunsOrdered, AnswersFresh, OneTour, At
<1>6. NothingInvented
  BY <1>1, <1>4 DEF NothingInvented, NoEvent, NoRow
<1>7. RevisionsAlone
  BY <1>1 DEF RevisionsAlone
<1> QED
  BY <1>3, <1>5, <1>6, <1>7 DEF QuakeInv

LEMMA QuakeInvStep == QuakeInv /\ [QuakeNext]_quakeVars => QuakeInv'
<1> SUFFICES ASSUME QuakeInv, [QuakeNext]_quakeVars PROVE QuakeInv'
  OBVIOUS
<1>1. CASE ClockTick
  BY <1>1, ClockTickKeeps
<1>2. CASE \E e \in Events : Solve(e)
  BY <1>2, SolveKeeps
<1>3. ASSUME NEW job \in Jobs,
             \/ Start(job) \/ Answers(job) \/ Fail(job) \/ ReadCutoff(job) \/ Writes(job)
             \/ \E e \in Events : WriteFails(job, e)
             \/ RecordRun(job) \/ PruneRuns(job) \/ TourDies(job)
      PROVE  QuakeInv'
  BY <1>3, StartKeeps, AnswerKeeps, FailKeeps, ReadCutoffKeeps, WriteKeeps, WriteFailsKeeps, RecordRunKeeps,
     EndsKeep, Zenon DEF Answers, Writes
<1>4. CASE UNCHANGED quakeVars
  BY <1>4 DEF quakeVars, QuakeInv, QuakeTyped, RunsOrdered, NothingInvented, AnswersFresh, OneTour,
              At, RevisionsAlone
<1> QED
  BY <1>1, <1>2, <1>3, <1>4, Zenon DEF QuakeNext

LEMMA QuakeInvariant == QuakeSpec => []QuakeInv
BY QuakeInvInit, QuakeInvStep, PTL DEF QuakeSpec

\* Events, rows, runs and tours stay in their ranges, and a clean run succeeded
\* and ended after it began, whatever the provider publishes and the tours do.
THEOREM QuakeTypeCorrect == QuakeSpec => []QuakeTypeOK
<1>1. QuakeInv => QuakeTypeOK
  BY DEF QuakeInv, QuakeTyped, RunsOrdered, QuakeTypeOK, EventRecords, RowRecords
<1> QED
  BY <1>1, QuakeInvariant, PTL

-----------------------------------------------------------------------------
(* Revisions when tours overlap: each solution pays for one return of the   *)
(* one before it.                                                           *)

\* The tour is to write an older solution over the newest that was stored.
Stale(job, e, newest) ==
  At(job, "write") /\ e \in tours[job].todo /\ tours[job].answer[e].solution < newest

\* What was counted, and what the row and the stale tour may yet add.
Spent(e, newest) ==
  stored[e].revisions + (IF stored[e].solution < newest THEN 1 ELSE 0)
                      + (IF \E job \in Jobs : Stale(job, e, newest) THEN 2 ELSE 0)

Accounted(e, newest) ==
  /\ \A job, other \in Jobs : Stale(job, e, newest) /\ Stale(other, e, newest) => job = other
  /\ Spent(e, newest) <= 3 * (newest - 1)

SolutionsAccounted ==
  \A e \in Events : stored[e] # NoRow =>
    \E newest \in stored[e].solution .. provider[e].solution : Accounted(e, newest)

\* Of one event: its row stays, the provider has no less, and no tour becomes stale.
LEMMA StillAccounted ==
  ASSUME QuakeInv, NEW e \in Events, NEW newest \in Nat, Accounted(e, newest),
         stored'[e] = stored[e],
         \A job \in Jobs : Stale(job, e, newest)' => Stale(job, e, newest)
  PROVE  Accounted(e, newest)'
<1>1. stored[e].revisions \in Nat
  BY DEF QuakeInv, QuakeTyped, RowRecords
<1>2. Spent(e, newest)' <= Spent(e, newest)
  <2>1. (\E job \in Jobs : Stale(job, e, newest)') => \E job \in Jobs : Stale(job, e, newest)
    OBVIOUS
  <2> QED
    BY <1>1, <2>1 DEF Spent
<1>3. Spent(e, newest) \in Int /\ Spent(e, newest)' \in Int
  BY <1>1 DEF Spent
<1> QED
  BY <1>2, <1>3 DEF Accounted

\* A tour writes a row: what it writes is the newest, or what was, or older, and
\* then it was the stale one.
LEMMA WriteAccounts ==
  ASSUME QuakeInv, SolutionsAccounted, NEW job \in Jobs, NEW e \in Events, Write(job, e),
         stored'[e] # NoRow
  PROVE  \E newest \in stored'[e].solution .. provider[e].solution : Accounted(e, newest)'
<1> PICK row : row = stored[e]
  OBVIOUS
<1> PICK event : event = tours[job].answer[e]
  OBVIOUS
<1>1. /\ row.solution \in Nat /\ row.revisions \in Nat /\ event.solution \in Nat
      /\ provider[e].solution \in Nat /\ event.solution <= provider[e].solution
      /\ \A other \in Jobs : tours[other].answer[e].solution \in Nat
  BY EarthquakeConstantsOK DEF QuakeInv, QuakeTyped, NothingInvented, QuakeTours, RowRecords, EventRecords
<1>2. At(job, "write") /\ e \in tours[job].todo
  BY DEF Write
<1>3. event.solution > 0
  BY <1>2 DEF QuakeInv, AnswersFresh
<1>4. /\ tours'[job].todo = tours[job].todo \ {e}
      /\ \A other \in Jobs \ {job} : tours'[other] = tours[other]
  <2>1. tours \in [Jobs -> QuakeTours]
    BY DEF QuakeInv, QuakeTyped
  <2>2. tours' = [tours EXCEPT ![job].todo = tours[job].todo \ {e},
                               ![job].landed = tours[job].landed \union {e}]
    BY DEF Write
  <2> QED
    BY <2>1, <2>2 DEF QuakeTours
<1>5. /\ stored'[e].solution = event.solution
      /\ stored'[e].revisions = row.revisions +
            IF row # NoRow /\ row.solution # event.solution THEN 1 ELSE 0
  <2>1. stored \in [Events -> RowRecords]
    BY DEF QuakeInv, QuakeTyped
  <2>2. stored' = [stored EXCEPT ![e] = Upserted(stored[e], tours[job].answer[e])]
    BY DEF Write
  <2> QED
    BY <2>1, <2>2 DEF Upserted, Revised
\* Only the other tour is stale now.
<1>6. ASSUME NEW newest \in Nat
      PROVE  /\ ~Stale(job, e, newest)'
             /\ \A other \in Jobs \ {job} : Stale(other, e, newest)' <=> Stale(other, e, newest)
             /\ \A one, other \in Jobs : Stale(one, e, newest)' /\ Stale(other, e, newest)' => one = other
  <2>1. ~Stale(job, e, newest)'
    BY <1>4 DEF Stale
  <2>2. \A other \in Jobs \ {job} : Stale(other, e, newest)' <=> Stale(other, e, newest)
    BY <1>4 DEF Stale, At
  <2> QED
    BY <2>1, <2>2 DEF Jobs
<1>7. CASE row = NoRow
  <2>1. row.revisions = 0 /\ stored'[e].revisions = 0
    BY <1>5, <1>7 DEF NoRow
  <2>2. ASSUME NEW other \in Jobs, Stale(other, e, event.solution)' PROVE event.solution > 1
    <3>1. other # job /\ Stale(other, e, event.solution)
      BY <1>1, <1>6, <2>2
    <3>2. tours[other].answer[e].solution > 0 /\ tours[other].answer[e].solution < event.solution
      BY <3>1 DEF Stale, QuakeInv, AnswersFresh
    <3> QED
      BY <1>1, <3>2
  <2>3. Spent(e, event.solution)' =
          0 + 0 + (IF \E other \in Jobs : Stale(other, e, event.solution)' THEN 2 ELSE 0)
    BY <1>1, <1>5, <2>1 DEF Spent
  <2>4. Accounted(e, event.solution)'
    BY <1>1, <1>3, <1>6, <2>2, <2>3 DEF Accounted
  <2> QED
    BY <1>1, <1>5, <2>4
<1>8. CASE row # NoRow
  <2>1. PICK newest \in row.solution .. provider[e].solution : Accounted(e, newest)
    BY <1>8 DEF SolutionsAccounted
  <2>2. newest \in Nat
    BY <1>1, <2>1
  <2>3. row.revisions + (IF row.solution < newest THEN 1 ELSE 0)
          + (IF \E other \in Jobs : Stale(other, e, newest) THEN 2 ELSE 0) <= 3 * (newest - 1)
    BY <2>1 DEF Accounted, Spent
  <2>4. CASE event.solution > newest
    <3>1. Spent(e, event.solution)' <= row.revisions + 3
      BY <1>1, <1>5 DEF Spent
    <3>2. row.revisions <= 3 * (newest - 1)
      BY <1>1, <2>2, <2>3
    <3>3. row.revisions + 3 <= 3 * (event.solution - 1)
      BY <1>1, <2>2, <2>4, <3>2
    <3>4. Spent(e, event.solution)' \in Int
      BY <1>1, <1>5 DEF Spent
    <3>5. Accounted(e, event.solution)'
      BY <1>1, <1>6, <3>1, <3>3, <3>4 DEF Accounted
    <3> QED
      BY <1>1, <1>5, <3>5
  <2>5. CASE event.solution = newest
    <3>1. (\E other \in Jobs : Stale(other, e, newest)') => \E other \in Jobs : Stale(other, e, newest)
      BY <1>6, <2>2
    <3>2. Spent(e, newest)' <= row.revisions + (IF row.solution < newest THEN 1 ELSE 0)
             + (IF \E other \in Jobs : Stale(other, e, newest) THEN 2 ELSE 0)
      <4>1. stored'[e].revisions <= row.revisions + (IF row.solution < newest THEN 1 ELSE 0)
        BY <1>1, <1>5, <2>1, <2>5
      <4>2. ~(stored'[e].solution < newest) /\ stored'[e].revisions \in Nat
        BY <1>1, <1>5, <2>2, <2>5
      <4> QED
        BY <1>1, <2>2, <3>1, <4>1, <4>2 DEF Spent
    <3>3. Spent(e, newest)' \in Int
      BY <1>1, <1>5 DEF Spent
    <3>4. Accounted(e, newest)'
      BY <1>1, <1>6, <2>2, <2>3, <3>2, <3>3 DEF Accounted
    <3> QED
      BY <1>1, <1>5, <2>1, <2>5, <3>4
  <2>6. CASE event.solution < newest
    <3>1. Stale(job, e, newest)
      BY <1>2, <2>6 DEF Stale
    <3>2. ~\E other \in Jobs : Stale(other, e, newest)'
      BY <1>6, <2>1, <2>2, <3>1 DEF Accounted
    <3>3. Spent(e, newest)' <= row.revisions + 1 + 1
      BY <1>1, <1>5, <2>2, <3>2 DEF Spent
    <3>4. row.revisions + 2 <= 3 * (newest - 1)
      BY <1>1, <2>2, <2>3, <3>1
    <3>5. Spent(e, newest)' \in Int
      BY <1>1, <1>5 DEF Spent
    <3>6. Accounted(e, newest)'
      BY <1>1, <1>6, <2>2, <3>3, <3>4, <3>5 DEF Accounted
    <3> QED
      BY <1>1, <1>5, <2>1, <2>2, <2>6, <3>6
  <2> QED
    BY <1>1, <2>2, <2>4, <2>5, <2>6
<1> QED
  BY <1>7, <1>8

\* A step that leaves an event's row alone and makes no tour stale.
LEMMA RowStays ==
  ASSUME QuakeInv, QuakeInv', SolutionsAccounted, NEW e \in Events, stored'[e] = stored[e],
         stored'[e] # NoRow, provider'[e].solution >= provider[e].solution,
         \A job \in Jobs : \A newest \in 0 .. provider[e].solution :
           Stale(job, e, newest)' => Stale(job, e, newest)
  PROVE  \E newest \in stored'[e].solution .. provider'[e].solution : Accounted(e, newest)'
<1>1. /\ stored[e].solution \in Nat /\ provider[e].solution \in Nat /\ provider'[e].solution \in Nat
  BY EarthquakeConstantsOK DEF QuakeInv, QuakeTyped, RowRecords, EventRecords
<1>2. PICK newest \in stored[e].solution .. provider[e].solution : Accounted(e, newest)
  BY DEF SolutionsAccounted
<1>3. newest \in Nat /\ newest \in 0 .. provider[e].solution
  BY <1>1, <1>2
<1>4. Accounted(e, newest)'
  BY <1>2, <1>3, StillAccounted
<1> QED
  BY <1>1, <1>2, <1>4

\* A tour that takes one row off its list.
LEMMA ListShrinks ==
  ASSUME QuakeInv, NEW job \in Jobs, NEW d \in Events, Write(job, d) \/ WriteFails(job, d),
         NEW e \in Events, NEW newest \in Nat, NEW other \in Jobs, Stale(other, e, newest)'
  PROVE  Stale(other, e, newest)
<1>1. tours \in [Jobs -> QuakeTours]
  BY DEF QuakeInv, QuakeTyped
<1>2. \/ tours' = [tours EXCEPT ![job].todo = tours[job].todo \ {d},
                                ![job].landed = tours[job].landed \union {d}]
      \/ tours' = [tours EXCEPT ![job].todo = tours[job].todo \ {d},
                                ![job].refused = tours[job].refused \union {d}]
  BY DEF Write, WriteFails
<1>3. /\ tours'[other].at = tours[other].at /\ tours'[other].answer = tours[other].answer
      /\ tours'[other].todo \subseteq tours[other].todo
  <2>1. CASE other # job
    BY <1>1, <1>2, <2>1
  <2>2. CASE other = job
    <3>1. tours[job] \in QuakeTours
      BY <1>1
    <3>2. /\ tours'[job].at = tours[job].at /\ tours'[job].answer = tours[job].answer
          /\ tours'[job].todo = tours[job].todo \ {d}
      BY <1>1, <1>2, <3>1 DEF QuakeTours
    <3> QED
      BY <2>2, <3>2
  <2> QED
    BY <2>1, <2>2
<1> QED
  BY <1>3 DEF Stale, At

\* A tour that goes elsewhere than to its writes has nothing to write.
LEMMA NotWriting ==
  ASSUME QuakeInv, NEW job \in Jobs,
         \/ Start(job) \/ Fail(job) \/ ReadCutoff(job) \/ RecordRun(job) \/ PruneRuns(job)
         \/ TourDies(job),
         NEW e \in Events, NEW newest \in Nat, NEW other \in Jobs, Stale(other, e, newest)'
  PROVE  Stale(other, e, newest)
<1>1. tours \in [Jobs -> QuakeTours]
  BY DEF QuakeInv, QuakeTyped
<1>2. PICK t : tours' = [tours EXCEPT ![job] = t] /\ t.at # "write"
  <2>1. NoQuakeTour.at # "write" /\ [NoQuakeTour EXCEPT !.at = "failed"].at # "write"
        /\ [NoQuakeTour EXCEPT !.at = "request", !.started = clock].at # "write"
        /\ \A cutoff : [NoQuakeTour EXCEPT !.at = "prune", !.cutoff = cutoff].at # "write"
    BY DEF NoQuakeTour
  <2> QED
    BY <2>1, Zenon DEF Start, Fail, ReadCutoff, RecordRun, PruneRuns, TourDies, ToPrune
<1>3. other # job /\ tours'[other] = tours[other]
  BY <1>1, <1>2 DEF Stale, At
<1> QED
  BY <1>3 DEF Stale, At

\* What the provider answers is its newest.
LEMMA AnswerIsNewest ==
  ASSUME QuakeInv, NEW job \in Jobs, Answers(job),
         NEW e \in Events, NEW newest \in 0 .. provider[e].solution, NEW other \in Jobs,
         Stale(other, e, newest)'
  PROVE  Stale(other, e, newest)
<1>1. tours \in [Jobs -> QuakeTours] /\ provider[e].solution \in Nat
  BY EarthquakeConstantsOK DEF QuakeInv, QuakeTyped, EventRecords
<1>2. PICK returned \in SUBSET Events, accepted \in SUBSET Events :
        tours' = [tours EXCEPT ![job].at = "write", ![job].answer = provider,
                               ![job].returned = returned, ![job].todo = accepted,
                               ![job].cutoff = clock - Retention]
  BY Zenon DEF Answers, Answer
<1>3. /\ tours'[job].answer = provider
      /\ other # job => tours'[other] = tours[other]
  BY <1>1, <1>2 DEF QuakeTours
<1>4. other # job
  BY <1>1, <1>3 DEF Stale
<1> QED
  BY <1>3, <1>4 DEF Stale, At

LEMMA SolutionsAccountedStep ==
  ASSUME QuakeInv, QuakeInv', SolutionsAccounted, [QuakeNext]_quakeVars
  PROVE  SolutionsAccounted'
<1> SUFFICES ASSUME NEW e \in Events, stored'[e] # NoRow
             PROVE  \E newest \in stored'[e].solution .. provider'[e].solution : Accounted(e, newest)'
  BY Zenon DEF SolutionsAccounted
<1>1. provider[e].solution \in Nat /\ 0 .. provider[e].solution \subseteq Nat
  BY EarthquakeConstantsOK DEF QuakeInv, QuakeTyped, EventRecords
<1>2. ASSUME NEW d \in Events, Solve(d)
      PROVE  /\ provider'[e].solution >= provider[e].solution
             /\ UNCHANGED <<stored, tours>>
  BY <1>1, <1>2 DEF Solve, QuakeInv, QuakeTyped, EventRecords
<1>3. ASSUME NEW job \in Jobs, NEW d \in Events, Write(job, d)
      PROVE  \E newest \in stored'[e].solution .. provider'[e].solution : Accounted(e, newest)'
  <2>1. provider' = provider /\ (e # d => stored'[e] = stored[e])
    BY <1>3 DEF Write, QuakeInv, QuakeTyped
  <2>2. CASE e = d
    BY <1>3, <2>1, <2>2, WriteAccounts
  <2>3. CASE e # d
    <3>1. \A other \in Jobs : \A newest \in 0 .. provider[e].solution :
            Stale(other, e, newest)' => Stale(other, e, newest)
      BY <1>1, <1>3, ListShrinks
    <3> QED
      BY <1>1, <2>1, <2>3, <3>1, RowStays
  <2> QED
    BY <2>2, <2>3
<1>4. ASSUME stored'[e] = stored[e], provider'[e].solution >= provider[e].solution,
             \A job \in Jobs : \A newest \in 0 .. provider[e].solution :
               Stale(job, e, newest)' => Stale(job, e, newest)
      PROVE  \E newest \in stored'[e].solution .. provider'[e].solution : Accounted(e, newest)'
  BY <1>4, RowStays
<1>5. ASSUME NEW job \in Jobs,
             \/ Start(job) \/ Fail(job) \/ ReadCutoff(job) \/ RecordRun(job) \/ PruneRuns(job)
             \/ TourDies(job) \/ Answers(job) \/ \E d \in Events : WriteFails(job, d)
      PROVE  \E newest \in stored'[e].solution .. provider'[e].solution : Accounted(e, newest)'
  <2>1. stored' = stored /\ provider' = provider
    BY <1>5, Zenon DEF Start, Fail, ReadCutoff, RecordRun, PruneRuns, TourDies, Answers, Answer, WriteFails
  <2>2. ASSUME NEW other \in Jobs, NEW newest \in 0 .. provider[e].solution, Stale(other, e, newest)'
        PROVE  Stale(other, e, newest)
    BY <1>1, <1>5, <2>2, NotWriting, AnswerIsNewest, ListShrinks
  <2> QED
    BY <1>1, <1>4, <2>1, <2>2
<1>6. CASE \E d \in Events : Solve(d)
  BY <1>2, <1>4, <1>6 DEF Stale, At
<1>7. CASE ClockTick \/ UNCHANGED quakeVars
  <2>1. UNCHANGED <<provider, stored, tours>>
    BY <1>7 DEF ClockTick, quakeVars
  <2> QED
    BY <1>1, <1>4, <2>1 DEF Stale, At
<1> QED
  BY <1>3, <1>5, <1>6, <1>7, Zenon DEF QuakeNext, Writes

\* What the readers are shown as revisions are the provider's while no tours
\* overlapped, and at most three times the provider's when they did, however
\* often (EarthquakeIngestStore.upsertEvent).
THEOREM RevisionsCounted == QuakeSpec => []RevisionsAreTheProviders
<1>1. QuakeInit => SolutionsAccounted
  BY DEF QuakeInit, SolutionsAccounted
<1>2. QuakeInv /\ QuakeInv' /\ SolutionsAccounted /\ [QuakeNext]_quakeVars => SolutionsAccounted'
  BY SolutionsAccountedStep
<1>3. ASSUME QuakeInv, SolutionsAccounted PROVE RevisionsAreTheProviders
  <2> SUFFICES ASSUME NEW e \in Events, stored[e] # NoRow
               PROVE  /\ ~overlapped => stored[e].revisions < stored[e].solution
                      /\ stored[e].revisions <= 3 * (provider[e].solution - 1)
    BY DEF RevisionsAreTheProviders
  <2>1. ~overlapped => stored[e].revisions < stored[e].solution
    BY <1>3 DEF QuakeInv, RevisionsAlone
  <2>2. /\ stored[e].solution \in Nat /\ provider[e].solution \in Nat /\ stored[e].revisions \in Nat
    BY <1>3, EarthquakeConstantsOK DEF QuakeInv, QuakeTyped, RowRecords, EventRecords
  <2>3. PICK newest \in stored[e].solution .. provider[e].solution : Accounted(e, newest)
    BY <1>3 DEF SolutionsAccounted
  <2>4. stored[e].revisions <= 3 * (newest - 1)
    BY <2>2, <2>3 DEF Accounted, Spent
  <2> QED
    BY <2>1, <2>2, <2>3, <2>4
<1> QED
  BY <1>1, <1>2, <1>3, QuakeInvariant, PTL DEF QuakeSpec
-----------------------------------------------------------------------------
(* The published anchor.                                                   *)

\* Of some numbers up to n one is the greatest.
LEMMA MaxBelow ==
  ASSUME NEW n \in Nat, NEW S, S \subseteq 0 .. n, S # {}
  PROVE  Max(S) \in S /\ \A m \in S : m <= Max(S)
<1> DEFINE T == {n - m : m \in S}
<1>1. T \subseteq Nat /\ T # {}
  <2>1. \A m \in S : n - m \in Nat
    OBVIOUS
  <2> QED
    BY <2>1
<1> HIDE DEF T
<1>2. PICK least \in T : \A k \in T : least <= k
  BY <1>1, Least
<1>3. PICK top \in S : least = n - top
  BY DEF T
<1>4. ASSUME NEW m \in S PROVE top >= m
  <2>1. n - top <= n - m
    BY <1>2, <1>3 DEF T
  <2> QED
    BY <2>1
<1>5. \E max \in S : \A m \in S : max >= m
  BY <1>4
<1>6. Max(S) \in S /\ \A m \in S : Max(S) >= m
  BY <1>5, Zenon DEF Max
<1> QED
  BY <1>6

\* The published anchor is when a clean run finished, and no other is newer.
AnchorIsNewest ==
  /\ Clean = {} => PublishedAnchor = Never
  /\ Clean # {} => \E run \in Clean : run.finished = PublishedAnchor
  /\ PublishedAnchor \in Int /\ PublishedAnchor >= Never
  /\ \A run \in Clean : run.finished <= PublishedAnchor

LEMMA AnchorIs == QuakeInv => AnchorIsNewest
<1> SUFFICES ASSUME QuakeInv PROVE AnchorIsNewest
  OBVIOUS
<1> USE DEF AnchorIsNewest
<1> DEFINE F == {run.finished : run \in Clean}
<1>1. clock \in Nat /\ \A run \in Clean : run.finished \in 0 .. clock
  BY QuakeTourFields, EarthquakeConstantsOK
  DEF QuakeInv, QuakeTyped, RunsOrdered, RunRecords, Clean
<1>2. CASE Clean = {}
  BY <1>2 DEF PublishedAnchor, Never
<1>3. CASE Clean # {}
  <2>1. F \subseteq 0 .. clock /\ F # {}
    BY <1>1, <1>3
  <2>2. Max(F) \in F /\ \A m \in F : m <= Max(F)
    <3> HIDE DEF F
    <3> QED
      BY <1>1, <2>1, MaxBelow
  <2>3. PublishedAnchor = Max(F)
    BY <1>3 DEF PublishedAnchor
  <2> HIDE DEF F
  <2>4. PublishedAnchor \in F /\ \A m \in F : m <= PublishedAnchor
    BY <2>2, <2>3, Zenon
  <2>5. PublishedAnchor \in 0 .. clock
    BY <2>1, <2>4
  <2> QED
    BY <1>1, <1>3, <2>4, <2>5 DEF F, Never
<1> QED
  BY <1>2, <1>3

LEMMA AnchorIsNext == QuakeInv' => AnchorIsNewest'
BY AnchorIs, PTL

\* The anchor stays where the run that carries it stays, or a newer one comes.
LEMMA AnchorOfMore ==
  ASSUME QuakeInv, QuakeInv',
         Clean # {} => \E run \in Clean' : run.finished >= PublishedAnchor
  PROVE  PublishedAnchor' >= PublishedAnchor
<1>1. PublishedAnchor \in Int /\ PublishedAnchor >= Never
      /\ (Clean = {} => PublishedAnchor = Never)
  BY AnchorIs DEF AnchorIsNewest
<1>2. /\ PublishedAnchor' \in Int /\ PublishedAnchor' >= Never
      /\ \A run \in Clean' : run.finished <= PublishedAnchor'
  BY AnchorIsNext DEF AnchorIsNewest
<1>3. \A run \in Clean' : run.finished \in Int
  BY DEF QuakeInv, QuakeTyped, RunRecords, Clean
<1> QED
  BY <1>1, <1>2, <1>3 DEF Never

\* pruneRuns spares a newest clean run.
LEMMA PruneSparesTheAnchor ==
  ASSUME QuakeInv, NEW job \in Jobs, PruneRuns(job), Clean # {}
  PROVE  \E run \in Clean' : run.finished >= PublishedAnchor
<1>1. PICK newest \in Clean : newest.finished = PublishedAnchor
  BY AnchorIs DEF AnchorIsNewest
<1>2. /\ \A run \in Clean : run.finished <= newest.finished
      /\ PublishedAnchor \in Int
  BY <1>1, AnchorIs DEF AnchorIsNewest
<1>3. Exempt # {}
  BY <1>2 DEF Exempt
<1>4. PICK keep \in SUBSET Exempt :
        /\ Cardinality(keep) = 1
        /\ runs' \in {{run \in runs : run.started >= tours[job].cutoff \/ run \in keep}, runs}
  BY <1>3 DEF PruneRuns
<1>5. keep # {}
  BY <1>4, FS_EmptySet
<1>6. PICK kept \in keep : TRUE
  BY <1>5
<1>7. kept \in Clean /\ kept \in runs /\ kept.clean /\ newest.finished <= kept.finished
  BY <1>1, <1>6 DEF Exempt, Clean
<1>8. kept \in runs'
  BY <1>4, <1>6, <1>7
<1>9. kept \in Clean' /\ kept.finished \in Int
  BY <1>7, <1>8 DEF Clean, QuakeInv, QuakeTyped, RunRecords
<1> QED
  BY <1>1, <1>2, <1>7, <1>9

\* A step that keeps every run.
LEMMA AnchorOfKeptRuns ==
  ASSUME QuakeInv, QuakeInv', runs \subseteq runs'
  PROVE  PublishedAnchor' >= PublishedAnchor
<1>1. ASSUME Clean # {} PROVE \E run \in Clean' : run.finished >= PublishedAnchor
  <2>1. PICK run \in Clean : run.finished = PublishedAnchor /\ PublishedAnchor \in Int
    BY <1>1, AnchorIs DEF AnchorIsNewest
  <2>2. run \in Clean'
    BY <2>1 DEF Clean
  <2> QED
    BY <2>1, <2>2
<1> QED
  BY <1>1, AnchorOfMore

\* The readers' anchor never goes back and never disappears, whichever tours
\* record, fail, die and prune in whatever order (EarthquakeIngestStore.pruneRuns).
THEOREM AnchorNeverGoesBack == QuakeSpec => AnchorStands
<1>1. ASSUME QuakeInv, QuakeInv', [QuakeNext]_quakeVars
      PROVE  PublishedAnchor' >= PublishedAnchor
  <2>1. ASSUME NEW job \in Jobs, PruneRuns(job) PROVE PublishedAnchor' >= PublishedAnchor
    BY <1>1, <2>1, PruneSparesTheAnchor, AnchorOfMore
  <2>2. ASSUME NEW job \in Jobs, RecordRun(job) \/ Fail(job)
        PROVE  PublishedAnchor' >= PublishedAnchor
    <3>1. runs \subseteq runs'
      BY <2>2 DEF RecordRun, Fail, Recorded
    <3> QED
      BY <1>1, <3>1, AnchorOfKeptRuns
  <2>3. ASSUME runs' = runs PROVE PublishedAnchor' >= PublishedAnchor
    BY <1>1, <2>3, AnchorOfKeptRuns
  <2>4. \/ \E job \in Jobs : PruneRuns(job) \/ RecordRun(job) \/ Fail(job)
        \/ runs' = runs
    <3>1. ASSUME NEW job \in Jobs, \/ Start(job) \/ Answers(job) \/ Writes(job) \/ ReadCutoff(job)
                                   \/ TourDies(job) \/ \E e \in Events : WriteFails(job, e)
          PROVE  runs' = runs
      BY <3>1, Zenon DEF Start, Answers, Answer, Writes, Write, WriteFails, ReadCutoff, TourDies
    <3>2. (\E e \in Events : Solve(e)) \/ ClockTick \/ UNCHANGED quakeVars => runs' = runs
      BY Zenon DEF Solve, ClockTick, quakeVars
    <3> QED
      BY <1>1, <3>1, <3>2, Zenon DEF QuakeNext
  <2> QED
    BY <2>1, <2>2, <2>3, <2>4
<1>2. QuakeSpec => [][QuakeNext]_quakeVars
  BY PTL DEF QuakeSpec
<1>3. QuakeInv /\ QuakeInv' /\ [QuakeNext]_quakeVars =>
        [PublishedAnchor' >= PublishedAnchor]_quakeVars
  BY <1>1
<1> QED
  BY <1>2, <1>3, QuakeInvariant, PTL DEF AnchorStands
=============================================================================
