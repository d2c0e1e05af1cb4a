---------------------------- MODULE AdsJobsProofs ----------------------------
(***************************************************************************)
(* Proofs about AdsJobs, for any number of attempts, days, retained runs   *)
(* and upstream jobs, with the analysis or without it.                     *)
(*                                                                         *)
(* Most steps rewrite one job record and roll its run up (`Writes'); what  *)
(* such a rewriting may do is said once (`Permitted'), shown for every     *)
(* action, and each part of the inductive invariant follows from it.  The  *)
(* other steps create, abandon or prune runs, or leave the runs alone      *)
(* while the provider's jobs, the late posts and the clock move.           *)
(***************************************************************************)
EXTENDS AdsJobs, FiniteSetTheorems, SequenceTheorems, WellFoundedInduction, TLAPS

RunStates == {"none", "pending"} \cup ServiceableRunStates \cup {"abandoned"}
Places    == {"none", "create", "posting", "accepted", "deleting", "pruning"}
AdsStates == {"running", "successful", "failed", "dismissed"}
Upstream  == [owner : Days \X Kinds, created : 0 .. MaxTime, late : BOOLEAN, status : AdsStates]

Typed ==
  /\ now \in 0 .. MaxTime
  /\ runs \in [Days -> [state : RunStates, jobs : [Kinds -> JobRecords]]]
  /\ series \in [Days -> [Kinds -> {NoData} \cup (Days \X Kinds)]]
  /\ ads \in Seq(Upstream)
  /\ late \subseteq Days \X Kinds
  /\ tour \in [at : Places, day : Days, kind : Kinds, id : {NoJob} \cup DOMAIN ads]

JobsOK == \A d \in Days, k \in Kinds : JobOK(Job(d, k))

Named == \A d \in Days : runs[d].state = "none" => runs[d] = NoRun

\* What the state of a run says of its ledger.
Rolled ==
  \A d \in Days : /\ Servable(d) => Job(d, "forecast").state = "stored"
                  /\ runs[d].state = "complete" => \A k \in Kinds : Job(d, k).state = "stored"

\* What the ledger calls stored has rows, and was decoded from a job of its own.
Backed ==
  \A d \in Days, k \in Kinds : Job(d, k).state = "stored" =>
    series[d][k] # NoData /\ ads[Job(d, k).jobId].owner = <<d, k>>

\* Nothing touches the analysis before the forecast is stored.
InOrder ==
  \A d \in Days, k \in Kinds :
    k = "analysis" /\ Job(d, "forecast").state # "stored" => Job(d, k) = NewJob

\* No two records of a run name one upstream job.
Distinct ==
  \A d \in Days, k, l \in Kinds :
    k # l /\ Job(d, k).jobId # NoJob => Job(d, k).jobId # Job(d, l).jobId

\* What was ever posted was posted for a run day not after the newest run.
Reached(day) == \E d \in Days : Exists(d) /\ d >= day
Past ==
  /\ \A i \in DOMAIN ads : Reached(ads[i].owner[1])
  /\ \A post \in late : Reached(post[1])

\* The upstream jobs of a product, and those among them that came in time.
Mine(d, k) == {i \in DOMAIN ads : ads[i].owner = <<d, k>>}
Own(d, k)  == {i \in Mine(d, k) : ~ads[i].late}

\* A record that is going to submit has no job yet; one that may have, knows since when.
Unsent ==
  \A d \in Days, k \in Kinds : Exists(d) =>
    /\ Job(d, k).state \in {"pending", "costed"} => Own(d, k) = {}
    /\ Job(d, k).state = "submitting" =>
         \A i \in Own(d, k) : ads[i].created >= Job(d, k).submittedAt

\* The jobs upstream, the post that is late and the post under way.
Posting(d, k) == At("posting") /\ tour.day = d /\ tour.kind = k
Sent(d, k) ==
  Cardinality(Mine(d, k)) + (IF <<d, k>> \in late THEN 1 ELSE 0)
                          + (IF Posting(d, k) THEN 1 ELSE 0)

\* A record names a job of its own, or one of another when it has none in time.
Preferred(d, k, id) == id # NoJob => ads[id].owner = <<d, k>> \/ Own(d, k) = {}
OwnPreferred == \A d \in Days, k \in Kinds : Preferred(d, k, Job(d, k).jobId)

\* One may be on its way or there that is not paid for, unless it is still to be sent.
Allowed(job) == job.attempts + (IF job.state \in {"pending", "costed"} THEN 0 ELSE 1)
Paid == \A d \in Days, k \in Kinds : Exists(d) => Sent(d, k) <= Allowed(Job(d, k))

TourOK ==
  /\ At("create") => \A d \in Days : Exists(d) => d < tour.day
  /\ At("posting") \/ At("accepted") => Exists(tour.day) /\ TourJob.state = "submitting"
  /\ At("posting") => Own(tour.day, tour.kind) = {} /\ TourJob.submittedAt <= now
  /\ At("accepted") => /\ tour.id \in DOMAIN ads /\ tour.id \notin Known(tour.day)
                       /\ ads[tour.id].owner = <<tour.day, tour.kind>>
  /\ At("deleting") => /\ Exists(tour.day) /\ TourJob.jobId # NoJob
                       /\ TourJob.state \notin ProgressableStates
  /\ At("pruning") => tour.day \in Newest /\ Servable(tour.day)

IInv == /\ Typed /\ JobsOK /\ Named /\ Rolled /\ Backed /\ InOrder /\ Distinct /\ Past
        /\ Unsent /\ Paid /\ TourOK /\ DuplicatesOnlyFromLatePosts /\ OwnPreferred

-----------------------------------------------------------------------------
(* Days.                                                                   *)

LEMMA DivWithin ==
  ASSUME NEW t \in Nat, NEW n \in Nat \ {0}
  PROVE  t \div n \in Nat
OBVIOUS

LEMMA DivMonotone ==
  ASSUME NEW t \in Nat, NEW u \in Nat, t <= u, NEW n \in Nat \ {0}
  PROVE  t \div n <= u \div n
<1> DEFINE q == t \div n
           p == u \div n
<1>1. q \in Int /\ p \in Int /\ q * n <= t /\ u < (p + 1) * n
  OBVIOUS
<1> HIDE DEF q, p
<1>2. q * n < (p + 1) * n
  BY <1>1
<1>3. q < p + 1
  BY <1>1, <1>2
<1> QED
  BY <1>1, <1>3 DEF q, p

LEMMA DaysAreNat == MaxTime \div DayLength \in Nat /\ Days \subseteq Nat
BY DivWithin, ConstantsOK DEF Days

\* The greatest of a set of days is the one farthest from below the last.
LEMMA Greatest ==
  ASSUME NEW S, S \subseteq Days, S # {}
  PROVE  \E top \in S : \A d \in S : d <= top
<1> DEFINE last == MaxTime \div DayLength
<1>1. last \in Nat /\ Days = 0 .. last
  BY DaysAreNat DEF Days
<1> HIDE DEF last
<1> DEFINE T == {last - d : d \in S}
<1>2. T \subseteq Nat /\ T # {}
  <2>1. \A d \in S : last - d \in Nat
    BY <1>1
  <2> QED
    BY <2>1
<1>3. IsWellFoundedOn(OpToRel(<, Nat), Nat)
  BY NatLessThanWellFounded, Zenon
<1> HIDE DEF T
<1>4. PICK least \in T : \A n \in T : ~(<<n, least>> \in OpToRel(<, Nat))
  BY <1>2, <1>3, WFMin, Zenon
<1>5. ASSUME NEW n \in T PROVE ~(n < least)
  <2>1. SUFFICES ASSUME n < least PROVE FALSE
    OBVIOUS
  <2>2. <<n, least>> \in Nat \X Nat /\ <<n, least>>[1] < <<n, least>>[2]
    BY <1>2, <2>1
  <2>3. <<n, least>> \in OpToRel(<, Nat)
    BY <2>2, Zenon DEF OpToRel
  <2> QED
    BY <1>4, <2>3
<1>6. PICK top \in S : least = last - top
  BY DEF T
<1>7. ASSUME NEW d \in S PROVE d <= top
  <2>1. last - d \in T
    BY DEF T
  <2>2. ~(last - d < last - top)
    BY <1>5, <1>6, <2>1
  <2>3. d \in Int /\ top \in Int /\ last \in Int
    BY <1>1
  <2> QED
    BY <2>2, <2>3
<1> QED
  BY <1>7

LEMMA NewestIsThere ==
  ASSUME NEW d \in Days, Exists(d)
  PROVE  \E n \in Newest : Exists(n) /\ n >= d
<1> DEFINE S == {e \in Days : Exists(e)}
<1>1. S \subseteq Days /\ S # {} /\ d \in S
  OBVIOUS
<1> HIDE DEF S
<1>2. PICK top \in S : \A e \in S : e <= top
  BY <1>1, Greatest
<1>3. top \in Newest /\ Exists(top) /\ d <= top
  BY <1>1, <1>2 DEF S, Newest
<1>4. d \in Nat /\ top \in Nat
  BY <1>1, DaysAreNat DEF S
<1> QED
  BY <1>3, <1>4

LEMMA TodayIsADay ==
  ASSUME Typed, ~BeforeSubmitHour
  PROVE  TargetDay \in Days
<1>1. now \in Nat /\ now <= MaxTime /\ MaxTime \in Nat /\ DayLength \in Nat \ {0}
  BY ConstantsOK DEF Typed
<1>2. now \div DayLength \in Nat /\ now \div DayLength <= MaxTime \div DayLength
  BY <1>1, DivWithin, DivMonotone
<1> QED
  BY <1>2, DaysAreNat DEF TargetDay, Days

-----------------------------------------------------------------------------
(* Records and runs.                                                       *)

LEMMA KindsAre == "forecast" \in Kinds /\ \A k \in Kinds : k \in {"forecast", "analysis"}
BY DEF Kinds

LEMMA JobTyped ==
  ASSUME Typed, NEW d \in Days, NEW k \in Kinds
  PROVE  /\ Job(d, k) \in JobRecords /\ runs[d].state \in RunStates
         /\ runs[d].jobs \in [Kinds -> JobRecords]
         /\ Job(d, k).attempts \in Nat
BY DEF Typed, Job, JobRecords

LEMMA NewJobOK == NewJob \in JobRecords /\ JobOK(NewJob) /\ NewJob.attempts = 0
                  /\ NewJob.state = "pending" /\ NewJob.jobId = NoJob
BY ConstantsOK DEF NewJob, JobRecords, JobOK, NoJob, NoTime, ProgressableStates

LEMMA IdsArePositive ==
  ASSUME Typed
  PROVE  /\ Len(ads) \in Nat /\ DOMAIN ads = 1 .. Len(ads) /\ NoJob \notin DOMAIN ads
         /\ \A i \in DOMAIN ads : ads[i] \in Upstream
BY DEF Typed, NoJob

\* A rewritten record and its run.
LEMMA Written ==
  ASSUME Typed, NEW d \in Days, NEW k \in Kinds, NEW job \in JobRecords, WriteJob(d, k, job)
  PROVE  /\ \A e \in Days \ {d} : runs'[e] = runs[e]
         /\ runs'[d].jobs = [runs[d].jobs EXCEPT ![k] = job]
         /\ runs'[d].state = Rollup(runs'[d].jobs)
         /\ Job(d, k)' = job
         /\ \A l \in Kinds \ {k} : Job(d, l)' = Job(d, l)
         /\ \A e \in Days \ {d}, l \in Kinds : Job(e, l)' = Job(e, l)
         /\ runs'[d].jobs \in [Kinds -> JobRecords]
BY DEF Typed, WriteJob, Job

LEMMA RollupRanges ==
  ASSUME Typed, NEW jobs \in [Kinds -> JobRecords]
  PROVE  /\ Rollup(jobs) \in RunStates \ {"none"}
         /\ Rollup(jobs) \in ServiceableRunStates => jobs["forecast"].state = "stored"
         /\ Rollup(jobs) = "complete" => \A k \in Kinds : jobs[k].state = "stored"
         /\ jobs["forecast"].state = "stored" /\ jobs["forecast"].attempts < MaxAttempts
              => Rollup(jobs) \in ServiceableRunStates
<1>1. jobs["forecast"] \in JobRecords /\ jobs["forecast"].attempts \in Nat /\ MaxAttempts \in Nat
  BY KindsAre, ConstantsOK DEF JobRecords
<1> QED
  BY <1>1 DEF Rollup, RunStates, ServiceableRunStates, Dead

-----------------------------------------------------------------------------
(* What a step may make of a record.                                       *)

Permitted(d, k, job) ==
  LET old == Job(d, k)
  IN /\ job \in JobRecords /\ JobOK(job)
     /\ k = "analysis" => Job(d, "forecast").state = "stored"
     /\ job.jobId = old.jobId \/ (job.jobId \notin Known(d) /\ Preferred(d, k, job.jobId))
     /\ old.state = "stored" => job.state = "stored" /\ job.jobId = old.jobId
     /\ job.state = "stored" => old.state = "stored" \/ ads[job.jobId].owner = <<d, k>>
     /\ job.state \in {"pending", "costed"} => Own(d, k) = {}
     /\ job.state = "submitting" => \A i \in Own(d, k) : ads[i].created >= job.submittedAt
     /\ Allowed(job) >= Allowed(old)

Writes(d, k, job) ==
  /\ Exists(d) /\ Permitted(d, k, job) /\ WriteJob(d, k, job)
  /\ UNCHANGED <<now, ads>>
  /\ \/ series' = series /\ (job.state = "stored" => Job(d, k).state = "stored")
     \/ job.state = "stored" /\ series' = [series EXCEPT ![d][k] = <<d, k>>]

\* A tour that begins on a record.
LEMMA Stepping ==
  ASSUME IInv, NEW d \in Days, NEW k \in Kinds, NEW state, Steps(d, k, state)
  PROVE  /\ Exists(d) /\ d \in Newest /\ tour = NoTour
         /\ Job(d, k).state = state /\ Job(d, k).attempts < MaxAttempts
         /\ k = "analysis" => Job(d, "forecast").state = "stored"
<1>1. Job(d, "forecast") \in JobRecords /\ Job(d, "forecast").attempts \in Nat
  BY JobTyped, KindsAre DEF IInv
<1>2. k = "analysis" => Job(d, "forecast").state = "stored"
  BY <1>1, ConstantsOK DEF Steps, Advances, Progressable, Dead, Job, JobRecords
<1> QED
  BY <1>2 DEF Steps, Advances, Progressable, Job, Newest

\* A tour that goes on with one.
LEMMA GoingOn ==
  ASSUME IInv, At("posting") \/ At("accepted")
  PROVE  /\ tour.day \in Days /\ tour.kind \in Kinds /\ Exists(tour.day)
         /\ TourJob.state = "submitting" /\ TourJob.attempts < MaxAttempts
         /\ TourJob.jobId = NoJob /\ TourJob \in JobRecords /\ JobOK(TourJob)
         /\ tour.kind = "analysis" => Job(tour.day, "forecast").state = "stored"
<1>1. tour.day \in Days /\ tour.kind \in Kinds
  BY DEF IInv, Typed
<1>2. TourJob.state = "submitting" /\ Exists(tour.day)
  BY DEF IInv, TourOK
<1>3. TourJob \in JobRecords /\ JobOK(TourJob) /\ TourJob.attempts \in 0 .. MaxAttempts
  BY <1>1, JobTyped DEF IInv, JobsOK, TourJob, JobRecords
<1>4. tour.kind = "analysis" => Job(tour.day, "forecast").state = "stored"
  BY <1>1, <1>2, NewJobOK DEF IInv, InOrder, TourJob
<1> QED
  BY <1>1, <1>2, <1>3, <1>4, ConstantsOK DEF JobOK

\* Who moves a record that is not to submit and not stored changes little.
LEMMA MovePermitted ==
  ASSUME IInv, NEW d \in Days, NEW k \in Kinds, NEW job \in JobRecords, JobOK(job), Exists(d),
         k = "analysis" => Job(d, "forecast").state = "stored",
         Job(d, k).state # "stored", job.state # "stored",
         job.jobId = Job(d, k).jobId \/ (job.jobId \notin Known(d) /\ Preferred(d, k, job.jobId)),
         job.attempts >= Job(d, k).attempts,
         \/ job.state \notin {"pending", "costed", "submitting"}
         \/ job.state \in {"pending", "costed"} /\ Job(d, k).state \in {"pending", "costed"}
         \/ job.state = "submitting" /\ Job(d, k).state = "submitting"
              /\ job.submittedAt = Job(d, k).submittedAt
  PROVE  Permitted(d, k, job)
<1>1. Job(d, k).attempts \in Nat /\ job.attempts \in Nat
  BY JobTyped DEF IInv, JobRecords
<1>2. Allowed(job) >= Allowed(Job(d, k))
  BY <1>1 DEF Allowed
<1>3. /\ Job(d, k).state \in {"pending", "costed"} => Own(d, k) = {}
      /\ Job(d, k).state = "submitting" =>
           \A i \in Own(d, k) : ads[i].created >= Job(d, k).submittedAt
  BY DEF IInv, Unsent
<1> QED
  BY <1>2, <1>3 DEF Permitted

\* An attempt more, and the state that is asked for unless it was the last.
LEMMA Spent ==
  ASSUME NEW job \in JobRecords, job.attempts < MaxAttempts,
         NEW otherwise \in ProgressableStates
  PROVE  /\ Spend(job, otherwise) \in JobRecords
         /\ Spend(job, otherwise).attempts = job.attempts + 1
         /\ Spend(job, otherwise).state \in {"failed", otherwise}
         /\ Spend(job, otherwise).attempts = MaxAttempts =>
              Spend(job, otherwise).state = "failed"
         /\ Spend(job, otherwise).jobId = job.jobId
         /\ Spend(job, otherwise).submittedAt = job.submittedAt
<1>1. MaxAttempts \in Nat /\ job.attempts \in Nat
  BY ConstantsOK DEF JobRecords
<1> DEFINE state == IF job.attempts + 1 >= MaxAttempts THEN "failed" ELSE otherwise
           attempts == job.attempts + 1
<1>2. Spend(job, otherwise) = [job EXCEPT !.attempts = attempts, !.state = state]
  BY DEF Spend
<1>3. state \in ProgressableStates \cup {"failed", "stored"} /\ state \in {"failed", otherwise}
      /\ (job.attempts + 1 = MaxAttempts => state = "failed")
  BY <1>1
<1>4. job.attempts + 1 \in 0 .. MaxAttempts
  BY <1>1
<1> HIDE DEF state, attempts
<1>5. job = [state |-> job.state, jobId |-> job.jobId, attempts |-> job.attempts,
             submittedAt |-> job.submittedAt, cleaned |-> job.cleaned]
  BY DEF JobRecords
<1>6. Spend(job, otherwise) = [state |-> state, jobId |-> job.jobId, attempts |-> attempts,
                               submittedAt |-> job.submittedAt, cleaned |-> job.cleaned]
  BY <1>2, <1>5
<1>7. Spend(job, otherwise) \in JobRecords
  BY <1>3, <1>4, <1>6 DEF JobRecords, attempts
<1> QED
  BY <1>3, <1>6, <1>7 DEF attempts

\* An attempt is spent, or the job ended.
LEMMA SpendPermitted ==
  ASSUME IInv, NEW d \in Days, NEW k \in Kinds, Exists(d),
         k = "analysis" => Job(d, "forecast").state = "stored",
         Job(d, k).state \notin {"stored", "failed"}, Job(d, k).attempts < MaxAttempts
  PROVE  /\ Permitted(d, k, Ended(Job(d, k)))
         /\ Permitted(d, k, Spend(Job(d, k), Job(d, k).state))
         /\ Ended(Job(d, k)).state # "stored"
         /\ Spend(Job(d, k), Job(d, k).state).state # "stored"
<1> DEFINE job == Job(d, k)
           ended == Ended(job)
           spent == Spend(job, job.state)
<1>1. job \in JobRecords /\ JobOK(job) /\ job.attempts \in Nat
  BY JobTyped DEF IInv, JobsOK
<1>2. job.attempts < MaxAttempts
  OBVIOUS
<1>3. ended \in JobRecords /\ JobOK(ended) /\ ended.state = "failed"
      /\ ended.jobId = job.jobId /\ ended.attempts = job.attempts
  BY <1>1 DEF Ended, Moved, JobRecords, JobOK, ProgressableStates
<1>4. spent \in JobRecords /\ JobOK(spent) /\ spent.jobId = job.jobId
      /\ spent.attempts = job.attempts + 1 /\ spent.submittedAt = job.submittedAt
      /\ spent.state \in {"failed", job.state}
  <2>1. job.state \in ProgressableStates
    BY <1>1 DEF JobRecords
  <2> HIDE DEF job, spent
  <2>2. /\ spent \in JobRecords /\ spent.jobId = job.jobId /\ spent.attempts = job.attempts + 1
        /\ spent.submittedAt = job.submittedAt /\ spent.state \in {"failed", job.state}
        /\ (spent.attempts = MaxAttempts => spent.state = "failed")
    BY <1>1, <1>2, <2>1, Spent DEF spent
  <2> QED
    BY <1>1, <2>2 DEF JobOK
<1>5. job.state # "stored" /\ ended.state # "stored" /\ spent.state # "stored"
  BY <1>3, <1>4
<1>7. Permitted(d, k, ended)
  BY <1>1, <1>3, <1>5, MovePermitted
<1>8. Permitted(d, k, spent)
  BY <1>1, <1>4, <1>5, MovePermitted
<1> QED
  BY <1>5, <1>7, <1>8

-----------------------------------------------------------------------------
(* The actions that rewrite a record.                                      *)

\* A step that concludes a tour, and what it wrote.
Concludes(d, k) ==
  /\ \E job : Writes(d, k, job)
  /\ tour' = NoTour /\ UNCHANGED <<now, series, ads, late>>

LEMMA ConcludeWrites ==
  ASSUME NEW d \in Days, NEW k \in Kinds, NEW outcomes, Conclude(d, k, outcomes), Exists(d),
         \A job \in outcomes :
           Permitted(d, k, job) /\ (job.state = "stored" => Job(d, k).state = "stored")
  PROVE  Concludes(d, k)
BY DEF Conclude, EndTour, Concludes, Writes

LEMMA RequestFailsWrites ==
  ASSUME IInv, NEW d \in Days, NEW k \in Kinds, RequestFails(d, k)
  PROVE  Concludes(d, k)
<1>1. PICK state \in {"pending", "submitting", "submitted", "downloadable", "ready"} :
        Steps(d, k, state)
  BY DEF RequestFails
<1>2. /\ Exists(d) /\ Job(d, k).state = state /\ Job(d, k).attempts < MaxAttempts
      /\ k = "analysis" => Job(d, "forecast").state = "stored"
  BY <1>1, Stepping
<1>3. /\ Permitted(d, k, Ended(Job(d, k)))
      /\ Permitted(d, k, Spend(Job(d, k), Job(d, k).state))
      /\ Ended(Job(d, k)).state # "stored"
      /\ Spend(Job(d, k), Job(d, k).state).state # "stored"
  BY <1>2, SpendPermitted
<1> QED
  BY <1>2, <1>3, ConcludeWrites DEF RequestFails

\* The next state, and nothing else.
LEMMA MovedPermitted ==
  ASSUME IInv, NEW d \in Days, NEW k \in Kinds, NEW from, Steps(d, k, from),
         NEW state, \/ from = "pending" /\ state = "costed"
                    \/ from = "submitted" /\ state = "downloadable"
                    \/ from = "downloadable" /\ state = "ready"
  PROVE  Permitted(d, k, Moved(Job(d, k), state)) /\ Moved(Job(d, k), state).state # "stored"
<1> DEFINE job == Job(d, k)
           moved == Moved(job, state)
<1>1. job \in JobRecords /\ JobOK(job) /\ job.attempts \in Nat
  BY JobTyped DEF IInv, JobsOK
<1>2. /\ Exists(d) /\ job.state = from /\ job.attempts < MaxAttempts
      /\ k = "analysis" => Job(d, "forecast").state = "stored"
  BY Stepping
<1>3. /\ moved \in JobRecords /\ JobOK(moved) /\ moved.state = state
      /\ moved.jobId = job.jobId /\ moved.attempts = job.attempts
  BY <1>1, <1>2, ConstantsOK DEF Moved, JobRecords, JobOK, ProgressableStates
<1>4. job.state # "stored" /\ moved.state # "stored"
  BY <1>2, <1>3
<1>5. \/ moved.state \notin {"pending", "costed", "submitting"}
      \/ moved.state \in {"pending", "costed"} /\ job.state \in {"pending", "costed"}
  BY <1>2, <1>3
<1>6. Permitted(d, k, moved)
  BY <1>1, <1>2, <1>3, <1>4, <1>5, MovePermitted
<1> QED
  BY <1>4, <1>6

LEMMA EndedPermitted ==
  ASSUME IInv, NEW d \in Days, NEW k \in Kinds, NEW from \in ProgressableStates, Steps(d, k, from)
  PROVE  Permitted(d, k, Ended(Job(d, k))) /\ Ended(Job(d, k)).state # "stored"
<1>1. /\ Exists(d) /\ Job(d, k).state = from /\ Job(d, k).attempts < MaxAttempts
      /\ k = "analysis" => Job(d, "forecast").state = "stored"
  BY Stepping
<1> QED
  BY <1>1, SpendPermitted DEF ProgressableStates

LEMMA AnswerWrites ==
  ASSUME IInv, NEW d \in Days, NEW k \in Kinds,
         Costing(d, k) \/ Poll(d, k) \/ Results(d, k) \/ RefuseFile(d, k)
  PROVE  Concludes(d, k)
<1>1. CASE Costing(d, k)
  BY <1>1, Stepping, MovedPermitted, EndedPermitted, ConcludeWrites DEF Costing, ProgressableStates
<1>2. CASE Results(d, k)
  BY <1>2, Stepping, MovedPermitted, EndedPermitted, ConcludeWrites DEF Results, ProgressableStates
<1>3. CASE RefuseFile(d, k)
  BY <1>3, Stepping, EndedPermitted, ConcludeWrites DEF RefuseFile, ProgressableStates
<1>4. CASE Poll(d, k)
  <2>1. Steps(d, k, "submitted") /\ Exists(d) /\ Job(d, k).state = "submitted"
    BY <1>4, Stepping DEF Poll
  <2>2. Job(d, k) \in JobRecords /\ JobOK(Job(d, k))
    BY JobTyped DEF IInv, JobsOK
  <2>3. ads[Job(d, k).jobId].status \in AdsStates
    <3>1. Job(d, k).jobId \in DOMAIN ads
      BY <2>1, <2>2 DEF JobRecords, JobOK
    <3> QED
      BY <3>1, IdsArePositive DEF IInv, Upstream
  <2>4. Polled(Job(d, k)) \in {Job(d, k), Moved(Job(d, k), "downloadable"), Ended(Job(d, k))}
    BY <2>3 DEF Polled, AdsStates
  <2>5. Permitted(d, k, Job(d, k))
    <3>1. /\ k = "analysis" => Job(d, "forecast").state = "stored"
          /\ Job(d, k).attempts \in Nat
      BY <2>1, Stepping, JobTyped DEF IInv
    <3> QED
      BY <2>1, <2>2, <3>1, MovePermitted
  <2>6. ASSUME NEW job \in {Polled(Job(d, k))} PROVE Permitted(d, k, job) /\ job.state # "stored"
    BY <2>1, <2>4, <2>5, MovedPermitted, EndedPermitted DEF ProgressableStates
  <2> QED
    BY <1>4, <2>1, <2>6, ConcludeWrites DEF Poll
<1> QED
  BY <1>1, <1>2, <1>3, <1>4

LEMMA SubmittedWrites ==
  ASSUME IInv, Submitted \/ LicenceRefused
  PROVE  Concludes(tour.day, tour.kind)
<1> DEFINE d == tour.day
           k == tour.kind
<1>1. At("posting") \/ At("accepted")
  BY DEF Submitted, LicenceRefused
<1>2. /\ d \in Days /\ k \in Kinds /\ Exists(d) /\ Job(d, k) = TourJob
      /\ TourJob.state = "submitting" /\ TourJob.attempts < MaxAttempts
      /\ TourJob \in JobRecords /\ JobOK(TourJob) /\ TourJob.attempts \in Nat
      /\ k = "analysis" => Job(d, "forecast").state = "stored"
  BY <1>1, GoingOn DEF TourJob, JobRecords
<1>3. CASE LicenceRefused
  BY <1>2, <1>3, SpendPermitted, ConcludeWrites DEF LicenceRefused
<1>4. CASE Submitted
  <2> DEFINE job == [TourJob EXCEPT !.state = "submitted", !.jobId = tour.id]
  <2>1. /\ tour.id \in DOMAIN ads /\ tour.id \notin Known(d) /\ tour.id # NoJob
        /\ Preferred(d, k, tour.id)
    <3>1. /\ tour.id \in DOMAIN ads /\ tour.id \notin Known(d)
          /\ ads[tour.id].owner = <<d, k>>
      BY <1>4 DEF Submitted, IInv, TourOK
    <3> QED
      BY <3>1, IdsArePositive DEF IInv, Preferred
  <2>2. /\ job \in JobRecords /\ job.state = "submitted" /\ job.jobId = tour.id
        /\ job.attempts = TourJob.attempts
    BY <1>2, <2>1 DEF JobRecords, ProgressableStates
  <2>3. JobOK(job)
    BY <1>2, <2>1, <2>2, ConstantsOK DEF JobOK
  <2> HIDE DEF job
  <2>4. Permitted(d, k, job) /\ job.state # "stored"
    BY <1>2, <2>1, <2>2, <2>3, MovePermitted
  <2>5. Conclude(d, k, {job})
    BY <1>4 DEF Submitted, job
  <2> QED
    BY <1>2, <2>4, <2>5, ConcludeWrites
<1> QED
  BY <1>3, <1>4

\* The call for a submit is given up; its post may still arrive.
LEMMA SubmitFailsWrites ==
  ASSUME IInv, SubmitFails
  PROVE  /\ \E job : Writes(tour.day, tour.kind, job) /\ series' = series
         /\ tour' = NoTour /\ UNCHANGED <<now, ads>> /\ MayBeLate
<1> DEFINE d == tour.day
           k == tour.kind
           job == Spend(TourJob, "submitting")
<1>1. At("posting") \/ At("accepted")
  BY DEF SubmitFails
<1>2. /\ d \in Days /\ k \in Kinds /\ Exists(d) /\ Job(d, k) = TourJob
      /\ TourJob.state = "submitting" /\ TourJob.attempts < MaxAttempts
      /\ k = "analysis" => Job(d, "forecast").state = "stored"
  BY <1>1, GoingOn DEF TourJob
<1>3. Permitted(d, k, job) /\ job.state # "stored"
  BY <1>2, SpendPermitted
<1> QED
  BY <1>2, <1>3 DEF SubmitFails, Writes, EndTour

LEMMA SubmitWrites ==
  ASSUME IInv, NEW d \in Days, NEW k \in Kinds, Submit(d, k)
  PROVE  \E job : /\ Writes(d, k, job) /\ job.state = "submitting" /\ job.submittedAt = now
                  /\ Own(d, k) = {} /\ Allowed(job) = Allowed(Job(d, k)) + 1
                  /\ tour' = [at |-> "posting", day |-> d, kind |-> k, id |-> NoJob]
                  /\ UNCHANGED <<now, series, ads, late>>
<1> DEFINE old == Job(d, k)
           job == [old EXCEPT !.state = "submitting", !.submittedAt = now]
<1>1. /\ Exists(d) /\ old.state = "costed" /\ old.attempts < MaxAttempts
      /\ k = "analysis" => Job(d, "forecast").state = "stored"
  BY Stepping DEF Submit
<1>2. old \in JobRecords /\ JobOK(old) /\ old.attempts \in Nat /\ now \in 0 .. MaxTime
  BY JobTyped DEF IInv, JobsOK, Typed
<1>3. WriteJob(d, k, job)
  BY DEF Submit
<1>4. Own(d, k) = {}
  BY <1>1 DEF IInv, Unsent
<1> HIDE DEF old
<1>5. /\ job \in JobRecords /\ job.state = "submitting" /\ job.jobId = old.jobId
      /\ job.attempts = old.attempts /\ job.submittedAt = now
  BY <1>2 DEF JobRecords, ProgressableStates
<1> HIDE DEF job
<1>6. JobOK(job)
  BY <1>1, <1>2, <1>5, ConstantsOK DEF JobOK, NoTime
<1>7. Allowed(job) = Allowed(old) + 1 /\ Allowed(old) \in Nat
  BY <1>1, <1>2, <1>5 DEF Allowed
<1>8. Permitted(d, k, job)
  BY <1>1, <1>4, <1>5, <1>6, <1>7 DEF Permitted, old
<1>9. Writes(d, k, job)
  BY <1>1, <1>3, <1>5, <1>8 DEF Writes, Submit
<1> QED
  BY <1>4, <1>5, <1>7, <1>9 DEF Submit, Goto, old

\* A job of ours that is there in time is a candidate.
LEMMA OursIsFound ==
  ASSUME IInv, NEW d \in Days, NEW k \in Kinds, Exists(d), Job(d, k).state = "submitting",
         k = "analysis" => Job(d, "forecast").state = "stored"
  PROVE  Own(d, k) \subseteq Candidates(d, Job(d, k))
<1> SUFFICES ASSUME NEW i \in Own(d, k) PROVE i \in Candidates(d, Job(d, k))
  OBVIOUS
<1>1. i \in DOMAIN ads /\ ads[i].owner = <<d, k>> /\ ads[i].created >= Job(d, k).submittedAt
  BY DEF Own, Mine, IInv, Unsent
<1>2. i # NoJob /\ ads[i].created \in Int
  BY <1>1, IdsArePositive DEF IInv, Upstream
<1>3. ASSUME NEW l \in Kinds PROVE Job(d, l).jobId # i
  <2>1. CASE l = k
    BY <1>2, <2>1 DEF IInv, JobsOK, JobOK
  <2>2. CASE l # k /\ k = "forecast"
    <3>1. l = "analysis"
      BY <2>2, KindsAre
    <3>2. Job(d, l) = NewJob
      BY <2>2, <3>1 DEF IInv, InOrder
    <3> QED
      BY <1>2, <3>2, NewJobOK
  <2>3. CASE l # k /\ k = "analysis"
    <3>1. l = "forecast"
      BY <2>3, KindsAre
    <3>2. ads[Job(d, l).jobId].owner = <<d, "forecast">>
      BY <2>3, <3>1 DEF IInv, Backed
    <3> QED
      BY <1>1, <2>3, <3>2
  <2> QED
    BY <2>1, <2>2, <2>3, KindsAre
<1>4. i \notin Known(d)
  BY <1>3 DEF Known, Job
<1>5. Job(d, k).submittedAt \in Int /\ Slack \in Nat
  BY JobTyped, ConstantsOK DEF IInv, JobRecords, NoTime
<1> QED
  BY <1>1, <1>2, <1>4, <1>5 DEF Candidates

LEMMA ReconcileWrites ==
  ASSUME IInv, NEW d \in Days, NEW k \in Kinds, Reconcile(d, k)
  PROVE  Concludes(d, k)
<1> DEFINE old == Job(d, k)
           found == Candidates(d, old)
           new == Reconciled(d, old)
<1>1. /\ Exists(d) /\ old.state = "submitting" /\ old.attempts < MaxAttempts
      /\ k = "analysis" => Job(d, "forecast").state = "stored"
  BY Stepping DEF Reconcile
<1>2. old \in JobRecords /\ JobOK(old) /\ old.attempts \in Nat
  BY JobTyped DEF IInv, JobsOK
<1>3. SUFFICES Permitted(d, k, new) /\ new.state # "stored"
  BY <1>1, ConcludeWrites DEF Reconcile
<1>4. CASE found = {}
  <2> DEFINE spent == Spend(old, "costed")
  <2>1. /\ spent \in JobRecords /\ spent.attempts = old.attempts + 1
        /\ spent.state \in {"failed", "costed"} /\ spent.jobId = old.jobId
        /\ spent.attempts = MaxAttempts => spent.state = "failed"
    BY <1>1, <1>2, Spent DEF ProgressableStates
  <2>2. new = [spent EXCEPT !.submittedAt = NoTime]
    <3>1. Cardinality(found) # 1
      BY <1>4, FS_EmptySet
    <3> QED
      BY <1>4, <3>1 DEF Reconciled
  <2>3. Own(d, k) = {}
    BY <1>1, <1>4, OursIsFound
  <2> HIDE DEF spent, new, old
  <2>4. /\ new \in JobRecords /\ new.attempts = old.attempts + 1 /\ new.submittedAt = NoTime
        /\ new.state = spent.state /\ new.jobId = old.jobId
    BY <2>1, <2>2 DEF JobRecords
  <2>5. JobOK(new)
    BY <1>1, <1>2, <2>1, <2>4 DEF JobOK
  <2>6. Allowed(new) >= Allowed(old)
    BY <1>1, <1>2, <2>1, <2>4 DEF Allowed
  <2> QED
    BY <1>1, <2>1, <2>3, <2>4, <2>5, <2>6 DEF Permitted, old
<1>5. CASE found # {} /\ Cardinality(found) = 1
  <2> DEFINE id == CHOOSE i \in found : TRUE
  <2>1. id \in DOMAIN ads /\ id \notin Known(d)
    BY <1>5 DEF Candidates
  <2>2. id # NoJob
    BY <2>1, IdsArePositive DEF IInv
  <2>7. Preferred(d, k, id)
    <3>1. IsFiniteSet(found)
      <4>1. found \subseteq 1 .. Len(ads) /\ Len(ads) \in Nat
        BY IdsArePositive DEF Candidates, IInv
      <4>2. IsFiniteSet(1 .. Len(ads))
        BY <4>1, FS_Interval
      <4> HIDE DEF found
      <4> QED
        BY <4>1, <4>2, FS_Subset
    <3>2. PICK only : found = {only}
      BY <1>5, <3>1, FS_Singleton
    <3>3. id = only
      BY <3>2
    <3>4. Own(d, k) \subseteq {id}
      BY <1>1, <3>2, <3>3, OursIsFound
    <3> HIDE DEF id, found
    <3> QED
      BY <3>4 DEF Preferred, Own, Mine
  <2> DEFINE state == IF ads[id].status = "successful" THEN "downloadable" ELSE "submitted"
  <2>3. new = [old EXCEPT !.jobId = id, !.state = state]
    BY <1>5 DEF Reconciled
  <2>4. state \in {"downloadable", "submitted"}
    OBVIOUS
  <2> HIDE DEF id, state, new, old
  <2>5. /\ new \in JobRecords /\ new.attempts = old.attempts /\ new.jobId = id
        /\ new.state = state
    BY <1>2, <2>1, <2>3, <2>4 DEF JobRecords, ProgressableStates
  <2>6. JobOK(new)
    BY <1>1, <1>2, <2>2, <2>4, <2>5, ConstantsOK DEF JobOK
  <2> QED
    BY <1>1, <1>2, <2>1, <2>4, <2>5, <2>6, <2>7, MovePermitted DEF old
<1>6. CASE found # {} /\ Cardinality(found) # 1
  <2>1. new = Spend(old, old.state)
    BY <1>1, <1>6 DEF Reconciled
  <2> QED
    BY <1>1, <2>1, SpendPermitted
<1> QED
  BY <1>4, <1>5, <1>6

LEMMA StoreWrites ==
  ASSUME IInv, NEW d \in Days, NEW k \in Kinds, Store(d, k)
  PROVE  \E job : /\ Writes(d, k, job) /\ job.state = "stored" /\ job.attempts < MaxAttempts
                  /\ UNCHANGED <<now, ads, late>>
                  /\ d \in Newest
                  /\ \/ tour' = NoTour
                     \/ /\ k = "forecast"
                        /\ tour' = [at |-> "pruning", day |-> d, kind |-> k, id |-> NoJob]
<1> DEFINE old == Job(d, k)
           job == Moved(old, "stored")
<1>1. /\ Exists(d) /\ d \in Newest /\ old.state = "ready" /\ old.attempts < MaxAttempts
      /\ k = "analysis" => Job(d, "forecast").state = "stored"
  BY Stepping DEF Store
<1>2. old \in JobRecords /\ JobOK(old) /\ old.attempts \in Nat
  BY JobTyped DEF IInv, JobsOK
<1>3. WriteJob(d, k, job) /\ ads[old.jobId].owner = <<d, k>>
      /\ series' = [series EXCEPT ![d][k] = <<d, k>>]
  BY DEF Store, Decodes
<1> HIDE DEF old
<1>4. /\ job \in JobRecords /\ JobOK(job) /\ job.state = "stored" /\ job.jobId = old.jobId
      /\ job.attempts = old.attempts
  BY <1>1, <1>2, ConstantsOK DEF Moved, JobRecords, JobOK
<1> HIDE DEF job
<1>5. Permitted(d, k, job)
  BY <1>1, <1>2, <1>3, <1>4 DEF Permitted, Allowed, old
<1>6. Writes(d, k, job)
  BY <1>1, <1>3, <1>4, <1>5 DEF Writes, Store
<1> QED
  BY <1>1, <1>4, <1>6 DEF Store, Goto, EndTour

LEMMA StampWrites == ASSUME IInv, StampCleanup PROVE Concludes(tour.day, tour.kind)
<1> DEFINE d == tour.day
           k == tour.kind
           job == [TourJob EXCEPT !.cleaned = TRUE]
<1>1. /\ d \in Days /\ k \in Kinds /\ Exists(d) /\ Job(d, k) = TourJob
      /\ TourJob.jobId # NoJob /\ TourJob.state \notin ProgressableStates
  BY DEF StampCleanup, IInv, Typed, TourOK, TourJob
<1>2. TourJob \in JobRecords /\ JobOK(TourJob) /\ TourJob.attempts \in Nat
  BY <1>1, JobTyped DEF IInv, JobsOK, JobRecords
<1>3. k = "analysis" => Job(d, "forecast").state = "stored"
  BY <1>1, NewJobOK DEF IInv, InOrder
<1>4. /\ job \in JobRecords /\ job.state = TourJob.state /\ job.jobId = TourJob.jobId
      /\ job.attempts = TourJob.attempts /\ job.submittedAt = TourJob.submittedAt
  BY <1>2 DEF JobRecords
<1>5. Conclude(d, k, {job})
  BY DEF StampCleanup
<1> HIDE DEF job
<1>6. JobOK(job)
  BY <1>2, <1>4 DEF JobOK
<1>7. Permitted(d, k, job)
  BY <1>1, <1>2, <1>3, <1>4, <1>6 DEF Permitted, Allowed, ProgressableStates
<1> QED
  BY <1>1, <1>4, <1>5, <1>7, ConcludeWrites

-----------------------------------------------------------------------------
(* What a rewriting keeps.                                                 *)

\* The runs: their types, their records, and what their states say of these.
LEMMA WritesKeepRuns ==
  ASSUME IInv, NEW d \in Days, NEW k \in Kinds, NEW job, Writes(d, k, job)
  PROVE  /\ runs' \in [Days -> [state : RunStates, jobs : [Kinds -> JobRecords]]]
         /\ JobsOK' /\ Named' /\ Rolled'
         /\ \A e \in Days : Exists(e)' <=> Exists(e)
<1> DEFINE jobs == [runs[d].jobs EXCEPT ![k] = job]
<1>1. Typed /\ job \in JobRecords /\ JobOK(job) /\ WriteJob(d, k, job) /\ Exists(d)
  BY DEF Writes, Permitted, IInv
<1>2. /\ \A e \in Days \ {d} : runs'[e] = runs[e]
      /\ runs'[d].jobs = jobs /\ runs'[d].state = Rollup(jobs)
      /\ jobs \in [Kinds -> JobRecords]
      /\ Job(d, k)' = job
      /\ \A l \in Kinds \ {k} : Job(d, l)' = Job(d, l)
      /\ \A e \in Days \ {d}, l \in Kinds : Job(e, l)' = Job(e, l)
  <2>1. /\ \A e \in Days \ {d} : runs'[e] = runs[e]
        /\ runs'[d].jobs = jobs /\ runs'[d].state = Rollup(runs'[d].jobs)
        /\ runs'[d].jobs \in [Kinds -> JobRecords]
        /\ Job(d, k)' = job
        /\ \A l \in Kinds \ {k} : Job(d, l)' = Job(d, l)
        /\ \A e \in Days \ {d}, l \in Kinds : Job(e, l)' = Job(e, l)
    BY <1>1, Written, Zenon
  <2> QED
    BY <2>1, Zenon
<1>3. runs' = [runs EXCEPT ![d] = [state |-> Rollup(jobs), jobs |-> jobs]]
  BY <1>1 DEF WriteJob
<1> HIDE DEF jobs
<1>4. /\ Rollup(jobs) \in RunStates \ {"none"}
      /\ Rollup(jobs) \in ServiceableRunStates => jobs["forecast"].state = "stored"
      /\ Rollup(jobs) = "complete" => \A l \in Kinds : jobs[l].state = "stored"
  BY <1>1, <1>2, RollupRanges
<1>5. runs' \in [Days -> [state : RunStates, jobs : [Kinds -> JobRecords]]]
  BY <1>1, <1>2, <1>3, <1>4 DEF Typed
<1>6. JobsOK'
  <2> SUFFICES ASSUME NEW e \in Days, NEW l \in Kinds PROVE JobOK(Job(e, l)')
    BY DEF JobsOK
  <2>1. JobOK(Job(e, l))
    BY DEF IInv, JobsOK
  <2> QED
    BY <1>1, <1>2, <2>1
<1>7. Named'
  BY <1>2, <1>4 DEF IInv, Named
<1>8. Rolled'
  <2> SUFFICES ASSUME NEW e \in Days
               PROVE  /\ Servable(e)' => Job(e, "forecast")'.state = "stored"
                      /\ runs'[e].state = "complete" =>
                           \A l \in Kinds : Job(e, l)'.state = "stored"
    BY DEF Rolled
  <2>1. CASE e = d
    BY <1>2, <1>4, <2>1 DEF Servable, Job
  <2>2. CASE e # d
    <3>1. runs'[e] = runs[e]
      BY <1>2, <2>2
    <3> QED
      BY <3>1 DEF Servable, Job, IInv, Rolled
  <2> QED
    BY <2>1, <2>2
<1>9. ASSUME NEW e \in Days PROVE Exists(e)' <=> Exists(e)
  <2>1. CASE e = d
    <3>1. runs'[d] # NoRun
      BY <1>2, <1>4 DEF NoRun
    <3> QED
      BY <1>1, <2>1, <3>1 DEF Exists
  <2>2. CASE e # d
    BY <1>2, <2>2 DEF Exists
  <2> QED
    BY <2>1, <2>2
<1> QED
  BY <1>5, <1>6, <1>7, <1>8, <1>9

\* The ledger and the rows: what is stored is there, in order, each job once, and
\* each record names a job of its own if it has one in time.
LEMMA WritesKeepLedger ==
  ASSUME IInv, NEW d \in Days, NEW k \in Kinds, NEW job, Writes(d, k, job)
  PROVE  /\ series' \in [Days -> [Kinds -> {NoData} \cup (Days \X Kinds)]]
         /\ Backed' /\ InOrder' /\ Distinct' /\ OwnPreferred'
<1> DEFINE old == Job(d, k)
<1>1. /\ Typed /\ job \in JobRecords /\ WriteJob(d, k, job) /\ Exists(d) /\ ads' = ads
      /\ k = "analysis" => Job(d, "forecast").state = "stored"
      /\ job.jobId = old.jobId \/ (job.jobId \notin Known(d) /\ Preferred(d, k, job.jobId))
      /\ old.state = "stored" => job.state = "stored" /\ job.jobId = old.jobId
      /\ job.state = "stored" => old.state = "stored" \/ ads[job.jobId].owner = <<d, k>>
  BY DEF Writes, Permitted, IInv
<1>2. \/ series' = series /\ (job.state = "stored" => old.state = "stored")
      \/ job.state = "stored" /\ series' = [series EXCEPT ![d][k] = <<d, k>>]
  BY DEF Writes
<1>3. /\ Job(d, k)' = job
      /\ \A l \in Kinds \ {k} : Job(d, l)' = Job(d, l)
      /\ \A e \in Days \ {d}, l \in Kinds : Job(e, l)' = Job(e, l)
  BY <1>1, Written
<1>4. series \in [Days -> [Kinds -> {NoData} \cup (Days \X Kinds)]]
  BY <1>1 DEF Typed
<1>5. series' \in [Days -> [Kinds -> {NoData} \cup (Days \X Kinds)]]
  BY <1>2, <1>4
<1>6. \A e \in Days, l \in Kinds :
        series'[e][l] = IF e = d /\ l = k /\ series' # series THEN <<d, k>> ELSE series[e][l]
  BY <1>2, <1>4
<1>7. OwnPreferred'
  <2> SUFFICES ASSUME NEW e \in Days, NEW l \in Kinds
               PROVE  Job(e, l)'.jobId # NoJob =>
                        ads[Job(e, l)'.jobId].owner = <<e, l>> \/ Own(e, l) = {}
    BY <1>1 DEF OwnPreferred, Preferred, Own, Mine
  <2>1. Job(e, l).jobId # NoJob => ads[Job(e, l).jobId].owner = <<e, l>> \/ Own(e, l) = {}
    BY DEF IInv, OwnPreferred, Preferred
  <2> QED
    BY <1>1, <1>3, <2>1 DEF Preferred
<1>8. <<d, k>> # NoData
  BY DEF NoData
<1>9. Backed'
  <2> SUFFICES ASSUME NEW e \in Days, NEW l \in Kinds, Job(e, l)'.state = "stored"
               PROVE  series'[e][l] # NoData /\ ads[Job(e, l)'.jobId].owner = <<e, l>>
    BY <1>1 DEF Backed
  <2>1. CASE e = d /\ l = k
    <3>1. job.state = "stored"
      BY <1>3, <2>1
    <3>2. CASE old.state = "stored"
      <4>1. series[d][k] # NoData /\ ads[old.jobId].owner = <<d, k>>
        BY <3>2 DEF IInv, Backed
      <4> QED
        BY <1>1, <1>3, <1>6, <1>8, <2>1, <3>2, <4>1
    <3>3. CASE old.state # "stored"
      <4>1. series'[d][k] = <<d, k>>
        BY <1>2, <1>4, <3>1, <3>3
      <4> QED
        BY <1>1, <1>3, <1>8, <2>1, <3>1, <3>3, <4>1
    <3> QED
      BY <3>2, <3>3
  <2>2. CASE ~(e = d /\ l = k)
    <3>1. Job(e, l)' = Job(e, l) /\ series'[e][l] = series[e][l]
      BY <1>3, <1>6, <2>2
    <3> QED
      BY <3>1 DEF IInv, Backed
  <2> QED
    BY <2>1, <2>2
<1>10. InOrder'
  <2> SUFFICES ASSUME NEW e \in Days, NEW l \in Kinds, l = "analysis",
                      Job(e, "forecast")'.state # "stored"
               PROVE  Job(e, l)' = NewJob
    BY DEF InOrder
  <2>1. Job(e, "forecast").state # "stored"
    BY <1>1, <1>3, KindsAre
  <2>2. Job(e, l) = NewJob
    BY <2>1 DEF IInv, InOrder
  <2>3. ~(e = d /\ l = k)
    BY <1>1, <2>1
  <2> QED
    BY <1>3, <2>2, <2>3
<1>11. Distinct'
  <2> SUFFICES ASSUME NEW e \in Days, NEW l \in Kinds, NEW m \in Kinds, l # m,
                      Job(e, l)'.jobId # NoJob
               PROVE  Job(e, l)'.jobId # Job(e, m)'.jobId
    BY DEF Distinct
  <2>1. /\ Job(e, l).jobId # NoJob => Job(e, l).jobId # Job(e, m).jobId
        /\ Job(e, m).jobId # NoJob => Job(e, m).jobId # Job(e, l).jobId
    BY DEF IInv, Distinct
  <2>2. \A n \in Kinds : Job(d, n).jobId \in Known(d)
    BY DEF Known, Job
  <2> QED
    BY <1>1, <1>3, <2>1, <2>2
<1> QED
  BY <1>5, <1>7, <1>9, <1>10, <1>11

\* The jobs upstream: whose they are, and that those of a record to submit are none.
LEMMA WritesKeepPosts ==
  ASSUME IInv, NEW d \in Days, NEW k \in Kinds, NEW job, Writes(d, k, job)
  PROVE  /\ Unsent' /\ DuplicatesOnlyFromLatePosts'
         /\ \A e \in Days, l \in Kinds : /\ Mine(e, l)' = Mine(e, l) /\ Own(e, l)' = Own(e, l)
                                         /\ Allowed(Job(e, l)') >= Allowed(Job(e, l))
         /\ \A day : Reached(day)' <=> Reached(day)
         /\ Newest' = Newest
<1>1. /\ Typed /\ job \in JobRecords /\ WriteJob(d, k, job) /\ ads' = ads
      /\ job.state \in {"pending", "costed"} => Own(d, k) = {}
      /\ job.state = "submitting" => \A i \in Own(d, k) : ads[i].created >= job.submittedAt
      /\ Allowed(job) >= Allowed(Job(d, k))
  BY DEF Writes, Permitted, IInv
<1>2. /\ Job(d, k)' = job
      /\ \A l \in Kinds \ {k} : Job(d, l)' = Job(d, l)
      /\ \A e \in Days \ {d}, l \in Kinds : Job(e, l)' = Job(e, l)
  BY <1>1, Written
<1>3. \A e \in Days : Exists(e)' <=> Exists(e)
  BY WritesKeepRuns
<1>4. \A e \in Days, l \in Kinds : Mine(e, l)' = Mine(e, l) /\ Own(e, l)' = Own(e, l)
  BY <1>1 DEF Own, Mine
<1>5. Unsent'
  <2> SUFFICES ASSUME NEW e \in Days, NEW l \in Kinds, Exists(e)
               PROVE  /\ Job(e, l)'.state \in {"pending", "costed"} => Own(e, l) = {}
                      /\ Job(e, l)'.state = "submitting" =>
                           \A i \in Own(e, l) : ads[i].created >= Job(e, l)'.submittedAt
    BY <1>1, <1>3, <1>4 DEF Unsent
  <2>1. /\ Job(e, l).state \in {"pending", "costed"} => Own(e, l) = {}
        /\ Job(e, l).state = "submitting" =>
             \A i \in Own(e, l) : ads[i].created >= Job(e, l).submittedAt
    BY DEF IInv, Unsent
  <2> QED
    BY <1>1, <1>2, <2>1
<1>6. ASSUME NEW e \in Days, NEW l \in Kinds PROVE Allowed(Job(e, l)') >= Allowed(Job(e, l))
  <2>1. Allowed(Job(e, l)) \in Nat
    BY JobTyped DEF IInv, Allowed
  <2> QED
    BY <1>1, <1>2, <2>1
<1>7. DuplicatesOnlyFromLatePosts'
  BY <1>1 DEF IInv, DuplicatesOnlyFromLatePosts
<1> QED
  BY <1>3, <1>4, <1>5, <1>6, <1>7 DEF Reached, Newest

\* The rest of the invariant is about the tour and the late posts.
LEMMA WritesKeep ==
  ASSUME IInv, NEW d \in Days, NEW k \in Kinds, NEW job, Writes(d, k, job),
         late' \subseteq Days \X Kinds, \A post \in late' : Reached(post[1]),
         tour' \in [at : Places, day : Days, kind : Kinds, id : {NoJob} \cup DOMAIN ads],
         TourOK', Paid'
  PROVE  IInv'
<1>1. /\ now' = now /\ ads' = ads
  BY DEF Writes
<1>2. Typed'
  <2>1. JobRecords' = JobRecords /\ (DOMAIN ads)' = DOMAIN ads
    BY <1>1 DEF JobRecords
  <2>2. runs' \in [Days -> [state : RunStates, jobs : [Kinds -> JobRecords]]]
        /\ series' \in [Days -> [Kinds -> {NoData} \cup (Days \X Kinds)]]
    BY WritesKeepRuns, WritesKeepLedger
  <2> QED
    BY <1>1, <2>1, <2>2 DEF Typed, IInv
<1>3. Past'
  BY <1>1, WritesKeepPosts DEF Past, IInv
<1> QED
  BY <1>2, <1>3, WritesKeepRuns, WritesKeepLedger, WritesKeepPosts DEF IInv

-----------------------------------------------------------------------------
(* What was sent.                                                          *)

LEMMA SentIs ==
  ASSUME Typed, NEW d \in Days, NEW k \in Kinds
  PROVE  /\ IsFiniteSet(Mine(d, k)) /\ Cardinality(Mine(d, k)) \in Nat
         /\ Sent(d, k) \in Nat /\ Cardinality(Mine(d, k)) <= Sent(d, k)
<1>1. Mine(d, k) \subseteq 1 .. Len(ads) /\ Len(ads) \in Nat
  BY IdsArePositive DEF Mine
<1>2. IsFiniteSet(1 .. Len(ads))
  BY <1>1, FS_Interval
<1>3. IsFiniteSet(Mine(d, k))
  BY <1>1, <1>2, FS_Subset
<1>4. Cardinality(Mine(d, k)) \in Nat
  BY <1>3, FS_CardinalityType
<1> QED
  BY <1>3, <1>4 DEF Sent

\* A tour that ends, with its call answered or given up, sends nothing more.
LEMMA GivenUp ==
  ASSUME IInv, MayBeLate, tour' = NoTour, ads' = ads
  PROVE  /\ \A e \in Days, l \in Kinds : Sent(e, l)' <= Sent(e, l)
         /\ late' \subseteq Days \X Kinds /\ \A post \in late' : Reached(post[1])
         /\ tour' \in [at : Places, day : Days, kind : Kinds, id : {NoJob} \cup DOMAIN ads]
         /\ TourOK'
<1>1. ~At("posting")' /\ ~At("create")' /\ ~At("accepted")' /\ ~At("deleting")' /\ ~At("pruning")'
  BY DEF At, NoTour
<1>2. TourOK'
  BY <1>1 DEF TourOK
<1>3. tour' \in [at : Places, day : Days, kind : Kinds, id : {NoJob} \cup DOMAIN ads]
  BY KindsAre, DaysAreNat DEF NoTour, Places, Days
<1>4. \/ late' = late
      \/ At("posting") /\ late = {} /\ late' = {<<tour.day, tour.kind>>}
  BY DEF MayBeLate
<1>5. late' \subseteq Days \X Kinds /\ \A post \in late' : Reached(post[1])
  <2>1. CASE late' = late
    BY <2>1 DEF IInv, Typed, Past
  <2>2. CASE At("posting") /\ late = {} /\ late' = {<<tour.day, tour.kind>>}
    <3>1. tour.day \in Days /\ tour.kind \in Kinds /\ Exists(tour.day)
      BY <2>2, GoingOn
    <3>2. tour.day \in Nat
      BY <3>1, DaysAreNat, Zenon
    <3>3. Reached(tour.day)
      <4>1. tour.day >= tour.day
        BY <3>2
      <4> QED
        BY <3>1, <4>1, Zenon DEF Reached
    <3> QED
      BY <2>2, <3>1, <3>3
  <2> QED
    BY <1>4, <2>1, <2>2
<1>6. ASSUME NEW e \in Days, NEW l \in Kinds PROVE Sent(e, l)' <= Sent(e, l)
  <2> DEFINE n == Cardinality(Mine(e, l))
  <2>1. n \in Nat
    BY SentIs DEF IInv
  <2>2. Mine(e, l)' = Mine(e, l)
    BY DEF Mine
  <2>3. Sent(e, l)' = n + (IF <<e, l>> \in late' THEN 1 ELSE 0) + 0
    BY <1>1, <2>2 DEF Sent, Posting
  <2>4. Sent(e, l) = n + (IF <<e, l>> \in late THEN 1 ELSE 0)
                       + (IF Posting(e, l) THEN 1 ELSE 0)
    BY DEF Sent
  <2>5. <<e, l>> \in late' => <<e, l>> \in late \/ Posting(e, l)
    BY <1>4 DEF Posting
  <2> HIDE DEF n
  <2> QED
    BY <2>1, <2>3, <2>4, <2>5
<1> QED
  BY <1>2, <1>3, <1>5, <1>6

-----------------------------------------------------------------------------
(* The actions that rewrite a record keep the invariant.                   *)

\* The jobs that may exist never outgrow what they have cost.
LEMMA WritesPaid ==
  ASSUME IInv, NEW d \in Days, NEW k \in Kinds, NEW job, Writes(d, k, job),
         \A e \in Days, l \in Kinds : Sent(e, l)' <= Sent(e, l)
  PROVE  Paid'
<1> SUFFICES ASSUME NEW e \in Days, NEW l \in Kinds, Exists(e)'
             PROVE  Sent(e, l)' <= Allowed(Job(e, l)')
  BY DEF Paid
<1>1. Exists(e) /\ Allowed(Job(e, l)') >= Allowed(Job(e, l)) /\ Mine(e, l)' = Mine(e, l)
  BY WritesKeepRuns, WritesKeepPosts
<1>2. Sent(e, l) <= Allowed(Job(e, l)) /\ Sent(e, l)' <= Sent(e, l)
  BY <1>1 DEF IInv, Paid
<1>3. Sent(e, l) \in Nat /\ Allowed(Job(e, l)) \in Nat
  BY SentIs, JobTyped DEF IInv, Allowed
<1>4. Sent(e, l)' \in Int /\ Allowed(Job(e, l)') \in Int
  <2>1. Cardinality(Mine(e, l)') \in Nat
    BY <1>1, SentIs DEF IInv
  <2>2. Job(e, l)' \in JobRecords /\ Job(e, l)'.attempts \in Nat
    <3>1. runs' \in [Days -> [state : RunStates, jobs : [Kinds -> JobRecords]]]
      BY WritesKeepRuns
    <3> QED
      BY <3>1 DEF Job, JobRecords
  <2> QED
    BY <2>1, <2>2 DEF Sent, Allowed
<1> QED
  BY <1>1, <1>2, <1>3, <1>4

LEMMA GivingUpKeeps ==
  ASSUME IInv, NEW d \in Days, NEW k \in Kinds, NEW job, Writes(d, k, job),
         MayBeLate, tour' = NoTour
  PROVE  IInv'
<1>1. ads' = ads
  BY DEF Writes
<1>2. /\ \A e \in Days, l \in Kinds : Sent(e, l)' <= Sent(e, l)
      /\ late' \subseteq Days \X Kinds /\ \A post \in late' : Reached(post[1])
      /\ tour' \in [at : Places, day : Days, kind : Kinds, id : {NoJob} \cup DOMAIN ads]
      /\ TourOK'
  BY <1>1, GivenUp
<1> QED
  BY <1>2, WritesPaid, WritesKeep

LEMMA ConcludesKeeps ==
  ASSUME IInv, NEW d \in Days, NEW k \in Kinds, Concludes(d, k)
  PROVE  IInv'
BY GivingUpKeeps DEF Concludes, MayBeLate

\* A submit: the record says so, and one job more may come to exist.
LEMMA SubmitKeeps ==
  ASSUME IInv, NEW d \in Days, NEW k \in Kinds, Submit(d, k)
  PROVE  IInv'
<1>1. PICK job : /\ Writes(d, k, job) /\ job.state = "submitting" /\ job.submittedAt = now
                 /\ Own(d, k) = {} /\ Allowed(job) = Allowed(Job(d, k)) + 1
                 /\ tour' = [at |-> "posting", day |-> d, kind |-> k, id |-> NoJob]
                 /\ UNCHANGED <<now, series, ads, late>>
  BY SubmitWrites
<1>2. Exists(d) /\ tour = NoTour
  BY Stepping DEF Submit
<1>3. Job(d, k)' = job
  BY <1>1, Written DEF Writes, Permitted, IInv
<1>4. /\ \A e \in Days, l \in Kinds : /\ Mine(e, l)' = Mine(e, l) /\ Own(e, l)' = Own(e, l)
                                      /\ Allowed(Job(e, l)') >= Allowed(Job(e, l))
      /\ \A e \in Days : Exists(e)' <=> Exists(e)
      /\ runs' \in [Days -> [state : RunStates, jobs : [Kinds -> JobRecords]]]
  BY <1>1, WritesKeepRuns, WritesKeepPosts
<1>5. /\ At("posting")' /\ ~At("create")' /\ ~At("accepted")' /\ ~At("deleting")'
      /\ ~At("pruning")' /\ tour'.day = d /\ tour'.kind = k
  BY <1>1 DEF At
<1>6. TourOK'
  <2>1. TourJob' = job
    BY <1>3, <1>5 DEF TourJob, Job
  <2>2. Exists(d)' /\ Own(d, k)' = {}
    BY <1>1, <1>2, <1>4
  <2>3. Exists(tour.day)' /\ Own(tour.day, tour.kind)' = {}
    BY <1>5, <2>2 DEF Exists, Own, Mine
  <2>4. now' = now /\ now <= now
    BY <1>1 DEF IInv, Typed
  <2> QED
    BY <1>1, <1>5, <2>1, <2>3, <2>4 DEF TourOK
<1>7. tour' \in [at : Places, day : Days, kind : Kinds, id : {NoJob} \cup DOMAIN ads]
  BY <1>1 DEF Places
<1>8. Paid'
  <2> SUFFICES ASSUME NEW e \in Days, NEW l \in Kinds, Exists(e)'
               PROVE  Sent(e, l)' <= Allowed(Job(e, l)')
    BY DEF Paid
  <2> DEFINE n == Cardinality(Mine(e, l))
             w == IF <<e, l>> \in late THEN 1 ELSE 0
  <2>1. n \in Nat /\ w \in Nat
    BY SentIs DEF IInv
  <2>2. Sent(e, l) = n + w + 0
    BY <1>2 DEF Sent, Posting, At, NoTour
  <2>3. Sent(e, l)' = n + w + (IF e = d /\ l = k THEN 1 ELSE 0)
    BY <1>1, <1>4, <1>5 DEF Sent, Posting
  <2>4. Sent(e, l) <= Allowed(Job(e, l))
    BY <1>4 DEF IInv, Paid
  <2>5. Allowed(Job(e, l)) \in Nat /\ Allowed(Job(e, l)') \in Nat
    <3>1. Job(e, l)'.attempts \in Nat /\ Job(e, l).attempts \in Nat
      BY <1>4, JobTyped DEF Job, JobRecords, IInv
    <3> QED
      BY <3>1 DEF Allowed
  <2>6. e = d /\ l = k => Allowed(Job(e, l)') = Allowed(Job(e, l)) + 1
    BY <1>1, <1>3
  <2>7. Allowed(Job(e, l)') >= Allowed(Job(e, l))
    BY <1>4
  <2> HIDE DEF n, w
  <2> QED
    BY <2>1, <2>2, <2>3, <2>4, <2>5, <2>6, <2>7
<1>9. late' \subseteq Days \X Kinds /\ \A post \in late' : Reached(post[1])
  BY <1>1 DEF IInv, Typed, Past
<1> QED
  BY <1>1, <1>6, <1>7, <1>8, <1>9, WritesKeep

\* A product is stored; after the forecast the runs are pruned next.
LEMMA StoreKeeps ==
  ASSUME IInv, NEW d \in Days, NEW k \in Kinds, Store(d, k)
  PROVE  IInv'
<1>1. PICK job : /\ Writes(d, k, job) /\ job.state = "stored" /\ job.attempts < MaxAttempts
                 /\ UNCHANGED <<now, ads, late>>
                 /\ d \in Newest
                 /\ \/ tour' = NoTour
                    \/ /\ k = "forecast"
                       /\ tour' = [at |-> "pruning", day |-> d, kind |-> k, id |-> NoJob]
  BY StoreWrites
<1>2. CASE tour' = NoTour
  BY <1>1, <1>2, GivingUpKeeps DEF MayBeLate
<1>3. CASE /\ k = "forecast"
           /\ tour' = [at |-> "pruning", day |-> d, kind |-> k, id |-> NoJob]
  <2>1. tour = NoTour
    BY Stepping DEF Store
  <2>2. /\ \A e \in Days, l \in Kinds : Mine(e, l)' = Mine(e, l)
        /\ Newest' = Newest
    BY <1>1, WritesKeepPosts
  <2>3. /\ At("pruning")' /\ ~At("posting")' /\ ~At("create")' /\ ~At("accepted")'
        /\ ~At("deleting")' /\ tour'.day = d
    BY <1>3 DEF At
  <2>4. ASSUME NEW e \in Days, NEW l \in Kinds PROVE Sent(e, l)' <= Sent(e, l)
    <3> DEFINE n == Cardinality(Mine(e, l))
    <3>1. n \in Nat
      BY SentIs DEF IInv
    <3>2. /\ Sent(e, l) = n + (IF <<e, l>> \in late THEN 1 ELSE 0) + 0
          /\ Sent(e, l)' = n + (IF <<e, l>> \in late THEN 1 ELSE 0) + 0
      BY <1>1, <2>1, <2>2, <2>3 DEF Sent, Posting, At, NoTour
    <3> HIDE DEF n
    <3> QED
      BY <3>1, <3>2
  <2>5. Servable(d)'
    <3> DEFINE jobs == [runs[d].jobs EXCEPT ![k] = job]
    <3>1. /\ Typed /\ job \in JobRecords /\ WriteJob(d, k, job)
      BY <1>1 DEF Writes, Permitted, IInv
    <3>2. /\ runs'[d].jobs = jobs /\ runs'[d].state = Rollup(runs'[d].jobs)
          /\ runs'[d].jobs \in [Kinds -> JobRecords]
      BY <3>1, Written, Zenon
    <3>3. runs'[d].state = Rollup(jobs) /\ jobs \in [Kinds -> JobRecords]
      BY <3>2, Zenon
    <3>4. jobs["forecast"] = job
      BY <1>3, <3>1 DEF Typed
    <3> HIDE DEF jobs
    <3>5. Rollup(jobs) \in ServiceableRunStates
      BY <1>1, <3>1, <3>3, <3>4, RollupRanges
    <3> QED
      BY <3>3, <3>5 DEF Servable
  <2>6. TourOK'
    <3>1. tour'.day \in Newest' /\ Servable(tour.day)'
      BY <1>1, <2>2, <2>3, <2>5 DEF Servable
    <3> QED
      BY <2>3, <3>1 DEF TourOK
  <2>7. tour' \in [at : Places, day : Days, kind : Kinds, id : {NoJob} \cup DOMAIN ads]
    BY <1>3 DEF Places
  <2>8. late' \subseteq Days \X Kinds /\ \A post \in late' : Reached(post[1])
    BY <1>1 DEF IInv, Typed, Past
  <2>9. Paid'
    BY <1>1, <2>4, WritesPaid
  <2> QED
    BY <1>1, <2>6, <2>7, <2>8, <2>9, WritesKeep
<1> QED
  BY <1>1, <1>2, <1>3

-----------------------------------------------------------------------------
(* The runs stay: the provider, the late posts, the clock and the tour.    *)

\* No job upstream changes in what a record relies on; there may be more of them.
Grows ==
  /\ UNCHANGED <<runs, series>>
  /\ ads' \in Seq(Upstream)
  /\ \A i \in DOMAIN ads : /\ i \in DOMAIN ads' /\ ads'[i].owner = ads[i].owner
                           /\ ads'[i].created = ads[i].created /\ ads'[i].late = ads[i].late

LEMMA GrowsKeep ==
  ASSUME IInv, Grows
  PROVE  /\ runs' \in [Days -> [state : RunStates, jobs : [Kinds -> JobRecords']]]
         /\ series' \in [Days -> [Kinds -> {NoData} \cup (Days \X Kinds)]]
         /\ JobsOK' /\ Named' /\ Rolled' /\ Backed' /\ InOrder' /\ Distinct'
         /\ \A e \in Days : /\ Exists(e)' <=> Exists(e)
                            /\ \A l \in Kinds : Job(e, l)' = Job(e, l)
         /\ \A day : Reached(day)' <=> Reached(day)
         /\ Newest' = Newest
<1>1. runs' = runs /\ series' = series
  BY DEF Grows
<1>2. JobRecords \subseteq JobRecords'
  <2>1. DOMAIN ads \subseteq DOMAIN ads'
    BY DEF Grows
  <2> QED
    BY <2>1 DEF JobRecords
<1>3. runs \in [Days -> [state : RunStates, jobs : [Kinds -> JobRecords]]]
  BY DEF IInv, Typed
<1>4. runs' \in [Days -> [state : RunStates, jobs : [Kinds -> JobRecords']]]
  <2>1. [Kinds -> JobRecords] \subseteq [Kinds -> JobRecords']
    BY <1>2
  <2> QED
    BY <1>1, <1>3, <2>1
<1>5. /\ JobsOK' /\ Named' /\ Rolled' /\ InOrder' /\ Distinct'
  BY <1>1 DEF IInv, JobsOK, Named, Rolled, InOrder, Distinct, Job, Servable
<1>6. Backed'
  <2> SUFFICES ASSUME NEW e \in Days, NEW l \in Kinds, Job(e, l).state = "stored"
               PROVE  series[e][l] # NoData /\ ads'[Job(e, l).jobId].owner = <<e, l>>
    BY <1>1 DEF Backed, Job
  <2>1. Job(e, l).jobId \in DOMAIN ads
    BY JobTyped DEF IInv, JobsOK, JobOK, JobRecords
  <2> QED
    BY <2>1 DEF IInv, Backed, Grows
<1>7. /\ \A e \in Days : Exists(e)' <=> Exists(e)
      /\ \A e \in Days, l \in Kinds : Job(e, l)' = Job(e, l)
      /\ \A day : Reached(day)' <=> Reached(day)
      /\ Newest' = Newest
  BY <1>1 DEF Exists, Job, Reached, Newest
<1> QED
  BY <1>1, <1>4, <1>5, <1>6, <1>7 DEF IInv, Typed

\* A record whose product gets no job in time keeps what it names.
LEMMA StillPreferred ==
  ASSUME IInv, Grows, NEW d \in Days, NEW k \in Kinds, Own(d, k)' = Own(d, k)
  PROVE  Preferred(d, k, Job(d, k).jobId)'
<1>1. Job(d, k)' = Job(d, k)
  BY GrowsKeep
<1>2. Job(d, k).jobId \in {NoJob} \cup DOMAIN ads
  BY JobTyped DEF IInv, JobRecords
<1>3. Job(d, k).jobId # NoJob => ads[Job(d, k).jobId].owner = <<d, k>> \/ Own(d, k) = {}
  BY DEF IInv, OwnPreferred, Preferred
<1> QED
  BY <1>1, <1>2, <1>3 DEF Preferred, Grows

\* The same jobs, whatever has become of them.
LEMMA SameJobsKeep ==
  ASSUME IInv, Grows, DOMAIN ads' = DOMAIN ads, now' \in 0 .. MaxTime,
         late' \subseteq Days \X Kinds, \A post \in late' : Reached(post[1]),
         tour' \in [at : Places, day : Days, kind : Kinds, id : {NoJob} \cup DOMAIN ads],
         \A e \in Days, l \in Kinds : Sent(e, l)' <= Sent(e, l), TourOK'
  PROVE  IInv'
<1>1. \A e \in Days, l \in Kinds : Mine(e, l)' = Mine(e, l) /\ Own(e, l)' = Own(e, l)
  BY DEF Grows, Mine, Own
<1>2. /\ \A e \in Days : /\ Exists(e)' <=> Exists(e)
                         /\ \A l \in Kinds : Job(e, l)' = Job(e, l)
      /\ \A day : Reached(day)' <=> Reached(day)
  BY GrowsKeep
<1>3. Typed'
  <2>1. runs' \in [Days -> [state : RunStates, jobs : [Kinds -> JobRecords']]]
        /\ series' \in [Days -> [Kinds -> {NoData} \cup (Days \X Kinds)]]
        /\ ads' \in Seq(Upstream)
    BY GrowsKeep DEF Grows
  <2> QED
    BY <2>1 DEF Typed
<1>4. Past'
  BY <1>2 DEF IInv, Past, Grows
<1>5. Unsent'
  <2> SUFFICES ASSUME NEW e \in Days, NEW l \in Kinds, Exists(e)
               PROVE  /\ Job(e, l).state \in {"pending", "costed"} => Own(e, l) = {}
                      /\ Job(e, l).state = "submitting" =>
                           \A i \in Own(e, l) : ads'[i].created >= Job(e, l).submittedAt
    BY <1>1, <1>2 DEF Unsent
  <2>1. \A i \in Own(e, l) : ads'[i].created = ads[i].created
    BY DEF Grows, Own, Mine
  <2> QED
    BY <2>1 DEF IInv, Unsent
<1>6. Paid'
  <2> SUFFICES ASSUME NEW e \in Days, NEW l \in Kinds, Exists(e)
               PROVE  Sent(e, l)' <= Allowed(Job(e, l))
    BY <1>2 DEF Paid
  <2>1. Sent(e, l)' <= Sent(e, l) /\ Sent(e, l) <= Allowed(Job(e, l))
    BY DEF IInv, Paid
  <2>2. Sent(e, l) \in Nat /\ Allowed(Job(e, l)) \in Nat
    BY SentIs, JobTyped DEF IInv, Allowed
  <2>3. Sent(e, l)' \in Int
    <3>1. Cardinality(Mine(e, l)') \in Nat
      BY <1>1, SentIs DEF IInv
    <3> QED
      BY <3>1 DEF Sent
  <2> QED
    BY <2>1, <2>2, <2>3
<1>7. DuplicatesOnlyFromLatePosts'
  BY DEF IInv, DuplicatesOnlyFromLatePosts, Grows
<1>8. OwnPreferred'
  BY <1>1, StillPreferred DEF OwnPreferred
<1> QED
  BY <1>3, <1>4, <1>5, <1>6, <1>7, <1>8, GrowsKeep DEF IInv

LEMMA CrashKeeps == ASSUME IInv, Crash PROVE IInv'
<1>1. /\ MayBeLate /\ tour' = NoTour /\ UNCHANGED <<now, runs, series, ads>>
  BY DEF Crash, EndTour
<1>2. Grows /\ DOMAIN ads' = DOMAIN ads /\ now' \in 0 .. MaxTime
  BY <1>1 DEF Grows, IInv, Typed
<1> QED
  BY <1>1, <1>2, GivenUp, SameJobsKeep

\* Nothing that the tour relies on has moved.
LEMMA TourStays ==
  ASSUME IInv, Grows, tour' = tour, now' \in Nat, now' >= now,
         \A e \in Days, l \in Kinds : Own(e, l)' = Own(e, l)
  PROVE  /\ TourOK'
         /\ \A e \in Days, l \in Kinds : Posting(e, l)' <=> Posting(e, l)
<1>1. runs' = runs
  BY DEF Grows
<1>2. /\ \A where : At(where)' <=> At(where)
      /\ \A d : (Exists(d)' <=> Exists(d)) /\ (Servable(d)' <=> Servable(d))
                /\ Known(d)' = Known(d)
      /\ TourJob' = TourJob /\ Newest' = Newest
  BY <1>1 DEF At, Exists, Servable, Known, TourJob, Job, Newest
<1>3. tour.day \in Days /\ tour.kind \in Kinds
  BY DEF IInv, Typed
<1>4. At("posting") => Own(tour.day, tour.kind)' = {} /\ TourJob.submittedAt <= now'
  <2> SUFFICES ASSUME At("posting")
               PROVE  Own(tour.day, tour.kind)' = {} /\ TourJob.submittedAt <= now'
    OBVIOUS
  <2>1. TourJob.submittedAt \in Int /\ now \in Nat /\ TourJob.submittedAt <= now
    BY <1>3, JobTyped, ConstantsOK DEF IInv, Typed, TourOK, TourJob, JobRecords, NoTime
  <2>2. Own(tour.day, tour.kind)' = {}
    <3>1. Own(tour.day, tour.kind) = {}
      BY DEF IInv, TourOK
    <3> QED
      BY <1>3, <3>1 DEF Own, Mine
  <2> QED
    BY <2>1, <2>2
<1>5. At("accepted") => /\ tour.id \in DOMAIN ads' /\ tour.id \notin Known(tour.day)
                        /\ ads'[tour.id].owner = <<tour.day, tour.kind>>
  BY DEF IInv, TourOK, Grows
<1>6. \A e \in Days, l \in Kinds : Posting(e, l)' <=> Posting(e, l)
  BY DEF Posting, At
<1> QED
  BY <1>2, <1>4, <1>5, <1>6 DEF IInv, TourOK

LEMMA TickKeeps == ASSUME IInv, Tick PROVE IInv'
<1>1. /\ now' = now + 1 /\ now < MaxTime /\ UNCHANGED <<runs, series, ads, late, tour>>
  BY DEF Tick
<1>2. now \in Nat /\ MaxTime \in Nat /\ now' \in 0 .. MaxTime /\ now' \in Nat /\ now' >= now
  BY <1>1, ConstantsOK DEF IInv, Typed
<1>3. Grows /\ DOMAIN ads' = DOMAIN ads
  BY <1>1 DEF Grows, IInv, Typed
<1>4. \A e \in Days, l \in Kinds : Own(e, l)' = Own(e, l) /\ Mine(e, l)' = Mine(e, l)
  BY <1>1 DEF Own, Mine
<1>5. TourOK' /\ \A e \in Days, l \in Kinds : Posting(e, l)' <=> Posting(e, l)
  BY <1>1, <1>2, <1>3, <1>4, TourStays
<1>6. ASSUME NEW e \in Days, NEW l \in Kinds PROVE Sent(e, l)' <= Sent(e, l)
  <2>1. Sent(e, l)' = Sent(e, l) /\ Sent(e, l) \in Nat
    BY <1>1, <1>4, <1>5, SentIs DEF Sent, IInv
  <2> QED
    BY <2>1
<1>7. /\ late' \subseteq Days \X Kinds /\ \A post \in late' : Reached(post[1])
      /\ tour' \in [at : Places, day : Days, kind : Kinds, id : {NoJob} \cup DOMAIN ads]
  BY <1>1 DEF IInv, Typed, Past
<1> QED
  BY <1>2, <1>3, <1>5, <1>6, <1>7, SameJobsKeep

\* Another status for a job upstream.
LEMMA StatusOnly ==
  ASSUME IInv, NEW i \in DOMAIN ads, NEW status \in AdsStates,
         ads' = [ads EXCEPT ![i].status = status], UNCHANGED <<runs, series>>
  PROVE  /\ Grows /\ DOMAIN ads' = DOMAIN ads
         /\ \A e \in Days, l \in Kinds : Own(e, l)' = Own(e, l) /\ Mine(e, l)' = Mine(e, l)
<1> DEFINE u == [ads[i] EXCEPT !.status = status]
<1>1. ads \in Seq(Upstream) /\ i \in 1 .. Len(ads) /\ ads[i] \in Upstream
  BY IdsArePositive DEF IInv, Typed
<1>2. /\ u \in Upstream /\ u.owner = ads[i].owner /\ u.created = ads[i].created
      /\ u.late = ads[i].late
  BY <1>1 DEF Upstream
<1>3. ads' = [ads EXCEPT ![i] = u]
  OBVIOUS
<1> HIDE DEF u
<1>4. /\ ads' \in Seq(Upstream) /\ Len(ads') = Len(ads)
      /\ \A j \in 1 .. Len(ads) : ads'[j] = IF j = i THEN u ELSE ads[j]
  BY <1>1, <1>2, <1>3, ExceptSeq
<1>5. DOMAIN ads' = 1 .. Len(ads) /\ DOMAIN ads = 1 .. Len(ads)
  BY <1>1, <1>4
<1>6. \A j \in DOMAIN ads : /\ ads'[j].owner = ads[j].owner
                            /\ ads'[j].created = ads[j].created /\ ads'[j].late = ads[j].late
  BY <1>2, <1>4, <1>5
<1>7. Grows
  BY <1>4, <1>5, <1>6 DEF Grows
<1> QED
  BY <1>5, <1>6, <1>7 DEF Own, Mine

LEMMA ProviderEndsKeeps == ASSUME IInv, NEW i \in DOMAIN ads, ProviderEnds(i) PROVE IInv'
<1>1. PICK status \in {"successful", "failed"} : ads' = [ads EXCEPT ![i].status = status]
  BY DEF ProviderEnds
<1>2. UNCHANGED <<now, runs, series, late, tour>> /\ status \in AdsStates
  BY DEF ProviderEnds, AdsStates
<1>3. /\ Grows /\ DOMAIN ads' = DOMAIN ads
      /\ \A e \in Days, l \in Kinds : Own(e, l)' = Own(e, l) /\ Mine(e, l)' = Mine(e, l)
  BY <1>1, <1>2, StatusOnly
<1>4. now' \in 0 .. MaxTime /\ now' \in Nat /\ now' >= now
  BY <1>2 DEF IInv, Typed
<1>5. TourOK' /\ \A e \in Days, l \in Kinds : Posting(e, l)' <=> Posting(e, l)
  BY <1>2, <1>3, <1>4, TourStays
<1>6. ASSUME NEW e \in Days, NEW l \in Kinds PROVE Sent(e, l)' <= Sent(e, l)
  <2>1. Sent(e, l)' = Sent(e, l) /\ Sent(e, l) \in Nat
    BY <1>2, <1>3, <1>5, SentIs DEF Sent, IInv
  <2> QED
    BY <2>1
<1>7. /\ late' \subseteq Days \X Kinds /\ \A post \in late' : Reached(post[1])
      /\ tour' \in [at : Places, day : Days, kind : Kinds, id : {NoJob} \cup DOMAIN ads]
  BY <1>2 DEF IInv, Typed, Past
<1> QED
  BY <1>3, <1>4, <1>5, <1>6, <1>7, SameJobsKeep

\* Who is cleaned up is not in use any more.
LEMMA SendDeleteKeeps ==
  ASSUME IInv, NEW d \in Days, NEW k \in Kinds, SendDelete(d, k)
  PROVE  IInv'
<1>1. /\ tour = NoTour /\ d \in Newest /\ InDebt(Job(d, k))
      /\ ads' \in {ads, [ads EXCEPT ![Job(d, k).jobId].status = "dismissed"]}
      /\ tour' = [at |-> "deleting", day |-> d, kind |-> k, id |-> NoJob]
      /\ UNCHANGED <<now, runs, series, late>>
  BY DEF SendDelete, Cleans, Goto, Job
<1>2. /\ Exists(d) /\ Job(d, k).jobId # NoJob /\ Job(d, k).state \notin ProgressableStates
      /\ Job(d, k).jobId \in DOMAIN ads
  BY <1>1, JobTyped DEF InDebt, Newest, IInv, JobRecords
<1>3. /\ Grows /\ DOMAIN ads' = DOMAIN ads
      /\ \A e \in Days, l \in Kinds : Own(e, l)' = Own(e, l) /\ Mine(e, l)' = Mine(e, l)
  <2>1. CASE ads' = ads
    BY <1>1, <2>1 DEF Grows, IInv, Typed, Own, Mine
  <2>2. CASE ads' = [ads EXCEPT ![Job(d, k).jobId].status = "dismissed"]
    BY <1>1, <1>2, <2>2, StatusOnly DEF AdsStates
  <2> QED
    BY <1>1, <2>1, <2>2
<1>4. /\ At("deleting")' /\ ~At("posting")' /\ ~At("create")' /\ ~At("accepted")'
      /\ ~At("pruning")' /\ tour'.day = d /\ tour'.kind = k
  BY <1>1 DEF At
<1>5. TourOK'
  <2>1. Exists(tour.day)' /\ TourJob' = Job(d, k)
    BY <1>1, <1>2, <1>4 DEF Exists, TourJob, Job
  <2> QED
    BY <1>2, <1>4, <2>1 DEF TourOK
<1>6. ASSUME NEW e \in Days, NEW l \in Kinds PROVE Sent(e, l)' <= Sent(e, l)
  <2>1. ~Posting(e, l)' /\ ~Posting(e, l)
    BY <1>1, <1>4 DEF Posting, At, NoTour
  <2>2. Sent(e, l)' = Sent(e, l) /\ Sent(e, l) \in Nat
    BY <1>1, <1>3, <2>1, SentIs DEF Sent, IInv
  <2> QED
    BY <2>2
<1>7. /\ late' \subseteq Days \X Kinds /\ \A post \in late' : Reached(post[1])
      /\ tour' \in [at : Places, day : Days, kind : Kinds, id : {NoJob} \cup DOMAIN ads]
      /\ now' \in 0 .. MaxTime
  BY <1>1 DEF IInv, Typed, Past, Places
<1> QED
  BY <1>3, <1>5, <1>6, <1>7, SameJobsKeep

\* A job more upstream.
LEMMA Appended ==
  ASSUME IInv, NEW u \in Upstream, ads' = Append(ads, u), UNCHANGED <<runs, series>>
  PROVE  /\ Grows
         /\ Len(ads') = Len(ads) + 1 /\ ads'[Len(ads')] = u
         /\ DOMAIN ads' = DOMAIN ads \cup {Len(ads')} /\ Len(ads') \notin DOMAIN ads
         /\ \A e \in Days, l \in Kinds :
              /\ Mine(e, l)' = IF u.owner = <<e, l>> THEN Mine(e, l) \cup {Len(ads')}
                               ELSE Mine(e, l)
              /\ Own(e, l)' = IF u.owner = <<e, l>> /\ ~u.late THEN Own(e, l) \cup {Len(ads')}
                              ELSE Own(e, l)
              /\ Cardinality(Mine(e, l)') =
                   Cardinality(Mine(e, l)) + (IF u.owner = <<e, l>> THEN 1 ELSE 0)
<1> DEFINE n == Len(ads) + 1
<1>1. ads \in Seq(Upstream) /\ Len(ads) \in Nat /\ DOMAIN ads = 1 .. Len(ads)
  BY IdsArePositive DEF IInv, Typed
<1>2. /\ ads' \in Seq(Upstream) /\ Len(ads') = n /\ ads'[n] = u
      /\ \A i \in 1 .. Len(ads) : ads'[i] = ads[i]
  BY <1>1, AppendProperties
<1>3. n \notin DOMAIN ads /\ DOMAIN ads' = DOMAIN ads \cup {n}
  <2>1. DOMAIN ads' = 1 .. n
    BY <1>2
  <2> QED
    BY <1>1, <2>1
<1>4. Grows
  BY <1>1, <1>2, <1>3 DEF Grows
<1> HIDE DEF n
<1>5. ASSUME NEW e \in Days, NEW l \in Kinds
      PROVE  /\ Mine(e, l)' = IF u.owner = <<e, l>> THEN Mine(e, l) \cup {n} ELSE Mine(e, l)
             /\ Own(e, l)' = IF u.owner = <<e, l>> /\ ~u.late THEN Own(e, l) \cup {n}
                             ELSE Own(e, l)
  <2>1. \A i \in DOMAIN ads : ads'[i] = ads[i]
    BY <1>1, <1>2
  <2>2. Mine(e, l)' = IF u.owner = <<e, l>> THEN Mine(e, l) \cup {n} ELSE Mine(e, l)
    BY <1>2, <1>3, <2>1 DEF Mine
  <2>3. Own(e, l)' = {i \in Mine(e, l)' : ~ads'[i].late}
    BY DEF Own
  <2> QED
    BY <1>2, <1>3, <2>1, <2>2, <2>3 DEF Own, Mine
<1>6. ASSUME NEW e \in Days, NEW l \in Kinds
      PROVE  Cardinality(Mine(e, l)') =
               Cardinality(Mine(e, l)) + (IF u.owner = <<e, l>> THEN 1 ELSE 0)
  <2>1. IsFiniteSet(Mine(e, l)) /\ n \notin Mine(e, l) /\ Cardinality(Mine(e, l)) \in Nat
    BY <1>3, SentIs DEF IInv, Mine
  <2>2. Cardinality(Mine(e, l) \cup {n}) = Cardinality(Mine(e, l)) + 1
    BY <2>1, FS_AddElement
  <2>3. CASE u.owner = <<e, l>>
    <3>1. Mine(e, l)' = Mine(e, l) \cup {n}
      BY <1>5, <2>3
    <3> QED
      BY <2>2, <2>3, <3>1
  <2>4. CASE u.owner # <<e, l>>
    <3>1. Mine(e, l)' = Mine(e, l)
      BY <1>5, <2>4
    <3> QED
      BY <2>1, <2>4, <3>1
  <2> QED
    BY <2>3, <2>4
<1> QED
  BY <1>2, <1>3, <1>4, <1>5, <1>6 DEF n

\* It is one of a record that is submitting and has none in time, or it is late.
LEMMA AppendKeeps ==
  ASSUME IInv, NEW u \in Upstream, ads' = Append(ads, u), UNCHANGED <<now, runs, series>>,
         NEW d \in Days, NEW k \in Kinds, u.owner = <<d, k>>, Reached(d),
         u.late \/ /\ Own(d, k) = {} /\ Job(d, k).state = "submitting"
                   /\ u.created >= Job(d, k).submittedAt,
         late' \subseteq late,
         tour' \in [at : Places, day : Days, kind : Kinds, id : {NoJob} \cup DOMAIN ads'],
         \A e \in Days, l \in Kinds : Sent(e, l)' <= Sent(e, l), TourOK'
  PROVE  IInv'
<1> DEFINE n == Len(ads')
<1>1. /\ Grows /\ ads'[n] = u
      /\ DOMAIN ads' = DOMAIN ads \cup {n} /\ n \notin DOMAIN ads
      /\ \A e \in Days, l \in Kinds :
           /\ Own(e, l)' = IF u.owner = <<e, l>> /\ ~u.late THEN Own(e, l) \cup {n} ELSE Own(e, l)
           /\ Cardinality(Mine(e, l)') =
                Cardinality(Mine(e, l)) + (IF u.owner = <<e, l>> THEN 1 ELSE 0)
  BY Appended
<1>2. /\ \A e \in Days : /\ Exists(e)' <=> Exists(e)
                         /\ \A l \in Kinds : Job(e, l)' = Job(e, l)
      /\ \A day : Reached(day)' <=> Reached(day)
  BY <1>1, GrowsKeep
<1>3. \A i \in DOMAIN ads : /\ ads'[i].owner = ads[i].owner
                            /\ ads'[i].created = ads[i].created /\ ads'[i].late = ads[i].late
  BY <1>1 DEF Grows
<1> HIDE DEF n
<1>4. Typed'
  <2>1. runs' \in [Days -> [state : RunStates, jobs : [Kinds -> JobRecords']]]
        /\ series' \in [Days -> [Kinds -> {NoData} \cup (Days \X Kinds)]]
        /\ ads' \in Seq(Upstream)
    BY <1>1, GrowsKeep DEF Grows
  <2> QED
    BY <2>1 DEF Typed, IInv
<1>5. Past'
  BY <1>1, <1>2, <1>3 DEF IInv, Past
<1>6. Unsent'
  <2> SUFFICES ASSUME NEW e \in Days, NEW l \in Kinds, Exists(e)
               PROVE  /\ Job(e, l).state \in {"pending", "costed"} => Own(e, l)' = {}
                      /\ Job(e, l).state = "submitting" =>
                           \A i \in Own(e, l)' : ads'[i].created >= Job(e, l).submittedAt
    BY <1>2 DEF Unsent
  <2>1. \A i \in Own(e, l) : ads'[i].created = ads[i].created
    BY <1>3 DEF Own, Mine
  <2>2. /\ Job(e, l).state \in {"pending", "costed"} => Own(e, l) = {}
        /\ Job(e, l).state = "submitting" =>
             \A i \in Own(e, l) : ads[i].created >= Job(e, l).submittedAt
    BY DEF IInv, Unsent
  <2>3. CASE u.owner = <<e, l>> /\ ~u.late
    <3>1. e = d /\ l = k /\ Own(e, l)' = {n}
      BY <1>1, <2>3
    <3> QED
      BY <1>1, <2>3, <3>1
  <2>4. CASE ~(u.owner = <<e, l>> /\ ~u.late)
    <3>1. Own(e, l)' = Own(e, l)
      BY <1>1, <2>4
    <3> QED
      BY <2>1, <2>2, <3>1
  <2> QED
    BY <2>3, <2>4
<1>7. Paid'
  <2> SUFFICES ASSUME NEW e \in Days, NEW l \in Kinds, Exists(e)
               PROVE  Sent(e, l)' <= Allowed(Job(e, l))
    BY <1>2 DEF Paid
  <2>1. Sent(e, l)' <= Sent(e, l) /\ Sent(e, l) <= Allowed(Job(e, l))
    BY DEF IInv, Paid
  <2>2. Sent(e, l) \in Nat /\ Cardinality(Mine(e, l)) \in Nat /\ Allowed(Job(e, l)) \in Nat
    <3>1. Typed
      BY DEF IInv
    <3>2. Job(e, l).attempts \in Nat
      BY <3>1, JobTyped
    <3>3. Sent(e, l) \in Nat /\ Cardinality(Mine(e, l)) \in Nat
      BY <3>1, SentIs
    <3>4. Allowed(Job(e, l)) \in Nat
      BY <3>2 DEF Allowed
    <3> QED
      BY <3>3, <3>4
  <2>3. Sent(e, l)' \in Int
    BY <1>1, <2>2 DEF Sent
  <2> QED
    BY <2>1, <2>2, <2>3
<1>8. DuplicatesOnlyFromLatePosts'
  <2> SUFFICES ASSUME NEW i \in DOMAIN ads', NEW j \in DOMAIN ads', i # j,
                      ads'[i].owner = ads'[j].owner
               PROVE  ads'[i].late \/ ads'[j].late
    BY DEF DuplicatesOnlyFromLatePosts
  <2>1. CASE i \in DOMAIN ads /\ j \in DOMAIN ads
    BY <1>3, <2>1 DEF IInv, DuplicatesOnlyFromLatePosts
  <2>2. ASSUME NEW o \in DOMAIN ads, ads[o].owner = <<d, k>>, ~u.late PROVE ads[o].late
    BY <2>2 DEF Own, Mine
  <2>3. CASE i = n \/ j = n
    BY <1>1, <1>3, <2>2, <2>3
  <2> QED
    BY <1>1, <2>1, <2>3
<1>9. OwnPreferred'
  <2> SUFFICES ASSUME NEW e \in Days, NEW l \in Kinds PROVE Preferred(e, l, Job(e, l).jobId)'
    BY DEF OwnPreferred
  <2>1. CASE u.owner = <<e, l>> /\ ~u.late
    <3>1. Job(e, l)'.jobId = NoJob
      BY <1>2, <2>1 DEF IInv, JobsOK, JobOK
    <3> QED
      BY <3>1 DEF Preferred
  <2>2. CASE ~(u.owner = <<e, l>> /\ ~u.late)
    BY <1>1, <2>2, StillPreferred
  <2> QED
    BY <2>1, <2>2
<1> QED
  BY <1>1, <1>4, <1>5, <1>6, <1>7, <1>8, <1>9, GrowsKeep DEF IInv

\* A POST that arrives in time, while its tour waits for the answer.
LEMMA PostArrivesKeeps == ASSUME IInv, PostArrives PROVE IInv'
<1> DEFINE d == tour.day
           k == tour.kind
           u == [owner |-> <<d, k>>, created |-> now, status |-> "running", late |-> FALSE]
<1>1. /\ At("posting") /\ ads' = Append(ads, u)
      /\ tour' = [tour EXCEPT !.at = "accepted", !.id = Len(ads')]
      /\ UNCHANGED <<now, runs, series, late>>
  BY DEF PostArrives, Accept
<1>2. /\ d \in Days /\ k \in Kinds /\ Exists(d) /\ Job(d, k) = TourJob
      /\ Job(d, k).state = "submitting"
      /\ tour \in [at : Places, day : Days, kind : Kinds, id : {NoJob} \cup DOMAIN ads]
  BY <1>1, GoingOn DEF TourJob, IInv, Typed
<1>3. Own(d, k) = {} /\ Job(d, k).submittedAt <= now /\ now \in 0 .. MaxTime
  BY <1>1, <1>2 DEF IInv, TourOK, Typed
<1>4. u \in Upstream /\ u.owner = <<d, k>> /\ ~u.late /\ u.created = now
  BY <1>2, <1>3 DEF Upstream, AdsStates
<1> HIDE DEF u
<1>5. /\ Grows /\ ads'[Len(ads')] = u
      /\ DOMAIN ads' = DOMAIN ads \cup {Len(ads')} /\ Len(ads') \notin DOMAIN ads
      /\ \A e \in Days, l \in Kinds :
           Cardinality(Mine(e, l)') =
             Cardinality(Mine(e, l)) + (IF u.owner = <<e, l>> THEN 1 ELSE 0)
  BY <1>1, <1>4, Appended
<1>6. /\ tour'.at = "accepted" /\ tour'.day = d /\ tour'.kind = k /\ tour'.id = Len(ads')
      /\ tour' \in [at : Places, day : Days, kind : Kinds, id : {NoJob} \cup DOMAIN ads']
  BY <1>1, <1>2, <1>5 DEF Places
<1>7. /\ At("accepted")' /\ ~At("posting")' /\ ~At("create")' /\ ~At("deleting")'
      /\ ~At("pruning")'
  BY <1>6 DEF At
<1>8. TourOK'
  <2>1. Exists(tour.day)' /\ TourJob' = TourJob /\ Known(tour.day)' = Known(d)
    BY <1>1, <1>2, <1>6 DEF Exists, TourJob, Job, Known
  <2>2. Len(ads') \notin Known(d)
    <3>1. Known(d) \subseteq {NoJob} \cup DOMAIN ads
      <4>1. \A l \in Kinds : Job(d, l).jobId \in {NoJob} \cup DOMAIN ads
        BY <1>2, JobTyped DEF IInv, JobRecords
      <4> QED
        BY <4>1 DEF Known, Job
    <3>2. Len(ads') # NoJob
      <4>1. Len(ads') = Len(ads) + 1 /\ Len(ads) \in Nat
        BY <1>1, <1>4, Appended, IdsArePositive DEF IInv
      <4> QED
        BY <4>1 DEF NoJob
    <3> QED
      BY <1>5, <3>1, <3>2
  <2> QED
    BY <1>2, <1>4, <1>5, <1>6, <1>7, <2>1, <2>2 DEF TourOK
<1>9. ASSUME NEW e \in Days, NEW l \in Kinds PROVE Sent(e, l)' <= Sent(e, l)
  <2> DEFINE n == Cardinality(Mine(e, l))
             w == IF <<e, l>> \in late THEN 1 ELSE 0
             p == IF e = d /\ l = k THEN 1 ELSE 0
  <2>1. n \in Nat /\ w \in Nat /\ p \in Nat
    BY SentIs DEF IInv
  <2>2. Sent(e, l) = n + w + p
    BY <1>1 DEF Sent, Posting
  <2>3. Cardinality(Mine(e, l)') = n + p
    BY <1>4, <1>5
  <2>4. Sent(e, l)' = n + p + w + 0
    BY <1>1, <1>7, <2>3 DEF Sent, Posting
  <2> HIDE DEF n, w, p
  <2> QED
    BY <2>1, <2>2, <2>4
<1>10. Reached(d) /\ late' \subseteq late /\ u.created >= Job(d, k).submittedAt
  <2>1. d >= d
    <3>1. d \in Nat
      BY <1>2, DaysAreNat, Zenon
    <3> QED
      BY <3>1
  <2>2. Reached(d)
    BY <1>2, <2>1, Zenon DEF Reached
  <2>3. Job(d, k).submittedAt \in Int
    BY <1>2, JobTyped, ConstantsOK DEF IInv, JobRecords, NoTime
  <2> QED
    BY <1>1, <1>3, <1>4, <2>2, <2>3
<1> QED
  BY <1>1, <1>2, <1>3, <1>4, <1>6, <1>8, <1>9, <1>10, AppendKeeps

\* A POST that arrives after its call was given up.
LEMMA LateArrivalKeeps == ASSUME IInv, NEW post \in late, LateArrival(post) PROVE IInv'
<1> DEFINE u == [owner |-> post, created |-> now, status |-> "running", late |-> TRUE]
<1>1. /\ late' = late \ {post} /\ ads' = Append(ads, u) /\ UNCHANGED <<now, runs, series, tour>>
  BY DEF LateArrival, Accept
<1>2. /\ late \subseteq Days \X Kinds /\ Reached(post[1]) /\ now \in 0 .. MaxTime
      /\ tour \in [at : Places, day : Days, kind : Kinds, id : {NoJob} \cup DOMAIN ads]
  BY DEF IInv, Typed, Past
<1>3. PICK d \in Days, k \in Kinds : post = <<d, k>>
  BY <1>2
<1>4. u \in Upstream /\ u.owner = <<d, k>> /\ u.late
  BY <1>2, <1>3 DEF Upstream, AdsStates
<1> HIDE DEF u
<1>5. /\ Grows
      /\ DOMAIN ads' = DOMAIN ads \cup {Len(ads')}
      /\ \A e \in Days, l \in Kinds :
           /\ Own(e, l)' = IF u.owner = <<e, l>> /\ ~u.late THEN Own(e, l) \cup {Len(ads')}
                           ELSE Own(e, l)
           /\ Cardinality(Mine(e, l)') =
                Cardinality(Mine(e, l)) + (IF u.owner = <<e, l>> THEN 1 ELSE 0)
  BY <1>1, <1>4, Appended
<1>6. \A e \in Days, l \in Kinds : Own(e, l)' = Own(e, l)
  BY <1>4, <1>5
<1>7. now' \in Nat /\ now' >= now
  BY <1>1, <1>2
<1>8. TourOK' /\ \A e \in Days, l \in Kinds : Posting(e, l)' <=> Posting(e, l)
  BY <1>1, <1>5, <1>6, <1>7, TourStays
<1>9. ASSUME NEW e \in Days, NEW l \in Kinds PROVE Sent(e, l)' <= Sent(e, l)
  <2> DEFINE n == Cardinality(Mine(e, l))
             w == IF <<e, l>> \in late THEN 1 ELSE 0
             a == IF u.owner = <<e, l>> THEN 1 ELSE 0
             p == IF Posting(e, l) THEN 1 ELSE 0
  <2>1. n \in Nat /\ w \in Nat /\ p \in Nat /\ a \in Nat
    BY SentIs DEF IInv
  <2>2. Sent(e, l) = n + w + p
    BY DEF Sent
  <2>3. (IF <<e, l>> \in late' THEN 1 ELSE 0) = w - a
    <3>1. u.owner = post /\ post \in late
      BY <1>3, <1>4
    <3>2. CASE post = <<e, l>>
      BY <1>1, <3>1, <3>2
    <3>3. CASE post # <<e, l>>
      <4>1. <<e, l>> \in late' <=> <<e, l>> \in late
        BY <1>1, <3>3
      <4> QED
        BY <3>1, <3>3, <4>1
    <3> QED
      BY <3>2, <3>3
  <2>4. Cardinality(Mine(e, l)') = n + a
    BY <1>5
  <2>5. (IF Posting(e, l)' THEN 1 ELSE 0) = p
    BY <1>8
  <2>6. Sent(e, l)' = (n + a) + (w - a) + p
    BY <2>3, <2>4, <2>5 DEF Sent
  <2> HIDE DEF n, w, a, p
  <2> QED
    BY <2>1, <2>2, <2>6
<1>10. /\ Reached(d) /\ late' \subseteq late
       /\ tour' \in [at : Places, day : Days, kind : Kinds, id : {NoJob} \cup DOMAIN ads']
  BY <1>1, <1>2, <1>3, <1>5
<1> QED
  BY <1>1, <1>4, <1>8, <1>9, <1>10, AppendKeeps

-----------------------------------------------------------------------------
(* Runs begin, are abandoned and are pruned.                               *)

\* A run whose state alone is written, and not to one that is served.
LEMMA SameRecords ==
  ASSUME IInv, UNCHANGED <<now, series, ads, late>>, NEW d \in Days,
         NEW state \in {"pending", "abandoned"}, runs' = [runs EXCEPT ![d].state = state]
  PROVE  /\ runs' \in [Days -> [state : RunStates, jobs : [Kinds -> JobRecords]]]
         /\ JobsOK' /\ Named' /\ Rolled' /\ Backed' /\ InOrder' /\ Distinct'
         /\ DuplicatesOnlyFromLatePosts' /\ OwnPreferred'
         /\ \A e \in Days, l \in Kinds : /\ Job(e, l)' = Job(e, l) /\ Mine(e, l)' = Mine(e, l)
                                         /\ Own(e, l)' = Own(e, l)
         /\ \A e \in Days : Exists(e)' <=> Exists(e) \/ e = d
<1>1. runs \in [Days -> [state : RunStates, jobs : [Kinds -> JobRecords]]]
  BY DEF IInv, Typed
<1>2. /\ runs' \in [Days -> [state : RunStates, jobs : [Kinds -> JobRecords]]]
      /\ \A e \in Days \ {d} : runs'[e] = runs[e]
      /\ runs'[d].state = state /\ runs'[d].jobs = runs[d].jobs
  BY <1>1 DEF RunStates
<1>3. /\ \A e \in Days : runs'[e].jobs = runs[e].jobs
      /\ \A e \in Days : runs'[e].state = IF e = d THEN state ELSE runs[e].state
  BY <1>2
<1>4. \A e \in Days, l \in Kinds : Job(e, l)' = Job(e, l)
  BY <1>3 DEF Job
<1>5. state \notin ServiceableRunStates /\ state # "complete" /\ state # "none"
  BY DEF ServiceableRunStates
<1>6. Named'
  BY <1>2, <1>5 DEF IInv, Named
<1>7. Rolled'
  BY <1>3, <1>4, <1>5, KindsAre DEF IInv, Rolled, Servable
<1>8. JobsOK' /\ InOrder' /\ Distinct' /\ DuplicatesOnlyFromLatePosts'
  <2>1. JobsOK'
    BY <1>4 DEF IInv, JobsOK
  <2>2. InOrder'
    BY <1>4, KindsAre DEF IInv, InOrder
  <2>3. Distinct'
    BY <1>4 DEF IInv, Distinct
  <2> QED
    BY <2>1, <2>2, <2>3 DEF IInv, DuplicatesOnlyFromLatePosts
<1>9. Backed'
  BY <1>4 DEF IInv, Backed
<1>10. ASSUME NEW e \in Days PROVE Exists(e)' <=> Exists(e) \/ e = d
  <2>1. runs'[d] # NoRun
    BY <1>2, <1>5 DEF NoRun
  <2> QED
    BY <1>2, <2>1 DEF Exists
<1>11. \A e \in Days, l \in Kinds : Mine(e, l)' = Mine(e, l) /\ Own(e, l)' = Own(e, l)
  BY DEF Mine, Own
<1>12. OwnPreferred'
  BY <1>4, <1>11 DEF IInv, OwnPreferred, Preferred
<1> QED
  BY <1>2, <1>4, <1>6, <1>7, <1>8, <1>9, <1>10, <1>11, <1>12

LEMMA SupersedeKeeps == ASSUME IInv, Supersede PROVE IInv'
<1>1. PICK d \in Newest : d < TargetDay /\ runs' = [runs EXCEPT ![d].state = "abandoned"]
  BY DEF Supersede
<1>2. /\ tour = NoTour /\ ~BeforeSubmitHour /\ UNCHANGED <<now, series, ads, late>>
      /\ tour' = [at |-> "create", day |-> TargetDay, kind |-> "forecast", id |-> NoJob]
  BY DEF Supersede, Goto
<1>3. d \in Days /\ Exists(d) /\ \A e \in Days : Exists(e) => e <= d
  BY DEF Newest
<1>4. TargetDay \in Days
  BY <1>2, TodayIsADay DEF IInv
<1>5. /\ runs' \in [Days -> [state : RunStates, jobs : [Kinds -> JobRecords]]]
      /\ JobsOK' /\ Named' /\ Rolled' /\ Backed' /\ InOrder' /\ Distinct'
      /\ DuplicatesOnlyFromLatePosts' /\ OwnPreferred'
      /\ \A e \in Days, l \in Kinds : /\ Job(e, l)' = Job(e, l) /\ Mine(e, l)' = Mine(e, l)
                                      /\ Own(e, l)' = Own(e, l)
      /\ \A e \in Days : Exists(e)' <=> Exists(e) \/ e = d
  BY <1>1, <1>2, <1>3, SameRecords
<1>6. \A e \in Days : Exists(e)' <=> Exists(e)
  BY <1>3, <1>5
<1>7. /\ At("create")' /\ ~At("posting")' /\ ~At("accepted")' /\ ~At("deleting")'
      /\ ~At("pruning")' /\ tour'.day = TargetDay
  BY <1>2 DEF At
<1>8. Typed'
  <2>1. JobRecords' = JobRecords
    BY <1>2 DEF JobRecords
  <2>2. tour' \in [at : Places, day : Days, kind : Kinds, id : {NoJob} \cup DOMAIN ads]
    BY <1>2, <1>4, KindsAre DEF Places
  <2> QED
    BY <1>2, <1>5, <2>1, <2>2 DEF IInv, Typed
<1>9. TourOK'
  <2>1. ASSUME NEW e \in Days, Exists(e) PROVE e < tour'.day
    <3>1. e <= d /\ e \in Nat /\ d \in Nat /\ TargetDay \in Nat
      BY <1>3, <1>4, <2>1, DaysAreNat
    <3> QED
      BY <1>1, <1>7, <3>1
  <2> QED
    BY <1>6, <1>7, <2>1 DEF TourOK
<1>10. Past'
  BY <1>2, <1>6 DEF IInv, Past, Reached
<1>11. Unsent'
  BY <1>2, <1>5, <1>6 DEF IInv, Unsent
<1>12. Paid'
  <2> SUFFICES ASSUME NEW e \in Days, NEW l \in Kinds, Exists(e)
               PROVE  Sent(e, l)' <= Allowed(Job(e, l))
    BY <1>5, <1>6 DEF Paid
  <2>1. Sent(e, l)' = Sent(e, l)
    BY <1>2, <1>5, <1>7 DEF Sent, Posting, At, NoTour
  <2> QED
    BY <2>1 DEF IInv, Paid
<1> QED
  BY <1>5, <1>8, <1>9, <1>10, <1>11, <1>12 DEF IInv

\* The run that is created is a new one, later than every other.
LEMMA CreatedIsNew ==
  ASSUME IInv, CreateRun, NEW day, day = IF tour = NoTour THEN TargetDay ELSE tour.day
  PROVE  day \in Days /\ ~Exists(day) /\ \A e \in Days : Exists(e) => e < day
<1>1. day \in Days /\ \A e \in Days : Exists(e) => e < day
  <2>1. CASE At("create")
    <3>1. day = tour.day
      BY <2>1 DEF At, NoTour
    <3> QED
      BY <2>1, <3>1 DEF IInv, TourOK, Typed
  <2>2. CASE tour = NoTour /\ ~BeforeSubmitHour /\ \A d \in Newest : d < TargetDay
    <3>1. day = TargetDay /\ TargetDay \in Days
      BY <2>2, TodayIsADay DEF IInv
    <3>2. ASSUME NEW e \in Days, Exists(e) PROVE e < TargetDay
      <4>1. PICK n \in Newest : n >= e
        BY <3>2, NewestIsThere
      <4>2. n < TargetDay /\ n \in Nat /\ e \in Nat /\ TargetDay \in Nat
        BY <2>2, <3>1, DaysAreNat DEF Newest
      <4> QED
        BY <4>1, <4>2
    <3> QED
      BY <3>1, <3>2
  <2> QED
    BY <2>1, <2>2 DEF CreateRun
<1>2. ~(day < day)
  <2>1. day \in Nat
    BY <1>1, DaysAreNat, Zenon
  <2> QED
    BY <2>1
<1> QED
  BY <1>1, <1>2, Zenon

\* A new run is later than everything that was ever posted.
LEMMA CreateRunKeeps == ASSUME IInv, CreateRun PROVE IInv'
<1> DEFINE day == IF tour = NoTour THEN TargetDay ELSE tour.day
<1>1. /\ runs' = [runs EXCEPT ![day].state = "pending"] /\ tour' = NoTour
      /\ UNCHANGED <<now, series, ads, late>>
  BY DEF CreateRun, EndTour
<1>2. day \in Days /\ ~Exists(day) /\ \A e \in Days : Exists(e) => e < day
  BY CreatedIsNew
<1> HIDE DEF day
<1>4. /\ runs' \in [Days -> [state : RunStates, jobs : [Kinds -> JobRecords]]]
      /\ JobsOK' /\ Named' /\ Rolled' /\ Backed' /\ InOrder' /\ Distinct'
      /\ DuplicatesOnlyFromLatePosts' /\ OwnPreferred'
      /\ \A e \in Days, l \in Kinds : /\ Job(e, l)' = Job(e, l) /\ Mine(e, l)' = Mine(e, l)
                                      /\ Own(e, l)' = Own(e, l)
      /\ \A e \in Days : Exists(e)' <=> Exists(e) \/ e = day
  BY <1>1, <1>2, SameRecords
<1>5. MayBeLate
  BY <1>1 DEF MayBeLate
<1>6. /\ \A e \in Days, l \in Kinds : Sent(e, l)' <= Sent(e, l)
      /\ tour' \in [at : Places, day : Days, kind : Kinds, id : {NoJob} \cup DOMAIN ads]
      /\ TourOK'
  BY <1>1, <1>5, GivenUp
<1>7. Typed'
  <2>1. JobRecords' = JobRecords
    BY <1>1 DEF JobRecords
  <2> QED
    BY <1>1, <1>4, <1>6, <2>1 DEF IInv, Typed
<1>8. Past'
  <2>1. ASSUME NEW x, Reached(x) PROVE Reached(x)'
    BY <1>4, <2>1 DEF Reached
  <2> QED
    BY <1>1, <2>1 DEF IInv, Past
<1>9. ~Reached(day)
  <2> SUFFICES ASSUME NEW e \in Days, Exists(e), e >= day PROVE FALSE
    BY DEF Reached
  <2>1. e < day /\ e \in Nat /\ day \in Nat
    BY <1>2, DaysAreNat
  <2> QED
    BY <2>1
<1>10. ASSUME NEW l \in Kinds
       PROVE  Mine(day, l) = {} /\ Own(day, l) = {} /\ <<day, l>> \notin late
  <2>1. Mine(day, l) = {}
    BY <1>9 DEF IInv, Past, Mine
  <2>2. <<day, l>> \notin late
    <3>1. <<day, l>>[1] = day
      OBVIOUS
    <3> QED
      BY <1>9, <3>1 DEF IInv, Past
  <2> QED
    BY <2>1, <2>2 DEF Own
<1>11. Unsent'
  <2> SUFFICES ASSUME NEW e \in Days, NEW l \in Kinds, Exists(e) \/ e = day
               PROVE  /\ Job(e, l).state \in {"pending", "costed"} => Own(e, l) = {}
                      /\ Job(e, l).state = "submitting" =>
                           \A i \in Own(e, l) : ads[i].created >= Job(e, l).submittedAt
    BY <1>1, <1>4 DEF Unsent
  <2>1. CASE e = day
    BY <1>10, <2>1
  <2>2. CASE Exists(e)
    BY <2>2 DEF IInv, Unsent
  <2> QED
    BY <2>1, <2>2
<1>12. Paid'
  <2> SUFFICES ASSUME NEW e \in Days, NEW l \in Kinds, Exists(e) \/ e = day
               PROVE  Sent(e, l)' <= Allowed(Job(e, l))
    BY <1>4 DEF Paid
  <2>1. Allowed(Job(e, l)) \in Nat
    <3>1. Job(e, l).attempts \in Nat
      BY JobTyped DEF IInv
    <3> QED
      BY <3>1 DEF Allowed
  <2>2. CASE e = day
    <3>1. Cardinality(Mine(e, l)') = 0
      BY <1>4, <1>10, <2>2, FS_EmptySet
    <3>2. Sent(e, l)' = 0
      BY <1>1, <1>10, <2>2, <3>1 DEF Sent, Posting, At, NoTour
    <3> QED
      BY <2>1, <3>2
  <2>3. CASE Exists(e)
    <3>1. Sent(e, l)' <= Sent(e, l) /\ Sent(e, l) <= Allowed(Job(e, l))
      BY <1>6, <2>3 DEF IInv, Paid
    <3>2. Sent(e, l) \in Nat /\ Cardinality(Mine(e, l)') \in Nat
      BY <1>4, SentIs DEF IInv
    <3>3. Sent(e, l)' \in Int
      BY <3>2 DEF Sent
    <3> QED
      BY <2>1, <3>1, <3>2, <3>3
  <2> QED
    BY <2>2, <2>3
<1> QED
  BY <1>4, <1>6, <1>7, <1>8, <1>11, <1>12 DEF IInv

\* The newest run is not behind enough runs to be pruned.
LEMMA NewestIsKept ==
  ASSUME NEW d \in Newest
  PROVE  ~Pruned(d) /\ Exists(d) /\ d \in Days
<1>1. d \in Days /\ Exists(d) /\ \A e \in Days : Exists(e) => e <= d
  BY DEF Newest
<1>2. {e \in Days : Exists(e) /\ e > d} = {}
  <2> SUFFICES ASSUME NEW e \in Days, Exists(e), e > d PROVE FALSE
    OBVIOUS
  <2>1. e <= d /\ e \in Nat /\ d \in Nat
    BY <1>1, DaysAreNat
  <2> QED
    BY <2>1
<1>3. Cardinality({}) = 0
  BY FS_EmptySet
<1> QED
  BY <1>1, <1>2, <1>3, ConstantsOK DEF Pruned

LEMMA PruneWrites ==
  ASSUME IInv, Prune
  PROVE  /\ \A e \in Days : IF Pruned(e)
                            THEN /\ runs'[e] = NoRun
                                 /\ \A l \in Kinds : Job(e, l)' = NewJob /\ series'[e][l] = NoData
                            ELSE /\ runs'[e] = runs[e] /\ series'[e] = series[e]
                                 /\ \A l \in Kinds : Job(e, l)' = Job(e, l)
         /\ runs' \in [Days -> [state : RunStates, jobs : [Kinds -> JobRecords]]]
         /\ series' \in [Days -> [Kinds -> {NoData} \cup (Days \X Kinds)]]
         /\ \A e \in Days : Exists(e)' <=> Exists(e) /\ ~Pruned(e)
<1>1. /\ runs' = [d \in Days |-> IF Pruned(d) THEN NoRun ELSE runs[d]]
      /\ series' = [d \in Days |-> IF Pruned(d) THEN [k \in Kinds |-> NoData] ELSE series[d]]
  BY DEF Prune
<1>2. /\ runs \in [Days -> [state : RunStates, jobs : [Kinds -> JobRecords]]]
      /\ series \in [Days -> [Kinds -> {NoData} \cup (Days \X Kinds)]]
  BY DEF IInv, Typed
<1>3. /\ NoRun \in [state : RunStates, jobs : [Kinds -> JobRecords]]
      /\ \A l \in Kinds : NoRun.jobs[l] = NewJob
  BY NewJobOK DEF NoRun, RunStates
<1>4. [k \in Kinds |-> NoData] \in [Kinds -> {NoData} \cup (Days \X Kinds)]
  OBVIOUS
<1>5. /\ runs' \in [Days -> [state : RunStates, jobs : [Kinds -> JobRecords]]]
      /\ series' \in [Days -> [Kinds -> {NoData} \cup (Days \X Kinds)]]
  BY <1>1, <1>2, <1>3, <1>4
<1>6. \A e \in Days : runs'[e] = IF Pruned(e) THEN NoRun ELSE runs[e]
  BY <1>1
<1> QED
  BY <1>1, <1>3, <1>5, <1>6 DEF Job, Exists

LEMMA PruneKeeps == ASSUME IInv, Prune PROVE IInv'
<1>1. /\ \A e \in Days : IF Pruned(e)
                         THEN /\ runs'[e] = NoRun
                              /\ \A l \in Kinds : Job(e, l)' = NewJob /\ series'[e][l] = NoData
                         ELSE /\ runs'[e] = runs[e] /\ series'[e] = series[e]
                              /\ \A l \in Kinds : Job(e, l)' = Job(e, l)
      /\ runs' \in [Days -> [state : RunStates, jobs : [Kinds -> JobRecords]]]
      /\ series' \in [Days -> [Kinds -> {NoData} \cup (Days \X Kinds)]]
      /\ \A e \in Days : Exists(e)' <=> Exists(e) /\ ~Pruned(e)
  BY PruneWrites
<1>2. At("pruning") /\ tour' = NoTour /\ UNCHANGED <<now, ads, late>>
  BY DEF Prune, EndTour
<1>3. /\ \A e \in Days, l \in Kinds : Sent(e, l)' <= Sent(e, l)
      /\ tour' \in [at : Places, day : Days, kind : Kinds, id : {NoJob} \cup DOMAIN ads]
      /\ TourOK'
  BY <1>2, GivenUp DEF MayBeLate
<1>4. Typed'
  <2>1. JobRecords' = JobRecords
    BY <1>2 DEF JobRecords
  <2> QED
    BY <1>1, <1>2, <1>3, <2>1 DEF IInv, Typed
<1>5. JobsOK'
  BY <1>1, NewJobOK DEF IInv, JobsOK
<1>6. Named'
  BY <1>1 DEF IInv, Named
<1>7. Rolled'
  <2> SUFFICES ASSUME NEW e \in Days
               PROVE  /\ Servable(e)' => Job(e, "forecast")'.state = "stored"
                      /\ runs'[e].state = "complete" => \A l \in Kinds : Job(e, l)'.state = "stored"
    BY DEF Rolled
  <2>1. CASE Pruned(e)
    <3>1. runs'[e].state = "none"
      BY <1>1, <2>1 DEF NoRun
    <3> QED
      BY <3>1 DEF Servable, ServiceableRunStates
  <2>2. CASE ~Pruned(e)
    BY <1>1, <2>2, KindsAre DEF IInv, Rolled, Servable
  <2> QED
    BY <2>1, <2>2
<1>8. Backed'
  BY <1>1, <1>2, NewJobOK DEF IInv, Backed
<1>9. InOrder'
  BY <1>1, KindsAre DEF IInv, InOrder
<1>10. Distinct'
  BY <1>1, NewJobOK DEF IInv, Distinct
<1>11. Past'
  <2>1. ~Pruned(tour.day) /\ Exists(tour.day) /\ tour.day \in Days
        /\ \A e \in Days : Exists(e) => e <= tour.day
    BY <1>2, NewestIsKept DEF IInv, TourOK, Newest
  <2>3. ASSUME NEW x \in Days, Reached(x) PROVE Reached(x)'
    <3>1. PICK e \in Days : Exists(e) /\ e >= x
      BY <2>3 DEF Reached
    <3>2. tour.day >= x
      <4>1. e \in Nat /\ x \in Nat /\ tour.day \in Nat /\ e <= tour.day
        BY <2>1, <3>1, DaysAreNat
      <4> QED
        BY <3>1, <4>1
    <3>3. runs'[tour.day] # NoRun
      BY <2>1, <1>1 DEF Exists
    <3> QED
      BY <2>1, <3>2, <3>3 DEF Reached, Exists
  <2>4. \A i \in DOMAIN ads : ads[i].owner[1] \in Days
    BY IdsArePositive DEF IInv, Upstream
  <2>5. \A post \in late : post[1] \in Days
    BY DEF IInv, Typed
  <2> QED
    BY <1>2, <2>3, <2>4, <2>5 DEF IInv, Past
<1>12. \A e \in Days, l \in Kinds : /\ Mine(e, l)' = Mine(e, l) /\ Own(e, l)' = Own(e, l)
                                    /\ Exists(e)' => Job(e, l)' = Job(e, l) /\ Exists(e)
  BY <1>1, <1>2 DEF Mine, Own
<1>13. Unsent'
  BY <1>2, <1>12 DEF IInv, Unsent
<1>14. Paid'
  <2> SUFFICES ASSUME NEW e \in Days, NEW l \in Kinds, Exists(e)
               PROVE  Sent(e, l)' <= Allowed(Job(e, l))
    BY <1>12 DEF Paid
  <2>1. Sent(e, l)' <= Sent(e, l) /\ Sent(e, l) <= Allowed(Job(e, l))
    BY <1>3 DEF IInv, Paid
  <2>2. Sent(e, l) \in Nat /\ Cardinality(Mine(e, l)') \in Nat
    BY <1>12, SentIs DEF IInv
  <2>3. Sent(e, l)' \in Int
    BY <2>2 DEF Sent
  <2>4. Allowed(Job(e, l)) \in Nat
    <3>1. Job(e, l).attempts \in Nat
      BY JobTyped DEF IInv
    <3> QED
      BY <3>1 DEF Allowed
  <2> QED
    BY <2>1, <2>2, <2>3, <2>4
<1>15. DuplicatesOnlyFromLatePosts' /\ OwnPreferred'
  <2>1. DuplicatesOnlyFromLatePosts'
    BY <1>2 DEF IInv, DuplicatesOnlyFromLatePosts
  <2>2. ASSUME NEW e \in Days, NEW l \in Kinds PROVE Preferred(e, l, Job(e, l).jobId)'
    <3>1. Job(e, l)' = NewJob \/ Job(e, l)' = Job(e, l)
      BY <1>1
    <3>2. Preferred(e, l, Job(e, l).jobId)
      BY DEF IInv, OwnPreferred
    <3> QED
      BY <1>2, <1>12, <3>1, <3>2, NewJobOK DEF Preferred
  <2> QED
    BY <2>1, <2>2 DEF OwnPreferred
<1> QED
  BY <1>3, <1>4, <1>5, <1>6, <1>7, <1>8, <1>9, <1>10, <1>11, <1>13, <1>14, <1>15 DEF IInv

-----------------------------------------------------------------------------
(* The invariant.                                                          *)

LEMMA StutterKeeps == ASSUME IInv, UNCHANGED vars PROVE IInv'
<1>1. UNCHANGED <<now, runs, series, ads, late, tour>>
  BY DEF vars
<1>2. Grows /\ DOMAIN ads' = DOMAIN ads /\ now' \in 0 .. MaxTime /\ now' \in Nat /\ now' >= now
  BY <1>1 DEF Grows, IInv, Typed
<1>3. \A e \in Days, l \in Kinds : Own(e, l)' = Own(e, l) /\ Mine(e, l)' = Mine(e, l)
  BY <1>1 DEF Own, Mine
<1>4. TourOK' /\ \A e \in Days, l \in Kinds : Posting(e, l)' <=> Posting(e, l)
  BY <1>1, <1>2, <1>3, TourStays
<1>5. ASSUME NEW e \in Days, NEW l \in Kinds PROVE Sent(e, l)' <= Sent(e, l)
  <2>1. Sent(e, l)' = Sent(e, l) /\ Sent(e, l) \in Nat
    BY <1>1, <1>3, <1>4, SentIs DEF Sent, IInv
  <2> QED
    BY <2>1
<1>6. /\ late' \subseteq Days \X Kinds /\ \A post \in late' : Reached(post[1])
      /\ tour' \in [at : Places, day : Days, kind : Kinds, id : {NoJob} \cup DOMAIN ads]
  BY <1>1 DEF IInv, Typed, Past
<1> QED
  BY <1>2, <1>4, <1>5, <1>6, SameJobsKeep

LEMMA InitIInv == Init => IInv
<1> SUFFICES ASSUME Init PROVE IInv
  OBVIOUS
<1>1. /\ now = 0 /\ runs = [d \in Days |-> NoRun]
      /\ series = [d \in Days |-> [k \in Kinds |-> NoData]]
      /\ ads = <<>> /\ late = {} /\ tour = NoTour
  BY DEF Init
<1>2. /\ NoRun \in [state : RunStates, jobs : [Kinds -> JobRecords]]
      /\ NoRun.state = "none" /\ \A l \in Kinds : NoRun.jobs[l] = NewJob
  BY NewJobOK DEF NoRun, RunStates
<1>3. Typed
  <2>1. now \in 0 .. MaxTime
    BY <1>1, ConstantsOK
  <2>2. ads \in Seq(Upstream) /\ DOMAIN ads = {}
    BY <1>1
  <2>3. tour \in [at : Places, day : Days, kind : Kinds, id : {NoJob} \cup DOMAIN ads]
    BY <1>1, KindsAre, DaysAreNat DEF NoTour, Places, Days
  <2> QED
    BY <1>1, <1>2, <2>1, <2>2, <2>3 DEF Typed
<1>4. \A d \in Days : ~Exists(d) /\ runs[d].state = "none" /\ \A k \in Kinds : Job(d, k) = NewJob
  BY <1>1, <1>2 DEF Exists, Job
<1>5. JobsOK /\ Named /\ InOrder /\ Distinct /\ Backed
  BY <1>1, <1>4, NewJobOK, KindsAre DEF JobsOK, Named, InOrder, Distinct, Backed
<1>6. Rolled
  BY <1>4 DEF Rolled, Servable, ServiceableRunStates
<1>7. Past /\ Unsent /\ Paid /\ DuplicatesOnlyFromLatePosts
  BY <1>1, <1>4 DEF Past, Unsent, Paid, DuplicatesOnlyFromLatePosts
<1>8. TourOK
  BY <1>1 DEF TourOK, At, NoTour
<1>9. OwnPreferred
  BY <1>4, NewJobOK DEF OwnPreferred, Preferred
<1> QED
  BY <1>3, <1>5, <1>6, <1>7, <1>8, <1>9 DEF IInv

LEMMA StepIInv == IInv /\ [Next]_vars => IInv'
<1> SUFFICES ASSUME IInv, [Next]_vars PROVE IInv'
  OBVIOUS
<1>1. ASSUME NEW d \in Days, NEW k \in Kinds, Answered(d, k) PROVE IInv'
  <2>1. CASE Costing(d, k) \/ Poll(d, k) \/ Results(d, k) \/ RefuseFile(d, k)
    BY <2>1, AnswerWrites, ConcludesKeeps
  <2>2. CASE Reconcile(d, k)
    BY <2>2, ReconcileWrites, ConcludesKeeps
  <2>3. CASE Submit(d, k)
    BY <2>3, SubmitKeeps
  <2>4. CASE Store(d, k)
    BY <2>4, StoreKeeps
  <2>5. CASE SendDelete(d, k)
    BY <2>5, SendDeleteKeeps
  <2> QED
    BY <1>1, <2>1, <2>2, <2>3, <2>4, <2>5 DEF Answered
<1>2. tour.day \in Days /\ tour.kind \in Kinds
  BY DEF IInv, Typed
<1>3. CASE Tour
  <2>1. CASE Supersede \/ CreateRun \/ Prune \/ PostArrives
    BY <2>1, SupersedeKeeps, CreateRunKeeps, PruneKeeps, PostArrivesKeeps
  <2>2. CASE NothingToDo
    BY <2>2, StutterKeeps DEF NothingToDo
  <2>3. CASE Submitted \/ LicenceRefused
    BY <1>2, <2>3, SubmittedWrites, ConcludesKeeps
  <2>4. CASE StampCleanup
    BY <1>2, <2>4, StampWrites, ConcludesKeeps
  <2>5. CASE SubmitFails
    BY <1>2, <2>5, SubmitFailsWrites, GivingUpKeeps
  <2> QED
    BY <1>1, <1>3, <2>1, <2>2, <2>3, <2>4, <2>5 DEF Tour
<1>4. ASSUME NEW d \in Days, NEW k \in Kinds, RequestFails(d, k) \/ DownloadUnused(d, k)
      PROVE  IInv'
  BY <1>4, RequestFailsWrites, ConcludesKeeps, StutterKeeps DEF DownloadUnused
<1>5. CASE Crash
  BY <1>5, CrashKeeps
<1>6. ASSUME NEW post \in late, LateArrival(post) PROVE IInv'
  BY <1>6, LateArrivalKeeps
<1>7. ASSUME NEW id \in DOMAIN ads, ProviderEnds(id) PROVE IInv'
  BY <1>7, ProviderEndsKeeps
<1>8. CASE Tick
  BY <1>8, TickKeeps
<1>9. CASE UNCHANGED vars
  BY <1>9, StutterKeeps
<1> QED
  BY <1>3, <1>4, <1>5, <1>6, <1>7, <1>8, <1>9 DEF Next

LEMMA Inductive == Spec => []IInv
BY InitIInv, StepIInv, PTL DEF Spec

-----------------------------------------------------------------------------
(* The theorems.                                                           *)

\* Every variable keeps its type, and no record is ever in a combination of fields
\* that the job steps call unreachable.
THEOREM TypeCorrect == Spec => []TypeOK
<1>1. ASSUME IInv PROVE TypeOK
  <2>1. Typed /\ JobsOK
    BY <1>1 DEF IInv
  <2>2. \A k \in Kinds : k \in {"forecast", "analysis"}
    BY KindsAre
  <2> QED
    BY <2>1, <2>2 DEF TypeOK, Typed, JobsOK, Job, RunStates, Places, Upstream, AdsStates
<1> QED
  BY <1>1, Inductive, PTL

\* However the submits are lost, answered late or reconciled, two jobs for one
\* product are there only when a POST arrived after its call was given up.
THEOREM NoDuplicates == Spec => []DuplicatesOnlyFromLatePosts
BY Inductive, PTL DEF IInv

\* Every upstream job of a product but the first was paid for with an attempt.
THEOREM ResubmitsPaid == Spec => []EveryResubmitIsPaidFor
<1>1. ASSUME IInv PROVE EveryResubmitIsPaidFor
  <2> SUFFICES ASSUME NEW d \in Days, NEW k \in Kinds, Exists(d)
               PROVE  Cardinality(Mine(d, k)) <= Job(d, k).attempts + 1
    BY DEF EveryResubmitIsPaidFor, Mine, Job
  <2>1. /\ Cardinality(Mine(d, k)) \in Nat /\ Sent(d, k) \in Nat
        /\ Cardinality(Mine(d, k)) <= Sent(d, k)
    BY <1>1, SentIs DEF IInv
  <2>2. Job(d, k).attempts \in Nat
    BY <1>1, JobTyped DEF IInv
  <2>3. Sent(d, k) <= Allowed(Job(d, k))
    BY <1>1 DEF IInv, Paid
  <2>4. Allowed(Job(d, k)) \in Nat /\ Allowed(Job(d, k)) <= Job(d, k).attempts + 1
    BY <2>2 DEF Allowed
  <2> QED
    BY <2>1, <2>2, <2>3, <2>4
<1> QED
  BY <1>1, Inductive, PTL

\* Reconciliation takes a job that is not the product's only when the product has
\* none upstream, or one that came too late: it never passes over its own.
THEOREM OwnComesFirst == Spec => []ForeignOnlyWithoutOwn
<1>1. ASSUME IInv PROVE ForeignOnlyWithoutOwn
  <2> SUFFICES ASSUME NEW d \in Days, NEW k \in Kinds, Job(d, k).jobId # NoJob,
                      ads[Job(d, k).jobId].owner # <<d, k>>,
                      NEW i \in DOMAIN ads, ads[i].owner = <<d, k>>
               PROVE  ads[i].late
    BY DEF ForeignOnlyWithoutOwn, Job
  <2>1. Own(d, k) = {}
    BY <1>1 DEF IInv, OwnPreferred, Preferred
  <2> QED
    BY <2>1 DEF Own, Mine
<1> QED
  BY <1>1, Inductive, PTL

\* A run in a servable state has its forecast rows, a complete one every product,
\* and a ledger that says stored has the rows.
THEOREM Whole == Spec => []ServableIsWhole
<1>1. ASSUME IInv PROVE ServableIsWhole
  <2> SUFFICES ASSUME NEW d \in Days
               PROVE  /\ Servable(d) => series[d]["forecast"] # NoData
                      /\ \A k \in Kinds : runs[d].state = "complete" \/ Job(d, k).state = "stored"
                                            => series[d][k] # NoData
    BY DEF ServableIsWhole, Job
  <2>1. \A k \in Kinds : Job(d, k).state = "stored" => series[d][k] # NoData
    BY <1>1 DEF IInv, Backed
  <2>2. /\ Servable(d) => Job(d, "forecast").state = "stored"
        /\ runs[d].state = "complete" => \A k \in Kinds : Job(d, k).state = "stored"
    BY <1>1 DEF IInv, Rolled
  <2> QED
    BY <2>1, <2>2, KindsAre
<1> QED
  BY <1>1, Inductive, PTL

\* The kinds of step: one record rewritten, the runs left alone, or one of three.
LEMMA StepKinds ==
  ASSUME IInv, [Next]_vars
  PROVE  \/ \E d \in Days, k \in Kinds, job \in JobRecords : Writes(d, k, job)
         \/ runs' = runs
         \/ Supersede \/ CreateRun \/ Prune
<1>1. ASSUME NEW d \in Days, NEW k \in Kinds, Answered(d, k)
      PROVE  (\E job \in JobRecords : Writes(d, k, job)) \/ runs' = runs
  <2>1. CASE Costing(d, k) \/ Poll(d, k) \/ Results(d, k) \/ RefuseFile(d, k) \/ Reconcile(d, k)
    <3>1. Concludes(d, k)
      BY <2>1, AnswerWrites, ReconcileWrites
    <3> QED
      BY <3>1 DEF Concludes, Writes, Permitted
  <2>2. CASE Submit(d, k)
    BY <2>2, SubmitWrites DEF Writes, Permitted
  <2>3. CASE Store(d, k)
    <3>1. PICK job : Writes(d, k, job)
      BY <2>3, StoreWrites
    <3>2. job \in JobRecords
      BY <3>1 DEF Writes, Permitted
    <3> QED
      BY <3>1, <3>2
  <2>4. CASE SendDelete(d, k)
    BY <2>4 DEF SendDelete
  <2> QED
    BY <1>1, <2>1, <2>2, <2>3, <2>4 DEF Answered
<1>2. tour.day \in Days /\ tour.kind \in Kinds
  BY DEF IInv, Typed
<1>3. ASSUME Submitted \/ LicenceRefused \/ StampCleanup \/ SubmitFails
      PROVE  \E job \in JobRecords : Writes(tour.day, tour.kind, job)
  BY <1>2, <1>3, SubmittedWrites, StampWrites, SubmitFailsWrites DEF Concludes, Writes, Permitted
<1>4. ASSUME NEW d \in Days, NEW k \in Kinds, RequestFails(d, k)
      PROVE  \E job \in JobRecords : Writes(d, k, job)
  BY <1>4, RequestFailsWrites DEF Concludes, Writes, Permitted
<1>5. CASE Tour
  BY <1>1, <1>2, <1>3, <1>5 DEF Tour, NothingToDo, PostArrives, vars
<1>6. CASE Next
  BY <1>4, <1>5, <1>6
     DEF Next, DownloadUnused, Crash, LateArrival, ProviderEnds, Tick, vars
<1> QED
  BY <1>6 DEF vars

\* A servable run stays servable, whatever becomes of its analysis and of the older
\* runs, until the next run day supersedes it or a newer run is servable.
THEOREM ServableRunsStand == Spec => ServableStands
<1>1. ASSUME IInv, [Next]_vars, NEW d \in Days, Servable(d)
      PROVE  Servable(d)' \/ Supersede \/ \E e \in Days : e > d /\ Servable(e)
  <2>1. ASSUME NEW c \in Days, NEW k \in Kinds, NEW job \in JobRecords, Writes(c, k, job)
        PROVE  Servable(d)'
    <3>1. Typed /\ WriteJob(c, k, job)
      BY <1>1, <2>1 DEF IInv, Writes
    <3>2. /\ \A e \in Days \ {c} : runs'[e] = runs[e]
          /\ runs'[c].state = Rollup(runs'[c].jobs)
          /\ runs'[c].jobs \in [Kinds -> JobRecords]
          /\ Job(c, k)' = job
          /\ \A l \in Kinds \ {k} : Job(c, l)' = Job(c, l)
      BY <3>1, Written, Zenon
    <3>3. CASE c # d
      BY <1>1, <3>2, <3>3 DEF Servable
    <3>4. CASE c = d
      <4>1. Job(d, "forecast").state = "stored"
        BY <1>1 DEF IInv, Rolled
      <4>2. Job(d, "forecast")'.state = "stored"
        BY <2>1, <3>2, <3>4, <4>1, KindsAre DEF Writes, Permitted
      <4>3. JobOK(Job(d, "forecast")')
        BY <1>1, <2>1, WritesKeepRuns, KindsAre DEF JobsOK
      <4> DEFINE jobs == runs'[d].jobs
      <4>4. /\ jobs \in [Kinds -> JobRecords] /\ runs'[d].state = Rollup(jobs)
            /\ jobs["forecast"] = Job(d, "forecast")'
        BY <3>2, <3>4 DEF Job
      <4> HIDE DEF jobs
      <4>5. jobs["forecast"].state = "stored" /\ jobs["forecast"].attempts < MaxAttempts
        <5>1. jobs["forecast"] \in JobRecords /\ JobOK(jobs["forecast"])
              /\ jobs["forecast"].state = "stored"
          BY <4>2, <4>3, <4>4, KindsAre
        <5> QED
          BY <5>1, ConstantsOK DEF JobRecords, JobOK
      <4>6. Rollup(jobs) \in ServiceableRunStates
        BY <3>1, <4>4, <4>5, RollupRanges
      <4> QED
        BY <4>4, <4>6 DEF Servable
    <3> QED
      BY <3>3, <3>4
  <2>2. CASE runs' = runs
    BY <1>1, <2>2 DEF Servable
  <2>3. CASE CreateRun
    <3> DEFINE day == IF tour = NoTour THEN TargetDay ELSE tour.day
    <3>1. runs' = [runs EXCEPT ![day].state = "pending"]
      BY <2>3 DEF CreateRun
    <3>2. ~Exists(day)
      BY <1>1, <2>3, CreatedIsNew
    <3>3. d # day
      BY <1>1, <3>2 DEF Servable, Exists, NoRun, ServiceableRunStates
    <3> HIDE DEF day
    <3> QED
      BY <1>1, <3>1, <3>3 DEF Servable, IInv, Typed
  <2>4. CASE Prune
    <3>1. tour.day \in Newest /\ Servable(tour.day)
      BY <1>1, <2>4 DEF Prune, IInv, TourOK
    <3>2. CASE Pruned(d)
      <4>1. d # tour.day /\ tour.day \in Days /\ d <= tour.day
        BY <3>1, <3>2, NewestIsKept DEF Newest, Pruned
      <4>2. d \in Nat /\ tour.day \in Nat
        BY <4>1, DaysAreNat
      <4> QED
        BY <3>1, <4>1, <4>2
    <3>3. CASE ~Pruned(d)
      BY <1>1, <2>4, <3>3, PruneWrites DEF Servable
    <3> QED
      BY <3>2, <3>3
  <2> QED
    BY <1>1, <2>1, <2>2, <2>3, <2>4, StepKinds
<1>2. ASSUME IInv, [Next]_vars
      PROVE  \A d \in Days : Servable(d) =>
               Servable(d)' \/ Supersede \/ \E e \in Days : e > d /\ Servable(e)
  BY <1>1, <1>2, Zenon
<1>3. IInv /\ [Next]_vars =>
        [\A d \in Days : Servable(d) =>
           \/ Servable(d)' \/ Supersede \/ \E e \in Days : e > d /\ Servable(e)]_vars
  BY <1>2, Zenon
<1> QED
  BY <1>3, Inductive, PTL DEF Spec, ServableStands

\* DELETE never hits an upstream job whose result the newest run still wants.
THEOREM CleanupSpares == Spec => CleanupSparesWanted
<1>1. ASSUME IInv, [Next]_vars, NEW d \in Newest, NEW k \in Kinds,
             Progressable(Job(d, k)), Job(d, k).jobId # NoJob,
             ads'[Job(d, k).jobId].status = "dismissed"
      PROVE  ads[Job(d, k).jobId].status = "dismissed"
  <2> DEFINE id == Job(d, k).jobId
  <2>1. d \in Days /\ id \in DOMAIN ads
    <3>1. d \in Days
      BY DEF Newest
    <3> QED
      BY <1>1, <3>1, JobTyped DEF IInv, JobRecords
  <2>2. CASE ads' = ads
    BY <1>1, <2>2
  <2>3. ASSUME NEW u, ads' = Append(ads, u) PROVE ads'[id] = ads[id]
    <3>1. ads \in Seq(Upstream) /\ id \in 1 .. Len(ads)
      BY <1>1, <2>1, IdsArePositive DEF IInv, Typed
    <3> QED
      BY <2>3, <3>1
  <2>4. ASSUME NEW i \in DOMAIN ads, ProviderEnds(i) PROVE ads[id].status = "dismissed"
    <3>1. PICK status \in {"successful", "failed"} : ads' = [ads EXCEPT ![i].status = status]
      BY <2>4 DEF ProviderEnds
    <3>2. CASE i = id
      <4>1. ads'[id].status = status
        BY <1>1, <2>1, <3>1, <3>2, IdsArePositive DEF IInv, Upstream
      <4> QED
        BY <1>1, <4>1
    <3>3. CASE i # id
      BY <1>1, <2>1, <3>1, <3>3
    <3> QED
      BY <3>2, <3>3
  <2>5. ASSUME NEW e \in Days, NEW l \in Kinds, SendDelete(e, l)
        PROVE  ads[id].status = "dismissed"
    <3>1. /\ e \in Newest /\ InDebt(Job(e, l))
          /\ ads' \in {ads, [ads EXCEPT ![Job(e, l).jobId].status = "dismissed"]}
      BY <2>5 DEF SendDelete, Cleans, Job
    <3>2. e = d
      <4>1. e <= d /\ d <= e /\ e \in Nat /\ d \in Nat
        BY <2>1, <3>1, DaysAreNat DEF Newest
      <4> QED
        BY <4>1
    <3>3. l # k
      BY <1>1, <3>1, <3>2 DEF InDebt, Progressable
    <3>4. Job(e, l).jobId # id
      BY <1>1, <2>1, <3>2, <3>3 DEF IInv, Distinct
    <3>5. ads'[id] = ads[id]
      BY <2>1, <3>1, <3>4
    <3> QED
      BY <1>1, <3>5
  <2>6. CASE \E e \in Days, l \in Kinds : SendDelete(e, l)
    BY <2>5, <2>6
  <2>7. CASE PostArrives \/ \E post \in late : LateArrival(post)
    BY <1>1, <2>3, <2>7 DEF PostArrives, LateArrival, Accept
  <2>8. CASE \E i \in DOMAIN ads : ProviderEnds(i)
    BY <2>4, <2>8
  <2>9. \/ ads' = ads
        \/ \E e \in Days, l \in Kinds : SendDelete(e, l)
        \/ PostArrives \/ \E post \in late : LateArrival(post)
        \/ \E i \in DOMAIN ads : ProviderEnds(i)
    BY <1>1 DEF Next, Tour, Answered, Supersede, CreateRun, NothingToDo, Costing, Submit,
                Reconcile, Poll, Results, Store, RefuseFile, Submitted, LicenceRefused,
                SubmitFails, Prune, StampCleanup, RequestFails, DownloadUnused, Crash, Tick,
                Conclude, vars
  <2> QED
    BY <2>2, <2>6, <2>7, <2>8, <2>9
<1>2. IInv /\ [Next]_vars =>
        [\A d \in Newest : \A k \in Kinds :
           LET j == runs[d].jobs[k]
           IN Progressable(j) /\ j.jobId # NoJob /\ ads'[j.jobId].status = "dismissed"
                => ads[j.jobId].status = "dismissed"]_vars
  BY <1>1 DEF Job
<1> QED
  BY <1>2, Inductive, PTL DEF Spec, CleanupSparesWanted
=============================================================================
