------------------------------- MODULE AdsJobs -------------------------------
(***************************************************************************)
(* The air-quality ingest: the run rows and their ADS job records, the     *)
(* series rows, and the tours of AirQualityIngestTarget that advance one   *)
(* job of the newest run by one step each.                                 *)
(*                                                                         *)
(* The warm-up lock leaves one tour at a time, so a tour works on the rows *)
(* as they are.  A tour is cut where it waits with something half done:    *)
(* between the writes of selectRun, around the POST of a submit, between   *)
(* DELETE and its stamp, between the product and the pruning.  There it    *)
(* may die.  A call that only reads the provider is one action with the    *)
(* reads before it and the write that follows.  The provider (ADS) is      *)
(* external.                                                               *)
(*                                                                         *)
(* Time is counted in ticks, DayLength of them to a day.                   *)
(***************************************************************************)
EXTENDS Integers, Sequences, FiniteSets

CONSTANTS MaxAttempts,      \* maxAttemptsPerJob
          AnalysisEnabled,  \* analysisEnabled
          DayLength,
          SubmitAfter,      \* submitAfterUtcHour
          Slack,            \* the minute of clock skew that isAtOrAfter allows
          Retained,         \* RETAINED_RUNS
          MaxTime,          \* bound: the last instant
          MaxUpstream       \* bound: the jobs the provider ever accepts

ASSUME ConstantsOK ==
  /\ MaxAttempts \in Nat \ {0}
  /\ AnalysisEnabled \in BOOLEAN
  /\ DayLength \in Nat \ {0}
  /\ SubmitAfter \in 0 .. DayLength - 1
  /\ Slack \in Nat
  /\ Retained \in Nat \ {0}
  /\ MaxTime \in Nat
  /\ MaxUpstream \in Nat

VARIABLES now,     \* the clock
          runs,    \* air_quality_runs by run day: state and adsRequests
          series,  \* air_quality_province_series: by run day and product, which
                   \* request the stored values answer
          ads,     \* the provider's jobs, in the order of their ids
          late,    \* submits whose caller gave up and which may still arrive
          tour     \* the tour under way

vars == <<now, runs, series, ads, late, tour>>

Days == 0 .. MaxTime \div DayLength
Kinds == IF AnalysisEnabled THEN {"forecast", "analysis"} ELSE {"forecast"}

\* Words that nothing reads apart are one here, of ours and of the provider's:
\* `submitted' and `running'; `refused', `rejected' and `failed'.
ProgressableStates == {"pending", "costed", "submitting", "submitted", "downloadable", "ready"}
TerminalRunStates == {"complete", "degraded", "abandoned"}
ServiceableRunStates == {"serviceable", "complete", "degraded"}

NoJob == 0
NoTime == -1
NewJob == [state |-> "pending", jobId |-> NoJob, attempts |-> 0,
           submittedAt |-> NoTime, cleaned |-> FALSE]
NoRun == [state |-> "none", jobs |-> [k \in Kinds |-> NewJob]]
NoData == <<>>
NoTour == [at |-> "none", day |-> 0, kind |-> "forecast", id |-> NoJob]

Exists(d)   == runs[d] # NoRun
Servable(d) == runs[d].state \in ServiceableRunStates
Terminal(d) == runs[d].state \in TerminalRunStates
Newest      == {d \in Days : Exists(d) /\ \A e \in Days : Exists(e) => e <= d}

-----------------------------------------------------------------------------
(* Which job is next, and what the jobs make of the run.                   *)

Progressable(j) == j.state \in ProgressableStates /\ j.attempts < MaxAttempts
Dead(j)         == j.state = "failed" \/ j.attempts >= MaxAttempts

\* selectNextJob: the forecast first, no analysis behind a dead forecast.
Advances(jobs, k) ==
  /\ Progressable(jobs[k])
  /\ k = "analysis" => ~Progressable(jobs["forecast"]) /\ ~Dead(jobs["forecast"])

InDebt(j) == j.jobId # NoJob /\ ~j.cleaned /\ j.state \notin ProgressableStates

\* MUTANTS: a definition named Of_How is Of with one plausible slip in the code.
\* None is part of the model; each shows that a property can fail.
Cleans_Early(jobs, k) == jobs[k].jobId # NoJob /\ ~jobs[k].cleaned
Cleans(jobs, k) ==
  /\ \A other \in Kinds : ~Advances(jobs, other)
  /\ InDebt(jobs[k])
  /\ k = "analysis" => ~InDebt(jobs["forecast"])

\* rollupRunState.
Rollup_EitherJob(jobs) ==
  IF \E k \in Kinds : Dead(jobs[k]) THEN "abandoned"
  ELSE IF jobs["forecast"].state # "stored" THEN "pending"
  ELSE IF \A k \in Kinds : jobs[k].state = "stored" THEN "complete" ELSE "serviceable"

Rollup(jobs) ==
  LET forecast == jobs["forecast"]
  IN CASE Dead(forecast)                                 -> "abandoned"
       [] ~Dead(forecast) /\ forecast.state # "stored"   -> "pending"
       [] forecast.state = "stored" /\ ~Dead(forecast)   ->
            IF \A k \in Kinds : jobs[k].state = "stored" THEN "complete"
            ELSE IF Dead(jobs["analysis"]) THEN "degraded" ELSE "serviceable"

\* currentRunDate.
BeforeSubmitHour == now % DayLength < SubmitAfter
TargetDay == (now \div DayLength) - (IF BeforeSubmitHour THEN 1 ELSE 0)

-----------------------------------------------------------------------------
(* Plumbing.                                                               *)

At(where)   == tour.at = where
EndTour     == tour' = NoTour
Goto(where, d, k) == tour' = [at |-> where, day |-> d, kind |-> k, id |-> NoJob]

\* A tour begins, works on run d and is to advance its job k, in this state.
Steps(d, k, state) ==
  /\ tour = NoTour
  /\ d \in Newest
  /\ d >= TargetDay
  /\ Advances(runs[d].jobs, k)
  /\ runs[d].jobs[k].state = state

\* writeJob: the record and the rollup of all records in one UPDATE.
WriteJob(d, k, job) ==
  LET jobs == [runs[d].jobs EXCEPT ![k] = job]
  IN runs' = [runs EXCEPT ![d] = [state |-> Rollup(jobs), jobs |-> jobs]]

\* An attempt is spent; the last one ends the job (noteAttemptsSpent).
Spend(job, otherwise) ==
  [job EXCEPT !.attempts = @ + 1,
              !.state = IF job.attempts + 1 >= MaxAttempts THEN "failed" ELSE otherwise]

Moved(job, state) == [job EXCEPT !.state = state]

\* terminate: refused by us or by the provider, whatever attempts are left.
Ended(job) == Moved(job, "failed")

-----------------------------------------------------------------------------
(* selectRun.                                                              *)

\* The newest run is behind and not finished: it is abandoned first.
Supersede ==
  /\ tour = NoTour
  /\ ~BeforeSubmitHour
  /\ \E d \in Newest :
       /\ d < TargetDay
       /\ ~Terminal(d)
       /\ runs' = [runs EXCEPT ![d].state = "abandoned"]
  /\ Goto("create", TargetDay, "forecast")
  /\ UNCHANGED <<now, series, ads, late>>

\* What the same tour does next with the new run is what the next one would.
CreateRun ==
  /\ \/ At("create")
     \/ /\ tour = NoTour
        /\ ~BeforeSubmitHour
        /\ \A d \in Newest : d < TargetDay /\ Terminal(d)
  /\ LET day == IF tour = NoTour THEN TargetDay ELSE tour.day
     IN runs' = [runs EXCEPT ![day].state = "pending"]
  /\ EndTour
  /\ UNCHANGED <<now, series, ads, late>>

\* Before the submit hour of a new day, or selectNextJob finds nothing.
NothingToDo ==
  /\ tour = NoTour
  /\ \A d \in Newest :
       \/ d < TargetDay
       \/ \A k \in Kinds : ~Advances(runs[d].jobs, k) /\ ~Cleans(runs[d].jobs, k)
  /\ (\A d \in Newest : d < TargetDay) => BeforeSubmitHour
  /\ UNCHANGED vars

-----------------------------------------------------------------------------
(* One step of one job.                                                    *)

Job(d, k) == runs[d].jobs[k]
TourJob   == Job(tour.day, tour.kind)

\* A step that asks the provider, writes the record and ends the tour.
Conclude(d, k, outcomes) ==
  /\ \E job \in outcomes : WriteJob(d, k, job)
  /\ EndTour
  /\ UNCHANGED <<now, series, ads, late>>

\* recordFailure, recordTransient: contract drift is terminal, anything else
\* spends an attempt.
RequestFails(d, k) ==
  /\ \E state \in {"pending", "submitting", "submitted", "downloadable", "ready"} : Steps(d, k, state)
  /\ Conclude(d, k, {Ended(Job(d, k)), Spend(Job(d, k), Job(d, k).state)})

\* The comparison with the cost limit is ours.
Costing(d, k) ==
  /\ Steps(d, k, "pending")
  /\ Conclude(d, k, {Moved(Job(d, k), "costed"), Ended(Job(d, k))})

\* `submitting' is written before the POST leaves.
Submit_AfterPost(d, k) ==
  /\ Steps(d, k, "costed")
  /\ Goto("posting", d, k)
  /\ UNCHANGED <<now, runs, series, ads, late>>

Submit(d, k) ==
  /\ Steps(d, k, "costed")
  /\ WriteJob(d, k, [Job(d, k) EXCEPT !.state = "submitting", !.submittedAt = now])
  /\ Goto("posting", d, k)
  /\ UNCHANGED <<now, series, ads, late>>

Accept(owner, isLate) ==
  /\ Len(ads) < MaxUpstream
  /\ ads' = Append(ads, [owner |-> owner, created |-> now, status |-> "running", late |-> isLate])

PostArrives ==
  /\ At("posting")
  /\ Accept(<<tour.day, tour.kind>>, FALSE)
  /\ tour' = [tour EXCEPT !.at = "accepted", !.id = Len(ads')]
  /\ UNCHANGED <<now, runs, series, late>>

Submitted ==
  /\ At("accepted")
  /\ Conclude(tour.day, tour.kind, {[TourJob EXCEPT !.state = "submitted", !.jobId = tour.id]})

LicenceRefused ==
  /\ At("posting")
  /\ Conclude(tour.day, tour.kind, {Ended(TourJob)})

\* The call is given up; a POST that has not arrived yet may still do so.
\* Bound: this happens once.
MayBeLate ==
  \/ UNCHANGED late
  \/ /\ At("posting")
     /\ late = {} /\ \A id \in DOMAIN ads : ~ads[id].late
     /\ late' = {<<tour.day, tour.kind>>}

SubmitFails ==
  /\ At("posting") \/ At("accepted")
  /\ WriteJob(tour.day, tour.kind, Spend(TourJob, "submitting"))
  /\ MayBeLate
  /\ EndTour
  /\ UNCHANGED <<now, series, ads>>

\* stepReconcile.
Known(d) == {runs[d].jobs[k].jobId : k \in Kinds}

Candidates(d, job) ==
  {id \in DOMAIN ads : id \notin Known(d) /\ ads[id].created >= job.submittedAt - Slack}

Reconciled_FirstOfMany(d, job) ==
  IF Candidates(d, job) = {} THEN [Spend(job, "costed") EXCEPT !.submittedAt = NoTime]
  ELSE [job EXCEPT !.jobId = CHOOSE i \in Candidates(d, job) : TRUE, !.state = "submitted"]

Reconciled_FreeAmbiguity(d, job) ==
  IF Candidates(d, job) = {} THEN [Spend(job, "costed") EXCEPT !.submittedAt = NoTime]
  ELSE IF Cardinality(Candidates(d, job)) > 1 THEN job
  ELSE [job EXCEPT !.jobId = CHOOSE i \in Candidates(d, job) : TRUE, !.state = "submitted"]

Reconciled_FreeResubmit(d, job) ==
  IF Candidates(d, job) = {} THEN [job EXCEPT !.submittedAt = NoTime, !.state = "costed"]
  ELSE IF Cardinality(Candidates(d, job)) > 1 THEN Spend(job, "submitting")
  ELSE [job EXCEPT !.jobId = CHOOSE i \in Candidates(d, job) : TRUE, !.state = "submitted"]

Reconciled(d, job) ==
  LET found == Candidates(d, job)
  IN CASE found = {}             -> [Spend(job, "costed") EXCEPT !.submittedAt = NoTime]
       [] Cardinality(found) = 1 ->
            LET id == CHOOSE i \in found : TRUE
            IN [job EXCEPT !.jobId = id,
                           !.state = IF ads[id].status = "successful" THEN "downloadable"
                                     ELSE "submitted"]
       [] OTHER                  -> Spend(job, "submitting")

Reconcile(d, k) ==
  /\ Steps(d, k, "submitting")
  /\ Conclude(d, k, {Reconciled(d, Job(d, k))})

\* stepPoll.
Polled(job) ==
  LET status == ads[job.jobId].status
  IN CASE status = "running"               -> job
       [] status = "successful"            -> Moved(job, "downloadable")
       [] status \in {"failed", "dismissed"} -> Ended(job)

Poll(d, k) ==
  /\ Steps(d, k, "submitted")
  /\ Conclude(d, k, {Polled(Job(d, k))})

\* stepResults: refused for its host or its size, before a byte is paid for.
Results(d, k) ==
  /\ Steps(d, k, "downloadable")
  /\ Conclude(d, k, {Moved(Job(d, k), "ready"), Ended(Job(d, k))})

-----------------------------------------------------------------------------
(* stepDownload and decodeAndStore.                                        *)

\* The decoder is told the product and the date that the record asks for.
Decodes(d, k) == ads[Job(d, k).jobId].owner = <<d, k>>

Aligned(d, k) == k = "analysis" => series[d]["forecast"] # NoData

\* The file is refused: contract, step count, another grid, no forecast rows.
RefuseFile(d, k) ==
  /\ Steps(d, k, "ready")
  /\ Conclude(d, k, {Ended(Job(d, k))})

\* The province set is not what it should be, or the decoder throws: nothing
\* is written and nothing is spent.
DownloadUnused(d, k) ==
  /\ Steps(d, k, "ready")
  /\ UNCHANGED vars

\* recordProduct: rows and ledger in one transaction.
Store_LedgerOnly(d, k) ==
  /\ Steps(d, k, "ready")
  /\ Decodes(d, k)
  /\ WriteJob(d, k, Moved(Job(d, k), "stored"))
  /\ Goto("pruning", d, k)
  /\ UNCHANGED <<now, series, ads, late>>

Store(d, k) ==
  /\ Steps(d, k, "ready")
  /\ Decodes(d, k)
  /\ Aligned(d, k)
  /\ series' = [series EXCEPT ![d][k] = ads[Job(d, k).jobId].owner]
  /\ WriteJob(d, k, Moved(Job(d, k), "stored"))
  /\ IF k = "forecast" THEN Goto("pruning", d, k) ELSE EndTour
  /\ UNCHANGED <<now, ads, late>>

\* pruneRuns: run_utc < cutoff, the series rows with their run.
Pruned(d) == Exists(d) /\ Cardinality({e \in Days : Exists(e) /\ e > d}) >= Retained

Prune ==
  /\ At("pruning")
  /\ runs' = [d \in Days |-> IF Pruned(d) THEN NoRun ELSE runs[d]]
  /\ series' = [d \in Days |-> IF Pruned(d) THEN [k \in Kinds |-> NoData] ELSE series[d]]
  /\ EndTour
  /\ UNCHANGED <<now, ads, late>>

\* cleanupJob: the DELETE may or may not reach the provider; the stamp follows.
SendDelete(d, k) ==
  /\ tour = NoTour
  /\ d \in Newest
  /\ d >= TargetDay
  /\ Cleans(runs[d].jobs, k)
  /\ ads' \in {ads, [ads EXCEPT ![Job(d, k).jobId].status = "dismissed"]}
  /\ Goto("deleting", d, k)
  /\ UNCHANGED <<now, runs, series, late>>

StampCleanup ==
  /\ At("deleting")
  /\ Conclude(tour.day, tour.kind, {[TourJob EXCEPT !.cleaned = TRUE]})

-----------------------------------------------------------------------------
(* The rest of the world.                                                  *)

\* The process dies; its lock expires before the next tour begins.
Crash ==
  /\ tour # NoTour
  /\ MayBeLate
  /\ EndTour
  /\ UNCHANGED <<now, runs, series, ads>>

LateArrival(post) ==
  /\ late' = late \ {post}
  /\ Accept(post, TRUE)
  /\ UNCHANGED <<now, runs, series, tour>>

ProviderEnds(id) ==
  /\ ads[id].status = "running"
  /\ \E status \in {"successful", "failed"} :
       ads' = [ads EXCEPT ![id].status = status]
  /\ UNCHANGED <<now, runs, series, late, tour>>

Tick ==
  /\ now < MaxTime
  /\ now' = now + 1
  /\ UNCHANGED <<runs, series, ads, late, tour>>

\* A step whose request is answered.
Answered(d, k) ==
  \/ Costing(d, k) \/ Submit(d, k) \/ Reconcile(d, k) \/ Poll(d, k) \/ Results(d, k)
  \/ Store(d, k) \/ RefuseFile(d, k) \/ SendDelete(d, k)

Tour ==
  \/ Supersede \/ CreateRun \/ NothingToDo
  \/ \E d \in Days, k \in Kinds : Answered(d, k)
  \/ PostArrives \/ Submitted \/ LicenceRefused \/ SubmitFails
  \/ Prune \/ StampCleanup

Init ==
  /\ now = 0
  /\ runs = [d \in Days |-> NoRun]
  /\ series = [d \in Days |-> [k \in Kinds |-> NoData]]
  /\ ads = <<>>
  /\ late = {}
  /\ tour = NoTour

Next ==
  \/ Tour
  \/ \E d \in Days, k \in Kinds : RequestFails(d, k) \/ DownloadUnused(d, k)
  \/ Crash
  \/ \E post \in late : LateArrival(post)
  \/ \E id \in DOMAIN ads : ProviderEnds(id)
  \/ Tick

Spec == Init /\ [][Next]_vars

(* The timer begins tours again and again, and requests that fail and      *)
(* downloads that are thrown away are not all there is; the provider ends  *)
(* the jobs it accepted; time passes.                                      *)
Fairness ==
  /\ WF_vars(Tour)
  /\ WF_vars(\E id \in DOMAIN ads : ProviderEnds(id))
  /\ WF_vars(Tick)

FairSpec == Spec /\ Fairness

-----------------------------------------------------------------------------
(* Properties.                                                             *)

JobRecords ==
  [state : ProgressableStates \cup {"failed", "stored"}, jobId : {NoJob} \cup DOMAIN ads,
   attempts : 0 .. MaxAttempts, submittedAt : {NoTime} \cup 0 .. MaxTime, cleaned : BOOLEAN]

\* Types, and what the code calls unreachable: a job that is polled, fetched or
\* stored has an upstream id, a submit has its stamp exactly while it may exist
\* upstream, and a record whose attempts are spent reads failed.
JobOK(j) ==
  /\ j.state \in {"submitted", "downloadable", "ready", "stored"} => j.jobId # NoJob
  /\ j.state \in {"pending", "costed", "submitting"} => j.jobId = NoJob
  /\ j.state = "submitting" => j.submittedAt # NoTime
  /\ j.state \in {"pending", "costed"} => j.submittedAt = NoTime
  /\ j.attempts = MaxAttempts => j.state = "failed"

TypeOK ==
  /\ now \in 0 .. MaxTime
  /\ runs \in [Days -> [state : {"none", "pending"} \cup ServiceableRunStates \cup {"abandoned"},
                        jobs : [Kinds -> JobRecords]]]
  /\ \A d \in Days, k \in Kinds : JobOK(runs[d].jobs[k])
  /\ series \in [Days -> [Kinds -> {NoData} \cup (Days \X Kinds)]]
  /\ ads \in Seq([owner : Days \X Kinds, created : 0 .. MaxTime, late : BOOLEAN,
                  status : {"running", "successful", "failed", "dismissed"}])
  /\ late \subseteq Days \X Kinds
  /\ tour \in [at : {"none", "create", "posting", "accepted", "deleting", "pruning"},
               day : Days, kind : {"forecast", "analysis"}, id : {NoJob} \cup DOMAIN ads]

\* A submit is not idempotent, and crashes, lost answers and reconciliations
\* never make the ingest open a second job for one product, unless a POST
\* arrives after its call was given up.
DuplicatesOnlyFromLatePosts ==
  \A i, j \in DOMAIN ads :
    i # j /\ ads[i].owner = ads[j].owner => ads[i].late \/ ads[j].late

\* Whatever is lost, late or ambiguous, every job upstream but the first has cost
\* its record an attempt, so that the attempts bound the jobs.
EveryResubmitIsPaidFor ==
  \A d \in Days, k \in Kinds :
    Exists(d) => Cardinality({i \in DOMAIN ads : ads[i].owner = <<d, k>>})
                   <= runs[d].jobs[k].attempts + 1

\* The provider's list does not say what a job was asked for, so reconciliation may
\* take one that a superseded run or the other product left behind; but never while
\* the product's own job is on that list, unless that one came too late
\* (air-quality-ingest.target.ts:393-455).
ForeignOnlyWithoutOwn ==
  \A d \in Days, k \in Kinds :
    LET id == runs[d].jobs[k].jobId
    IN id # NoJob /\ ads[id].owner # <<d, k>> =>
         \A i \in DOMAIN ads : ads[i].owner = <<d, k>> => ads[i].late

\* What the read path relies on: a run in a servable state has its forecast
\* rows, a complete one every product, and a ledger that says stored has rows.
ServableIsWhole ==
  \A d \in Days :
    /\ Servable(d) => series[d]["forecast"] # NoData
    /\ \A k \in Kinds :
         runs[d].state = "complete" \/ runs[d].jobs[k].state = "stored" => series[d][k] # NoData

\* No failure of the analysis and no pruning takes a servable run away from the
\* readers, unless a newer one is servable; only the next run day may.
ServableStands ==
  [][\A d \in Days : Servable(d) =>
       \/ Servable(d)' \/ Supersede \/ \E e \in Days : e > d /\ Servable(e)]_vars

\* DELETE is politeness: it never hits a job whose result is still wanted.
CleanupSparesWanted ==
  [][\A d \in Newest : \A k \in Kinds :
       LET j == runs[d].jobs[k]
       IN Progressable(j) /\ j.jobId # NoJob /\ ads'[j.jobId].status = "dismissed"
            => ads[j.jobId].status = "dismissed"]_vars

\* No run is advanced for ever: attempts run out, or the products are stored, or
\* the run is superseded; the tours come to rest again and again.
RunsSettle == []<>(\A d \in Days : Exists(d) => Terminal(d))

\* "A run whose FORECAST never finished is superseded": one whose forecast is
\* being served is not.
ServedIsNotSuperseded ==
  [][\A d \in Days : Servable(d) => Servable(d)' \/ \E e \in Days : e > d /\ Servable(e)]_vars

=============================================================================
