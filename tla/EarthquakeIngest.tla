-------------------------- MODULE EarthquakeIngest --------------------------
(***************************************************************************)
(* The earthquake ingest (EarthquakeIngestTarget, EarthquakeIngestStore)   *)
(* and the freshness its readers publish.  Two jobs tour the provider,     *)
(* `recent' often and over a short window, `reconcile' seldom and over a   *)
(* long one.  Each has a warm-up lock of its own, so a job has one tour at *)
(* a time, whichever instance runs it, and the two jobs overlap freely.    *)
(*                                                                         *)
(* The provider numbers its solutions of an event; what else it may        *)
(* correct in a row is left out.  Rows are upserted one by one, each an    *)
(* autocommitted statement; the run is recorded after the last, and then   *)
(* old runs are pruned.  A run that failed, and one that succeeded as a    *)
(* call but stored nothing it should have, are both not `clean'.           *)
(*                                                                         *)
(* Where EcmwfIngest has the same name, this module's has a prefix: what   *)
(* the two ingests guarantee is proved in one module.                      *)
(***************************************************************************)
EXTENDS Integers, FiniteSetsExt

CONSTANTS Events,
          Window,        \* by job: how long an event is in its window, in ticks
          Retention,     \* EARTHQUAKE_RUN_RETENTION_DAYS, in ticks
          MaxSolution,   \* bound: the solutions of an event
          MaxRuns,       \* bound: a run is recorded while there are fewer
          MaxClock       \* bound: the last instant

Jobs == {"recent", "reconcile"}

ASSUME EarthquakeConstantsOK ==
  /\ Window \in [Jobs -> Nat]
  /\ {Retention, MaxSolution, MaxRuns, MaxClock} \subseteq Nat

VARIABLES clock,       \* the clock
          provider,    \* external: what the provider knows of each event
          stored,      \* earthquake_events
          runs,        \* earthquake_ingest_runs
          tours,       \* the tour of each job
          overlapped   \* history: two tours ran at one time

quakeVars == <<clock, provider, stored, runs, tours, overlapped>>

\* Solution 0: the event has not happened, or there is no row.
NoEvent == [solution |-> 0, since |-> 0]
NoRow == [solution |-> 0, revisions |-> 0]
Never == -1

NoQuakeTour == [at |-> "idle", started |-> 0, returned |-> {}, todo |-> {},
           answer |-> [e \in Events |-> NoEvent], landed |-> {}, refused |-> {}, cutoff |-> 0]

At(job, where) == tours[job].at = where

-----------------------------------------------------------------------------
(* What the readers publish.                                               *)

Clean == {run \in runs : run.clean}

\* newestSuccessfulRunFinishedAt.
PublishedAnchor == IF Clean = {} THEN Never ELSE Max({run.finished : run \in Clean})

-----------------------------------------------------------------------------
(* A tour.                                                                 *)

\* The clock is read: it gives the window.
Start(job) ==
  /\ At(job, "idle")
  /\ tours' = [tours EXCEPT ![job] = [NoQuakeTour EXCEPT !.at = "request", !.started = clock]]
  /\ overlapped' = (overlapped \/ \E other \in Jobs \ {job} : ~At(other, "idle"))
  /\ UNCHANGED <<clock, provider, stored, runs>>

\* MUTANTS: a definition named Of_How is Of with one plausible slip in the code.
\* None is part of the model; each shows that a property can fail.
InWindow_Recent(job) ==
  {e \in Events : provider[e] # NoEvent /\ tours[job].started - provider[e].since <= Window["recent"]}

InWindow(job) ==
  {e \in Events : provider[e] # NoEvent /\ tours[job].started - provider[e].since <= Window[job]}

\* The provider answers with rows of the window; the parser accepts some.  The
\* clock read before the writes (writtenAt) also gives retention its cutoff.
Answer(job, returned, accepted) ==
  /\ At(job, "request")
  /\ returned \subseteq InWindow(job)
  /\ accepted \subseteq returned
  /\ tours' = [tours EXCEPT ![job].at = "write", ![job].answer = provider,
                          ![job].returned = returned, ![job].todo = accepted,
                          ![job].cutoff = clock - Retention]
  /\ UNCHANGED <<clock, provider, stored, runs, overlapped>>

\* MUTANTS: see InWindow_Recent.
Revised_Always(row, event) == TRUE

\* One of REVISION_FIELDS differs.
Revised(row, event) == row.solution # event.solution

\* upsertEvent: the newest statement wins, whatever it was read from.
Upserted(row, event) ==
  [solution  |-> event.solution,
   revisions |-> row.revisions + IF row # NoRow /\ Revised(row, event) THEN 1 ELSE 0]

Write(job, e) ==
  /\ At(job, "write")
  /\ e \in tours[job].todo
  /\ stored' = [stored EXCEPT ![e] = Upserted(@, tours[job].answer[e])]
  /\ tours' = [tours EXCEPT ![job].todo = @ \ {e}, ![job].landed = @ \union {e}]
  /\ UNCHANGED <<clock, provider, runs, overlapped>>

\* A row that the database refuses is that row's failure.
WriteFails(job, e) ==
  /\ At(job, "write")
  /\ e \in tours[job].todo
  /\ tours' = [tours EXCEPT ![job].todo = @ \ {e}, ![job].refused = @ \union {e}]
  /\ UNCHANGED <<clock, provider, stored, runs, overlapped>>

\* recordRun is fail-soft: the row may not be written.
Recorded(job, ok, clean) ==
  LET run == [started |-> tours[job].started, finished |-> clock, ok |-> ok, clean |-> clean]
  IN \/ runs' = runs
     \/ Cardinality(runs) < MaxRuns /\ runs' = runs \union {run}

ToPrune(job, cutoff) ==
  tours' = [tours EXCEPT ![job] = [NoQuakeTour EXCEPT !.at = "prune", !.cutoff = cutoff]]

\* diagnoseTour: not clean when the database refused all it was given, or the
\* parser accepted none of what was returned.
Diagnosis(job) ==
  LET t == tours[job]
      accepted == t.landed \union t.refused
  IN /\ ~(t.landed = {} /\ t.refused # {})
     /\ ~(t.returned # {} /\ accepted = {})

RecordRun(job) ==
  /\ At(job, "write")
  /\ tours[job].todo = {}
  /\ Recorded(job, tours[job].landed # {} \/ tours[job].refused = {}, Diagnosis(job))
  /\ ToPrune(job, tours[job].cutoff)
  /\ UNCHANGED <<clock, provider, stored, overlapped>>

\* The request, or the province lookup after it, failed.
Fail(job) ==
  /\ At(job, "request")
  /\ Recorded(job, FALSE, FALSE)
  /\ tours' = [tours EXCEPT ![job] = [NoQuakeTour EXCEPT !.at = "failed"]]
  /\ UNCHANGED <<clock, provider, stored, overlapped>>

\* The clock is read for the cutoff when the run is on record, not before.
ReadCutoff(job) ==
  /\ At(job, "failed")
  /\ ToPrune(job, clock - Retention)
  /\ UNCHANGED <<clock, provider, stored, runs, overlapped>>

\* pruneRuns: the newest clean run is exempt.
Exempt_AnyOk == {run \in runs : run.ok /\ \A other \in runs : other.ok => other.finished <= run.finished}
Exempt ==
  {run \in Clean : \A other \in Clean : other.finished <= run.finished}

\* One row is exempt; pruning is fail-soft too.
PruneRuns(job) ==
  /\ At(job, "prune")
  /\ \E keep \in SUBSET Exempt :
       /\ Cardinality(keep) = IF Exempt = {} THEN 0 ELSE 1
       /\ runs' \in {{run \in runs : run.started >= tours[job].cutoff \/ run \in keep}, runs}
  /\ tours' = [tours EXCEPT ![job] = NoQuakeTour]
  /\ UNCHANGED <<clock, provider, stored, overlapped>>

\* The process dies: no run is recorded, what was written stays.
TourDies(job) ==
  /\ ~At(job, "idle")
  /\ tours' = [tours EXCEPT ![job] = NoQuakeTour]
  /\ UNCHANGED <<clock, provider, stored, runs, overlapped>>

-----------------------------------------------------------------------------
(* External: the provider.                                                 *)

Solve(e) ==
  /\ provider[e].solution < MaxSolution
  /\ provider' = [provider EXCEPT ![e].solution = @ + 1,
                                  ![e].since = IF provider[e] = NoEvent THEN clock ELSE @]
  /\ UNCHANGED <<clock, stored, runs, tours, overlapped>>

ClockTick ==
  /\ clock < MaxClock
  /\ clock' = clock + 1
  /\ UNCHANGED <<provider, stored, runs, tours, overlapped>>

QuakeInit ==
  /\ clock = 0
  /\ provider = [e \in Events |-> NoEvent]
  /\ stored = [e \in Events |-> NoRow]
  /\ runs = {}
  /\ tours = [job \in Jobs |-> NoQuakeTour]
  /\ overlapped = FALSE

Answers(job) == \E returned, accepted \in SUBSET Events : Answer(job, returned, accepted)
Writes(job)  == \E e \in Events : Write(job, e)

QuakeNext ==
  \/ ClockTick
  \/ \E e \in Events : Solve(e)
  \/ \E job \in Jobs :
       \/ Start(job) \/ Answers(job) \/ Fail(job) \/ ReadCutoff(job) \/ Writes(job)
       \/ \E e \in Events : WriteFails(job, e)
       \/ RecordRun(job) \/ PruneRuns(job) \/ TourDies(job)

QuakeSpec == QuakeInit /\ [][QuakeNext]_quakeVars

\* Tours go on starting and, once started, move on (a timer, and deadlines on
\* every call); neither the provider nor the database fails every time.
AnswersInFull(job) == Answer(job, InWindow(job), InWindow(job))
QuakeFairness ==
  /\ \A job \in Jobs : /\ WF_quakeVars(Start(job)) /\ WF_quakeVars(RecordRun(job))
                       /\ WF_quakeVars(ReadCutoff(job)) /\ WF_quakeVars(PruneRuns(job))
                       /\ SF_quakeVars(AnswersInFull(job))
  /\ \A job \in Jobs, e \in Events : SF_quakeVars(Write(job, e))
  /\ WF_quakeVars(ClockTick)

QuakeFairSpec == QuakeSpec /\ QuakeFairness

-----------------------------------------------------------------------------
(* Properties.                                                             *)

QuakeTypeOK ==
  /\ clock \in 0 .. MaxClock
  /\ \A e \in Events : /\ provider[e].solution \in 0 .. MaxSolution
                       /\ stored[e].solution \in 0 .. MaxSolution
                       /\ stored[e].revisions \in Nat
  /\ \A run \in runs : run.started <= run.finished /\ (run.clean => run.ok)

\* The published age of the data never goes back and never disappears: pruning,
\* by either job at any moment, spares the run the readers take it from, and a
\* provider that breaks makes the data stale, not absent
\* (earthquake-ingest.store.ts:229-253).
AnchorStands == [][PublishedAnchor' >= PublishedAnchor]_quakeVars

\* The reader's revision count is the provider's doing.  While no two tours
\* overlap, meeting a row again does not count and no tour stores an older
\* solution over a newer one.  When they overlap, a slow tour may do that, and the
\* count goes up twice for nothing, there and back; but at most once for each new
\* solution, however often the tours overlap (earthquake-ingest.store.ts:74-86,
\* 163-171).
RevisionsAreTheProviders ==
  \A e \in Events : stored[e] # NoRow =>
    /\ ~overlapped => stored[e].revisions < stored[e].solution
    /\ stored[e].revisions <= 3 * (provider[e].solution - 1)

\* A solution that comes when only reconcile still looks for the event, or that a
\* slower tour overwrote with the one before, is in the store in the end
\* (earthquake-ingest.target.ts:43-48).
LateRevisionsArrive ==
  \A e \in Events :
    <>[](provider[e] # NoEvent /\ clock - provider[e].since <= Window["reconcile"])
      => <>[](stored[e].solution = provider[e].solution)
=============================================================================
