# Verification of the Coğrafya API

TLA+ models of the stateful parts of the API, TLC runs on small instances and TLAPS
proofs. Paths in this file are relative to `src/src/` of the repository.

## 1. The system

A NestJS service over PostgreSQL (TypeORM, READ COMMITTED), Redis and a handful of
third-party data providers. Most of the code serves reference data that never changes
at run time, or decodes provider files. The parts below keep state that several actors
change at once; they are what this project is about.

| Part | State | Operations | What is hard | What makes it correct |
|---|---|---|---|---|
| Refresh sessions (`auth/session.service.ts`) | rows of `sessions`, `users.token_version` | login, refresh, logout | two refreshes at once, a lost response, a stolen token, revocation against rotation | one live token per family, chains never fork, revoked stays revoked |
| Password reset, change, deletion (`auth/password-*.ts`, `auth/account-deletion.service.ts`) | `password_reset_tokens`, `users`, `sessions` | requestReset, confirmReset, change, deleteAccount | reads before slow hashing, lock order, cascades | every older token dies, no orphans, nobody waits for ever |
| Registration (`auth/registration.service.ts`, `auth/email-verification.service.ts`) | `pending_registrations`, `users` | register, resend, verify | a group lock that locks nothing when the group is empty, rows committed after the snapshot, two write paths | one account per address, every guess charged, live codes stay, no clone picks a side, nobody waits in a circle |
| Identity limits (`auth/auth-rate-limit.service.ts`) | window counters | consume, refund | a window that ends between consume and refund, cleanup | the daily cap holds, a refusal that is not the owner's fault costs nothing |
| Circuit breaker (`upstream/circuit-breaker.ts`) | per provider: failures, openUntil, trialInFlight | canAttempt, recordSuccess, recordFailure, abandonTrial, releaseTrial | outcomes of overlapping calls, exceptions | no leaked trial, a pause the provider asked for is cut short only by calls already under way, the provider is probed again |
| HTTP client and deadline (`upstream/upstream-http.client.ts`, `upstream/operation-deadline.ts`) | one attempt loop per call | request | retry against budget, our time-out or theirs | time-outs charged to the right side |
| Provider budget (`upstream/provider-budget.ts`) | minute, hour, day counters in Redis and in each process | tryConsume | Redis failing before or after it counted, buckets that end while it is asked | no counter lets through more than its limit, refusals spare the later windows |
| Cache and single-flight (`upstream/cache/`) | value and negative entries, refresh lock | read, peek, revalidate, poll | lock TTL, write after unlock, two instances | one refresh at a time, a failure hides no value, refreshing never stops for good |
| Warm-up tours (`upstream/scheduled-warmup.service.ts`) | tour lock, running flag | runTour | a tour outliving its lock, a lost answer, a crash | tours of two instances overlap only when one outlived its lock |
| Air-quality ingest (`air-quality/cams/`) | run row with ADS job records | one step of one job per tour | crash between submit and answer | attempts bound the submits, a foreign job is taken only when the own one is not there, what is served is whole and stays |
| Earthquake ingest (`earthquake/`) | events, run ledger | upsert, recordRun, pruneRuns | two cadences at once, pruning the anchor, late revisions | published freshness never goes back, revisions are the provider's and overlap adds a bounded number, late ones arrive |
| Marine forecast ingest (`marine/ecmwf/`) | cycle ledger, point series | tour slice, recordStep, pruneCycles, choice of the served cycle | read-modify-write without a lock, pruning, tours that overlap | what is listed is stored, stored steps stay, a new cycle never shortens the forecast |
| Elevation tiles, books, member data, retention | tables and caches of their own | see `PROJECT.json` | worker pools, purge against refresh | see `PROJECT.json` |

How they interact: controllers call the services; the auth services share the `users` and
`sessions` rows and meet only in PostgreSQL's row locks; registration and verification meet in
the rows of one address and are let in by the identity limits; the read legs call the cache, the
cache calls single-flight, single-flight runs a refresh that calls the HTTP client, and the
client asks budget and breaker; tours call the same client under a longer deadline.

`PROJECT.json` lists every component with its status, and the hazards with the line at
which each bites.

## 2. What is modelled

### AuthSessions and SessionFamilies

`AuthSessions` models one account. `sessions`, `resetTokens` and `user` are committed
table rows; `rowLock` and `userLock` are PostgreSQL row locks; `req[r]` holds the program
counter and the locals of an in-flight request; `minted` is a history of the `sv` claims of
access tokens. Accounts do not share rows, so one account is enough.

The grain is one action per statement that reads or locks shared state. A transaction's
writes become visible at its commit and the rows stay locked until then, so they are
applied by its last action.

| Code | Actions |
|---|---|
| `login`, `issueSession` | `LoginRead`, `IssueSession` |
| `refresh`: SELECT … FOR UPDATE and the branch it takes | `RefreshLive`, `RefreshGrace`, `RefreshReuse`, `RefreshExpired` |
| successor lock, owner read | `LockSuccessor`, `ReadOwner` |
| rotation, lost-response recovery | `Rotate`, `Recover` (both `RotateInto`) |
| UPDATE … WHERE revoked_at IS NULL | `BulkSnapshot`, `BulkLock`, then the commit of the operation |
| reuse detected, inactive account, `logout` | `ReuseCommit`, `InactiveCommit`, `LogoutCommit` |
| `requestReset`, `confirmReset` | `RequestReset`, `ResetResolve`, `ConsumePresented`, `ConsumeOthers`, `LockUser`, `ResetCommit` |
| `change`, `deleteAccount` | `ReadAccount`, `LockUser`, `ChangeCommit`, `DeleteCommit` |
| statement_timeout, deadlock victim, crash | `Fail` |

PostgreSQL itself is external: a bulk UPDATE takes its targets from the rows committed when
it starts, locks them one by one, and re-checks its WHERE clause on each row it gets; an
INSERT with a foreign key waits for a DELETE of the parent row but not for an UPDATE of
other columns. A reset updates two sets of token rows in two statements, first the presented one
by its id, then all that are open, so two resets with different tokens can wait for each other;
each set is taken at once when all of it is free.

`SessionFamilies` is the abstract promise: families with one current token, each opened,
exchanged, ended for good, or closed with the account. `AuthSessions` implements it under
the mapping `CurrentToken`.

### UpstreamClient

One provider's circuit and the calls that use it. Time is what is *left* of the cooldown,
of each operation budget, and of each attempt, so there is no clock to bound. One action is
what runs between two awaits; the `finally` of `request` is a step of its own, since other
calls may run between the settling of `attemptLoop` and it.

Three variables are history, written beside the code's steps and read by no guard: `asked` is what is
left of the longest Retry-After, `warned` the calls that were under way when one was sent, and
`overtaken` says that one of these has reported its outcome since (`Reports`, `Warns`).

| Code | Actions |
|---|---|
| deadline check, `canAttempt` | `Admit` |
| `tryConsume` | `BudgetRefuses`, `StartAttempt` |
| `attempt` outcomes | `Succeed`, `Reject`, `RateLimit`, `ParseThrows`, `FailTransiently`, `Abort` |
| retry, end of the loop | `Retry`, `GiveUp`, `Resume` |
| `finally { abandonTrial }` | `Finish` |

### AdsJobs

One tour of `AirQualityIngestTarget` at a time over the rows of `air_quality_runs` (`runs`,
one per run day, with its job records) and `air_quality_province_series` (`series`), against the
provider's own list of jobs (`ads`). A tour advances one job by one step. Steps that only read
the provider are one action; a tour is cut where it waits with something half done, and may die
there: between superseding and creating a run, before and after the POST is accepted, between
the product and the pruning, between DELETE and its stamp. `late` holds a POST whose caller
gave up and which the provider may still accept. `series` keeps *which* request the stored
values answer, and `ads` whom each job was submitted for, so that a wrongly adopted job can be told
from the right one; no guard but the decoder's check of the file (`Decodes`) reads either.

| Code | Actions |
|---|---|
| `selectRun` | `Supersede`, `CreateRun`, `NothingToDo` |
| `selectNextJob`, `rollupRunState` | `Advances`, `Cleans`, `Rollup` (in every write of a record) |
| `stepCosting`, `stepPoll`, `stepResults` | `Costing`, `Poll`, `Results` |
| `stepSubmit` | `Submit`, `PostArrives`, `Submitted`, `LicenceRefused`, `SubmitFails` |
| `stepReconcile` | `Reconcile` |
| `stepDownload`, `decodeAndStore` | `Store`, `RefuseFile`, `DownloadUnused`, `Prune` |
| `recordFailure`, `recordTransient` | `RequestFails` |
| `cleanupJob` | `SendDelete`, `StampCleanup` |
| a crash or an unexpected exception | `Crash` |

That tours do not overlap is what the warm-up lock is for; `WarmupTours` says when it fails, and
`AdsJobs` assumes that it does not.

### UpstreamCache

One logical key in the Redis mode, shared by the reads, background revalidations and warm-up
sweeps of any instance: `value` and `negative` are the two cache entries, `lock` is
`upstream:lock:<key>`. One action is one Redis command or one load, with the code up to the next
await. Any Redis command may fail: a get is then a miss, a set is dropped, a release leaves the
lock to its TTL, and a SET NX that fails may still have taken the lock (`Orphaned`). Ages and
what is left of TTLs stand for the clock.

A value is its age and the age of its model moment; its content plays no part in any decision.
A value without a model moment (`validAt` null) behaves as one that never reaches the second
ceiling, and is not a case of its own. A revalidation is a read that was answered before it
went on, so `answer` tells the two apart.

| Code | Actions |
|---|---|
| `read`, `peek`: get the value, get the negative entry, decide | `BeginRead`, `BeginSweep`, `LooksForNegative` |
| `CmemsWarmupTarget.sweepOne`: fetch, then read with the outcome in hand | `SweepAsks`, `SweepReads` |
| `RedisSingleFlight.run` | `Acquires`, `Loses`, `LockFails`, `Loads`, `Releases` |
| `persistOutcome`, `RedisCacheStore.set` | `StoresValue`, `StoresFailure`, `StoreFails` |
| `pollForWinner` | `PollsValue`, `PollsNegative` |
| a process dies; time passes | `Dies`, `Tick` |

### PendingRegistrations

One address: its candidates (`pending`), its account, and the requests register, resend and verify
that run at one time. The grain is PostgreSQL's: a locking SELECT takes its snapshot when it
starts (`snap`), then one row lock at a time in `created_at` order, and returns each row as it is
when its lock is got; a row committed meanwhile is not among them. What a transaction writes shows
at its commit. `created_at` is the start of the inserting transaction, so candidates are numbered
there. A clone keeps its source's password hash, so credentials are the party they belong to.

| Code | Actions |
|---|---|
| `register`, `resendVerification` | `Register`, `Resend`, `Begin` |
| the locking SELECT of the group | `LockRow`, `Contention` (statement_timeout) |
| `insertCandidate`: sweep, ambiguity, ceiling, insert | `InsertDraft`, `InsertClone`, `Ambiguous` |
| `verify`: candidates, guess, match, account | `Verify`, `Charge`, `Match`, `Create` |

### AuthRateLimits and ResendLimits

`AuthRateLimits` holds the statements of `AuthRateLimitService` on the rows of one identity:
`Sweep` and `Count` are the two of `consume`, `Refund` is the one of `refund`, and each works on the
window that the caller's clock gave. `ResendLimits` extends it with the one caller that uses two
scopes and gives units back.

| Code | Actions |
|---|---|
| `consume(VerifyResendCooldown)` | `Resend`, `TooSoon`, `CooledDown` |
| `consume(VerifyResendDaily)` | `ConsumeDaily`, `OverTheCap`, `UnderTheCap` |
| the transaction's three outcomes | `Issued`, `Declined`, `Ambiguous` |
| `refund`, which is fail-soft | `GiveBack`, `RefundFails` |

### WarmupTours and EcmwfIngest

`WarmupTours` is the tour lock of `ScheduledWarmupService`, as operators that a target's module
composes with what the target does: `Take`, `AnswerLost`, `Expire`, `Release`, `Die`. The lock's
expiry is free to come at any moment; `outlived` counts the times it came under a running tour.
`EcmwfIngest` extends it with the marine forecast target for every instance, and with the choice of
the cycle that reads are served from. Cycles are numbered from the first a tour
may ask for, and the clock runs from that instant, `Lag` ticks (the publication lag) after the cycle's
own start; a step is a tick. A tour reads the clock once (`asOf`) and orders the steps by that
instant, however long the database then takes. One transaction writes a step into every point's series, so the steps are those of each point.

| Code | Actions and operators |
|---|---|
| `selectCycle`, `orderStepsForIngest` | `StartTour`, `NothingToDo`, `Select`, `Unpublished`, `NextStep` |
| `ingestSteps` | `Fetch`, `Stop` |
| `recordStep`: the read of the ledger row; the rest to the commit | `Fetch`; `Record`, `RecordFails` |
| `pruneCycles`: find, delete | `FindOldest`, `Prune`, `PruneFails` |
| `selectPublishedRun`, `selectPublishableCycle` | `Run`, `Served` |
| a process dies | `Crash` |

### EarthquakeIngest

The tours of the two jobs, each under a lock of its own, hence at most one of each but both at one
time. The provider's solutions are numbered; rows are upserted one by one, each in its own
autocommit; the ledger row is written after the last, and old rows pruned after that.

| Code | Actions and operators |
|---|---|
| window and request of a tour | `Start`, `Answer`, `Fail`; `ReadCutoff` (the clock, once a failed run is on record) |
| `upsertEvent` | `Write` (`Revised`, `Upserted`), `WriteFails` |
| `diagnoseTour`, `recordRun` | `Diagnosis`, `RecordRun` |
| `pruneRuns` | `Exempt`, `PruneRuns` |
| `newestSuccessfulRunFinishedAt` | `PublishedAnchor` |
| a process dies | `TourDies` |

Its specification is `QuakeSpec`; names that `EcmwfIngest` has too carry a prefix, because one module proves
what the two ingests guarantee.

### ProviderBudget

`tryConsume` for one provider from every instance, window after window. Asking is counting: in
Redis by one atomic script (`CountShared`), and when that fails in the instance's own map
(`CountLocal`), possibly after Redis counted too (`LoseAnswer`). The bucket comes from the clock
before the answer, so the answer may come when the bucket is over, and `Expire` drops counters of
buckets that are over. A process that restarts is another instance, whose map is empty.

## 3. What is checked

| Run | Shows |
|---|---|
| `auth_sessions` | all safety properties of the account and the refinement of `SessionFamilies` |
| `auth_sessions_live` | every accepted request is answered although the lock orders form cycles |
| `auth_reset_confirm` | **violated:** "a token cannot confirm twice": two confirmations resolve the token before either consumes it |
| `upstream_client` | trial never leaked, a pause cut short only by calls that were under way when it was asked for, time-outs judged by allowance, the provider probed again |
| `ads_jobs` | duplicates come only from late POSTs, resubmits are paid for, a foreign job is adopted only when the own one is not on the list or came late, what is served is whole and stands, every run comes to rest |
| `upstream_cache` | a winner inside its lock's TTL is alone, a read that meets a binding failure neither asks nor goes without a value that is there, every read ends, refreshing never stops for want of a lock or behind a failure |
| `pending_registrations` | wrong codes are all charged, the ceiling is passed only by overlap, the account is still absent when it is made, live codes stand, a clone takes no side, nobody waits in a circle |
| `resend_limits` | no day mails more codes than its cap, an ambiguous group costs its owner nothing |
| `ecmwf_ingest` | what the ledger lists is stored, stored and listed steps stay, a cycle that begins to fill shortens nothing |
| `ecmwf_overlap` | **violated:** "a half-written step must be unrepresentable": a tour that outlived its lock saves a pruned cycle's ledger row again |
| `earthquake_ingest` | published freshness never goes back, revisions are the provider's (while tours overlap, at most three for each of its), late solutions arrive |
| `provider_budget` | no counter lets through more than its limit, refusals spend nothing of the later windows |

Every property of a passing run has a mutant (`Of_How` in the modules): the same
definition with one plausible slip, under which TLC finds the property violated.

### Bounds

- Two requests in flight, four in all (`MaxRequests`). Every race the code guards against is
  between two transactions on one row; four requests are enough for login, rotation, recovery
  and a reuse or a reset on top. Ids are taken from the same bound. The longer chains the bound cuts off
  repeat the same rotation on a newer row.
- `MaxTime = 2`, `GraceWindow = 1`, `RefreshTtl = 2`, `ResetTtl = 1`: instants inside, at and after
  each window.
- Two calls, `Threshold = 3`, `OpenTime = 3`, `Cap = 2`, `Budgets = {2, 4}`: a budget equal to the cap and
  one above it, a Retry-After absent and above `OpenTime` (so a pause can be cut short), counts below, at and above the threshold.
- `AdsJobs`: `DayLength = 2` and `SubmitAfter = 1` give each day an hour before and one after the
  submit hour; `MaxTime = 3` gives two run days, so that one can supersede and prune the other
  (`Retained = 1`). `Slack = 1` lets a job of the day before be a candidate. Two attempts: one that
  may be spent and a last one. Two jobs upstream (`MaxUpstream`) make a reconciliation that is
  ambiguous or adopts the wrong job. One POST arrives late at most, ever.
- `UpstreamCache`: two reads are enough for an owner and whoever takes the lock from it;
  `LockTtl = 1` lets the owner overrun at the first tick; `Fresh = 0`, `StaleMax = 1` and
  `ValidMax = 1` give fresh, stale and dropped values by either ceiling; a failure that binds two
  ticks outlives what it shadows; one poll and one crash.
- `PendingRegistrations`: two requests at a time, four candidates in all, `MaxActive = 2`,
  `MaxAttempts = 2`, two parties. A race on a group is between two transactions; three candidates
  reach and pass the ceiling, and a fourth clones what is left; a code lives one tick (`Ttl = 1`)
  and the run lasts two instants, so a group mixes live and expired rows. Two guesses at once
  before the last attempt and at it are among the behaviours.
- `ResendLimits`: three resends at a time, a day of two ticks and a cooldown of one, `MaxTime = 3`:
  two days, so that consume, transaction and refund fall on either side of midnight; a daily cap of
  2, so that three requests can be one too many.
- `EcmwfIngest`: two instances; `ecmwf_ingest` has cycles one tick apart with three steps each, which
  overlap, two retained and two candidates to fall back to, and no publication lag (`Lag`): in a forecast of
  three steps a lag would put the first step fetched of a new cycle at its end, and the horizon could not
  shrink; the proof is for every lag; `ecmwf_overlap` has two cycles of two
  steps, a lag of one and one cycle retained. A lock expires under a tour once at most (`MaxOutlived`).
- `EarthquakeIngest`: one event (events share nothing but a tour's success), two solutions, one
  tick: the event is in the window of `recent` only at once, in that of `reconcile` always. Two
  ledger rows and retention 0 let pruning meet the anchor. Two solutions let an overlapping tour
  put the older one back, which reaches the bound of three revisions.
- `ProviderBudget`: a call on each of two instances, two windows of lengths 1 and 2 with limit 1, so
  that the first window refuses while the second lasts; counters are asked while below 2.
- Requests, parties and instances that are interchangeable are symmetric in the safety runs; no
  liveness run uses symmetry.

### Fairness

- `AuthSessions`: Node resumes an accepted request and PostgreSQL grants a free lock
  (weak fairness of `Continue`); a statement that waits is cancelled by `statement_timeout`
  (`CancelBlocked`). Nothing makes clients send requests.
- `UpstreamClient`: the event loop runs what is ready (weak fairness of `Proceed`) and time
  passes however often callers return (strong fairness of `Tick`). The provider is not obliged
  to answer.
- `AdsJobs`: the timer begins tours again and again and tours go on (weak fairness of `Tour`), the
  provider ends the jobs it accepted, and time passes. A tour need not find every request
  answered or every download of use: `RequestFails` and `DownloadUnused` are in no fairness
  condition, but `Tour` has to step now and then. So `RunsSettle` says nothing of a download
  that is thrown away for ever: nothing in the code bounds that but the next run day.
- `UpstreamCache`: reads come again and again, each goes on (every await has a time-out:
  `commandTimeout` or the operation deadline), and time passes. Neither Redis nor the provider
  is obliged to do anything: the lock may fail every time, and `NeverStopsAsking` holds because
  the code then refreshes without it.
- `EarthquakeIngest`: the timer starts tours and a tour records and prunes (weak fairness); the
  provider now and then answers in full and the database now and then takes a row (strong fairness
  of `AnswersInFull` and `Write`, since either may fail many times in between); time passes.

The safety runs of `PendingRegistrations`, `ResendLimits`, `EcmwfIngest` and `ProviderBudget` end at their
bounds (`CHECK_DEADLOCK FALSE`): the clock, candidates or counters have run out and nothing is asked.

### Known divergences

Seven statements of comments and tests are false in the models and stay in the modules as
properties that no run checks; each is found violated when it is added to the cfg of its module's
run (`INVARIANT` or `PROPERTY`, with `SPECIFICATION Spec`).

| Property | Statement | What happens |
|---|---|---|
| `WholeFamilyDies` (`AuthSessions`) | reuse revokes the whole family (`auth/session.service.ts:218`) | a rotation that the revoking UPDATE waits for leaves a live row behind |
| `MintsTheBumpedVersion` (`AuthSessions`) | the new session carries the bumped version (`auth/password-change.service.ts:112`) | another bump comes between the read and the increment |
| `RetryAfterObeyed` (`UpstreamClient`) | open "for as long as the provider asked" (`upstream/circuit-breaker.ts:214`) | a late success closes the circuit (line 116), a late failure shortens the pause |
| `FailedTrialReopens` (`UpstreamClient`) | a failed trial reopens the circuit (line 198) | not after a 429 below the threshold |
| `AtMostOneTrial` (`UpstreamClient`) | half-open lets "exactly ONE trial call" through (line 87) | a call admitted before the opening ends during the trial, and its `finally` (`upstream/upstream-http.client.ts:338`) clears the trial's flag |
| `ServedIsNotSuperseded` (`AdsJobs`) | a run whose forecast never finished is superseded (`air-quality/cams/air-quality-ingest.target.ts:163`) | so is one whose forecast is being served |
| `CeilingsHoldOnTheWayOut` (`UpstreamCache`) | a value beyond a ceiling is dropped (`upstream/cache/upstream-cache.service.ts:347`) | not by the read that refreshed |

## 4. What is proved

All theorems hold for every number of requests, of calls, of rows and every window, threshold,
cap, budget, TTL and ceiling. Their only assumptions are the `ConstantsOK` of the modules: the constants
are numbers of the right kind, `NoRequest` is not a request, `NoAccount` not a party, Redis not an
instance, "nobody" not an instance's token, and the resends, the registrations, the
instances and the calls that share a budget are finitely many. TLC evaluates them on every run.

### UpstreamClientProofs

`BreakerStep` names the seven ways in which any step can move the circuit, so that what concerns
only the circuit is proved once per way and not once per action. `TypeCorrect` joins the ranges of
the breaker's numbers (`NumbersOK`), the types of the calls (`CallsOK`) and of the history
(`PauseTyped`), each inductive with what the step moves. `PauseStands` needs `PauseInForce`: while a
pause stands nobody is let in, so whoever is under way was warned, and the first of them to report
ends the claim (`ReportOvertakes`).
`TrialNeverLeaks` rests on `ClaimSurvives` and `OnlyAdmitTakesTrial`: only `Admit` sets the flag,
and no step ends a call that was given it without clearing it. `TimeoutsJudgedByAllowance` needs
`AttemptsOK`, which says how the timer, the allowance and what is left of the budget of an attempt
are related until it ends.

### AuthSessionsProofs

Four parts, each using the ones before.

1. What does not depend on locks: types, where a request can be in each
   operation, and that a request works with a version of the past, except for a password change,
   which mints the one its own commit reached. Hence `BumpKills`.
2. The shape of the table. `TypeOK`, `AtMostOneLivePerFamily`,
   `ChainNeverForks` and `NoOrphans` are not inductive. `IInv` adds that a live row has no
   successor (`LiveIsLast`), that rows name only numbers already handed out (`Numbered`) and never
   the number a request still has to insert (`Fresh`), and what a request in flight *owns*
   (`Held`): the row it presented, the successor it locked, the rows its UPDATE hit, the users
   row, and, for a deletion, that it has every row on its list. The argument has two halves.
   Every action writes the table in one of four ways (`RowStep`: not at all, `Kills`, `Inserts`,
   `Wipes`), each of which touches no row another request has locked. And every action is
   `Framed`: it changes no other request's locals and releases no other request's locks. So what
   the others own survives, and the actor's own step is checked action by action
   (`EveryActionSettles`). Hence `TypeCorrect`, `OneLivePerFamily`, `NoForks`,
   `DeletionIsComplete` and `RevokedStayRevoked`.
3. Revocation, `SeenDie`: what a revoking UPDATE saw live is dead at its
   commit. A row it saw is, while it lives, still on its list or among its hits, because nobody
   revives a row or moves it to another family (`Persists`, from `RowStep`), so the re-check of
   the WHERE clause drops only rows that are dead.
4. The refinement of `SessionFamilies`, `FamiliesImplemented`. With `OneLivePerFamily` the CHOOSE of the
   mapping has one outcome: the current token of a family is its live row, and 0 when there is none
   (`Represents`). Each of the four ways of writing the table is then a step of the families: `Kills` ends
   families (`KillingEnds`), `Inserts` exchanges the current token or opens a family
   (`InsertingExchanges`), `Wipes` closes the account (`WipingCloses`), and the rest is a stutter.

### AdsJobsProofs

All properties of the run but the liveness. Most steps rewrite one job record and roll its run up
(`Writes`), so what such a rewriting may do is said once (`Permitted`), shown action by action, and each
part of `IInv` follows from it. The parts that are needed:

- `JobsOK`, `Named`, `Rolled`, `InOrder`: what the state of a record says of its fields, and the state of
  a run of its records; nothing touches the analysis before the forecast is stored. A rollup is then right
  whatever it was before. `Backed` ties the ledger to the data: a stored record has rows, and its job
  upstream is its own. Hence `Whole`.
- `Unsent` says that a record which is going to submit has no job upstream that came in time, and one
  that is submitting only jobs created since; `Distinct`, that two records of a run never name one job.
  So reconciliation finds what it posted, and no second post goes out while there is one: `NoDuplicates`.
- `OwnPreferred`: a record names a job of its own, or has none of its own in time. A job of its own is
  never invisible to a reconciliation: it was created after the submit was written, so it is a candidate,
  and with a foreign one beside it the answer is ambiguous and neither is taken: `OwnComesFirst`.
- `Paid` counts the jobs upstream, the post that is late and the post under way (`Sent`): together at most
  the attempts, and one. A post turns from under way to late to a job without moving the count; giving
  up and submitting anew costs an attempt first. Hence `ResubmitsPaid`.
- `Past`: nothing was ever posted for a day after the newest run, so a new run finds no jobs upstream.
- `TourOK`: what the tour knows between two of its steps, of the record it works on and of the run it
  was going to prune or clean up after. `ServableRunsStand` and `CleanupSpares` are action properties from it.

### IngestProofs

First `EcmwfIngest`, all properties of its run. `ListedStepsAreStored` is not inductive: the commit of a step writes the ledger
row as it was read, and the series as they are. `ReadsStand` says that the two are of one moment while no
tour outlived its lock, which is so because then only the holder of the lock works (`Owned`); a tour
records a step that it had to fetch (`Pending`). Only `Record` and `Prune` write (`WhoWrites`), so
`StoredStay`, which needs no lock, and `ListedStay` follow from what these two do to the tables.
`WholeHolds` holds of any rows: no run is longer than a whole cycle and only a whole one is as long
(`RunsAreShorter`), so what is served is the newest of the whole cycles.

Then `EarthquakeIngest`, its two safety properties and its types. `RevisionsAreTheProviders` is not inductive:
a count grows when a solution differs from the stored one, and that is a revision only if it is newer.
`AnswersFresh` says that what a tour still has to write is an event, and no older than its row while no two
tours overlapped; a row can move under a tour only by another tour, hence `OneTour`; what a tour is answered is
no older than what is stored because nothing was ever stored that the provider had not published
(`NothingInvented`). With overlap the count is an account (`SolutionsAccounted`): of the two tours one at most
is to write an older solution over the newest ever stored (`Stale`), and what it costs, the older one
back and the newest again, is set aside when that solution arrives, two revisions on top of its own.
Both halves give `RevisionsCounted`. `AnchorNeverGoesBack` needs that there is a newest clean run at all: runs ended before now
(`RunsOrdered`), and of numbers up to now one is the greatest (`MaxBelow`). So when pruning exempts nothing,
there was nothing (`PruneSparesTheAnchor`), and every other step keeps all runs.

### UpstreamCacheProofs

`IInv` joins `TypeOK` with two things. `Owned` is the argument for compare-and-delete: a winner
that is still inside the TTL it took finds its own token in Redis, with exactly as much left of
it as the winner believes. Only an owner's own release, its own death and the TTL take the token
away (`OwnedStep`, `OwnedTick`), and SET NX never replaces one, so two timely winners would be
one token: `TimelyOwnerIsAlone`. `Knows` is what a read knows of itself: it is not answered
before its second look, it polls only while attempts are left (without which `TypeOK` is not
inductive), and it heeds the failure it met, which gives `SuppressionHolds`. `OthersStay` says
that a read changes nobody's locals but its own. `FailuresAreHarmless` is an action property:
no step but `Tick` takes a value away, and `Tick` only at the end of its retention. Its property,
`FailuresCostNoValue`, is in no run: only two actions touch the value, and the proof says all.

### PendingRegistrationsProofs

All properties of the run. Every step is a step of one request: it changes no other
request's locals, and of the table only rows that the request holds and the row it was numbered for
(`Frame`), while its own locals move in one of five ways (`Moves`: it ends, arrives, looks, takes a
lock, has checked). `EveryStepMoves` shows this action by action, and the parts of `IInv` follow from
it once per way. The parts that are not obvious:

- `Nested`: of two snapshots, one saw all that still stands of the other. Hence two requests that hold
  their whole group cannot be apart (`OneCreator`, with `Apart`: a row lock has one holder), so between
  a verify's look for the account and its insert there is no other verify: `CheckHolds`.
- `Ascends`: rows are locked in ascending order. In a circle of waiting requests take the one that
  wants the greatest id (`Greatest`): its holder wants a greater one still: `NoDeadlock`. A circle
  may be any subset of the requests, so this is an argument by well-founded induction on ids.
- `Fresh`: the number of a candidate still to be inserted is nobody else's and in nobody's snapshot, so an
  insert destroys no row: `LiveCodesSurvive`, and `GuessesCharged`, since a counter is only written by who
  holds its row, from what it read under that lock (`Seen`).
- `Capped`: the candidates that last, and the requests on the way to insert that saw fewer of them than
  the ceiling allows (`Passers`), are together at most the ceiling and one for each request but one: an
  insert turns a passer into a candidate. Two things would raise the count again. Time: a request whose
  candidates expire becomes a passer; so the count is of what lasts beyond an instant, for every instant
  to come (`Lasting`). A verify that deletes what others saw: they become passers; so the bound is claimed
  for what any one statement did not see, too (`Filters`), and the deletion leaves just what the verify's
  own statement did not see. With `Nested` two such filters are one (`OneFilter`): `CeilingHolds`.

### ProviderBudgetProofs

`BudgetHolds` alone is not inductive: nothing in it relates what was let through to the counter. While
its bucket lasts a counter has counted all that it let through (`Counted`), because it is incremented
before the verdict and goes only when the bucket is over; when it is over, what it let through in
time does not move any more. `CountersStep` is this argument for whichever counters a step touches.

`RefusalsSpare` compares a counter of Redis with a sum over counters. It is about Redis only, and only
as long as no call was let through by a bucket that was over (`straggled`): such a call counts in a
later window and in no total of the windows before. Its invariant, `Covered`, adds the sum of what
the calls on their way to the later window bring: a call that is let through adds to what was let
through and to what is on its way, and then moves from there to the counter, or is refused. About sums
over finite sets the module proves that the recursive definition defines a function, that the order of
the terms does not matter, and that the sum follows the one term that moves (`SumMoves`). With the
library's induction theorems out of reach these are arguments by a smallest counterexample (`Smallest`).

### ResendLimitsProofs

`DayOK` counts, for a day, the requests with a unit in the day's row (`Open`) and those of them that were
counted while the day lasted (`Due`). While it lasts its counter is at least the codes mailed plus
`Due`: a refund takes out one unit and ends one request. So a resend that finds the counter under the
cap keeps mailed plus due under the cap, and after the day nobody becomes due: `CapHolds`. The other
direction, that the counter is at most the units kept plus `Open`, is `AmbiguityIsFree`. `InWindow` says
that nobody works on a day to come; it rests on the monotony of the window number (`DivGrows`).

## 5. Only model-checked, and not modelled

Liveness (`EveryRequestAnswered`, `AlwaysProbesAgain`, `RunsSettle`, `EveryReadEnds`, `NeverStopsAsking`,
`LateRevisionsArrive`) rests on fairness and stays with TLC. Every safety
invariant and action property of the passing runs is proved. Violated
properties have nothing to prove.

What the models leave out of the code they cover:

- `PendingRegistrations`: mail, hashing and the profile. A unique violation of the code digest cannot
  occur between different ids and is not a case. How many requests come is the limits' matter.
- `ResendLimits`: the other callers of `AuthRateLimitService` only consume; the game-round submit
  limit is a copy of consume with a table of its own.
- `WarmupTours`: the timer, the boot delay, several targets in a row, `onModuleDestroy`.
- `EcmwfIngest`: GRIB decoding, byte and step caps (an abort between two steps stands for them), alarms.
  It makes no promise of progress: the code's caps and fallbacks leave a cycle unfinished on purpose.
- `EarthquakeIngest`: one tour per job at a time is assumed (its lock outlives its deadline as the other
  does, see `WarmupTours`); corrections of fields other than the solution; province binding, the catch-up
  of a backlog and the hand-run backfill.
- `ProviderBudget`: Redis keeps a key until its TTL; an eviction or a flush would start a counter again.
- `UpstreamCache`: the in-process mode (LRU store, joined promises), and that the Redis driver may send a
  command a second time after a reconnect. The comment that N stale reads make one refresh
  (`upstream/cache/upstream-cache.service.ts:316`) is meant for reads that overlap the refresh; a read
  that looked before it and asks for the lock after its release refreshes again, since nothing looks a
  second time under the lock. The model has this behaviour.
- `AuthSessions`: passwords are not values of the model, so what a change that verified the old password
  overwrites is a hazard and not checked.

Races that the model has and no property is about: a login that read the account before a reset inserts its session
after the reset's revocation (`auth/session.service.ts:333`); the gate is asked once per request, so a
retry goes out through a circuit that has opened (`upstream/upstream-http.client.ts:361`); the outcome of a refresh
is stored after single-flight released its lock, so an older outcome may replace a newer one
(`upstream/cache/upstream-cache.service.ts:346`); a read that looked for the value before it was stored, and
for the failure after, answers with the failure, and a failure stored beside a fresh value keeps that value
from being refreshed until its own TTL ends (`upstream/cache/upstream-cache.service.ts:233`). The hazards of `PROJECT.json` without a property say why.

Not modelled at all: JWT signatures and expiry, DTO validation, response bodies and headers, metrics
and logs, decoding of provider files, read-only endpoints, importers, seeds and migrations (by far the
most lines of the repository are the data in these), elevation tiles, books, member data, retention,
visitor throttling. Their components are in `PROJECT.json` with the reason.

## 6. Plan

Done: `AuthSessions` with `SessionFamilies`; `UpstreamClient`; `AdsJobs`; `UpstreamCache`;
`PendingRegistrations`; `AuthRateLimits` with `ResendLimits`; `WarmupTours` with `EcmwfIngest`;
`EarthquakeIngest`; `ProviderBudget`; proofs about all of them, and of the refinement of `SessionFamilies`.

Left, in this order:

1. An abstract cache (a value that only ages, or is replaced) that `UpstreamCache` implements.
2. Passwords in `AuthSessions`; compositions: `UpstreamCache` over the promise of `UpstreamClient`,
   `AdsJobs` under `WarmupTours`.
3. Books (refresh against purge) and the per-user ceilings of the member data.
