---------------------------- MODULE UpstreamCache ----------------------------
(***************************************************************************)
(* One logical key of the read-through cache in its Redis mode: the value, *)
(* the negative entry under the key of its own, the refresh lock, and the  *)
(* reads, background revalidations and warm-up sweeps of any instance that *)
(* go through them.                                                        *)
(*                                                                         *)
(* One action is one Redis command or one upstream load, with the code up  *)
(* to the next await.  Every Redis command may fail: a read is then a      *)
(* miss, a write is dropped, a release leaves the lock to its TTL, and a   *)
(* lock that cannot be taken is done without.  Redis is external.          *)
(*                                                                         *)
(* Time is the age of the value and what is left of the other two keys, so *)
(* there is no clock to bound.                                             *)
(***************************************************************************)
EXTENDS Integers, FiniteSets

CONSTANTS Readers,      \* the reads that can be under way at once
          Fresh,        \* ttls.ok
          StaleMax,     \* ceilings.staleMaxSeconds
          ValidMax,     \* ceilings.validAtMaxAgeSeconds
          NegativeTtls, \* what negativeTtlSecondsFor can return
          LockTtl,      \* REFRESH_LOCK_TTL_MS
          PollAttempts, \* lockLostPollAttempts
          MaxCrashes    \* bound: the reads that die with their process

ASSUME ConstantsOK ==
  /\ Fresh \in Nat
  /\ StaleMax \in Nat
  /\ Fresh <= StaleMax
  /\ ValidMax \in Nat
  /\ NegativeTtls \subseteq Nat \ {0}
  /\ LockTtl \in Nat \ {0}
  /\ PollAttempts \in Nat \ {0}
  /\ MaxCrashes \in Nat
  /\ "nobody" \notin Readers

VARIABLES value,      \* <key>: how old it is, and how old what it tells
          negative,   \* <key>#neg: what is left of its TTL, 0 when there is none
          lock,       \* upstream:lock:<key>: whose token, and what is left of its TTL
          read,       \* where each read is, and its locals
          suppressed, \* history: the negative entry that the read met when it
                      \* began is still the one that binds
          crashes

vars == <<value, negative, lock, read, suppressed, crashes>>

NoValue == [age |-> -1, valid |-> -1]
NoLock  == [owner |-> "nobody", left |-> 0]

\* An upstream outcome: ok with the age of its model moment, or a failure with
\* the TTL of its kind, or an exception.
TooOld    == ValidMax + 1
Ok        == [kind : {"ok"}, n : 0 .. TooOld]
Failed    == [kind : {"failed"}, n : NegativeTtls]
NoOutcome == [kind |-> "none", n |-> 0]
Thrown    == [kind |-> "thrown", n |-> 0]

\* sweep: the warm-up's look (peek) before it asks; had: the first look found a
\* usable value; kept: what the sweep fetched before it read; token: it took the
\* lock; held: what was left of the lock it took; answer: what it was answered
\* with, which a revalidation was before it started.
NoRead == [at |-> "idle", sweep |-> FALSE, had |-> FALSE, kept |-> NoOutcome,
           outcome |-> NoOutcome, token |-> FALSE, held |-> 0, polls |-> 0, answer |-> "none"]

-----------------------------------------------------------------------------
(* What is published.                                                      *)

\* evaluate, evaluateStaleness.
Usable(v)  == v # NoValue /\ v.age <= StaleMax /\ v.valid <= ValidMax
IsFresh(v) == Usable(v) /\ v.age <= Fresh

\* What a command on this key brings back: the entry, or a miss when Redis fails.
ValueSeen    == {value, NoValue}
NegativeSeen == {negative, 0}

At(r, where)    == read[r].at = where
Moves(r, local) == read' = [read EXCEPT ![r] = local]
Goto(r, where)  == Moves(r, [read[r] EXCEPT !.at = where])

Answered(r) == read[r].answer # "none"

\* The read is over, and answered if it was not before.
Ends(r, what) ==
  Moves(r, [read[r] EXCEPT !.at = "idle", !.sweep = FALSE, !.kept = NoOutcome,
                           !.outcome = NoOutcome, !.token = FALSE, !.held = 0, !.polls = 0,
                           !.answer = IF Answered(r) THEN @ ELSE what])

-----------------------------------------------------------------------------
(* read and peek, up to the decision.                                      *)

\* The first look.  kept is what a sweep brings along.
Looks(r, sweep, kept) ==
  /\ \E seen \in ValueSeen :
       LET begun == [NoRead EXCEPT !.sweep = sweep, !.kept = kept, !.had = Usable(seen)]
       IN Moves(r, IF IsFresh(seen) THEN [begun EXCEPT !.answer = "value", !.sweep = FALSE,
                                                       !.kept = NoOutcome]
                   ELSE [begun EXCEPT !.at = "negative"])
  /\ suppressed' = [suppressed EXCEPT ![r] = negative > 0]
  /\ UNCHANGED <<value, negative, lock, crashes>>

BeginRead(r)  == At(r, "idle") /\ Looks(r, FALSE, NoOutcome)
BeginSweep(r) == At(r, "idle") /\ Looks(r, TRUE, NoOutcome)
SweepReads(r) == At(r, "kept") /\ Looks(r, FALSE, read[r].kept)

\* A read that misses the entry is not suppressed by it.
Overlooks(r, seen) ==
  suppressed' = [suppressed EXCEPT ![r] = @ /\ seen > 0]

\* MUTANTS: a definition named Of_How is Of with one plausible slip in the code.
\* None is part of the model; each shows that a property can fail.
Binds_ColdOnly(r, seen) == seen > 0 /\ ~read[r].had
Binds(r, seen) == seen > 0

LooksForNegative(r) ==
  /\ At(r, "negative")
  /\ \E seen \in NegativeSeen :
       /\ Overlooks(r, seen)
       /\ \/ /\ Binds(r, seen)
             /\ Ends(r, IF read[r].had THEN "value" ELSE "empty")
          \/ /\ ~Binds(r, seen)
             /\ IF read[r].sweep THEN Moves(r, [read[r] EXCEPT !.at = "asking", !.had = FALSE])
                ELSE Moves(r, [read[r] EXCEPT !.at = "lock", !.had = FALSE,
                                              !.answer = IF read[r].had THEN "value" ELSE "none"])
  /\ UNCHANGED <<value, negative, lock, crashes>>

\* The sweep asks the provider before it reads, and outside the lock.
SweepAsks(r, outcome) ==
  /\ At(r, "asking")
  /\ IF outcome = Thrown THEN Ends(r, "error")
     ELSE Moves(r, [read[r] EXCEPT !.at = "kept", !.kept = outcome])
  /\ UNCHANGED <<value, negative, lock, suppressed, crashes>>

-----------------------------------------------------------------------------
(* RedisSingleFlight.run.                                                  *)

Acquires(r) ==
  /\ At(r, "lock")
  /\ lock = NoLock
  /\ lock' = [owner |-> r, left |-> LockTtl]
  /\ Moves(r, [read[r] EXCEPT !.at = "loading", !.token = TRUE, !.held = LockTtl])
  /\ UNCHANGED <<value, negative, suppressed, crashes>>

Loses(r) ==
  /\ At(r, "lock")
  /\ lock # NoLock
  /\ IF Answered(r) THEN Ends(r, "none")
     ELSE Moves(r, [read[r] EXCEPT !.at = "sleep", !.kept = NoOutcome, !.polls = PollAttempts])
  /\ UNCHANGED <<value, negative, lock, suppressed, crashes>>

\* The command may have been carried out although its answer was lost.
Orphaned == IF lock = NoLock THEN [owner |-> "nobody", left |-> LockTtl] ELSE lock

LockFails_IsLost(r) ==
  /\ At(r, "lock")
  /\ IF Answered(r) THEN Ends(r, "none")
     ELSE Moves(r, [read[r] EXCEPT !.at = "sleep", !.kept = NoOutcome, !.polls = PollAttempts])
  /\ UNCHANGED <<value, negative, lock, suppressed, crashes>>

LockFails(r) ==
  /\ At(r, "lock")
  /\ lock' \in {lock, Orphaned}
  /\ Goto(r, "loading")
  /\ UNCHANGED <<value, negative, suppressed, crashes>>

\* The refresh: a sweep's is what it already holds.
Loads(r, outcome) ==
  /\ At(r, "loading")
  /\ read[r].kept \in {NoOutcome, outcome}
  /\ \/ /\ read[r].token
        /\ Moves(r, [read[r] EXCEPT !.at = "release", !.kept = NoOutcome, !.outcome = outcome])
     \/ /\ ~read[r].token
        /\ IF outcome = Thrown THEN Ends(r, "error")
           ELSE Moves(r, [read[r] EXCEPT !.at = "store", !.kept = NoOutcome, !.outcome = outcome])
  /\ UNCHANGED <<value, negative, lock, suppressed, crashes>>

\* deleteIfValueEquals, whose failure is swallowed.
Released_BareDelete(r) == NoLock
Released(r) == IF lock.owner = r THEN NoLock ELSE lock

Abandoned(r) == IF lock.owner = r THEN [lock EXCEPT !.owner = "nobody"] ELSE lock

Releases(r) ==
  /\ At(r, "release")
  /\ lock' \in {Released(r), Abandoned(r)}
  /\ IF read[r].outcome = Thrown THEN Ends(r, "error")
     ELSE Moves(r, [read[r] EXCEPT !.at = "store", !.token = FALSE, !.held = 0])
  /\ UNCHANGED <<value, negative, suppressed, crashes>>

-----------------------------------------------------------------------------
(* persistOutcome and pollForWinner.                                       *)

\* The reader that refreshed is answered with the outcome as it is.
Published(outcome) ==
  IF outcome.kind = "failed" THEN "empty" ELSE IF outcome.n <= ValidMax THEN "value" ELSE "breach"

StoresValue(r) ==
  /\ At(r, "store")
  /\ read[r].outcome.kind = "ok"
  /\ value' = [age |-> 0, valid |-> read[r].outcome.n]
  /\ Ends(r, Published(read[r].outcome))
  /\ UNCHANGED <<negative, lock, suppressed, crashes>>

StoresFailure(r) ==
  /\ At(r, "store")
  /\ read[r].outcome.kind = "failed"
  /\ negative' = read[r].outcome.n
  /\ suppressed' = [q \in Readers |-> FALSE]
  /\ Ends(r, Published(read[r].outcome))
  /\ UNCHANGED <<value, lock, crashes>>

StoreFails(r) ==
  /\ At(r, "store")
  /\ Ends(r, Published(read[r].outcome))
  /\ UNCHANGED <<value, negative, lock, suppressed, crashes>>

PollsValue(r) ==
  /\ At(r, "sleep")
  /\ \E seen \in ValueSeen : IF Usable(seen) THEN Ends(r, "value") ELSE Goto(r, "polling")
  /\ UNCHANGED <<value, negative, lock, suppressed, crashes>>

PollsLeft_ForEver(r) == read[r].polls
PollsLeft(r) == read[r].polls - 1

PollsNegative(r) ==
  /\ At(r, "polling")
  /\ \E seen \in NegativeSeen :
       IF seen > 0 \/ PollsLeft(r) = 0 THEN Ends(r, "empty")
       ELSE Moves(r, [read[r] EXCEPT !.at = "sleep", !.polls = PollsLeft(r)])
  /\ UNCHANGED <<value, negative, lock, suppressed, crashes>>

-----------------------------------------------------------------------------
(* The rest of the world.                                                  *)

Dies(r) ==
  /\ crashes < MaxCrashes
  /\ ~At(r, "idle")
  /\ crashes' = crashes + 1
  /\ Moves(r, NoRead)
  /\ lock' = Abandoned(r)
  /\ UNCHANGED <<value, negative, suppressed>>

Less(n)  == IF n > 0 THEN n - 1 ELSE 0
Older(n) == IF n < TooOld THEN n + 1 ELSE TooOld
Aged(o)  == IF o.kind = "ok" THEN [o EXCEPT !.n = Older(o.n)] ELSE o

\* retentionSecondsFor: the staleness ceiling, no shorter than freshness.
Kept(v) == v # NoValue /\ v.age < StaleMax

\* The TTL of a negative entry is its own.
Tick ==
  /\ value' = IF Kept(value) THEN [age |-> value.age + 1, valid |-> Older(value.valid)]
              ELSE NoValue
  /\ negative' = Less(negative)
  /\ lock' = IF lock.left <= 1 THEN NoLock ELSE [lock EXCEPT !.left = @ - 1]
  /\ read' = [r \in Readers |-> [read[r] EXCEPT !.held = Less(@), !.kept = Aged(@),
                                                !.outcome = Aged(@)]]
  /\ suppressed' = [r \in Readers |-> suppressed[r] /\ negative > 1]
  /\ UNCHANGED crashes

Init ==
  /\ value = NoValue
  /\ negative = 0
  /\ lock = NoLock
  /\ read = [r \in Readers |-> NoRead]
  /\ suppressed = [r \in Readers |-> FALSE]
  /\ crashes = 0

Outcomes == Ok \cup Failed \cup {Thrown}

Begins(r)  == BeginRead(r) \/ BeginSweep(r)
GoesOn(r) ==
  \/ LooksForNegative(r) \/ SweepReads(r)
  \/ \E outcome \in Outcomes : SweepAsks(r, outcome) \/ Loads(r, outcome)
  \/ Acquires(r) \/ Loses(r) \/ LockFails(r) \/ Releases(r)
  \/ StoresValue(r) \/ StoresFailure(r) \/ StoreFails(r)
  \/ PollsValue(r) \/ PollsNegative(r)

Next ==
  \/ \E r \in Readers : Begins(r) \/ GoesOn(r) \/ Dies(r)
  \/ Tick

Spec == Init /\ [][Next]_vars

\* Node goes on with what it awaits, and every await has a time-out; reads come
\* again and again.  Nothing is assumed of the provider, nor of Redis.
Fairness == WF_vars(Tick) /\ \A r \in Readers : WF_vars(GoesOn(r)) /\ WF_vars(BeginRead(r))

FairSpec == Spec /\ Fairness

-----------------------------------------------------------------------------
(* Properties.                                                             *)

Places == {"idle", "negative", "asking", "kept", "lock", "loading", "release", "store",
           "sleep", "polling"}
Reads == [at : Places, sweep : BOOLEAN, had : BOOLEAN,
          kept : {NoOutcome} \cup Ok \cup Failed, outcome : {NoOutcome} \cup Outcomes,
          token : BOOLEAN, held : 0 .. LockTtl, polls : 0 .. PollAttempts,
          answer : {"none", "value", "breach", "empty", "error"}]

\* Types: ages stay under the retention that evicts, TTLs under the longest.
TypeOK ==
  /\ value \in {NoValue} \cup [age : 0 .. StaleMax, valid : 0 .. TooOld]
  /\ negative \in {0} \cup UNION {1 .. n : n \in NegativeTtls}
  /\ lock \in {NoLock} \cup [owner : Readers \cup {"nobody"}, left : 1 .. LockTtl]
  /\ read \in [Readers -> Reads]
  /\ suppressed \in [Readers -> BOOLEAN]
  /\ crashes \in 0 .. MaxCrashes

\* A winner that stays inside its lock's TTL is alone: whatever overran, died or
\* failed to release before, no second read takes the lock from under it.
Timely(r) == read[r].token /\ read[r].held > 0
OneTimelyOwner ==
  \A r, q \in Readers : Timely(r) /\ Timely(q) => r = q

\* "429 recorded, still serving a 40-minute-old number, still not calling the
\* provider": a read, a revalidation or a sweep that begins while a negative
\* entry binds neither locks nor asks, and answers with the value if there is one.
SuppressedReadsServeWhatTheyHave ==
  \A r \in Readers : suppressed[r] =>
    /\ read[r].at \in {"idle", "negative"}
    /\ At(r, "idle") /\ read[r].had => read[r].answer # "empty"

\* No failed refresh costs the readers a value they could still be served.
FailuresCostNoValue ==
  [][Usable(value) => value' # NoValue \/ value.age = StaleMax]_vars

\* Every read comes to an end, also when the winner it waits for has died.
EveryReadEnds == \A r \in Readers : ~At(r, "idle") ~> At(r, "idle")

\* "NOBODY refreshes and the cache decays to empty": as long as reads come, the value
\* is fresh or the provider is asked, again and again, whatever becomes of the lock
\* and of whoever holds it; and no negative entry suppresses the asking for good.
NeverStopsAsking ==
  []<>(IsFresh(value) \/ \E r \in Readers : read[r].at \in {"asking", "loading"})

\* "A value breaching either staleness ceiling is dropped rather than published."
CeilingsHoldOnTheWayOut == \A r \in Readers : read[r].answer # "breach"

=============================================================================
