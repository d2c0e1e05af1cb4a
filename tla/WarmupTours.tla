---------------------------- MODULE WarmupTours ----------------------------
(***************************************************************************)
(* ScheduledWarmupService on several instances: the Redis lock that lets   *)
(* one of them tour, and what becomes of it.  An instance runs one tour at *)
(* a time (`running').  The lock lives for deadlineMs from the moment it   *)
(* is taken, and the tour's own deadline, as long, starts after it and is  *)
(* only looked at before a target: a tour whose last target is slow goes   *)
(* on without the lock.  Modules that say what a target does extend this   *)
(* one; a tour there is wherever the target put it (`at').                 *)
(***************************************************************************)
EXTENDS Integers

CONSTANTS Instances,
          MaxOutlived   \* bound: how often a tour outlives its lock

\* What is there instead of a token when the key is absent.
Nobody == "nobody"

ASSUME WarmupConstantsOK == MaxOutlived \in Nat /\ Nobody \notin Instances

VARIABLES lock,       \* whose token the lock holds
          at,         \* where the tour of each instance is
          outlived    \* history: how often a lock expired under its tour

lockVars == <<lock, outlived>>

InitTours ==
  /\ lock = Nobody
  /\ at = [i \in Instances |-> "idle"]
  /\ outlived = 0

\* MUTANTS: a definition named Of_How is Of with one plausible slip in the code.
\* None is part of the model; each shows that a property can fail.
LockTaken_Ignored == FALSE
LockTaken == lock # Nobody

\* SET NX PX, and the first target's turn comes.
Take(i, first) ==
  /\ at[i] = "idle"
  /\ ~LockTaken
  /\ lock' = i
  /\ at' = [at EXCEPT ![i] = first]
  /\ UNCHANGED outlived

\* The SET is carried out and its answer lost: the tour is skipped and the lock
\* stays for its time.
AnswerLost(i) ==
  /\ at[i] = "idle"
  /\ ~LockTaken
  /\ lock' = i
  /\ UNCHANGED <<at, outlived>>

Expire ==
  /\ lock # Nobody
  /\ lock' = Nobody
  /\ IF at[lock] = "idle" THEN UNCHANGED outlived
     ELSE /\ outlived < MaxOutlived
          /\ outlived' = outlived + 1
  /\ UNCHANGED at

Released(i) == IF lock = i THEN Nobody ELSE lock

\* Compare-and-delete; when the call fails the lock expires by itself.
Release(i) ==
  /\ lock' \in {Released(i), lock}
  /\ at' = [at EXCEPT ![i] = "idle"]
  /\ UNCHANGED outlived

\* The process dies: its tour is gone, the lock is not.
Die(i) ==
  /\ at[i] # "idle"
  /\ at' = [at EXCEPT ![i] = "idle"]
  /\ UNCHANGED lockVars
=============================================================================
