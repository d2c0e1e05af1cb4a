------------------------ MODULE PendingRegistrations ------------------------
(***************************************************************************)
(* Registration and e-mail verification for one address: its candidates in *)
(* pending_registrations, its account in users, and the requests register, *)
(* resend and verify, which run concurrently.                              *)
(*                                                                         *)
(* A transaction on the candidates starts with one locking SELECT of the   *)
(* whole group: the statement sees the rows committed when it begins       *)
(* (`snap'), takes their locks one at a time in created_at order, waiting  *)
(* where another transaction holds one, and returns the rows as they are   *)
(* when it has them.  A row committed meanwhile is not among them.         *)
(* created_at is the start of the inserting transaction, so candidates are *)
(* numbered when theirs starts.  What a transaction writes shows at its    *)
(* commit, in one step; a statement timeout may end it while it waits.     *)
(*                                                                         *)
(* `parties' stand for the password hashes: a clone keeps its source's.    *)
(* The code of a candidate is known once it is committed; NoCode is a code *)
(* that is nobody's.                                                       *)
(***************************************************************************)
EXTENDS Integers, FiniteSets

CONSTANTS Requests,       \* the requests that run at one time
          Parties,
          MaxActive,      \* PENDING_REGISTRATION_MAX_ACTIVE
          MaxAttempts,    \* EMAIL_VERIFICATION_MAX_ATTEMPTS
          Ttl,            \* EMAIL_VERIFICATION_TTL_MINUTES
          MaxTime,        \* bound: the last instant
          MaxCandidates   \* bound: the transactions that insert

NoAccount == "none"

ASSUME RegistrationConstantsOK ==
  /\ NoAccount \notin Parties
  /\ IsFiniteSet(Requests)
  /\ MaxActive \in Nat \ {0}
  /\ MaxAttempts \in Nat \ {0}
  /\ Ttl \in Nat \ {0}
  /\ MaxCandidates \in Nat
  /\ MaxTime \in Nat

VARIABLES now,       \* the clock
          pending,   \* the committed candidates, by id
          account,   \* whose credentials the account of the address has
          req,       \* the requests
          started    \* candidates numbered so far

vars == <<now, pending, account, req, started>>

Ids == 1 .. MaxCandidates
NoCode == 0
\* `tested' is history: the wrong codes the candidate was tested against.
NoRow == [party |-> NoAccount, expires |-> 0, attempts |-> 0, tested |-> 0]
NoRows == [id \in Ids |-> NoRow]

Idle == [at |-> "idle", op |-> "none", party |-> NoAccount, code |-> NoCode,
         read |-> 0, id |-> 0, snap |-> {}, rows |-> NoRows]

Stands(id)   == pending[id] # NoRow
Standing     == {id \in Ids : Stands(id)}
Expired(row) == row.expires <= now
Live         == {id \in Standing : ~Expired(pending[id])}

\* The rows a request has locked and read.
Group(r) == {id \in Ids : req[r].rows[id] # NoRow}

-----------------------------------------------------------------------------
(* Plumbing.                                                               *)

At(r, where)   == req[r].at = where
Goto(r, where) == req' = [req EXCEPT ![r].at = where]
End(r)         == req' = [req EXCEPT ![r] = Idle]

-----------------------------------------------------------------------------
(* Requests arrive; AuthRateLimits says how many.                          *)

\* register looks for the account: where there is one, no candidate is made.
Register(r, party) ==
  /\ At(r, "idle")
  /\ account = NoAccount
  /\ req' = [req EXCEPT ![r] = [Idle EXCEPT !.at = "begin", !.op = "register", !.party = party]]
  /\ UNCHANGED <<now, pending, account, started>>

\* insertCandidate's transaction starts.  It is READ COMMITTED, so that BEGIN sees
\* nothing: the snapshot is the one of its first statement, the locking SELECT.
Starts(r, request) ==
  /\ started < MaxCandidates
  /\ started' = started + 1
  /\ req' = [req EXCEPT ![r] = [request EXCEPT !.at = "locking", !.snap = Standing,
                                              !.id = started + 1]]
  /\ UNCHANGED <<now, pending, account>>

Begin(r) ==
  /\ At(r, "begin")
  /\ Starts(r, req[r])

\* A resend does not look for the account.
Resend(r) ==
  /\ At(r, "idle")
  /\ Starts(r, [Idle EXCEPT !.op = "resend"])

\* verify: its clock is read, then the candidates it is to lock.
Verify(r, code) ==
  /\ At(r, "idle")
  /\ code \in Standing \union {NoCode}
  /\ req' = [req EXCEPT ![r] = [Idle EXCEPT !.at = "locking", !.op = "verify", !.code = code,
                                           !.read = now, !.snap = Standing]]
  /\ UNCHANGED <<now, pending, account, started>>

-----------------------------------------------------------------------------
(* The locking SELECT, shared by insertCandidate and verify.               *)

Holds(r, id) == id \in Group(r)

\* Rows of the snapshot not locked yet and not deleted meanwhile.
Wanted(r) == {id \in req[r].snap : Stands(id) /\ ~Holds(r, id)}

\* MUTANTS: a definition named Of_How is Of with one plausible slip in the code.
\* None is part of the model; each shows that a property can fail.
Grants_NoLock(r, id) == TRUE
Grants(r, id) == \A other \in Requests \ {r} : ~Holds(other, id)

\* created_at order.
NextRow(r) == {id \in Wanted(r) : \A other \in Wanted(r) : id <= other}

LockRow(r) ==
  /\ At(r, "locking")
  /\ \E id \in NextRow(r) :
       /\ Grants(r, id)
       /\ req' = [req EXCEPT ![r].rows[id] = pending[id]]
  /\ UNCHANGED <<now, pending, account, started>>

\* statement_timeout (57014) ends the wait: nothing is written and a unit that
\* was counted stays counted.
Contention(r) ==
  /\ At(r, "locking")
  /\ Wanted(r) # {}
  /\ End(r)
  /\ UNCHANGED <<now, pending, account, started>>

\* Everything is locked.
Locked(r, op) ==
  /\ At(r, "locking")
  /\ Wanted(r) = {}
  /\ req[r].op = op

-----------------------------------------------------------------------------
(* insertCandidate.                                                        *)

LiveRows(r) == {id \in Group(r) : ~Expired(req[r].rows[id])}

\* Every hash of the group as it was locked, the expired rows' too.
Identities_LiveOnly(r) == {req[r].rows[id].party : id \in LiveRows(r)}
Identities(r) == {req[r].rows[id].party : id \in Group(r)}

AtCeiling_OffByOne(r) == Cardinality(LiveRows(r)) > MaxActive
AtCeiling(r) == Cardinality(LiveRows(r)) >= MaxActive

\* The committed rows after the expired ones of the group are deleted.
Swept_Replaced(r) == [id \in Ids |-> IF id \in Group(r) THEN NoRow ELSE pending[id]]
Swept(r) ==
  [id \in Ids |-> IF id \in Group(r) \ LiveRows(r) THEN NoRow ELSE pending[id]]

Inserts(r, party) ==
  pending' = [Swept(r) EXCEPT ![req[r].id] = [party |-> party, expires |-> now + Ttl,
                                              attempts |-> 0, tested |-> 0]]

\* A register brings its own credentials.
InsertDraft(r) ==
  /\ Locked(r, "register")
  /\ IF AtCeiling(r) THEN pending' = Swept(r) ELSE Inserts(r, req[r].party)
  /\ End(r)
  /\ UNCHANGED <<now, account, started>>

\* A resend clones the newest live candidate, whoever's it is, and mails the code.
InsertClone(r) ==
  /\ Locked(r, "resend")
  /\ Cardinality(Identities(r)) <= 1
  /\ LET newest == {id \in LiveRows(r) : \A other \in LiveRows(r) : other <= id}
     IN IF AtCeiling(r) \/ newest = {}
        THEN pending' = Swept(r)
        ELSE \A id \in newest : Inserts(r, req[r].rows[id].party)
  /\ End(r)
  /\ UNCHANGED <<now, account, started>>

\* 'ambiguous-source': nothing is written.
Ambiguous(r) ==
  /\ Locked(r, "resend")
  /\ Cardinality(Identities(r)) > 1
  /\ End(r)
  /\ UNCHANGED <<now, pending, account, started>>

-----------------------------------------------------------------------------
(* verify.                                                                 *)

\* The candidates a code is tested against, by the clock read at the start.
Testable(r) ==
  {id \in Group(r) : req[r].rows[id].expires > req[r].read
                     /\ req[r].rows[id].attempts < MaxAttempts}

\* A code that is no candidate's is charged to each; no candidate, no charge.
Charge(r) ==
  /\ Locked(r, "verify")
  /\ req[r].code \notin Testable(r)
  /\ pending' = [id \in Ids |->
       IF id \in Testable(r)
       THEN [pending[id] EXCEPT !.attempts = req[r].rows[id].attempts + 1, !.tested = @ + 1]
       ELSE pending[id]]
  /\ End(r)
  /\ UNCHANGED <<now, account, started>>

\* The account is looked for: where there is one the code is refused.
Match(r) ==
  /\ Locked(r, "verify")
  /\ req[r].code \in Testable(r)
  /\ IF account = NoAccount THEN Goto(r, "creating") ELSE End(r)
  /\ UNCHANGED <<now, pending, account, started>>

\* UQ_users_email: another verify made the account since it was looked for.
Violates(r) == account # NoAccount

\* The DELETE names the rows locked; it never waits.
Deletes_WholeAddress(r) == Standing
Deletes(r) == Group(r)

WaitsFor(r, other) ==
  /\ other # r
  /\ \/ At(r, "locking") /\ NextRow(r) # {} /\ NextRow(r) \subseteq Group(other)
     \/ At(r, "creating") /\ Deletes(r) \cap Group(other) # {}

Create(r) ==
  /\ At(r, "creating")
  /\ \A other \in Requests : ~WaitsFor(r, other)
  /\ IF Violates(r)
     THEN UNCHANGED <<pending, account>>
     ELSE /\ account' = req[r].rows[req[r].code].party
          /\ pending' = [id \in Ids |-> IF id \in Deletes(r) THEN NoRow ELSE pending[id]]
  /\ End(r)
  /\ UNCHANGED <<now, started>>

-----------------------------------------------------------------------------

Tick ==
  /\ now < MaxTime
  /\ now' = now + 1
  /\ UNCHANGED <<pending, account, req, started>>

Init ==
  /\ now = 0
  /\ pending = NoRows
  /\ account = NoAccount
  /\ req = [r \in Requests |-> Idle]
  /\ started = 0

Next ==
  \/ Tick
  \/ \E r \in Requests :
       \/ \E party \in Parties : Register(r, party)
       \/ Resend(r) \/ Begin(r)
       \/ \E code \in Ids \union {NoCode} : Verify(r, code)
       \/ LockRow(r) \/ Contention(r)
       \/ InsertDraft(r) \/ InsertClone(r) \/ Ambiguous(r)
       \/ Charge(r) \/ Match(r) \/ Create(r)

Spec == Init /\ [][Next]_vars

-----------------------------------------------------------------------------
(* Properties.                                                             *)

TypeOK ==
  /\ now \in 0 .. MaxTime
  /\ account \in Parties \union {NoAccount}
  /\ started \in 0 .. MaxCandidates
  /\ \A id \in Ids : /\ pending[id].party \in Parties \union {NoAccount}
                     /\ pending[id].expires \in Nat
                     /\ pending[id].attempts \in 0 .. MaxAttempts
  /\ \A r \in Requests : /\ req[r].snap \subseteq 1 .. started
                         /\ Group(r) \subseteq req[r].snap
                         /\ req[r].op \in {"none", "register", "resend", "verify"}

\* Wrong codes that run at the same time are all charged: a candidate's counter
\* is the number of wrong codes ever tested against it, so it is never tested
\* against more than the cap allows (email-verification.service.ts:242-270).
EveryGuessIsCharged ==
  \A id \in Ids : pending[id].attempts = pending[id].tested /\ pending[id].tested <= MaxAttempts

\* The ceiling is tested on the rows a request locked, so requests that overlap
\* may pass it; no more than one row over for each request beside the last
\* (email-verification.service.ts:503).
CeilingPassedOnlyByOverlap == Cardinality(Live) <= MaxActive + Cardinality(Requests) - 1

\* A code that has not expired keeps its row until a code makes the account:
\* no register and no resend takes it away, so what is already in the mailbox
\* stays good (email-verification.service.ts:389-396).
LiveCodesStand ==
  [][\A id \in Live : pending'[id] = NoRow => account # account']_vars

\* The address still has no account when a request that looked for one inserts
\* it, though the two are apart: the lock on the group lets no other verify in
\* between, and the unique key never has to refuse (email-verification.service.ts:272-343).
CheckedIsStillTrue == \A r \in Requests : At(r, "creating") => account = NoAccount

\* A resend never picks a side: a clone's credentials are those of every
\* candidate that stood, expired or not, when the resend looked and still
\* stands (email-verification.service.ts:471-495).
CloneTakesNoSide ==
  [][\A r \in Requests, id \in Ids :
       req[r].op = "resend" /\ req[r].id = id /\ pending'[id] # pending[id]
         => \A other \in req[r].snap :
              Stands(other) => pending[other].party = pending'[id].party]_vars

\* No requests wait for each other in a circle: the two write paths lock in one
\* order, which is not the order in which rows appear, and delete only what they
\* hold (email-verification.service.ts:226-240, 310-330).
NoCircularWait ==
  \A circle \in (SUBSET Requests) \ {{}} :
    \E r \in circle : \A other \in circle : ~WaitsFor(r, other)
=============================================================================
