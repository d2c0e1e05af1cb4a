--------------------- MODULE PendingRegistrationsProofs ---------------------
(***************************************************************************)
(* Proofs about PendingRegistrations, for any number of requests, parties  *)
(* and candidates and any ceiling, cap and lifetime.                       *)
(*                                                                         *)
(* A step is a step of one request.  It changes no other request's locals, *)
(* and of the table only rows that the request holds and the row it was    *)
(* numbered for (`Frame'); its own locals move in one of five ways         *)
(* (`Moves').  Each part of the inductive invariant follows from these.    *)
(***************************************************************************)
EXTENDS PendingRegistrations, FiniteSetTheorems, WellFoundedInduction, TLAPS

Rows == [party : Parties \union {NoAccount}, expires : Nat, attempts : Nat, tested : Nat]

Locals == [at : {"idle", "begin", "locking", "creating"},
           op : {"none", "register", "resend", "verify"},
           party : Parties \union {NoAccount}, code : Ids \union {NoCode}, read : Nat,
           id : 0 .. MaxCandidates, snap : SUBSET Ids, rows : [Ids -> Rows]]

Typed ==
  /\ now \in Nat
  /\ pending \in [Ids -> Rows]
  /\ account \in Parties \union {NoAccount}
  /\ req \in [Requests -> Locals]
  /\ started \in 0 .. MaxCandidates

Inserting(r) == At(r, "locking") /\ req[r].op \in {"register", "resend"}

\* Which operation is where, and who has looked at rows.
Placed ==
  \A r \in Requests :
    /\ req[r].at \in {"idle", "begin"} => req[r].snap = {} /\ req[r].rows = NoRows
    /\ At(r, "idle") => req[r].op = "none"
    /\ At(r, "begin") => req[r].op = "register" /\ req[r].party \in Parties
    /\ At(r, "locking") => req[r].op # "none"
    /\ At(r, "creating") => req[r].op = "verify"
    /\ req[r].op = "register" => req[r].party \in Parties

\* A request holds rows that its statement saw, as they are.
Seen ==
  \A r \in Requests :
    /\ Group(r) \subseteq req[r].snap
    /\ req[r].snap \subseteq 1 .. started
    /\ \A id \in Group(r) : req[r].rows[id] = pending[id]

\* A row lock has one holder.
Apart == \A r, o \in Requests : r # o => Group(r) \cap Group(o) = {}

\* The number of a candidate that is still to be inserted is nobody else's, and
\* nobody has seen it.
Fresh ==
  \A r \in Requests : Inserting(r) =>
    /\ req[r].id \in 1 .. started
    /\ ~Stands(req[r].id)
    /\ \A o \in Requests : req[r].id \notin req[o].snap
    /\ \A o \in Requests \ {r} : Inserting(o) => req[o].id # req[r].id

Numbered == \A id \in Ids : Stands(id) => id <= started

\* Of two statements the later one saw what still stands of the rows of the other.
Nested ==
  \A r, o \in Requests : \/ req[r].snap \cap Standing \subseteq req[o].snap
                         \/ req[o].snap \cap Standing \subseteq req[r].snap

\* Rows are locked in ascending order.
Ascends == \A r \in Requests : \A id \in Group(r), next \in Wanted(r) : id < next

\* A request that creates the account holds the row of its code, and all others.
Creators ==
  \A r \in Requests : At(r, "creating") => req[r].code \in Group(r) /\ Wanted(r) = {}

\* A candidate has somebody's credentials, and ends after it began.
Filled == \A id \in Ids : Stands(id) => pending[id].party \in Parties /\ pending[id].expires > 0

IInv == /\ Typed /\ Placed /\ Seen /\ Apart /\ Fresh /\ Numbered /\ Nested /\ Ascends
        /\ Creators /\ Filled /\ EveryGuessIsCharged /\ CheckedIsStillTrue

-----------------------------------------------------------------------------
(* The five ways in which a request's locals move.                         *)

Frame(r) ==
  /\ \A o \in Requests \ {r} : req'[o] = req[o]
  /\ \A id \in Ids : \/ pending'[id] = pending[id]
                     \/ id \in Group(r)
                     \/ Inserting(r) /\ id = req[r].id
  /\ account' = account \/ At(r, "creating")
  /\ started' >= started

Ends(r) == req'[r] = Idle /\ started' = started

Arrives(r) ==
  /\ pending' = pending /\ started' = started
  /\ \E party \in Parties :
       req'[r] = [Idle EXCEPT !.at = "begin", !.op = "register", !.party = party]

Looks(r) ==
  /\ req[r].at \in {"idle", "begin"}
  /\ pending' = pending
  /\ req'[r].at = "locking" /\ req'[r].snap = Standing /\ req'[r].rows = NoRows
  /\ \/ req'[r].op = "verify" /\ started' = started
     \/ /\ \/ req'[r].op = "resend"
           \/ req'[r].op = "register" /\ req'[r].party \in Parties
        /\ req'[r].id = started + 1 /\ started' = started + 1

Takes(r) ==
  /\ pending' = pending /\ started' = started
  /\ At(r, "locking")
  /\ \E id \in NextRow(r) :
       Grants(r, id) /\ req'[r] = [req[r] EXCEPT !.rows = [@ EXCEPT ![id] = pending[id]]]

Checks(r) ==
  /\ pending' = pending /\ started' = started /\ account' = account
  /\ Locked(r, "verify") /\ account = NoAccount /\ req[r].code \in Group(r)
  /\ req'[r] = [req[r] EXCEPT !.at = "creating"]

Moves(r) == Frame(r) /\ (Ends(r) \/ Arrives(r) \/ Looks(r) \/ Takes(r) \/ Checks(r))

Rests == UNCHANGED <<pending, account, req, started>>

LEMMA Blank ==
  /\ NoRow \in Rows /\ NoRows \in [Ids -> Rows] /\ Idle \in Locals
  /\ NoRow.attempts = 0 /\ NoRow.tested = 0 /\ NoRow.expires = 0
  /\ Idle.snap = {} /\ Idle.rows = NoRows /\ Idle.at = "idle" /\ Idle.op = "none"
  /\ \A id \in Ids : NoRows[id] = NoRow
BY RegistrationConstantsOK DEF NoRow, NoRows, Idle, Rows, Locals, NoCode, Ids

\* A request that holds nothing.
LEMMA Empty ==
  ASSUME NEW r \in Requests
  PROVE  (req[r].rows = NoRows => Group(r) = {}) /\ (req'[r].rows = NoRows => Group(r)' = {})
BY Blank DEF Group

-----------------------------------------------------------------------------

LEMMA EndFrames ==
  ASSUME Typed, NEW r \in Requests, End(r), started' = started,
         account' = account \/ At(r, "creating"),
         \A id \in Ids : \/ pending'[id] = pending[id]
                         \/ id \in Group(r)
                         \/ Inserting(r) /\ id = req[r].id
  PROVE  Moves(r)
<1>1. req'[r] = Idle /\ \A o \in Requests \ {r} : req'[o] = req[o]
  BY DEF End, Typed
<1>2. started' >= started
  BY DEF Typed
<1> QED
  BY <1>1, <1>2 DEF Moves, Frame, Ends

LEMMA SweepFrames ==
  ASSUME Typed, NEW r \in Requests, NEW id \in Ids
  PROVE  Swept(r)[id] = pending[id] \/ id \in Group(r)
BY DEF Swept

\* insertCandidate writes the rows it holds and the one it was numbered for.
LEMMA InsertFrames ==
  ASSUME Typed, NEW r \in Requests, NEW party, Inserts(r, party) \/ pending' = Swept(r),
         NEW id \in Ids
  PROVE  pending'[id] = pending[id] \/ id \in Group(r) \/ id = req[r].id
<1>1. Swept(r)[id] = pending[id] \/ id \in Group(r)
  BY SweepFrames
<1>2. id # req[r].id /\ Inserts(r, party) => pending'[id] = Swept(r)[id]
  BY DEF Inserts, Swept
<1> QED
  BY <1>1, <1>2

LEMMA InsertDraftMoves ==
  ASSUME Typed, NEW r \in Requests, InsertDraft(r)
  PROVE  Moves(r)
<1>1. Inserts(r, req[r].party) \/ pending' = Swept(r)
  BY DEF InsertDraft
<1>2. Inserting(r)
  BY DEF InsertDraft, Locked, Inserting
<1> QED
  BY <1>1, <1>2, InsertFrames, EndFrames DEF InsertDraft

LEMMA InsertCloneWrites ==
  ASSUME NEW r \in Requests, InsertClone(r)
  PROVE  \/ pending' = Swept(r)
         \/ \E id \in LiveRows(r) : Inserts(r, req[r].rows[id].party)
BY DEF InsertClone

LEMMA InsertCloneMoves ==
  ASSUME Typed, NEW r \in Requests, InsertClone(r)
  PROVE  Moves(r)
<1>1. \E party : Inserts(r, party) \/ pending' = Swept(r)
  BY InsertCloneWrites
<1>2. Inserting(r)
  BY DEF InsertClone, Locked, Inserting
<1> QED
  BY <1>1, <1>2, InsertFrames, EndFrames DEF InsertClone

LEMMA ChargeMoves ==
  ASSUME Typed, NEW r \in Requests, Charge(r)
  PROVE  Moves(r)
<1>1. \A id \in Ids : pending'[id] = pending[id] \/ id \in Group(r)
  BY DEF Charge, Testable
<1> QED
  BY <1>1, EndFrames DEF Charge

LEMMA CreateMoves ==
  ASSUME Typed, NEW r \in Requests, Create(r)
  PROVE  Moves(r)
<1>1. \A id \in Ids : pending'[id] = pending[id] \/ id \in Group(r)
  BY DEF Create, Deletes
<1> QED
  BY <1>1, EndFrames DEF Create

LEMMA MatchMoves ==
  ASSUME Typed, NEW r \in Requests, Match(r)
  PROVE  Moves(r)
<1>1. CASE End(r)
  BY <1>1, EndFrames DEF Match
<1>2. CASE account = NoAccount /\ Goto(r, "creating")
  <2>1. req'[r] = [req[r] EXCEPT !.at = "creating"]
    BY <1>2 DEF Goto, Typed
  <2>2. \A o \in Requests \ {r} : req'[o] = req[o]
    BY <1>2 DEF Goto, Typed
  <2>3. req[r].code \in Group(r)
    BY DEF Match, Testable
  <2>4. started' >= started
    BY DEF Match, Typed
  <2> QED
    BY <1>2, <2>1, <2>2, <2>3, <2>4 DEF Moves, Frame, Checks, Match
<1> QED
  BY <1>1, <1>2 DEF Match

LEMMA LockMoves ==
  ASSUME Typed, NEW r \in Requests, LockRow(r)
  PROVE  Moves(r)
<1>1. PICK id \in NextRow(r) :
        Grants(r, id) /\ req' = [req EXCEPT ![r].rows[id] = pending[id]]
  BY DEF LockRow
<1>2. req'[r] = [req[r] EXCEPT !.rows = [@ EXCEPT ![id] = pending[id]]]
  BY <1>1, Zenon DEF Typed
<1>3. \A o \in Requests \ {r} : req'[o] = req[o]
  BY <1>1, Zenon DEF Typed
<1>4. started' >= started
  BY DEF LockRow, Typed
<1> QED
  BY <1>1, <1>2, <1>3, <1>4 DEF Moves, Frame, Takes, LockRow

LEMMA BeginMoves ==
  ASSUME Typed, Placed, NEW r \in Requests, Begin(r)
  PROVE  Moves(r)
<1>1. req[r].at = "begin" /\ req[r] \in Locals /\ Starts(r, req[r])
  BY DEF Begin, At, Typed
<1>2. req[r].rows = NoRows /\ req[r].op = "register" /\ req[r].party \in Parties
  BY <1>1 DEF Placed, At
<1>3. req'[r] = [req[r] EXCEPT !.at = "locking", !.snap = Standing, !.id = started + 1]
  BY <1>1 DEF Starts, Typed
<1>4. \A o \in Requests \ {r} : req'[o] = req[o]
  BY <1>1 DEF Starts, Typed
<1>5. /\ req'[r].at = "locking" /\ req'[r].snap = Standing /\ req'[r].rows = NoRows
      /\ req'[r].op = "register" /\ req'[r].party \in Parties /\ req'[r].id = started + 1
  BY <1>1, <1>2, <1>3 DEF Locals
<1>6. started' = started + 1 /\ started' >= started /\ pending' = pending /\ account' = account
  BY <1>1 DEF Starts, Typed
<1> QED
  BY <1>1, <1>4, <1>5, <1>6 DEF Moves, Frame, Looks

LEMMA ResendMoves ==
  ASSUME Typed, NEW r \in Requests, Resend(r)
  PROVE  Moves(r)
<1>1. req[r].at = "idle" /\ Starts(r, [Idle EXCEPT !.op = "resend"])
  BY DEF Resend, At
<1>2. req'[r] = [Idle EXCEPT !.op = "resend", !.at = "locking", !.snap = Standing,
                             !.id = started + 1]
  BY <1>1 DEF Starts, Typed
<1>3. \A o \in Requests \ {r} : req'[o] = req[o]
  BY <1>1 DEF Starts, Typed
<1>4. /\ req'[r].at = "locking" /\ req'[r].snap = Standing /\ req'[r].rows = NoRows
      /\ req'[r].op = "resend" /\ req'[r].id = started + 1
  BY <1>2 DEF Idle
<1>5. started' = started + 1 /\ started' >= started /\ pending' = pending /\ account' = account
  BY <1>1 DEF Starts, Typed
<1> QED
  BY <1>1, <1>3, <1>4, <1>5 DEF Moves, Frame, Looks

LEMMA RegisterMoves ==
  ASSUME Typed, NEW r \in Requests, NEW party \in Parties, Register(r, party)
  PROVE  Moves(r)
<1>1. \A o \in Requests \ {r} : req'[o] = req[o]
  BY DEF Register, Typed
<1>2. Arrives(r)
  BY DEF Register, Typed, Arrives
<1>3. started' >= started /\ pending' = pending /\ account' = account
  BY DEF Register, Typed
<1> QED
  BY <1>1, <1>2, <1>3 DEF Moves, Frame

LEMMA VerifyMoves ==
  ASSUME Typed, NEW r \in Requests, NEW code \in Ids \union {NoCode}, Verify(r, code)
  PROVE  Moves(r)
<1>1. req'[r] = [Idle EXCEPT !.at = "locking", !.op = "verify", !.code = code,
                             !.read = now, !.snap = Standing]
  BY DEF Verify, Typed
<1>2. \A o \in Requests \ {r} : req'[o] = req[o]
  BY DEF Verify, Typed
<1>3. /\ req'[r].at = "locking" /\ req'[r].snap = Standing /\ req'[r].rows = NoRows
      /\ req'[r].op = "verify"
  BY <1>1, Blank DEF Locals
<1>4. started' = started /\ started' >= started /\ pending' = pending /\ account' = account
  BY DEF Verify, Typed
<1> QED
  BY <1>2, <1>3, <1>4 DEF Moves, Frame, Looks, Verify, At

LEMMA EveryStepMoves ==
  ASSUME Typed, Placed, [Next]_vars
  PROVE  Rests \/ \E r \in Requests : Moves(r)
<1>1. CASE Tick \/ UNCHANGED vars
  BY <1>1 DEF Tick, Rests, vars
<1>2. ASSUME NEW r \in Requests, NEW party \in Parties, Register(r, party)
      PROVE  Moves(r)
  BY <1>2, RegisterMoves
<1>3. ASSUME NEW r \in Requests, NEW code \in Ids \union {NoCode}, Verify(r, code)
      PROVE  Moves(r)
  BY <1>3, VerifyMoves
<1>4. ASSUME NEW r \in Requests, Contention(r) \/ Ambiguous(r)
      PROVE  Moves(r)
  BY <1>4, EndFrames DEF Contention, Ambiguous
<1>5. ASSUME NEW r \in Requests,
             Resend(r) \/ Begin(r) \/ LockRow(r) \/ InsertDraft(r) \/ InsertClone(r)
               \/ Charge(r) \/ Match(r) \/ Create(r)
      PROVE  Moves(r)
  BY <1>5, ResendMoves, BeginMoves, LockMoves, InsertDraftMoves, InsertCloneMoves, ChargeMoves,
     MatchMoves, CreateMoves
<1> QED
  BY <1>1, <1>2, <1>3, <1>4, <1>5 DEF Next

-----------------------------------------------------------------------------
(* What one row may become.                                                *)

RowForms(id) ==
  \/ pending'[id] = pending[id]
  \/ pending'[id] = NoRow
  \/ /\ Stands(id) /\ pending[id].attempts < MaxAttempts
     /\ pending'[id] = [pending[id] EXCEPT !.attempts = @ + 1, !.tested = @ + 1]
  \/ \E party \in Parties :
       pending'[id] = [party |-> party, expires |-> now + Ttl, attempts |-> 0, tested |-> 0]

LEMMA Held ==
  ASSUME Seen, NEW r \in Requests, NEW id \in Group(r)
  PROVE  id \in Ids /\ Stands(id) /\ req[r].rows[id] = pending[id]
BY DEF Seen, Group, Stands

LEMMA InsertRows ==
  ASSUME Typed, NEW r \in Requests, NEW party \in Parties, Inserts(r, party), NEW id \in Ids
  PROVE  RowForms(id)
<1>1. Swept(r) \in [Ids -> Rows]
  BY Blank DEF Swept, Typed
<1>2. Swept(r)[id] = pending[id] \/ Swept(r)[id] = NoRow
  BY DEF Swept
<1> QED
  BY <1>1, <1>2 DEF Inserts, RowForms

LEMMA ChargeRows ==
  ASSUME Typed, Seen, NEW r \in Requests, Charge(r), NEW id \in Ids
  PROVE  RowForms(id)
<1>1. CASE id \in Testable(r)
  <2>1. id \in Group(r) /\ req[r].rows[id].attempts < MaxAttempts
    BY <1>1 DEF Testable
  <2>2. Stands(id) /\ req[r].rows[id] = pending[id]
    BY <2>1, Held
  <2>3. pending'[id] = [pending[id] EXCEPT !.attempts = req[r].rows[id].attempts + 1,
                                           !.tested = @ + 1]
    BY <1>1 DEF Charge
  <2> QED
    BY <2>1, <2>2, <2>3 DEF RowForms
<1> QED
  BY <1>1 DEF Charge, RowForms

LEMMA CloneSource ==
  ASSUME IInv, NEW r \in Requests, NEW id \in LiveRows(r)
  PROVE  req[r].rows[id].party \in Parties
BY Held DEF IInv, LiveRows, Filled

LEMMA EveryRow ==
  ASSUME IInv, [Next]_vars, NEW id \in Ids
  PROVE  RowForms(id)
<1>1. CASE UNCHANGED pending
  BY <1>1 DEF RowForms
<1>2. CASE \E r \in Requests : pending' = Swept(r)
  BY <1>2 DEF RowForms, Swept
<1>3. ASSUME NEW r \in Requests, InsertDraft(r) \/ InsertClone(r) PROVE RowForms(id)
  <2>1. CASE pending' = Swept(r)
    BY <1>2, <2>1
  <2>2. CASE InsertDraft(r) /\ Inserts(r, req[r].party)
    BY <2>2, InsertRows DEF InsertDraft, Locked, Placed, IInv
  <2>3. CASE \E source \in LiveRows(r) : Inserts(r, req[r].rows[source].party)
    BY <2>3, CloneSource, InsertRows DEF IInv
  <2> QED
    BY <1>3, <2>1, <2>2, <2>3, InsertCloneWrites DEF InsertDraft
<1>4. ASSUME NEW r \in Requests, Charge(r) PROVE RowForms(id)
  BY <1>4, ChargeRows DEF IInv
<1>5. ASSUME NEW r \in Requests, Create(r) PROVE RowForms(id)
  BY <1>5 DEF Create, RowForms
<1> QED
  BY <1>1, <1>3, <1>4, <1>5 DEF Next, vars, Tick, Register, Resend, Begin, Starts, Verify,
     LockRow, Contention, Ambiguous, Match

\* The same, field by field.
LEMMA RowFields ==
  ASSUME IInv, [Next]_vars, NEW id \in Ids
  PROVE  /\ pending'[id] \in Rows
         /\ pending'[id].attempts = pending'[id].tested
         /\ pending'[id].tested <= MaxAttempts
         /\ pending'[id] # NoRow
              => pending'[id].party \in Parties /\ pending'[id].expires > 0
<1>1. /\ RowForms(id) /\ pending[id] \in Rows /\ now \in Nat
      /\ Ttl \in Nat /\ Ttl > 0 /\ MaxAttempts \in Nat
  BY EveryRow, RegistrationConstantsOK DEF IInv, Typed
<1>2. /\ pending[id].attempts = pending[id].tested /\ pending[id].tested <= MaxAttempts
      /\ Stands(id) => pending[id].party \in Parties /\ pending[id].expires > 0
  BY DEF IInv, EveryGuessIsCharged, Filled
<1>3. CASE pending'[id] = pending[id]
  BY <1>1, <1>2, <1>3 DEF Stands
<1>4. CASE pending'[id] = NoRow
  BY <1>1, <1>4, Blank
<1>5. CASE /\ Stands(id) /\ pending[id].attempts < MaxAttempts
           /\ pending'[id] = [pending[id] EXCEPT !.attempts = @ + 1, !.tested = @ + 1]
  <2> DEFINE old == pending[id]
  <2>1. pending'[id] = [party |-> old.party, expires |-> old.expires,
                        attempts |-> old.attempts + 1, tested |-> old.tested + 1]
    BY <1>1, <1>5 DEF Rows
  <2> QED
    BY <1>1, <1>2, <1>5, <2>1 DEF Rows
<1>6. CASE \E party \in Parties :
        pending'[id] = [party |-> party, expires |-> now + Ttl, attempts |-> 0, tested |-> 0]
  BY <1>1, <1>6 DEF Rows
<1> QED
  BY <1>1, <1>3, <1>4, <1>5, <1>6 DEF RowForms

LEMMA GuessesStep == ASSUME IInv, [Next]_vars PROVE EveryGuessIsCharged'
BY RowFields DEF EveryGuessIsCharged

LEMMA FilledStep == ASSUME IInv, [Next]_vars PROVE Filled'
BY RowFields DEF Filled, Stands

-----------------------------------------------------------------------------
(* Types.                                                                  *)

LEMMA TypedPending == ASSUME IInv, [Next]_vars PROVE pending' \in [Ids -> Rows]
<1>1. CASE UNCHANGED pending
  BY <1>1 DEF IInv, Typed
<1>2. \A id \in Ids : pending'[id] \in Rows
  BY RowFields
<1>3. CASE \E r \in Requests : pending' = Swept(r)
  BY <1>2, <1>3 DEF Swept
<1>4. CASE \E r \in Requests : \E party : Inserts(r, party)
  BY <1>2, <1>4 DEF Inserts, Swept
<1>5. CASE \E r \in Requests : Charge(r)
  BY <1>2, <1>5 DEF Charge
<1>6. CASE \E r \in Requests : Create(r)
  BY <1>1, <1>2, <1>6 DEF Create
<1>7. ASSUME NEW r \in Requests, InsertDraft(r) \/ InsertClone(r)
      PROVE  pending' = Swept(r) \/ \E party : Inserts(r, party)
  BY <1>7, InsertCloneWrites DEF InsertDraft
<1> QED
  BY <1>1, <1>3, <1>4, <1>5, <1>6, <1>7 DEF Next, vars, Tick, Register, Resend, Begin, Starts,
     Verify, LockRow, Contention, Ambiguous, Match

LEMMA EndTyped == ASSUME Typed, NEW r \in Requests, End(r) PROVE req' \in [Requests -> Locals]
BY Blank DEF End, Typed

LEMMA StartTyped ==
  ASSUME Typed, NEW r \in Requests, Begin(r) \/ Resend(r)
  PROVE  req' \in [Requests -> Locals] /\ started' \in 0 .. MaxCandidates /\ account' = account
<1>1. /\ started \in 0 .. MaxCandidates /\ started < MaxCandidates /\ started' = started + 1
      /\ account' = account
  BY DEF Begin, Resend, Starts, Typed
<1>2. started' \in 0 .. MaxCandidates
  BY <1>1, RegistrationConstantsOK
<1>3. CASE Begin(r)
  <2> DEFINE new == [req[r] EXCEPT !.at = "locking", !.snap = Standing, !.id = started + 1]
  <2>1. req' = [req EXCEPT ![r] = new]
    BY <1>3 DEF Begin, Starts
  <2>2. new \in Locals
    BY <1>1, <1>2 DEF Typed, Locals, Standing
  <2> QED
    BY <1>1, <1>2, <2>1, <2>2 DEF Typed
<1>4. CASE Resend(r)
  <2> DEFINE new == [Idle EXCEPT !.op = "resend", !.at = "locking", !.snap = Standing,
                                 !.id = started + 1]
  <2>1. req' = [req EXCEPT ![r] = new]
    BY <1>4 DEF Resend, Starts, Idle
  <2>2. new \in Locals
    BY <1>1, <1>2, Blank DEF Locals, Standing
  <2> QED
    BY <1>1, <1>2, <2>1, <2>2 DEF Typed
<1> QED
  BY <1>3, <1>4

LEMMA LockTyped ==
  ASSUME Typed, NEW r \in Requests, LockRow(r)
  PROVE  req' \in [Requests -> Locals]
<1>1. PICK id \in NextRow(r) : req' = [req EXCEPT ![r].rows[id] = pending[id]]
  BY DEF LockRow
<1> DEFINE rows == [req[r].rows EXCEPT ![id] = pending[id]]
           new  == [req[r] EXCEPT !.rows = rows]
<1>2. id \in Ids /\ req[r] \in Locals /\ pending[id] \in Rows
  BY DEF NextRow, Wanted, Typed, Locals
<1>3. rows \in [Ids -> Rows]
  BY <1>2 DEF Locals
<1>4. new \in Locals
  BY <1>2, <1>3 DEF Locals
<1>5. req' = [req EXCEPT ![r] = new]
  BY <1>1, Zenon
<1> HIDE DEF new
<1> QED
  BY <1>4, <1>5 DEF Typed

LEMMA TypedStep == ASSUME IInv, [Next]_vars PROVE Typed'
<1> USE DEF IInv
<1>1. pending' \in [Ids -> Rows]
  BY TypedPending
<1>2. CASE Tick \/ UNCHANGED vars
  BY <1>1, <1>2, RegistrationConstantsOK DEF Tick, vars, Typed
<1>3. ASSUME NEW r \in Requests, NEW party \in Parties, Register(r, party) PROVE Typed'
  <2> DEFINE new == [Idle EXCEPT !.at = "begin", !.op = "register", !.party = party]
  <2>1. new \in Locals
    BY Blank DEF Locals
  <2> QED
    BY <1>1, <1>3, <2>1 DEF Register, Typed
<1>4. ASSUME NEW r \in Requests, NEW code \in Ids \union {NoCode}, Verify(r, code) PROVE Typed'
  <2> DEFINE new == [Idle EXCEPT !.at = "locking", !.op = "verify", !.code = code,
                                 !.read = now, !.snap = Standing]
  <2>1. new \in Locals
    BY Blank DEF Locals, Standing, Typed
  <2> QED
    BY <1>1, <1>4, <2>1 DEF Verify, Typed
<1>5. ASSUME NEW r \in Requests, Begin(r) \/ Resend(r) PROVE Typed'
  BY <1>1, <1>5, StartTyped DEF Begin, Resend, Starts, Typed
<1>6. ASSUME NEW r \in Requests, LockRow(r) PROVE Typed'
  BY <1>1, <1>6, LockTyped DEF LockRow, Typed
<1>7. ASSUME NEW r \in Requests,
             Contention(r) \/ InsertDraft(r) \/ InsertClone(r) \/ Ambiguous(r) \/ Charge(r)
      PROVE  Typed'
  BY <1>1, <1>7, EndTyped DEF Contention, InsertDraft, InsertClone, Ambiguous, Charge, Typed
<1>8. ASSUME NEW r \in Requests, Match(r) PROVE Typed'
  <2>1. CASE End(r)
    BY <1>1, <1>8, <2>1, EndTyped DEF Match, Typed
  <2>2. CASE Goto(r, "creating")
    <3>1. [req[r] EXCEPT !.at = "creating"] \in Locals
      BY DEF Typed, Locals
    <3> QED
      BY <1>1, <1>8, <2>2, <3>1 DEF Match, Goto, Typed
  <2> QED
    BY <1>8, <2>1, <2>2 DEF Match
<1>9. ASSUME NEW r \in Requests, Create(r) PROVE Typed'
  <2>1. account' \in Parties \union {NoAccount}
    <3>1. req[r].code \in Group(r)
      BY <1>9 DEF Create, Creators
    <3>2. req[r].rows \in [Ids -> Rows] /\ req[r].code \in Ids
      BY <3>1 DEF Typed, Locals, Group
    <3>3. req[r].rows[req[r].code].party \in Parties \union {NoAccount}
      BY <3>2 DEF Rows
    <3> QED
      BY <1>9, <3>3 DEF Create, Typed
  <2> QED
    BY <1>1, <1>9, <2>1, EndTyped DEF Create, Typed
<1> QED
  BY <1>2, <1>3, <1>4, <1>5, <1>6, <1>7, <1>8, <1>9 DEF Next

-----------------------------------------------------------------------------
(* What a step leaves to the others, and what it makes of its own request. *)

LEMMA OthersStay ==
  ASSUME NEW r \in Requests, Moves(r), NEW o \in Requests \ {r}
  PROVE  /\ req'[o] = req[o]
         /\ Group(o)' = Group(o)
         /\ Inserting(o)' <=> Inserting(o)
BY DEF Moves, Frame, Group, Inserting, At

\* Nobody else writes a row that is held.
LEMMA RowsOfOthersStay ==
  ASSUME IInv, NEW r \in Requests, Moves(r), NEW o \in Requests \ {r}, NEW id \in Group(o)
  PROVE  pending'[id] = pending[id]
<1>1. id \in Ids /\ Stands(id)
  BY Held DEF IInv
<1>2. id \notin Group(r)
  BY DEF IInv, Apart
<1>3. Inserting(r) => id # req[r].id
  BY <1>1 DEF IInv, Fresh
<1> QED
  BY <1>1, <1>2, <1>3 DEF Moves, Frame

\* A row that stands stood before, or has just been inserted.
LEMMA Standers ==
  ASSUME IInv, NEW r \in Requests, Moves(r), NEW id \in Ids, Stands(id)'
  PROVE  Stands(id) \/ (Inserting(r) /\ id = req[r].id)
<1>1. id \in Group(r) => Stands(id)
  BY Held DEF IInv
<1> QED
  BY <1>1 DEF Moves, Frame, Stands

LEMMA SeenStanders ==
  ASSUME IInv, NEW r \in Requests, Moves(r), NEW o \in Requests, NEW id \in req[o].snap,
         Stands(id)', id \in Ids
  PROVE  Stands(id)
BY Standers DEF IInv, Fresh

\* One more row is held, the lowest that was wanted.
LEMMA Taken ==
  ASSUME IInv, NEW r \in Requests, Takes(r)
  PROVE  \E id \in Wanted(r) :
           /\ Grants(r, id) /\ \A other \in Wanted(r) : id <= other
           /\ Group(r)' = Group(r) \union {id}
           /\ Wanted(r)' = Wanted(r) \ {id}
           /\ req'[r].rows[id] = pending[id]
           /\ \A x \in Group(r) : req'[r].rows[x] = req[r].rows[x]
           /\ req'[r].at = req[r].at /\ req'[r].op = req[r].op /\ req'[r].party = req[r].party
           /\ req'[r].id = req[r].id /\ req'[r].snap = req[r].snap
<1>1. PICK id \in NextRow(r) :
        Grants(r, id) /\ req'[r] = [req[r] EXCEPT !.rows = [@ EXCEPT ![id] = pending[id]]]
  BY DEF Takes
<1>2. /\ id \in Wanted(r) /\ \A other \in Wanted(r) : id <= other
      /\ id \in Ids /\ Stands(id) /\ id \in req[r].snap /\ id \notin Group(r)
  BY <1>1 DEF NextRow, Wanted, Holds, IInv, Typed, Locals
<1> DEFINE rows == [req[r].rows EXCEPT ![id] = pending[id]]
<1>3. req[r] \in Locals /\ req[r].rows \in [Ids -> Rows]
  BY DEF IInv, Typed, Locals
<1>4. /\ req'[r].rows = rows
      /\ req'[r].at = req[r].at /\ req'[r].op = req[r].op /\ req'[r].party = req[r].party
      /\ req'[r].id = req[r].id /\ req'[r].snap = req[r].snap
  BY <1>1, <1>3 DEF Locals
<1>5. /\ rows[id] = pending[id]
      /\ \A x \in Ids : x # id => rows[x] = req[r].rows[x]
  BY <1>2, <1>3
<1> HIDE DEF rows
<1>6. Group(r)' = Group(r) \union {id}
  BY <1>2, <1>4, <1>5 DEF Group, Stands
<1>7. Wanted(r)' = Wanted(r) \ {id}
  BY <1>2, <1>4, <1>6 DEF Wanted, Holds, Stands, Takes
<1>8. \A x \in Group(r) : req'[r].rows[x] = req[r].rows[x]
  BY <1>2, <1>4, <1>5 DEF Group
<1> QED
  BY <1>1, <1>2, <1>4, <1>5, <1>6, <1>7, <1>8

LEMMA Checked ==
  ASSUME IInv, NEW r \in Requests, Checks(r)
  PROVE  /\ req'[r].at = "creating" /\ req'[r].op = req[r].op /\ req'[r].party = req[r].party
         /\ req'[r].rows = req[r].rows /\ req'[r].snap = req[r].snap
         /\ req'[r].code = req[r].code
         /\ Group(r)' = Group(r) /\ Wanted(r)' = Wanted(r)
<1>1. req[r] \in Locals
  BY DEF IInv, Typed
<1>2. /\ req'[r].at = "creating" /\ req'[r].op = req[r].op /\ req'[r].party = req[r].party
      /\ req'[r].rows = req[r].rows /\ req'[r].snap = req[r].snap
      /\ req'[r].code = req[r].code
  BY <1>1 DEF Checks, Locals
<1> QED
  BY <1>2 DEF Group, Wanted, Holds, Stands, Checks

\* A request that ends, arrives or looks holds nothing.
LEMMA Emptied ==
  ASSUME NEW r \in Requests, Ends(r) \/ Arrives(r) \/ Looks(r)
  PROVE  /\ Group(r)' = {} /\ req'[r].rows = NoRows
         /\ Ends(r) \/ Arrives(r) => req'[r].snap = {}
<1>1. Ends(r) => req'[r].rows = NoRows /\ req'[r].snap = {}
  BY Blank DEF Ends
<1>2. Arrives(r) => req'[r].rows = NoRows /\ req'[r].snap = {}
  BY DEF Arrives, Idle
<1>3. Looks(r) => req'[r].rows = NoRows
  BY DEF Looks
<1>4. req'[r].rows = NoRows
  BY <1>1, <1>2, <1>3
<1>5. Group(r)' = {}
  BY <1>4, Blank DEF Group
<1> QED
  BY <1>1, <1>2, <1>4, <1>5

-----------------------------------------------------------------------------
(* The parts of the invariant, one by one.                                 *)

LEMMA PlacedStep ==
  ASSUME IInv, NEW r \in Requests, Moves(r)
  PROVE  Placed'
<1> SUFFICES ASSUME NEW o \in Requests
    PROVE  /\ req'[o].at \in {"idle", "begin"} => req'[o].snap = {} /\ req'[o].rows = NoRows
           /\ req'[o].at = "idle" => req'[o].op = "none"
           /\ req'[o].at = "begin" => req'[o].op = "register" /\ req'[o].party \in Parties
           /\ req'[o].at = "locking" => req'[o].op # "none"
           /\ req'[o].at = "creating" => req'[o].op = "verify"
           /\ req'[o].op = "register" => req'[o].party \in Parties
  BY DEF Placed, At
<1>1. CASE o # r
  BY <1>1, OthersStay DEF IInv, Placed, At
<1>2. CASE o = r /\ Ends(r)
  BY <1>2, Blank DEF Ends
<1>3. CASE o = r /\ Arrives(r)
  BY <1>3 DEF Arrives, Idle
<1>4. CASE o = r /\ Looks(r)
  BY <1>4 DEF Looks
<1>5. CASE o = r /\ Takes(r)
  BY <1>5, Taken DEF Takes, IInv, Placed, At
<1>6. CASE o = r /\ Checks(r)
  BY <1>6, Checked DEF Checks, Locked
<1> QED
  BY <1>1, <1>2, <1>3, <1>4, <1>5, <1>6 DEF Moves

LEMMA NumberedStep ==
  ASSUME IInv, NEW r \in Requests, Moves(r), Typed'
  PROVE  Numbered'
<1> SUFFICES ASSUME NEW id \in Ids, Stands(id)' PROVE id <= started'
  BY DEF Numbered
<1>1. id <= started
  BY Standers DEF IInv, Fresh, Numbered, Ids
<1>2. started' >= started
  BY DEF Moves, Frame
<1> QED
  BY <1>1, <1>2 DEF IInv, Typed, Ids

LEMMA SeenStep ==
  ASSUME IInv, NEW r \in Requests, Moves(r), Typed'
  PROVE  Seen'
<1> SUFFICES ASSUME NEW o \in Requests
    PROVE  /\ Group(o)' \subseteq req'[o].snap
           /\ req'[o].snap \subseteq 1 .. started'
           /\ \A id \in Group(o)' : req'[o].rows[id] = pending'[id]
  BY DEF Seen
<1>1. /\ Group(o) \subseteq req[o].snap
      /\ req[o].snap \subseteq 1 .. started
      /\ \A id \in Group(o) : req[o].rows[id] = pending[id]
  BY DEF IInv, Seen
<1>2. 1 .. started \subseteq 1 .. started'
  BY DEF Moves, Frame, IInv, Typed
<1>3. CASE o # r
  BY <1>1, <1>2, <1>3, OthersStay, RowsOfOthersStay
<1>4. CASE o = r /\ (Ends(r) \/ Arrives(r))
  BY <1>4, Emptied
<1>5. CASE o = r /\ Looks(r)
  <2>1. Standing \subseteq 1 .. started
    BY DEF Standing, IInv, Numbered, Ids, Typed
  <2> QED
    BY <1>2, <1>5, <2>1, Emptied DEF Looks
<1>6. CASE o = r /\ Takes(r)
  <2>1. PICK id \in Wanted(r) :
          /\ Group(r)' = Group(r) \union {id}
          /\ req'[r].rows[id] = pending[id]
          /\ \A x \in Group(r) : req'[r].rows[x] = req[r].rows[x]
          /\ req'[r].snap = req[r].snap
    BY <1>6, Taken
  <2>2. id \in req[r].snap /\ pending' = pending
    BY <1>6, <2>1 DEF Wanted, Takes
  <2> QED
    BY <1>1, <1>2, <1>6, <2>1, <2>2
<1>7. CASE o = r /\ Checks(r)
  <2>1. pending' = pending
    BY <1>7 DEF Checks
  <2> QED
    BY <1>1, <1>2, <1>7, <2>1, Checked
<1> QED
  BY <1>3, <1>4, <1>5, <1>6, <1>7 DEF Moves

\* A row is granted to a request only while no other holds it.
LEMMA GroupsApart ==
  ASSUME IInv, NEW r \in Requests, Moves(r), NEW o \in Requests \ {r}
  PROVE  Group(r)' \cap Group(o)' = {}
<1>1. Group(o)' = Group(o) /\ Group(r) \cap Group(o) = {}
  BY OthersStay DEF IInv, Apart
<1>2. CASE Ends(r) \/ Arrives(r) \/ Looks(r)
  BY <1>2, Emptied
<1>3. CASE Takes(r)
  BY <1>1, <1>3, Taken DEF Grants, Holds
<1>4. CASE Checks(r)
  BY <1>1, <1>4, Checked
<1> QED
  BY <1>2, <1>3, <1>4 DEF Moves

LEMMA ApartStep ==
  ASSUME IInv, NEW r \in Requests, Moves(r)
  PROVE  Apart'
<1> SUFFICES ASSUME NEW p \in Requests, NEW o \in Requests, p # o
             PROVE  Group(p)' \cap Group(o)' = {}
  BY DEF Apart
<1>1. CASE p = r \/ o = r
  BY <1>1, GroupsApart
<1>2. CASE p # r /\ o # r
  BY <1>2, OthersStay DEF IInv, Apart
<1> QED
  BY <1>1, <1>2

\* What a request has seen, it had seen before or stood until now.
LEMMA Sight ==
  ASSUME IInv, NEW r \in Requests, Moves(r)
  PROVE  \/ req'[r].snap = {} \/ req'[r].snap = req[r].snap
         \/ req'[r].snap = Standing /\ pending' = pending
<1>1. CASE Ends(r) \/ Arrives(r)
  BY <1>1, Emptied
<1>2. CASE Looks(r)
  BY <1>2 DEF Looks
<1>3. CASE Takes(r)
  BY <1>3, Taken
<1>4. CASE Checks(r)
  BY <1>4, Checked
<1> QED
  BY <1>1, <1>2, <1>3, <1>4 DEF Moves

\* A request is to insert a number it has just been given, or was given before.
LEMMA Number ==
  ASSUME IInv, NEW r \in Requests, Moves(r), Inserting(r)'
  PROVE  /\ pending' = pending
         /\ \/ Inserting(r) /\ req'[r].id = req[r].id
            \/ req'[r].id = started + 1 /\ started' = started + 1
<1>1. req'[r].at = "locking"
  BY DEF Inserting, At
<1>4. ~Ends(r)
  BY <1>1, Blank DEF Ends
<1>5. ~Arrives(r)
  BY <1>1 DEF Arrives, Idle
<1>6. ~Checks(r)
  BY <1>1, Checked
<1>2. CASE Looks(r)
  BY <1>2 DEF Looks, Inserting
<1>3. CASE Takes(r)
  BY <1>3, Taken DEF Inserting, At, Takes
<1> QED
  BY <1>2, <1>3, <1>4, <1>5, <1>6 DEF Moves

LEMMA FreshStep ==
  ASSUME IInv, NEW r \in Requests, Moves(r), Typed'
  PROVE  Fresh'
<1> SUFFICES ASSUME NEW o \in Requests, Inserting(o)'
    PROVE  /\ req'[o].id \in 1 .. started'
           /\ ~Stands(req[o].id)'
           /\ \A p \in Requests : req'[o].id \notin req'[p].snap
           /\ \A p \in Requests \ {o} : Inserting(p)' => req'[p].id # req'[o].id
  BY DEF Fresh
<1>1. started \in Nat /\ started' \in Nat /\ started' >= started
  BY DEF IInv, Typed, Moves, Frame
<1>2. \A p \in Requests : Inserting(p) => /\ req[p].id \in 1 .. started /\ ~Stands(req[p].id)
                                          /\ \A q \in Requests : req[p].id \notin req[q].snap
  BY DEF IInv, Fresh
<1>3. \A p \in Requests : req[p].snap \subseteq 1 .. started
  BY DEF IInv, Seen
<1>4. Standing \subseteq 1 .. started
  BY <1>1 DEF Standing, IInv, Numbered, Ids
<1>5. \A p \in Requests \ {r} : /\ req'[p] = req[p] /\ (Inserting(p)' <=> Inserting(p))
  BY OthersStay
<1>6. CASE Inserting(o) /\ req'[o].id = req[o].id
  <2>1. req[o].id \in Ids
    <3>1. started \in 0 .. MaxCandidates /\ MaxCandidates \in Nat
      BY RegistrationConstantsOK DEF IInv, Typed
    <3>2. req[o].id \in 1 .. started
      BY <1>2, <1>6
    <3> QED
      BY <3>1, <3>2 DEF Ids
  <2>2. pending'[req[o].id] = NoRow
    <3>1. pending[req[o].id] = NoRow
      BY <1>2, <1>6 DEF Stands
    <3>2. CASE o = r
      BY <3>1, <3>2, Number
    <3>3. CASE o # r
      <4>1. ~(Inserting(r) /\ req[o].id = req[r].id)
        BY <1>6, <3>3 DEF IInv, Fresh
      <4>2. PICK id \in Ids : id = req[o].id
        BY <2>1
      <4>3. pending'[id] = NoRow
        BY <3>1, <4>1, <4>2, Standers DEF Stands
      <4> QED
        BY <4>2, <4>3
    <3> QED
      BY <3>2, <3>3
  <2>3. \A p \in Requests : req'[o].id \notin req'[p].snap
    <3> TAKE p \in Requests
    <3>1. CASE p # r
      BY <1>2, <1>5, <1>6, <3>1
    <3>2. CASE p = r
      BY <1>2, <1>6, <3>2, Sight DEF Standing
    <3> QED
      BY <3>1, <3>2
  <2>4. ASSUME NEW p \in Requests \ {o}, Inserting(p)' PROVE req'[p].id # req'[o].id
    <3>1. Inserting(p) => req[p].id # req[o].id
      BY <1>6 DEF IInv, Fresh
    <3>2. CASE p # r
      BY <1>5, <1>6, <2>4, <3>1, <3>2
    <3>3. CASE p = r
      BY <1>1, <1>2, <1>6, <2>4, <3>1, <3>3, Number
    <3> QED
      BY <3>2, <3>3
  <2>5. req'[o].id \in 1 .. started'
    BY <1>1, <1>2, <1>6
  <2>6. ~Stands(req[o].id)'
    BY <1>6, <2>2 DEF Stands
  <2> QED
    BY <2>3, <2>4, <2>5, <2>6
<1>7. CASE o = r /\ req'[r].id = started + 1 /\ started' = started + 1 /\ pending' = pending
  <2>1. \A p \in Requests : req'[r].id \notin req'[p].snap
    <3> TAKE p \in Requests
    <3>1. CASE p # r
      BY <1>1, <1>3, <1>5, <1>7, <3>1
    <3>2. CASE p = r
      BY <1>1, <1>3, <1>4, <1>7, <3>2, Sight
    <3> QED
      BY <3>1, <3>2
  <2>2. ~Stands(req[r].id)'
    <3>1. req'[r].id \in Ids /\ req'[r].id \notin Standing
      BY <1>1, <1>4, <1>7 DEF Typed, Ids
    <3> QED
      BY <1>7, <3>1 DEF Standing, Stands
  <2>3. \A p \in Requests \ {r} : Inserting(p)' => req'[p].id # req'[r].id
    BY <1>1, <1>2, <1>5, <1>7
  <2>4. req'[r].id \in 1 .. started'
    BY <1>1, <1>7
  <2> QED
    BY <1>7, <2>1, <2>2, <2>3, <2>4
<1> QED
  BY <1>5, <1>6, <1>7, Number

\* Rows only leave what a statement saw, and what a request still wants.
LEMMA SightShrinks ==
  ASSUME IInv, NEW r \in Requests, Moves(r), NEW o \in Requests
  PROVE  req[o].snap \cap Standing' \subseteq req[o].snap \cap Standing
BY SeenStanders DEF Standing

LEMMA WantsShrink ==
  ASSUME IInv, NEW r \in Requests, Moves(r), NEW o \in Requests \ {r}
  PROVE  Wanted(o)' \subseteq Wanted(o)
<1>1. req'[o] = req[o] /\ Group(o)' = Group(o)
  BY OthersStay
<1> SUFFICES ASSUME NEW id \in Wanted(o)' PROVE id \in Wanted(o)
  OBVIOUS
<1>2. id \in req[o].snap /\ Stands(id)' /\ id \notin Group(o)
  BY <1>1 DEF Wanted, Holds
<1>3. id \in Ids
  BY <1>2 DEF IInv, Typed, Locals
<1>4. Stands(id)
  BY <1>2, <1>3, SeenStanders
<1> QED
  BY <1>2, <1>4 DEF Wanted, Holds

LEMMA NestedWithActor ==
  ASSUME IInv, NEW r \in Requests, Moves(r), NEW o \in Requests
  PROVE  \/ req'[r].snap \cap Standing' \subseteq req'[o].snap
         \/ req'[o].snap \cap Standing' \subseteq req'[r].snap
<1>1. CASE o = r
  BY <1>1
<1>2. CASE o # r /\ req'[r].snap = {}
  BY <1>2
<1>3. CASE o # r /\ req'[r].snap = req[r].snap
  BY <1>3, OthersStay, SightShrinks DEF IInv, Nested
<1>4. CASE o # r /\ req'[r].snap = Standing
  <2>1. req'[o].snap = req[o].snap
    BY <1>4, OthersStay
  <2> QED
    BY <1>4, <2>1, SightShrinks
<1> QED
  BY <1>1, <1>2, <1>3, <1>4, Sight

LEMMA NestedStep ==
  ASSUME IInv, NEW r \in Requests, Moves(r)
  PROVE  Nested'
<1> SUFFICES ASSUME NEW p \in Requests, NEW o \in Requests
             PROVE  \/ req'[p].snap \cap Standing' \subseteq req'[o].snap
                    \/ req'[o].snap \cap Standing' \subseteq req'[p].snap
  BY DEF Nested
<1>1. CASE p = r \/ o = r
  BY <1>1, NestedWithActor
<1>2. CASE p # r /\ o # r
  <2>1. req'[p].snap = req[p].snap /\ req'[o].snap = req[o].snap
    BY <1>2, OthersStay
  <2> QED
    BY <2>1, SightShrinks DEF IInv, Nested
<1> QED
  BY <1>1, <1>2

LEMMA AscendsStep ==
  ASSUME IInv, NEW r \in Requests, Moves(r)
  PROVE  Ascends'
<1> SUFFICES ASSUME NEW o \in Requests, NEW id \in Group(o)', NEW next \in Wanted(o)'
             PROVE  id < next
  BY DEF Ascends
<1>1. \A held \in Group(o), wanted \in Wanted(o) : held < wanted
  BY DEF IInv, Ascends
<1>2. CASE o # r
  BY <1>1, <1>2, OthersStay, WantsShrink
<1>3. CASE o = r /\ (Ends(r) \/ Arrives(r) \/ Looks(r))
  BY <1>3, Emptied
<1>4. CASE o = r /\ Takes(r)
  <2>1. PICK taken \in Wanted(r) : /\ \A other \in Wanted(r) : taken <= other
                                   /\ Group(r)' = Group(r) \union {taken}
                                   /\ Wanted(r)' = Wanted(r) \ {taken}
    BY <1>4, Taken
  <2>2. taken \in Nat /\ next \in Nat /\ next \in Wanted(r) /\ next # taken
    BY <1>4, <2>1 DEF Wanted, IInv, Typed, Locals, Ids
  <2> QED
    BY <1>1, <1>4, <2>1, <2>2
<1>5. CASE o = r /\ Checks(r)
  BY <1>1, <1>5, Checked
<1> QED
  BY <1>2, <1>3, <1>4, <1>5 DEF Moves

LEMMA OnlyMatchCreates ==
  ASSUME IInv, NEW r \in Requests, Moves(r), req'[r].at = "creating"
  PROVE  Checks(r)
<1>1. ~Ends(r)
  BY Blank DEF Ends
<1>2. ~Arrives(r)
  BY DEF Arrives, Idle
<1>3. ~Looks(r)
  BY DEF Looks
<1>4. ~Takes(r)
  BY Taken DEF Takes, At
<1> QED
  BY <1>1, <1>2, <1>3, <1>4 DEF Moves

LEMMA CreatorsStep ==
  ASSUME IInv, NEW r \in Requests, Moves(r)
  PROVE  Creators'
<1> SUFFICES ASSUME NEW o \in Requests, req'[o].at = "creating"
             PROVE  req'[o].code \in Group(o)' /\ Wanted(o)' = {}
  BY DEF Creators, At
<1>1. CASE o # r
  BY <1>1, OthersStay, WantsShrink DEF IInv, Creators, At
<1>2. CASE o = r /\ Checks(r)
  BY <1>2, Checked DEF Checks, Locked
<1> QED
  BY <1>1, <1>2, OnlyMatchCreates

\* Of two requests that hold all that stands of what they saw, one saw all that
\* the other holds; so no two can create at once.
LEMMA OneCreator ==
  ASSUME IInv, NEW r \in Requests, NEW o \in Requests, r # o, At(r, "creating")
  PROVE  ~At(o, "creating")
<1> SUFFICES ASSUME At(o, "creating") PROVE FALSE
  OBVIOUS
<1>1. \A p \in {r, o} : /\ req[p].code \in Group(p)
                        /\ Group(p) = req[p].snap \cap Standing
  <2> TAKE p \in {r, o}
  <2>1. req[p].code \in Group(p) /\ Wanted(p) = {}
    BY DEF IInv, Creators
  <2>2. Group(p) \subseteq req[p].snap \cap Standing
    BY Held DEF IInv, Seen, Standing
  <2>3. req[p].snap \cap Standing \subseteq Group(p)
    BY <2>1 DEF Wanted, Holds, Standing
  <2> QED
    BY <2>1, <2>2, <2>3
<1>2. Group(r) \subseteq Group(o) \/ Group(o) \subseteq Group(r)
  BY <1>1 DEF IInv, Nested
<1>3. Group(r) \cap Group(o) = {}
  BY DEF IInv, Apart
<1> QED
  BY <1>1, <1>2, <1>3

LEMMA CheckedStep ==
  ASSUME IInv, NEW r \in Requests, Moves(r)
  PROVE  CheckedIsStillTrue'
<1> SUFFICES ASSUME NEW o \in Requests, req'[o].at = "creating"
             PROVE  account' = NoAccount
  BY DEF CheckedIsStillTrue, At
<1>1. CASE o # r
  <2>1. At(o, "creating")
    BY <1>1, OthersStay DEF At
  <2>2. account = NoAccount /\ ~At(r, "creating")
    BY <1>1, <2>1, OneCreator DEF IInv, CheckedIsStillTrue
  <2> QED
    BY <2>2 DEF Moves, Frame
<1>2. CASE o = r /\ Checks(r)
  BY <1>2 DEF Checks
<1> QED
  BY <1>1, <1>2, OnlyMatchCreates

-----------------------------------------------------------------------------
(* The invariant holds.                                                    *)

LEMMA InitOK == ASSUME Init PROVE IInv
<1>1. Typed
  BY Blank, RegistrationConstantsOK DEF Init, Typed
<1>2. /\ \A r \in Requests : req[r] = Idle /\ Group(r) = {} /\ req[r].snap = {}
      /\ Standing = {} /\ \A id \in Ids : pending[id] = NoRow
  BY Blank DEF Init, Group, Standing, Stands
<1>3. Placed /\ CheckedIsStillTrue /\ Creators
  BY <1>2, Blank DEF Placed, CheckedIsStillTrue, Creators, At
<1>4. Seen /\ Apart /\ Nested /\ Ascends
  BY <1>2 DEF Seen, Apart, Nested, Ascends
<1>5. Fresh
  BY <1>2, Blank DEF Fresh, Inserting, At
<1>6. Numbered /\ Filled
  BY <1>2 DEF Numbered, Filled, Stands
<1>7. EveryGuessIsCharged
  BY <1>2, Blank, RegistrationConstantsOK DEF EveryGuessIsCharged
<1> QED
  BY <1>1, <1>3, <1>4, <1>5, <1>6, <1>7 DEF IInv

LEMMA RestKeeps ==
  ASSUME IInv, Rests, Typed'
  PROVE  /\ Placed' /\ Seen' /\ Apart' /\ Fresh' /\ Numbered' /\ Nested' /\ Ascends'
         /\ Creators' /\ CheckedIsStillTrue'
BY DEF IInv, Rests, Placed, Seen, Apart, Fresh, Numbered, Nested, Ascends, Creators,
   CheckedIsStillTrue, At, Group, Inserting, Stands, Standing, Wanted, Holds

LEMMA StepOK == ASSUME IInv, [Next]_vars PROVE IInv'
<1>1. Typed' /\ Filled' /\ EveryGuessIsCharged'
  BY TypedStep, FilledStep, GuessesStep
<1>2. CASE Rests
  BY <1>1, <1>2, RestKeeps DEF IInv
<1>3. ASSUME NEW r \in Requests, Moves(r) PROVE IInv'
  BY <1>1, <1>3, PlacedStep, SeenStep, ApartStep, FreshStep, NumberedStep, NestedStep,
     AscendsStep, CreatorsStep, CheckedStep DEF IInv
<1> QED
  BY <1>2, <1>3, EveryStepMoves DEF IInv

LEMMA Inductive == Spec => []IInv
<1>1. Init => IInv
  BY InitOK
<1>2. IInv /\ [Next]_vars => IInv'
  BY StepOK
<1> QED
  BY <1>1, <1>2, PTL DEF Spec

-----------------------------------------------------------------------------
(* Waiting.                                                                *)

\* The naturals have no set without a least member, so Ids none without a greatest.
LEMMA Greatest ==
  ASSUME NEW S, S \subseteq Ids, S # {}
  PROVE  \E top \in S : \A id \in S : id <= top
<1> DEFINE T == {MaxCandidates - id : id \in S}
<1>1. T \subseteq Nat /\ T # {}
  <2>1. \A id \in S : MaxCandidates - id \in Nat
    BY RegistrationConstantsOK DEF Ids
  <2>2. PICK id \in S : TRUE
    OBVIOUS
  <2>3. MaxCandidates - id \in T
    OBVIOUS
  <2> QED
    BY <2>1, <2>3
<1>2. IsWellFoundedOn(OpToRel(<, Nat), Nat)
  BY NatLessThanWellFounded, Zenon
<1> HIDE DEF T
<1>3. PICK least \in T : \A n \in T : ~(<<n, least>> \in OpToRel(<, Nat))
  BY <1>1, <1>2, WFMin, Zenon
<1>4. ASSUME NEW n \in T PROVE ~(n < least)
  <2>1. SUFFICES ASSUME n < least PROVE FALSE
    OBVIOUS
  <2>2. <<n, least>> \in Nat \X Nat /\ <<n, least>>[1] < <<n, least>>[2]
    BY <1>1, <2>1
  <2>3. <<n, least>> \in OpToRel(<, Nat)
    BY <2>2, Zenon DEF OpToRel
  <2> QED
    BY <1>3, <2>3
<1>5. PICK top \in S : least = MaxCandidates - top
  BY DEF T
<1>6. ASSUME NEW id \in S PROVE id <= top
  <2>1. MaxCandidates - id \in T
    BY DEF T
  <2>2. ~(MaxCandidates - id < MaxCandidates - top)
    BY <1>4, <1>5, <2>1
  <2>3. id \in Int /\ top \in Int /\ MaxCandidates \in Int
    BY RegistrationConstantsOK DEF Ids
  <2> QED
    BY <2>2, <2>3
<1> QED
  BY <1>6

\* What deletes holds what it deletes, so who waits wants a row that the other
\* holds, and the other, if it waits too, wants one with a higher number.
LEMMA WaitsAscend ==
  ASSUME IInv, NEW r \in Requests, NEW o \in Requests, WaitsFor(r, o)
  PROVE  \E id \in NextRow(r) : /\ id \in Ids
                                /\ \A next \in NextRow(o) : id < next
<1>1. Group(r) \cap Group(o) = {}
  BY DEF WaitsFor, IInv, Apart
<1>2. NextRow(r) # {} /\ NextRow(r) \subseteq Group(o)
  BY <1>1 DEF WaitsFor, Deletes
<1>3. PICK id \in NextRow(r) : id \in Group(o)
  BY <1>2
<1>4. \A next \in Wanted(o) : id < next
  BY <1>3 DEF IInv, Ascends
<1> QED
  BY <1>3, <1>4 DEF NextRow, Group

LEMMA NoCircle == ASSUME IInv PROVE NoCircularWait
<1> SUFFICES ASSUME NEW circle \in SUBSET Requests, circle # {},
                    \A r \in circle : \E o \in circle : WaitsFor(r, o)
             PROVE  FALSE
  BY DEF NoCircularWait
<1> DEFINE S == {id \in Ids : \E r \in circle : id \in NextRow(r)}
<1>1. S \subseteq Ids /\ S # {}
  BY WaitsAscend
<1> HIDE DEF S
<1>2. PICK top \in S : \A id \in S : id <= top
  BY <1>1, Greatest
<1>3. PICK r \in circle : top \in NextRow(r)
  BY DEF S
<1>4. PICK o \in circle : WaitsFor(r, o)
  BY <1>3
<1>5. PICK id \in NextRow(r) : id \in Ids /\ \A next \in NextRow(o) : id < next
  BY <1>4, WaitsAscend
<1>6. id = top
  BY <1>1, <1>3, <1>5 DEF NextRow, Ids
<1>7. PICK p \in circle : WaitsFor(o, p)
  BY <1>4
<1>8. PICK next \in NextRow(o) : next \in Ids
  BY <1>7, WaitsAscend
<1>9. next \in S /\ top < next
  BY <1>4, <1>5, <1>6, <1>8 DEF S
<1> QED
  BY <1>1, <1>2, <1>9 DEF Ids

-----------------------------------------------------------------------------
(* What is in the mailbox, and whose it is.                                *)

LEMMA AtMostOne ==
  ASSUME NEW S, IsFiniteSet(S), Cardinality(S) <= 1, NEW a \in S, NEW b \in S
  PROVE  a = b
<1>1. Cardinality({a}) = 1 /\ IsFiniteSet({a})
  BY FS_Singleton
<1>2. Cardinality({a}) <= Cardinality(S) /\ (Cardinality(S) = Cardinality({a}) => S = {a})
  BY FS_Subset
<1>3. Cardinality(S) \in Nat
  BY FS_CardinalityType
<1> QED
  BY <1>1, <1>2, <1>3

LEMMA IdentitiesFinite == ASSUME NEW r \in Requests PROVE IsFiniteSet(Identities(r))
<1>1. IsFiniteSet(Ids)
  BY FS_Interval, RegistrationConstantsOK DEF Ids
<1>2. IsFiniteSet(Group(r))
  BY <1>1, FS_Subset DEF Group
<1> DEFINE f == [id \in Group(r) |-> req[r].rows[id].party]
<1>3. f \in Surjection(Group(r), Identities(r))
  BY DEF Identities, Surjection
<1> QED
  BY <1>2, <1>3, FS_Surjection

\* Only the clone itself writes the row that a resend was numbered for.
LEMMA CloneIsTheResends ==
  ASSUME IInv, [Next]_vars, NEW r \in Requests, NEW id \in Ids,
         req[r].op = "resend", req[r].id = id, pending'[id] # pending[id]
  PROVE  InsertClone(r)
<1>1. Inserting(r)
  BY DEF IInv, Typed, Locals, Placed, Inserting, At
<1>2. \A o \in Requests : id \notin Group(o) /\ (o # r /\ Inserting(o) => req[o].id # id)
  BY <1>1, Held DEF IInv, Fresh
<1>3. PICK o \in Requests : InsertDraft(o) \/ InsertClone(o) \/ Charge(o) \/ Create(o)
  BY DEF Next, vars, Tick, Register, Resend, Begin, Starts, Verify, LockRow, Contention,
     Ambiguous, Match
<1>4. Moves(o)
  BY <1>3, InsertDraftMoves, InsertCloneMoves, ChargeMoves, CreateMoves DEF IInv
<1>5. o = r
  BY <1>2, <1>4 DEF Moves, Frame
<1>6. ~InsertDraft(r) /\ ~Charge(r)
  BY DEF InsertDraft, Charge, Locked
<1>7. ~Create(r)
  BY DEF Create, At, IInv, Placed
<1> QED
  BY <1>3, <1>5, <1>6, <1>7

LEMMA CloneStep ==
  ASSUME IInv, [Next]_vars
  PROVE  \A r \in Requests, id \in Ids :
           req[r].op = "resend" /\ req[r].id = id /\ pending'[id] # pending[id]
             => \A other \in req[r].snap :
                  Stands(other) => pending[other].party = pending'[id].party
<1> SUFFICES ASSUME NEW r \in Requests, NEW id \in Ids,
                    req[r].op = "resend", req[r].id = id, pending'[id] # pending[id],
                    NEW other \in req[r].snap, Stands(other)
             PROVE  pending[other].party = pending'[id].party
  OBVIOUS
<1>1. InsertClone(r)
  BY CloneIsTheResends
<1>2. id \notin Group(r)
  BY <1>1, Held DEF IInv, Fresh, InsertClone, Locked, Inserting
<1>3. pending' # Swept(r)
  BY <1>2 DEF Swept
<1>4. PICK source \in LiveRows(r) : Inserts(r, req[r].rows[source].party)
  BY <1>1, <1>3, InsertCloneWrites
<1>5. pending'[id].party = req[r].rows[source].party
  BY <1>4 DEF Inserts, Swept
<1>6. other \in Group(r) /\ source \in Group(r)
  BY <1>1, <1>4 DEF InsertClone, Locked, Wanted, Holds, LiveRows
<1>7. req[r].rows[other].party \in Identities(r) /\ req[r].rows[source].party \in Identities(r)
  BY <1>6 DEF Identities
<1>8. req[r].rows[other].party = req[r].rows[source].party
  BY <1>1, <1>7, AtMostOne, IdentitiesFinite DEF InsertClone
<1> QED
  BY <1>5, <1>6, <1>8, Held DEF IInv

LEMMA SweepSparesLive ==
  ASSUME IInv, NEW r \in Requests, NEW id \in Live
  PROVE  Swept(r)[id] = pending[id]
<1>1. id \in Ids /\ ~Expired(pending[id])
  BY DEF Live, Standing
<1>2. id \in Group(r) => id \in LiveRows(r)
  BY <1>1, Held DEF IInv, LiveRows
<1> QED
  BY <1>1, <1>2 DEF Swept

LEMMA LiveStep ==
  ASSUME IInv, [Next]_vars
  PROVE  \A id \in Live : pending'[id] = NoRow => account # account'
<1> SUFFICES ASSUME NEW id \in Live, pending'[id] = NoRow PROVE account # account'
  OBVIOUS
<1>1. id \in Ids /\ pending[id] # NoRow /\ Stands(id)
  BY DEF Live, Standing, Stands
<1>2. PICK r \in Requests : InsertDraft(r) \/ InsertClone(r) \/ Charge(r) \/ Create(r)
  BY <1>1 DEF Next, vars, Tick, Register, Resend, Begin, Starts, Verify, LockRow, Contention,
     Ambiguous, Match
<1>3. ASSUME NEW party, Inserting(r), Inserts(r, party) \/ pending' = Swept(r) PROVE FALSE
  <2>1. id # req[r].id
    <3>1. ~Stands(req[r].id)
      BY <1>3 DEF IInv, Fresh
    <3> QED
      BY <1>1, <3>1 DEF Stands
  <2>2. pending'[id] = Swept(r)[id]
    BY <1>1, <1>3, <2>1 DEF Inserts, Swept
  <2> QED
    BY <1>1, <2>2, SweepSparesLive
<1>4. ~InsertDraft(r)
  BY <1>3 DEF InsertDraft, Locked, Inserting
<1>5. ~InsertClone(r)
  BY <1>3, InsertCloneWrites DEF InsertClone, Locked, Inserting
<1>6. ~Charge(r)
  <2>1. SUFFICES ASSUME Charge(r) PROVE FALSE
    OBVIOUS
  <2>2. pending[id] \in Rows /\ id \in Testable(r)
    BY <1>1, <2>1 DEF Charge, IInv, Typed
  <2>3. pending'[id].tested = pending[id].tested + 1
    BY <1>1, <2>1, <2>2 DEF Charge, Rows
  <2> QED
    BY <2>2, <2>3, Blank DEF Rows
<1>7. ASSUME Create(r) PROVE account' # account
  <2>1. req[r].code \in Group(r)
    BY <1>7 DEF Create, IInv, Creators
  <2>2. req[r].rows[req[r].code].party \in Parties
    <3>1. PICK code \in Group(r) : code = req[r].code
      BY <2>1
    <3> QED
      BY <3>1, Held DEF IInv, Filled
  <2>3. account = NoAccount /\ account' = req[r].rows[req[r].code].party
    BY <1>1, <1>7 DEF Create, Violates
  <2> QED
    BY <2>2, <2>3, RegistrationConstantsOK
<1> QED
  BY <1>2, <1>4, <1>5, <1>6, <1>7

-----------------------------------------------------------------------------
(* The ceiling.  A request still to insert passes it where it saw too few  *)
(* of the candidates; with those that last, each of them is counted once.  *)
(* The count is of what lasts beyond an instant, so that time cannot raise *)
(* it, and of what a statement did not see, so that a deletion by another  *)
(* request cannot: what is left then is what that request did not see.     *)

Lasting(e) == {id \in Standing : pending[id].expires > e}
Passers(L) == {r \in Requests : Inserting(r) /\ Cardinality(L \cap req[r].snap) < MaxActive}
Filters    == {{}} \union {req[r].snap : r \in Requests}
Room(L)    == Cardinality(L) + Cardinality(Passers(L)) <= MaxActive - 1 + Cardinality(Requests)

Capped == \A e \in Nat, F \in Filters : e >= now => Room(Lasting(e) \ F)

\* What a step makes of Passers and Room for one set of candidates.
NextPassers(L) ==
  {r \in Requests : Inserting(r)' /\ Cardinality(L \cap req'[r].snap) < MaxActive}
NextRoom(L) ==
  Cardinality(L) + Cardinality(NextPassers(L)) <= MaxActive - 1 + Cardinality(Requests)

LEMMA FewIds ==
  ASSUME NEW S, S \subseteq Ids
  PROVE  IsFiniteSet(S) /\ Cardinality(S) \in Nat
<1>1. IsFiniteSet(Ids)
  BY FS_Interval, RegistrationConstantsOK DEF Ids
<1> QED
  BY <1>1, FS_Subset, FS_CardinalityType

LEMMA FewRequests ==
  ASSUME NEW S, S \subseteq Requests
  PROVE  /\ IsFiniteSet(S) /\ Cardinality(S) \in Nat /\ Cardinality(Requests) \in Nat
         /\ Cardinality(S) <= Cardinality(Requests)
BY FS_Subset, FS_CardinalityType, RegistrationConstantsOK

LEMMA Smaller ==
  ASSUME NEW S, NEW T, S \subseteq T, IsFiniteSet(T)
  PROVE  IsFiniteSet(S) /\ Cardinality(S) <= Cardinality(T)
BY FS_Subset

LEMMA RoomForFew ==
  ASSUME NEW L, L \subseteq Ids, Cardinality(L) < MaxActive
  PROVE  NextRoom(L)
<1>1. NextPassers(L) \subseteq Requests
  BY DEF NextPassers
<1>2. /\ Cardinality(NextPassers(L)) \in Nat /\ Cardinality(Requests) \in Nat
      /\ Cardinality(NextPassers(L)) <= Cardinality(Requests)
  BY <1>1, FewRequests
<1>3. Cardinality(L) \in Nat /\ MaxActive \in Nat
  BY FewIds, RegistrationConstantsOK
<1> QED
  BY <1>2, <1>3 DEF NextRoom

\* Who starts to insert sees all there is.
LEMMA NoNewPasser ==
  ASSUME IInv, NEW r \in Requests, Moves(r), NEW L, L \subseteq Standing,
         ~(Cardinality(L) < MaxActive)
  PROVE  NextPassers(L) \subseteq Passers(L)
<1> SUFFICES ASSUME NEW o \in Requests, Inserting(o)',
                    Cardinality(L \cap req'[o].snap) < MaxActive
             PROVE  Inserting(o) /\ Cardinality(L \cap req[o].snap) < MaxActive
  BY DEF NextPassers, Passers
<1>1. CASE o # r
  BY <1>1, OthersStay
<1>2. CASE o = r
  <2>1. req'[r].at = "locking"
    BY <1>2 DEF Inserting, At
  <2>2. ~Ends(r) /\ ~Arrives(r) /\ ~Checks(r)
    BY <2>1, Blank, Checked DEF Ends, Arrives, Idle
  <2>3. ~Looks(r)
    <3>1. SUFFICES ASSUME Looks(r) PROVE FALSE
      OBVIOUS
    <3>2. L \cap req'[r].snap = L
      BY <3>1 DEF Looks
    <3> QED
      BY <1>2, <3>2
  <2>4. Takes(r)
    BY <2>2, <2>3 DEF Moves
  <2>5. req'[r].snap = req[r].snap /\ req'[r].at = req[r].at /\ req'[r].op = req[r].op
    BY <2>4, Taken
  <2> QED
    BY <1>2, <2>5 DEF Inserting, At
<1> QED
  BY <1>1, <1>2

LEMMA RoomKept ==
  ASSUME IInv, NEW r \in Requests, Moves(r), NEW L, L \subseteq Standing, Room(L)
  PROVE  NextRoom(L)
<1>1. L \subseteq Ids
  BY DEF Standing
<1>2. CASE Cardinality(L) < MaxActive
  BY <1>1, <1>2, RoomForFew
<1>3. CASE ~(Cardinality(L) < MaxActive)
  <2>1. NextPassers(L) \subseteq Passers(L) /\ Passers(L) \subseteq Requests
    BY <1>3, NoNewPasser DEF Passers
  <2>2. /\ Cardinality(NextPassers(L)) \in Nat /\ Cardinality(Passers(L)) \in Nat
        /\ Cardinality(NextPassers(L)) <= Cardinality(Passers(L))
        /\ Cardinality(Requests) \in Nat
    BY <2>1, FewRequests, Smaller
  <2>3. Cardinality(L) \in Nat /\ MaxActive \in Nat
    BY <1>1, FewIds, RegistrationConstantsOK
  <2> QED
    BY <2>2, <2>3 DEF Room, NextRoom
<1> QED
  BY <1>2, <1>3

\* Who inserts was counted as a passer; now its candidate is.
LEMMA RoomForOne ==
  ASSUME IInv, NEW r \in Requests, Moves(r), Inserting(r), Ends(r),
         NEW L, L \subseteq Standing, Room(L), Cardinality(L \cap req[r].snap) < MaxActive
  PROVE  NextRoom(L \union {req[r].id})
<1> DEFINE M == L \union {req[r].id}
<1>1. req[r].id \notin L /\ \A o \in Requests : req[r].id \notin req[o].snap
  BY DEF IInv, Fresh, Standing
<1>2. NextPassers(M) \subseteq Passers(L) \ {r}
  <2> SUFFICES ASSUME NEW o \in NextPassers(M) PROVE o \in Passers(L) \ {r}
    OBVIOUS
  <2>1. o \in Requests /\ Inserting(o)' /\ Cardinality(M \cap req'[o].snap) < MaxActive
    BY DEF NextPassers
  <2>2. o # r
    BY <2>1, Blank DEF Ends, Inserting, At
  <2>3. req'[o] = req[o] /\ Inserting(o)
    BY <2>1, <2>2, OthersStay
  <2>4. M \cap req'[o].snap = L \cap req[o].snap
    BY <1>1, <2>1, <2>3
  <2> QED
    BY <2>1, <2>2, <2>3, <2>4 DEF Passers
<1>3. r \in Passers(L) /\ Passers(L) \subseteq Requests
  BY DEF Passers
<1>4. /\ IsFiniteSet(Passers(L)) /\ Cardinality(Passers(L)) \in Nat
      /\ Cardinality(NextPassers(M)) \in Nat /\ Cardinality(Requests) \in Nat
  BY <1>2, <1>3, FewRequests
<1>5. Cardinality(Passers(L) \ {r}) = Cardinality(Passers(L)) - 1
      /\ IsFiniteSet(Passers(L) \ {r})
  BY <1>3, <1>4, FS_RemoveElement
<1>6. Cardinality(NextPassers(M)) <= Cardinality(Passers(L)) - 1
  BY <1>2, <1>5, Smaller
<1>7. IsFiniteSet(L) /\ Cardinality(L) \in Nat /\ MaxActive \in Nat
  BY FewIds, RegistrationConstantsOK DEF Standing
<1>8. Cardinality(M) = Cardinality(L) + 1
  BY <1>1, <1>7, FS_AddElement
<1> HIDE DEF M
<1>9. NextRoom(M)
  BY <1>4, <1>6, <1>7, <1>8 DEF Room, NextRoom
<1> QED
  BY <1>9 DEF M

LEMMA LastingIds == ASSUME NEW e PROVE Lasting(e) \subseteq Standing /\ Standing \subseteq Ids
BY DEF Lasting, Standing

\* What is swept had no time left.
LEMMA SweepSparesLasting ==
  ASSUME IInv, NEW r \in Requests, NEW e \in Nat, e >= now, NEW id \in Ids
  PROVE  (Swept(r)[id] # NoRow /\ Swept(r)[id].expires > e) <=> id \in Lasting(e)
<1>1. pending[id] \in Rows /\ now \in Nat
  BY DEF IInv, Typed
<1>2. CASE id \in Group(r) \ LiveRows(r)
  <2>1. req[r].rows[id] = pending[id]
    BY <1>2, Held DEF IInv
  <2>2. pending[id].expires <= now
    BY <1>2, <2>1 DEF LiveRows, Expired
  <2>3. ~(pending[id].expires > e)
    BY <1>1, <2>2 DEF Rows
  <2> QED
    BY <1>2, <2>3 DEF Swept, Lasting
<1>3. CASE id \notin Group(r) \ LiveRows(r)
  BY <1>3 DEF Swept, Lasting, Standing, Stands
<1> QED
  BY <1>2, <1>3

\* The ceiling was tested on all that lasts of what was seen.
LEMMA TestedLasting ==
  ASSUME IInv, NEW r \in Requests, NEW e \in Nat, e >= now, Wanted(r) = {}, ~AtCeiling(r)
  PROVE  Cardinality(Lasting(e) \cap req[r].snap) < MaxActive
<1>1. Lasting(e) \cap req[r].snap \subseteq LiveRows(r)
  <2> SUFFICES ASSUME NEW id \in Lasting(e), id \in req[r].snap PROVE id \in LiveRows(r)
    OBVIOUS
  <2>1. id \in Ids /\ Stands(id) /\ pending[id].expires > e
    BY DEF Lasting, Standing
  <2>2. id \in Group(r)
    BY <2>1 DEF Wanted, Holds
  <2>3. req[r].rows[id] = pending[id]
    BY <2>2, Held DEF IInv
  <2>4. pending[id].expires \in Nat /\ now \in Nat
    BY <2>1 DEF IInv, Typed, Rows
  <2> QED
    BY <2>1, <2>2, <2>3, <2>4 DEF LiveRows, Expired
<1>2. LiveRows(r) \subseteq Ids
  BY DEF LiveRows, Group
<1>3. /\ IsFiniteSet(LiveRows(r)) /\ Cardinality(LiveRows(r)) \in Nat
      /\ Cardinality(Lasting(e) \cap req[r].snap) \in Nat
      /\ Cardinality(Lasting(e) \cap req[r].snap) <= Cardinality(LiveRows(r))
  BY <1>1, <1>2, FewIds, Smaller
<1> QED
  BY <1>3, RegistrationConstantsOK DEF AtCeiling

\* What becomes of the candidates that last.
LastingForms(r, e) ==
  \/ Lasting(e)' = Lasting(e)
  \/ /\ Inserting(r) /\ Ends(r) /\ Cardinality(Lasting(e) \cap req[r].snap) < MaxActive
     /\ Lasting(e)' = Lasting(e) \union {req[r].id}
  \/ Lasting(e)' = Lasting(e) \ req[r].snap

LEMMA LastingUnlessWritten ==
  ASSUME pending' = pending, NEW e
  PROVE  Lasting(e)' = Lasting(e)
BY DEF Lasting, Standing, Stands

LEMMA LastingSwept ==
  ASSUME IInv, NEW r \in Requests, NEW e \in Nat, e >= now, pending' = Swept(r)
  PROVE  Lasting(e)' = Lasting(e)
<1>1. \A id \in Ids : id \in Lasting(e)' <=> (Swept(r)[id] # NoRow /\ Swept(r)[id].expires > e)
  BY DEF Lasting, Standing, Stands
<1>2. \A id \in Ids : id \in Lasting(e)' <=> id \in Lasting(e)
  BY <1>1, SweepSparesLasting
<1>3. Lasting(e) \subseteq Ids /\ Lasting(e)' \subseteq Ids
  BY DEF Lasting, Standing
<1> QED
  BY <1>2, <1>3

LEMMA LastingInserted ==
  ASSUME IInv, NEW r \in Requests, NEW e \in Nat, e >= now, NEW party, Inserts(r, party),
         Inserting(r), req'[r] = Idle, started' = started, Wanted(r) = {}, ~AtCeiling(r)
  PROVE  LastingForms(r, e)
<1>1. req[r].id \in Ids
  BY RegistrationConstantsOK DEF IInv, Typed, Fresh, Ids
<1>2. \A id \in Ids : id # req[r].id => (id \in Lasting(e)' <=> id \in Lasting(e))
  <2> TAKE id \in Ids
  <2>1. id # req[r].id => pending'[id] = Swept(r)[id]
    BY DEF Inserts, Swept
  <2>2. id \in Lasting(e)' <=> (pending'[id] # NoRow /\ pending'[id].expires > e)
    BY DEF Lasting, Standing, Stands
  <2> QED
    BY <2>1, <2>2, SweepSparesLasting
<1>3. req[r].id \notin Lasting(e)
  BY DEF IInv, Fresh, Lasting, Standing
<1>4. Lasting(e) \subseteq Ids /\ Lasting(e)' \subseteq Ids
  BY DEF Lasting, Standing
<1>5. CASE req[r].id \in Lasting(e)'
  <2>1. Lasting(e)' = Lasting(e) \union {req[r].id}
    BY <1>1, <1>2, <1>4, <1>5
  <2> QED
    BY <2>1, TestedLasting DEF LastingForms, Ends
<1>6. CASE req[r].id \notin Lasting(e)'
  <2>1. Lasting(e)' = Lasting(e)
    BY <1>1, <1>2, <1>3, <1>4, <1>6
  <2> QED
    BY <2>1 DEF LastingForms
<1> QED
  BY <1>5, <1>6

LEMMA LastingCharged ==
  ASSUME IInv, NEW r \in Requests, NEW e \in Nat, Charge(r)
  PROVE  Lasting(e)' = Lasting(e)
<1>1. ASSUME NEW id \in Ids
      PROVE  (Stands(id)' <=> Stands(id)) /\ pending'[id].expires = pending[id].expires
  <2>1. CASE id \in Testable(r)
    <3>1. /\ pending[id] \in Rows /\ Stands(id)
          /\ req[r].rows[id] = pending[id]
      BY <2>1, Held DEF IInv, Typed, Testable
    <3>2. pending'[id] = [pending[id] EXCEPT !.attempts = pending[id].attempts + 1,
                                             !.tested = @ + 1]
      BY <2>1, <3>1 DEF Charge
    <3>3. pending'[id].tested = pending[id].tested + 1 /\ pending[id].tested \in Nat
          /\ pending'[id].expires = pending[id].expires
      BY <3>1, <3>2 DEF Rows
    <3>4. pending'[id] # NoRow
      BY <3>3, Blank
    <3> QED
      BY <3>1, <3>3, <3>4 DEF Stands
  <2>2. CASE id \notin Testable(r)
    BY <2>2 DEF Charge, Stands
  <2> QED
    BY <2>1, <2>2
<1> QED
  BY <1>1 DEF Lasting, Standing

LEMMA LastingCreated ==
  ASSUME IInv, NEW r \in Requests, NEW e \in Nat, Create(r)
  PROVE  LastingForms(r, e)
<1>1. CASE pending' = pending
  BY <1>1, LastingUnlessWritten DEF LastingForms
<1>2. CASE pending' = [id \in Ids |-> IF id \in Group(r) THEN NoRow ELSE pending[id]]
  <2>1. Wanted(r) = {} /\ Group(r) \subseteq req[r].snap
    BY DEF IInv, Creators, Seen, Create
  <2>2. \A id \in Standing : id \in Group(r) <=> id \in req[r].snap
    BY <2>1 DEF Wanted, Holds, Standing
  <2>3. \A id \in Ids : id \in Lasting(e)' <=> id \in Lasting(e) /\ id \notin Group(r)
    BY <1>2 DEF Lasting, Standing, Stands
  <2>4. Lasting(e) \subseteq Standing /\ Standing \subseteq Ids /\ Lasting(e)' \subseteq Ids
    BY DEF Lasting, Standing
  <2>5. Lasting(e)' = Lasting(e) \ req[r].snap
    BY <2>2, <2>3, <2>4
  <2> QED
    BY <2>5 DEF LastingForms
<1> QED
  BY <1>1, <1>2 DEF Create, Deletes

LEMMA Written ==
  ASSUME IInv, [Next]_vars
  PROVE  \/ pending' = pending
         \/ \E r \in Requests : InsertDraft(r) \/ InsertClone(r) \/ Charge(r) \/ Create(r)
BY DEF Next, vars, Tick, Register, Resend, Begin, Starts, Verify, LockRow, Contention, Ambiguous,
   Match

LEMMA SomeRequestMoves ==
  ASSUME IInv, [Next]_vars
  PROVE  \/ Rests
         \/ \E r \in Requests : Moves(r) /\ \A e \in Nat : e >= now => LastingForms(r, e)
<1>1. CASE pending' = pending
  BY <1>1, EveryStepMoves, LastingUnlessWritten DEF IInv, LastingForms
<1>2. ASSUME NEW r \in Requests, NEW e \in Nat, e >= now, InsertDraft(r) \/ InsertClone(r)
      PROVE  LastingForms(r, e)
  <2>1. CASE pending' = Swept(r)
    BY <1>2, <2>1, LastingSwept DEF LastingForms
  <2>2. CASE ~(pending' = Swept(r))
    <3>1. /\ Inserting(r) /\ req'[r] = Idle /\ started' = started /\ Wanted(r) = {}
      BY <1>2 DEF InsertDraft, InsertClone, Locked, Inserting, End, IInv, Typed
    <3>2. ~AtCeiling(r)
      BY <1>2, <2>2 DEF InsertDraft, InsertClone
    <3>3. \E party : Inserts(r, party)
      BY <1>2, <2>2, InsertCloneWrites DEF InsertDraft
    <3> QED
      BY <1>2, <3>1, <3>2, <3>3, LastingInserted
  <2> QED
    BY <2>1, <2>2
<1>3. ASSUME NEW r \in Requests, InsertDraft(r) \/ InsertClone(r) \/ Charge(r) \/ Create(r)
      PROVE  Moves(r) /\ \A e \in Nat : e >= now => LastingForms(r, e)
  <2>1. Moves(r)
    BY <1>3, InsertDraftMoves, InsertCloneMoves, ChargeMoves, CreateMoves DEF IInv
  <2>2. \A e \in Nat : e >= now => LastingForms(r, e)
    BY <1>2, <1>3, LastingCharged, LastingCreated DEF LastingForms
  <2> QED
    BY <2>1, <2>2
<1> QED
  BY <1>1, <1>3, Written

\* A new filter is one that was there, or hides all.
LEMMA FilterForms ==
  ASSUME IInv, NEW r \in Requests, Moves(r), NEW F, F \in Filters'
  PROVE  F \in Filters \/ F = Standing'
<1>1. CASE F = {}
  BY <1>1 DEF Filters
<1>2. ASSUME NEW o \in Requests, F = req'[o].snap PROVE F \in Filters \/ F = Standing'
  <2>1. CASE o # r
    BY <1>2, <2>1, OthersStay DEF Filters
  <2>2. CASE o = r
    <3>1. pending' = pending => Standing' = Standing
      BY DEF Standing, Stands
    <3> QED
      BY <1>2, <2>2, <3>1, Sight DEF Filters
  <2> QED
    BY <2>1, <2>2
<1> QED
  BY <1>1, <1>2 DEF Filters

\* What neither of two statements saw is what one of them did not see.
LEMMA OneFilter ==
  ASSUME IInv, NEW F \in Filters, NEW r \in Requests, NEW e
  PROVE  \E G \in Filters : (Lasting(e) \ req[r].snap) \ F = Lasting(e) \ G
<1>1. Lasting(e) \subseteq Standing
  BY LastingIds
<1>2. req[r].snap \in Filters
  BY DEF Filters
<1>3. CASE F = {}
  BY <1>2, <1>3
<1>4. ASSUME NEW o \in Requests, F = req[o].snap
      PROVE  \E G \in Filters : (Lasting(e) \ req[r].snap) \ F = Lasting(e) \ G
  <2>1. CASE F \cap Standing \subseteq req[r].snap
    <3>1. (Lasting(e) \ req[r].snap) \ F = Lasting(e) \ req[r].snap
      BY <1>1, <2>1
    <3> QED
      BY <1>2, <3>1
  <2>2. CASE req[r].snap \cap Standing \subseteq F
    <3>1. (Lasting(e) \ req[r].snap) \ F = Lasting(e) \ F
      BY <1>1, <2>2
    <3> QED
      BY <3>1
  <2> QED
    BY <1>4, <2>1, <2>2 DEF IInv, Nested
<1> QED
  BY <1>3, <1>4 DEF Filters

LEMMA RoomStep ==
  ASSUME IInv, Capped, NEW r \in Requests, Moves(r),
         NEW e \in Nat, e >= now, LastingForms(r, e), NEW F \in Filters,
         NEW K, K = Lasting(e)' \ F
  PROVE  NextRoom(K)
<1>1. ASSUME NEW G \in Filters, NEW L, L = Lasting(e) \ G
      PROVE  L \subseteq Standing /\ Room(L)
  BY <1>1, LastingIds DEF Capped
<1>2. CASE Lasting(e)' = Lasting(e)
  BY <1>1, <1>2, RoomKept
<1>3. CASE /\ Inserting(r) /\ Ends(r) /\ Cardinality(Lasting(e) \cap req[r].snap) < MaxActive
           /\ Lasting(e)' = Lasting(e) \union {req[r].id}
  <2>1. PICK L : L = Lasting(e) \ F
    OBVIOUS
  <2>2. L \subseteq Standing /\ Room(L)
    BY <1>1, <2>1
  <2>3. Cardinality(L \cap req[r].snap) < MaxActive
    <3>1. /\ L \cap req[r].snap \subseteq Lasting(e) \cap req[r].snap
          /\ Lasting(e) \cap req[r].snap \subseteq Ids /\ L \cap req[r].snap \subseteq Ids
      BY <2>1, LastingIds
    <3>2. Cardinality(L \cap req[r].snap) <= Cardinality(Lasting(e) \cap req[r].snap)
      BY <3>1, FewIds, Smaller
    <3>3. /\ Cardinality(L \cap req[r].snap) \in Nat
          /\ Cardinality(Lasting(e) \cap req[r].snap) \in Nat
      BY <3>1, FewIds
    <3> QED
      BY <1>3, <3>2, <3>3, RegistrationConstantsOK
  <2>4. req[r].id \notin F
    BY <1>3 DEF IInv, Fresh, Filters
  <2>5. K = L \union {req[r].id}
    BY <1>3, <2>1, <2>4
  <2> QED
    BY <1>3, <2>2, <2>3, <2>5, RoomForOne
<1>4. CASE Lasting(e)' = Lasting(e) \ req[r].snap
  <2>1. PICK G \in Filters : (Lasting(e) \ req[r].snap) \ F = Lasting(e) \ G
    BY OneFilter
  <2>2. K = Lasting(e) \ G
    BY <1>4, <2>1
  <2> QED
    BY <1>1, <2>2, RoomKept
<1> QED
  BY <1>2, <1>3, <1>4 DEF LastingForms

LEMMA ClockOnlyAdvances == ASSUME IInv, [Next]_vars PROVE now' >= now
<1>1. now \in Nat
  BY DEF IInv, Typed
<1>2. now' = now \/ now' = now + 1
  <2>1. CASE UNCHANGED vars
    BY <2>1 DEF vars
  <2>2. CASE Tick
    BY <2>2 DEF Tick
  <2>3. ASSUME NEW r \in Requests,
               \/ \E party \in Parties : Register(r, party)
               \/ Resend(r) \/ Begin(r)
               \/ \E code \in Ids \union {NoCode} : Verify(r, code)
               \/ LockRow(r) \/ Contention(r)
               \/ InsertDraft(r) \/ InsertClone(r) \/ Ambiguous(r)
               \/ Charge(r) \/ Match(r) \/ Create(r)
        PROVE  now' = now
    BY <2>3, Zenon DEF Register, Resend, Begin, Starts, Verify, LockRow, Contention, InsertDraft,
       InsertClone, Ambiguous, Charge, Match, Create
  <2> QED
    BY <2>1, <2>2, <2>3 DEF Next
<1> QED
  BY <1>1, <1>2

LEMMA CappedStep ==
  ASSUME IInv, Capped, [Next]_vars
  PROVE  Capped'
<1> SUFFICES ASSUME NEW e \in Nat, NEW F, F \in Filters', e >= now'
             PROVE  Room(Lasting(e) \ F)'
  BY DEF Capped
<1>1. e >= now
  BY ClockOnlyAdvances, TypedStep DEF IInv, Typed
<1>2. CASE Rests
  <2>1. /\ F \in Filters /\ Lasting(e)' = Lasting(e)
    BY <1>2 DEF Rests, Filters, Lasting, Standing, Stands
  <2>2. Room(Lasting(e) \ F)
    BY <1>1, <2>1 DEF Capped
  <2> QED
    BY <1>2, <2>1, <2>2 DEF Rests, Room, Passers, Inserting, At
<1>3. ASSUME NEW r \in Requests, Moves(r), LastingForms(r, e) PROVE Room(Lasting(e) \ F)'
  <2>1. PICK K : K = Lasting(e)' \ F
    OBVIOUS
  <2>2. F \in Filters => NextRoom(K)
    BY <1>1, <1>3, <2>1, RoomStep
  <2>3. F = Standing' => NextRoom(K)
    <3>1. F = Standing' => K = {}
      BY <2>1 DEF Lasting
    <3>2. NextRoom({})
      BY FS_EmptySet, RoomForFew, RegistrationConstantsOK
    <3> QED
      BY <3>1, <3>2
  <2>4. NextRoom(K)
    BY <1>3, <2>2, <2>3, FilterForms
  <2> QED
    BY <2>1, <2>4 DEF NextRoom, NextPassers, Room, Passers
<1> QED
  BY <1>1, <1>2, <1>3, SomeRequestMoves

LEMMA InitCapped == ASSUME Init PROVE Capped
<1> SUFFICES ASSUME NEW e \in Nat, NEW F \in Filters PROVE Room(Lasting(e) \ F)
  BY DEF Capped
<1>1. Lasting(e) \ F = {}
  BY Blank DEF Init, Lasting, Standing, Stands
<1>2. Passers({}) = {}
  BY Blank DEF Init, Passers, Inserting, At
<1>3. Cardinality({}) = 0 /\ Cardinality(Requests) \in Nat
  BY FS_EmptySet, FewRequests
<1>4. Room({})
  BY <1>2, <1>3, RegistrationConstantsOK DEF Room
<1> QED
  BY <1>1, <1>4

\* Of what lasts now, unseen by nobody.
LEMMA CeilingFromCapped == ASSUME IInv, Capped PROVE CeilingPassedOnlyByOverlap
<1>1. Live = Lasting(now) \ {}
  BY DEF Live, Lasting, Expired, Standing, IInv, Typed, Rows
<1>2. now \in Nat /\ {} \in Filters
  BY DEF IInv, Typed, Filters
<1>3. Room(Live)
  BY <1>1, <1>2 DEF Capped
<1>4. Live \subseteq Ids /\ Passers(Live) \subseteq Requests
  BY DEF Live, Standing, Passers
<1>5. /\ Cardinality(Live) \in Nat /\ Cardinality(Passers(Live)) \in Nat
      /\ Cardinality(Requests) \in Nat
  BY <1>4, FewIds, FewRequests
<1> QED
  BY <1>3, <1>5, RegistrationConstantsOK DEF Room, CeilingPassedOnlyByOverlap

-----------------------------------------------------------------------------
(* Theorems.                                                               *)

\* Candidates, account and requests stay in their ranges.
THEOREM TypeCorrect == Spec => []Typed
<1>1. IInv => Typed
  BY DEF IInv
<1> QED
  BY <1>1, Inductive, PTL

\* However many wrong codes are tried at once, each counts against every candidate it
\* is tested against (email-verification.service.ts:242-270).
THEOREM GuessesCharged == Spec => []EveryGuessIsCharged
<1>1. IInv => EveryGuessIsCharged
  BY DEF IInv
<1> QED
  BY <1>1, Inductive, PTL

\* Between the look for an account and its INSERT no other verify makes one
\* (email-verification.service.ts:272-343).
THEOREM CheckHolds == Spec => []CheckedIsStillTrue
<1>1. IInv => CheckedIsStillTrue
  BY DEF IInv
<1> QED
  BY <1>1, Inductive, PTL

\* Any number of requests never wait for each other in a circle
\* (email-verification.service.ts:226-240, 310-330).
THEOREM NoDeadlock == Spec => []NoCircularWait
<1>1. IInv => NoCircularWait
  BY NoCircle
<1> QED
  BY <1>1, Inductive, PTL

\* Only the account takes a code that has not expired away
\* (email-verification.service.ts:389-396).
THEOREM LiveCodesSurvive == Spec => LiveCodesStand
<1>1. IInv /\ [Next]_vars => [\A id \in Live : pending'[id] = NoRow => account # account']_vars
  BY LiveStep
<1> QED
  BY <1>1, Inductive, PTL DEF Spec, LiveCodesStand

\* A clone never carries the credentials of one party to the mailbox in place of
\* another's (email-verification.service.ts:471-495).
THEOREM ClonesAreNeutral == Spec => CloneTakesNoSide
<1>1. IInv /\ [Next]_vars =>
        [\A r \in Requests, id \in Ids :
           req[r].op = "resend" /\ req[r].id = id /\ pending'[id] # pending[id]
             => \A other \in req[r].snap :
                  Stands(other) => pending[other].party = pending'[id].party]_vars
  BY CloneStep
<1> QED
  BY <1>1, Inductive, PTL DEF Spec, CloneTakesNoSide

\* The candidates alive are never more than the ceiling and one for each request but
\* one, whatever overlaps (email-verification.service.ts:503).
THEOREM CeilingHolds == Spec => []CeilingPassedOnlyByOverlap
<1>1. Init => IInv /\ Capped
  BY InitOK, InitCapped
<1>2. IInv /\ Capped /\ [Next]_vars => (IInv /\ Capped)'
  BY StepOK, CappedStep DEF IInv
<1>3. IInv /\ Capped => CeilingPassedOnlyByOverlap
  BY CeilingFromCapped
<1> QED
  BY <1>1, <1>2, <1>3, PTL DEF Spec
=============================================================================
