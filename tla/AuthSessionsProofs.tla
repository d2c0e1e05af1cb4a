------------------------- MODULE AuthSessionsProofs -------------------------
(***************************************************************************)
(* Proofs about AuthSessions, for any number of requests and any length of *)
(* the windows, in four parts.                                             *)
(*                                                                         *)
(* Types, and the versions that access tokens carry: neither depends on    *)
(* who holds which row lock.                                               *)
(*                                                                         *)
(* The shape of the session families.  A row that a request has locked is  *)
(* changed by nobody else (Framed), so what the request learned about it   *)
(* still holds when its transaction commits (RowHeld, SuccessorHeld,       *)
(* HitsHeld, UserHeld).  With ids that nothing refers to yet (Fresh) each  *)
(* of the four ways in which a commit writes the table (RowStep) then      *)
(* keeps the families in shape.                                            *)
(*                                                                         *)
(* Revocation: a row that a bulk statement saw is, while it lives, still   *)
(* on the statement's list or among its hits (SeenListed), because nobody  *)
(* revives a row or moves it to another family (Persists), so the re-check *)
(* of the WHERE clause on a locked row can only drop rows that are dead.   *)
(*                                                                         *)
(* The refinement of SessionFamilies: the current token of a family is its *)
(* live row (Represents), and every way of writing the table opens a       *)
(* family, exchanges a token, ends families, closes the account or is not  *)
(* noticed.                                                                *)
(***************************************************************************)
EXTENDS AuthSessions, TLAPS

UserRows == [status : {"ACTIVE", "DISABLED", "DELETED"}, tokenVersion : Nat]

Typed ==
  /\ clock \in Nat
  /\ begun \in 0 .. MaxRequests
  /\ user \in UserRows
  /\ sessions \in [Ids -> SessionRows]
  /\ resetTokens \in [Ids -> TokenRows]
  /\ rowLock \in [Ids -> Requests \cup {NoRequest}]
  /\ userLock \in Requests \cup {NoRequest}
  /\ req \in [Requests -> Locals]
  /\ minted \in SUBSET Nat

\* Where a request can be in each operation, and that a refresh knows its row.
RowKnown(r) ==
  /\ req[r].pc = "successor" => req[r].op = "grace"
  /\ req[r].pc \in {"owner", "rotate"} => req[r].op \in {"refresh", "grace"}
  /\ req[r].op \in {"refresh", "grace", "reuse", "inactive", "logout"} => req[r].row \in Ids

-----------------------------------------------------------------------------
(* Rows.                                                                   *)

\* Ids are the numbers a row can mention, apart from 0.
LEMMA IdsAreNumbers ==
  /\ 0 \in 0 .. MaxRequests
  /\ \A s \in Ids : s \in 0 .. MaxRequests /\ s \in Nat
  /\ 0 \notin Ids
BY ConstantsOK DEF ConstantsOK, Ids

\* A row that does not exist: its fields and its type.
LEMMA NoRowFields ==
  /\ NoRow \in SessionRows
  /\ NoRow.reason = "ABSENT" /\ ~NoRow.graceUsed
  /\ NoRow.familyId = 0 /\ NoRow.rotatedFrom = 0
<1>1. 0 \in 0 .. MaxRequests /\ 0 \in Nat
  BY IdsAreNumbers
<1> QED
  BY <1>1, Zenon DEF NoRow, SessionRows

\* The row of a fresh token.
LEMMA NewRowFields ==
  ASSUME NEW family \in 0 .. MaxRequests, NEW from \in 0 .. MaxRequests, NEW at \in Nat
  PROVE  /\ NewRow(family, from, at) \in SessionRows
         /\ NewRow(family, from, at).reason = "LIVE"
         /\ NewRow(family, from, at).familyId = family
         /\ NewRow(family, from, at).rotatedFrom = from
         /\ ~NewRow(family, from, at).graceUsed
<1>1. at + RefreshTtl \in Nat
  BY ConstantsOK DEF ConstantsOK
<1>2. NoRow \in SessionRows /\ ~NoRow.graceUsed
  BY NoRowFields
<1> QED
  BY <1>1, <1>2, Zenon DEF NewRow, SessionRows

\* Revoking a row rewrites why it is dead and nothing else.
LEMMA RevokeFields ==
  ASSUME NEW row \in SessionRows, NEW reason \in Revocations
  PROVE  /\ Revoke(row, reason) \in SessionRows
         /\ Revoke(row, reason).reason = reason
         /\ Revoke(row, reason).familyId = row.familyId
         /\ Revoke(row, reason).rotatedFrom = row.rotatedFrom
         /\ Revoke(row, reason).graceUsed = row.graceUsed
BY Zenon DEF Revoke, SessionRows

\* Rotating a row revokes it and starts its grace window.
LEMMA RotatedFields ==
  ASSUME NEW row \in SessionRows, NEW at \in Nat
  PROVE  /\ Rotated(row, at) \in SessionRows
         /\ Rotated(row, at).reason = "ROTATED"
         /\ Rotated(row, at).familyId = row.familyId
         /\ Rotated(row, at).rotatedFrom = row.rotatedFrom
         /\ Rotated(row, at).graceUsed = row.graceUsed
BY Zenon DEF Rotated, SessionRows, Revocations

\* Spending the grace of a row changes nothing else.
LEMMA SpendGraceFields ==
  ASSUME NEW row \in SessionRows
  PROVE  /\ SpendGrace(row) \in SessionRows
         /\ SpendGrace(row).reason = row.reason
         /\ SpendGrace(row).familyId = row.familyId
         /\ SpendGrace(row).rotatedFrom = row.rotatedFrom
         /\ SpendGrace(row).graceUsed = TRUE
BY Zenon DEF SpendGrace, SessionRows

\* The locals of a request that has not been accepted.
LEMMA IdleFields ==
  /\ Idle \in Locals
  /\ Idle.pc = "idle" /\ Idle.op = "none" /\ Idle.id = 0 /\ Idle.row = 0
  /\ Idle.successor = 0 /\ Idle.version = 0 /\ Idle.at = 0 /\ Idle.todo = {}
  /\ Idle.seen = {} /\ Idle.hit = {} /\ Idle.tokens = {}
<1>1. 0 \in 0 .. MaxRequests /\ 0 \in Nat
  BY IdsAreNumbers
<1> QED
  BY <1>1, Zenon DEF Idle, Locals, Labels, Operations

-----------------------------------------------------------------------------
(* Locals.                                                                 *)

\* A request that arrives gets its number and starts with the given locals.
LEMMA EnterFields ==
  ASSUME Typed, NEW r \in Requests, Arrive(r), NEW op \in Operations, NEW pc \in Labels,
         NEW locals \in Locals, Enter(r, op, pc, locals)
  PROVE  /\ begun' = begun + 1 /\ begun' \in 1 .. MaxRequests
         /\ req' \in [Requests -> Locals]
         /\ \A q \in Requests : q # r => req'[q] = req[q]
         /\ req'[r].pc = pc /\ req'[r].op = op /\ req'[r].id = begun'
         /\ req'[r].row = locals.row /\ req'[r].successor = locals.successor
         /\ req'[r].version = locals.version /\ req'[r].hit = locals.hit
         /\ req'[r].todo = locals.todo /\ req'[r].seen = locals.seen
<1>1. begun' = begun + 1 /\ begun' \in 1 .. MaxRequests /\ begun + 1 \in 0 .. MaxRequests
  BY ConstantsOK DEF ConstantsOK, Arrive, Typed
<1>2. req \in [Requests -> Locals]
  BY Zenon DEF Typed
<1>3. req' = [req EXCEPT ![r] = [locals EXCEPT !.pc = pc, !.op = op, !.id = begun + 1]]
  BY Zenon DEF Enter
<1> QED
  BY <1>1, <1>2, <1>3, Zenon DEF Locals

\* A request that ends forgets its locals and frees its locks, and only its own.
LEMMA EndFields ==
  ASSUME Typed, NEW r \in Requests, End(r)
  PROVE  /\ req' \in [Requests -> Locals]
         /\ req'[r] = Idle
         /\ \A q \in Requests : q # r => req'[q] = req[q]
         /\ rowLock' \in [Ids -> Requests \cup {NoRequest}]
         /\ userLock' \in Requests \cup {NoRequest}
         /\ \A s \in Ids, q \in Requests : q # r /\ rowLock[s] = q => rowLock'[s] = q
         /\ \A q \in Requests : q # r /\ userLock = q => userLock' = q
BY IdleFields, Zenon DEF End, ReleaseLocks, Typed

-----------------------------------------------------------------------------
(* Types, action by action.                                                *)

\* A request that arrives leaves everything typed.
LEMMA BeginTyped ==
  ASSUME Typed, NEW r \in Requests, Begin(r)
  PROVE  Typed'
<1>1. ASSUME NEW op \in Operations, NEW pc \in Labels, NEW locals \in Locals, Arrive(r),
             Enter(r, op, pc, locals),
             UNCHANGED <<clock, user, sessions, resetTokens, userLock, minted>>,
             \/ UNCHANGED rowLock
             \/ \E s \in Ids : rowLock' = [rowLock EXCEPT ![s] = r]
      PROVE  Typed'
  <2>1. begun' \in 0 .. MaxRequests /\ req' \in [Requests -> Locals]
    <3>1. begun' \in 1 .. MaxRequests /\ req' \in [Requests -> Locals]
      BY <1>1, EnterFields
    <3> QED
      BY <3>1
  <2>2. rowLock' \in [Ids -> Requests \cup {NoRequest}]
    BY <1>1, Zenon DEF Typed
  <2> QED
    BY <1>1, <2>1, <2>2, Zenon DEF Typed
<1>2. /\ {"login", "refresh", "grace", "reuse", "logout", "reset", "change", "delete"}
            \subseteq Operations
      /\ {"issue", "owner", "successor", "bulk", "consume", "user"} \subseteq Labels
  BY Zenon DEF Operations, Labels
<1>3. user.tokenVersion \in Nat /\ clock \in Nat
  BY Zenon DEF Typed, UserRows
<1>4. /\ [Idle EXCEPT !.version = user.tokenVersion] \in Locals
      /\ \A s \in Ids : /\ [Idle EXCEPT !.row = s] \in Locals
                        /\ [Idle EXCEPT !.row = s, !.at = clock] \in Locals
  BY <1>3, IdleFields, IdsAreNumbers, Zenon DEF Locals
<1>5. CASE LoginRead(r)
  BY <1>1, <1>2, <1>4, <1>5, Zenon DEF LoginRead
<1>6. ASSUME NEW s \in Ids, RefreshLive(r, s) \/ RefreshGrace(r, s) \/ RefreshReuse(r, s)
      PROVE  Typed'
  BY <1>1, <1>2, <1>4, <1>6, Zenon DEF RefreshLive, RefreshGrace, RefreshReuse, LockPresented
<1>7. ASSUME NEW s \in Ids, LogoutFind(r, s) \/ ResetResolve(r, s) PROVE Typed'
  BY <1>1, <1>2, <1>4, <1>7, Zenon DEF LogoutFind, ResetResolve
<1>8. ASSUME NEW op \in {"change", "delete"}, ReadAccount(r, op) PROVE Typed'
  BY <1>1, <1>2, <1>4, <1>8, Zenon DEF ReadAccount
<1>9. Arrive(r) => begun' \in 0 .. MaxRequests /\ begun' \in Ids
  BY ConstantsOK DEF ConstantsOK, Arrive, Typed, Ids
<1>10. ASSUME NEW s \in Ids, RefreshExpired(r, s) PROVE Typed'
  <2>1. Revoke(sessions[s], "EXPIRED") \in SessionRows
    BY RevokeFields, Zenon DEF Typed, Revocations
  <2> QED
    BY <1>9, <1>10, <2>1, Zenon DEF RefreshExpired, Typed
<1>11. CASE RequestReset(r)
  <2>1. clock + ResetTtl \in Nat
    BY ConstantsOK DEF ConstantsOK, Typed
  <2>2. [state |-> "OPEN", expiresAt |-> clock + ResetTtl] \in TokenRows
    BY <2>1, Zenon DEF TokenRows
  <2> QED
    BY <1>9, <1>11, <2>2, Zenon DEF RequestReset, Arrive, Typed
<1> QED
  BY <1>5, <1>6, <1>7, <1>8, <1>10, <1>11, Zenon DEF Begin

\* What the commits write to the rows they have locked is a table of rows.
LEMMA WritesTyped ==
  ASSUME Typed, NEW r \in Requests
  PROVE  /\ \A reason \in Revocations : RevokeHits(r, reason) => sessions' \in [Ids -> SessionRows]
         /\ \A old \in 0 .. MaxRequests, at \in Nat :
              req[r].row \in Ids /\ RotateInto(r, old, at) => sessions' \in [Ids -> SessionRows]
         /\ BumpVersion => user' \in UserRows
<1>1. \A s \in Ids : sessions[s] \in SessionRows
  BY Zenon DEF Typed
<1>2. ASSUME NEW reason \in Revocations, RevokeHits(r, reason)
      PROVE  sessions' \in [Ids -> SessionRows]
  BY <1>1, <1>2, RevokeFields, Zenon DEF RevokeHits
<1>3. ASSUME NEW old \in 0 .. MaxRequests, NEW at \in Nat, RotateInto(r, old, at),
             req[r].row \in Ids
      PROVE  sessions' \in [Ids -> SessionRows]
  <2>1. \A s \in Ids : /\ Rotated(sessions[s], at) \in SessionRows
                       /\ SpendGrace(sessions[s]) \in SessionRows
    BY <1>1, RotatedFields, SpendGraceFields, Zenon
  <2>2. NewRow(sessions[req[r].row].familyId, old, at) \in SessionRows
    <3>1. sessions[req[r].row].familyId \in 0 .. MaxRequests
      BY <1>1, <1>3, Zenon DEF SessionRows
    <3> QED
      BY <3>1, NewRowFields
  <2> QED
    BY <1>1, <1>3, <2>1, <2>2, Zenon DEF RotateInto
<1>4. BumpVersion => user' \in UserRows
  <2>1. user.tokenVersion + 1 \in Nat
    BY DEF Typed, UserRows
  <2> QED
    BY <2>1, Zenon DEF BumpVersion, Typed, UserRows
<1> QED
  BY <1>2, <1>3, <1>4, Zenon

\* Both token steps of a reset take rows of the table, and only their label and
\* the rows they have taken are new.
LEMMA TokenSteps ==
  ASSUME NEW r \in Requests, ConsumePresented(r) \/ ConsumeOthers(r)
  PROVE  \E rows \in SUBSET Ids, pc \in {"others", "user"} : TakeTokens(r, rows, pc)
<1>1. {t \in Ids : t = req[r].row /\ resetTokens[t].state # "ABSENT"} \in SUBSET Ids
  OBVIOUS
<1>2. {t \in Ids : resetTokens[t].state = "OPEN"} \in SUBSET Ids
  OBVIOUS
<1> QED
  BY <1>1, <1>2, Zenon DEF ConsumePresented, ConsumeOthers

\* They keep everything else.
LEMMA TokenStepFields ==
  ASSUME Typed, NEW r \in Requests, ConsumePresented(r) \/ ConsumeOthers(r)
  PROVE  /\ req'[r].pc \in {"others", "user"}
         /\ req'[r].id = req[r].id /\ req'[r].op = req[r].op /\ req'[r].row = req[r].row
         /\ req'[r].hit = req[r].hit /\ req'[r].seen = req[r].seen
         /\ req'[r].successor = req[r].successor /\ req'[r].version = req[r].version
         /\ UNCHANGED <<clock, begun, user, sessions, resetTokens, rowLock, userLock, minted>>
<1>1. req \in [Requests -> Locals] /\ req[r] \in Locals
  BY Zenon DEF Typed
<1>2. PICK rows \in SUBSET Ids, pc \in {"others", "user"} : TakeTokens(r, rows, pc)
  BY TokenSteps
<1>3. req'[r] = [req[r] EXCEPT !.pc = pc, !.tokens = req[r].tokens \cup rows]
  BY <1>1, <1>2, Zenon DEF TakeTokens
<1>4. /\ req'[r].pc = pc /\ req'[r].id = req[r].id /\ req'[r].op = req[r].op
      /\ req'[r].row = req[r].row
  BY <1>1, <1>3, Zenon DEF Locals
<1>5. /\ req'[r].hit = req[r].hit /\ req'[r].seen = req[r].seen
      /\ req'[r].successor = req[r].successor /\ req'[r].version = req[r].version
  BY <1>1, <1>3, Zenon DEF Locals
<1>6. UNCHANGED <<clock, begun, user, sessions, resetTokens, rowLock, userLock, minted>>
  BY <1>2, Zenon DEF TakeTokens
<1> QED
  BY <1>4, <1>5, <1>6

\* A request in flight that takes its next step leaves everything typed.
LEMMA ContinueTyped ==
  ASSUME Typed, NEW r \in Requests, RowKnown(r), Continue(r)
  PROVE  Typed'
<1> USE DEF Typed
<1>1. req \in [Requests -> Locals] /\ req[r] \in Locals
  BY Zenon
<1>2. {"owner", "rotate", "bulk", "lockRows", "others", "user", "issue"} \subseteq Labels
  BY Zenon DEF Labels
<1>3. CASE IssueSession(r)
  <2>1. VersionToMint(r) \in Nat
    BY <1>1 DEF VersionToMint, Locals
  <2>2. NewRow(req[r].id, 0, clock) \in SessionRows
    <3>1. req[r].id \in 0 .. MaxRequests
      BY <1>1, Zenon DEF Locals
    <3> QED
      BY <3>1, IdsAreNumbers, NewRowFields
  <2>3. minted' \in SUBSET Nat
    BY <1>3, <2>1, Zenon DEF IssueSession
  <2> QED
    BY <1>3, <2>2, <2>3, EndFields, Zenon DEF IssueSession
<1>4. CASE LockSuccessor(r)
  <2>1. PICK t \in Ids \cup {0} : req' = [req EXCEPT ![r].pc = "owner", ![r].successor = t]
    BY <1>4, Zenon DEF LockSuccessor
  <2>2. t \in 0 .. MaxRequests
    BY <2>1, IdsAreNumbers, Zenon
  <2>3. req' \in [Requests -> Locals]
    BY <1>1, <1>2, <2>1, <2>2, Zenon DEF Locals
  <2>4. rowLock' \in [Ids -> Requests \cup {NoRequest}]
    BY <1>4, Zenon DEF LockSuccessor
  <2> QED
    BY <1>4, <2>3, <2>4, Zenon DEF LockSuccessor
<1>5. CASE ReadOwner(r)
  <2>1. {"reuse", "inactive"} \subseteq Operations /\ user.tokenVersion \in Nat
    BY Zenon DEF Operations, UserRows
  <2>2. (IF req[r].op = "grace" THEN "reuse" ELSE "inactive") \in Operations
    BY <2>1, Zenon
  <2>3. CASE req' = [req EXCEPT ![r].pc = "rotate", ![r].version = user.tokenVersion]
    <3>1. req' \in [Requests -> Locals]
      BY <1>1, <1>2, <2>1, <2>3, Zenon DEF Locals
    <3> QED
      BY <1>5, <3>1, Zenon DEF ReadOwner
  <2>4. CASE req' = [req EXCEPT ![r].pc = "bulk",
                       ![r].op = IF @ = "grace" THEN "reuse" ELSE "inactive"]
    <3>1. req' \in [Requests -> Locals]
      BY <1>1, <1>2, <2>2, <2>4, Zenon DEF Locals
    <3> QED
      BY <1>5, <3>1, Zenon DEF ReadOwner
  <2> QED
    BY <1>5, <2>3, <2>4, Zenon DEF ReadOwner
<1>6. ASSUME NEW old \in 0 .. MaxRequests, NEW at \in Nat, req[r].op \in {"refresh", "grace"},
             RotateInto(r, old, at)
      PROVE  Typed'
  <2>1. req[r].version \in Nat /\ req[r].row \in Ids
    BY <1>1, <1>6, Zenon DEF Locals, RowKnown
  <2>2. sessions' \in [Ids -> SessionRows]
    BY <1>6, <2>1, WritesTyped, Zenon
  <2> QED
    BY <1>6, <2>1, <2>2, EndFields, Zenon DEF RotateInto
<1>7. CASE Rotate(r)
  <2>1. req[r].row \in 0 .. MaxRequests
    BY <1>1, Zenon DEF Locals
  <2> QED
    BY <1>6, <1>7, <2>1, Zenon DEF Rotate
<1>8. CASE Recover(r)
  <2>1. req[r].successor \in 0 .. MaxRequests /\ req[r].at \in Nat
    BY <1>1, Zenon DEF Locals
  <2> QED
    BY <1>6, <1>8, <2>1, Zenon DEF Recover
<1>9. CASE BulkSnapshot(r)
  BY <1>1, <1>2, <1>9, Zenon DEF BulkSnapshot, Locals
<1>10. ASSUME NEW s \in Ids, BulkLock(r, s) PROVE Typed'
  <2>1. CASE rowLock' = [rowLock EXCEPT ![s] = r]
             /\ req' = [req EXCEPT ![r].todo = @ \ {s}, ![r].hit = @ \cup {s}]
    BY <1>1, <1>10, <2>1, Zenon DEF BulkLock, Locals
  <2>2. CASE req' = [req EXCEPT ![r].todo = @ \ {s}] /\ UNCHANGED rowLock
    BY <1>1, <1>10, <2>2, Zenon DEF BulkLock, Locals
  <2> QED
    BY <1>10, <2>1, <2>2, Zenon DEF BulkLock
<1>11. {"ACCOUNT_INACTIVE", "REUSE_DETECTED", "LOGOUT", "PASSWORD_RESET"} \subseteq Revocations
  BY Zenon DEF Revocations
<1>12. CASE InactiveCommit(r) \/ ReuseCommit(r) \/ LogoutCommit(r)
  BY <1>11, <1>12, WritesTyped, EndFields, Zenon DEF InactiveCommit, ReuseCommit, LogoutCommit
<1>13. CASE ConsumePresented(r) \/ ConsumeOthers(r)
  <2>1. PICK rows \in SUBSET Ids, pc \in {"others", "user"} : TakeTokens(r, rows, pc)
    BY <1>13, TokenSteps
  <2>2. req' \in [Requests -> Locals]
    BY <1>1, <1>2, <2>1, Zenon DEF TakeTokens, Locals
  <2> QED
    BY <2>1, <2>2, Zenon DEF TakeTokens
<1>14. CASE LockUser(r)
  <2>1. CASE userLock' = r /\ Goto(r, "bulk")
    BY <1>1, <1>2, <1>14, <2>1, Zenon DEF LockUser, Goto, Locals
  <2>2. CASE req' = [req EXCEPT ![r] = IF @.op = "change" THEN [@ EXCEPT !.pc = "issue"]
                                                          ELSE Idle]
             /\ UNCHANGED userLock
    <3>1. [req[r] EXCEPT !.pc = "issue"] \in Locals
      BY <1>1, <1>2, Zenon DEF Locals
    <3>2. req' \in [Requests -> Locals]
      BY <1>1, <2>2, <3>1, IdleFields, Zenon
    <3> QED
      BY <1>14, <2>2, <3>2, Zenon DEF LockUser
  <2> QED
    BY <1>14, <2>1, <2>2, Zenon DEF LockUser
<1>15. CASE ResetCommit(r)
  <2>1. resetTokens' \in [Ids -> TokenRows]
    BY <1>15, Zenon DEF ResetCommit, TokenRows
  <2> QED
    BY <1>11, <1>15, <2>1, WritesTyped, EndFields, Zenon DEF ResetCommit
<1>16. CASE ChangeCommit(r)
  <2>1. req' \in [Requests -> Locals]
    BY <1>1, <1>2, <1>16, Zenon DEF ChangeCommit, Locals
  <2>2. /\ rowLock' \in [Ids -> Requests \cup {NoRequest}]
        /\ userLock' \in Requests \cup {NoRequest}
    BY <1>16, Zenon DEF ChangeCommit, ReleaseLocks
  <2> QED
    BY <1>11, <1>16, <2>1, <2>2, WritesTyped, Zenon DEF ChangeCommit
<1>17. CASE DeleteCommit(r)
  <2>1. NoToken \in TokenRows
    BY IdsAreNumbers, Zenon DEF NoToken, TokenRows
  <2>2. resetTokens' \in [Ids -> TokenRows]
    BY <1>17, <2>1, Zenon DEF DeleteCommit
  <2>3. sessions' \in [Ids -> SessionRows]
    BY <1>17, NoRowFields, Zenon DEF DeleteCommit
  <2>4. user' \in UserRows
    BY <1>17, Zenon DEF DeleteCommit, UserRows
  <2> QED
    BY <1>17, <2>2, <2>3, <2>4, EndFields, Zenon DEF DeleteCommit
<1> QED
  BY <1>3, <1>4, <1>5, <1>7, <1>8, <1>9, <1>10, <1>12, <1>13, <1>14, <1>15, <1>16, <1>17,
     Zenon DEF Continue

\* The steps of no request in flight leave everything typed.
LEMMA TypedStep ==
  ASSUME Typed, \A r \in Requests : RowKnown(r), [Next]_vars
  PROVE  Typed'
<1>1. ASSUME NEW r \in Requests, Fail(r) PROVE Typed'
  BY <1>1, EndFields, Zenon DEF Fail, Typed
<1>2. CASE OperatorDisables
  BY <1>2, Zenon DEF OperatorDisables, Typed, UserRows
<1>3. CASE Tick
  <2>1. clock' \in Nat
    BY <1>3 DEF Tick, Typed
  <2> QED
    BY <1>3, <2>1, Zenon DEF Tick, Typed
<1>4. CASE Terminated \/ UNCHANGED vars
  BY <1>4, Zenon DEF Terminated, vars, Typed
<1> QED
  BY <1>1, <1>2, <1>3, <1>4, BeginTyped, ContinueTyped, Zenon DEF Next

-----------------------------------------------------------------------------
(* Which request a step is about.                                          *)

Acts(r) == Begin(r) \/ Continue(r) \/ Fail(r)
NobodyActs == OperatorDisables \/ Tick \/ UNCHANGED vars

\* A step is one request's or nobody's.
LEMMA StepIsSomebodys ==
  ASSUME [Next]_vars
  PROVE  (\E r \in Requests : Acts(r)) \/ NobodyActs
BY Zenon DEF Next, Acts, NobodyActs, Terminated

\* A request writes no locals but its own.
LEMMA OwnLocalsOnly ==
  ASSUME Typed, NEW r \in Requests, Acts(r)
  PROVE  \A q \in Requests : q # r => req'[q] = req[q]
<1>1. ASSUME NEW f, req' = [req EXCEPT ![r] = f]
      PROVE  \A q \in Requests : q # r => req'[q] = req[q]
  BY <1>1, Zenon DEF Typed
<1>2. ASSUME End(r) PROVE \A q \in Requests : q # r => req'[q] = req[q]
  BY <1>1, <1>2, Zenon DEF End
<1>3. CASE Begin(r)
  <2>1. UNCHANGED req \/ \E f : req' = [req EXCEPT ![r] = f]
    BY <1>3, Zenon DEF Begin, LoginRead, RefreshLive, RefreshGrace, RefreshReuse, RefreshExpired,
             LogoutFind, ResetResolve, RequestReset, ReadAccount, Enter
  <2> QED
    BY <1>1, <2>1, Zenon
<1>4. CASE IssueSession(r) \/ Rotate(r) \/ Recover(r) \/ InactiveCommit(r) \/ ReuseCommit(r)
           \/ LogoutCommit(r) \/ ResetCommit(r) \/ DeleteCommit(r) \/ Fail(r)
  BY <1>2, <1>4, Zenon DEF IssueSession, Rotate, Recover, RotateInto, InactiveCommit, ReuseCommit,
             LogoutCommit, ResetCommit, DeleteCommit, Fail
<1>5. CASE LockSuccessor(r) \/ ReadOwner(r)
  BY <1>5, Zenon DEF LockSuccessor, ReadOwner, Typed
<1>6. CASE BulkSnapshot(r) \/ \E s \in Ids : BulkLock(r, s)
  BY <1>6, Zenon DEF BulkSnapshot, BulkLock, Typed
<1>7. CASE ConsumePresented(r) \/ ConsumeOthers(r) \/ LockUser(r) \/ ChangeCommit(r)
  BY <1>7, Zenon DEF ConsumePresented, ConsumeOthers, TakeTokens, LockUser, Goto, ChangeCommit,
             Typed
<1> QED
  BY <1>3, <1>4, <1>5, <1>6, <1>7, Zenon DEF Acts, Continue

\* A request keeps its number, and knows the row it works on, until it ends.
LEMMA RowKnownStep ==
  ASSUME Typed, NEW r \in Requests, RowKnown(r), Acts(r)
  PROVE  RowKnown(r)'
<1> USE DEF RowKnown
<1>1. req \in [Requests -> Locals]
  BY Zenon DEF Typed
<1>2. req'[r] = req[r] => RowKnown(r)'
  BY Zenon
<1>3. req'[r] = Idle => RowKnown(r)'
  BY IdleFields, Zenon
<1>4. CASE Begin(r)
  <2>1. /\ {"login", "refresh", "grace", "reuse", "logout", "reset", "change", "delete"}
              \subseteq Operations
        /\ {"issue", "owner", "successor", "bulk", "consume", "user"} \subseteq Labels
    BY Zenon DEF Operations, Labels
  <2>2. user.tokenVersion \in Nat /\ clock \in Nat
    BY Zenon DEF Typed, UserRows
  <2>3. /\ [Idle EXCEPT !.version = user.tokenVersion] \in Locals
        /\ \A s \in Ids : /\ [Idle EXCEPT !.row = s] \in Locals
                          /\ [Idle EXCEPT !.row = s, !.at = clock] \in Locals
                          /\ [Idle EXCEPT !.row = s].row = s
                          /\ [Idle EXCEPT !.row = s].row \in Ids
                          /\ [Idle EXCEPT !.row = s, !.at = clock].row = s
    BY <2>2, IdleFields, IdsAreNumbers, Zenon DEF Locals
  <2>4. ASSUME NEW op \in Operations, NEW pc \in Labels, NEW locals \in Locals, Arrive(r),
               Enter(r, op, pc, locals), pc \notin {"successor", "owner", "rotate"},
               op \in {"reuse", "logout"} => locals.row \in Ids,
               op \notin {"refresh", "grace", "inactive"}
        PROVE  RowKnown(r)'
    <3>1. req'[r].pc = pc /\ req'[r].op = op /\ req'[r].row = locals.row
      BY <2>4, EnterFields
    <3> QED
      BY <2>4, <3>1
  <2>5. ASSUME NEW op \in {"login", "reset", "change", "delete"},
               NEW pc \in {"issue", "consume", "user"}, NEW locals \in Locals, Arrive(r),
               Enter(r, op, pc, locals)
        PROVE  RowKnown(r)'
    <3>1. op \in Operations /\ op \notin {"refresh", "grace", "inactive", "reuse", "logout"}
      BY <2>1, Zenon
    <3>2. pc \in Labels /\ pc \notin {"successor", "owner", "rotate"}
      BY <2>1, Zenon
    <3> QED
      BY <2>4, <2>5, <3>1, <3>2
  <2>6. ASSUME NEW op \in {"reuse", "logout"}, NEW locals \in Locals, locals.row \in Ids,
               Arrive(r), Enter(r, op, "bulk", locals)
        PROVE  RowKnown(r)'
    <3>1. op \in Operations /\ "bulk" \in Labels
      BY <2>1, Zenon
    <3>2. op \notin {"refresh", "grace", "inactive"}
      BY Zenon
    <3> QED
      BY <2>4, <2>6, <3>1, <3>2
  <2>7. CASE LoginRead(r) \/ ReadAccount(r, "change") \/ ReadAccount(r, "delete")
             \/ \E s \in Ids : ResetResolve(r, s)
    BY <2>3, <2>5, <2>7, Zenon DEF LoginRead, ReadAccount, ResetResolve
  <2>8. CASE RequestReset(r) \/ \E s \in Ids : RefreshExpired(r, s)
    BY <1>2, <2>8, Zenon DEF RequestReset, RefreshExpired
  <2>9. CASE \E s \in Ids : RefreshReuse(r, s) \/ LogoutFind(r, s)
    <3>1. CASE \E s \in Ids : RefreshReuse(r, s)
      BY <2>3, <2>6, <3>1, Zenon DEF RefreshReuse, LockPresented
    <3>2. CASE \E s \in Ids : LogoutFind(r, s)
      BY <2>3, <2>6, <3>2, Zenon DEF LogoutFind
    <3> QED
      BY <2>9, <3>1, <3>2, Zenon
  <2>10. ASSUME NEW s \in Ids, NEW op \in {"refresh", "grace"}, NEW pc \in {"owner", "successor"},
               NEW locals \in Locals, op = "grace" \/ pc = "owner", locals.row = s,
               Arrive(r), Enter(r, op, pc, locals)
        PROVE  RowKnown(r)'
    <3>1. op \in Operations /\ pc \in Labels
      BY <2>1, Zenon
    <3>2. req'[r].pc = pc /\ req'[r].op = op /\ req'[r].row = locals.row
      BY <2>10, <3>1, EnterFields
    <3> QED
      BY <2>10, <3>2
  <2>11. ASSUME NEW s \in Ids, RefreshLive(r, s) \/ RefreshGrace(r, s) PROVE RowKnown(r)'
    BY <2>3, <2>10, <2>11, Zenon DEF RefreshLive, RefreshGrace, LockPresented
  <2> QED
    BY <1>4, <2>7, <2>8, <2>9, <2>11, Zenon DEF Begin
<1>5. CASE IssueSession(r) \/ Rotate(r) \/ Recover(r) \/ InactiveCommit(r) \/ ReuseCommit(r)
           \/ LogoutCommit(r) \/ ResetCommit(r) \/ DeleteCommit(r) \/ Fail(r)
  BY <1>3, <1>5, EndFields, Zenon DEF IssueSession, Rotate, Recover, RotateInto, InactiveCommit,
             ReuseCommit, LogoutCommit, ResetCommit, DeleteCommit, Fail
<1>6. CASE LockSuccessor(r)
  <2>1. req'[r].pc = "owner" /\ req'[r].op = req[r].op /\ req'[r].row = req[r].row
    <3>1. PICK t \in Ids \cup {0} : req' = [req EXCEPT ![r].pc = "owner", ![r].successor = t]
      BY <1>6, Zenon DEF LockSuccessor
    <3> QED
      BY <1>1, <3>1, Zenon DEF Locals
  <2> QED
    BY <1>6, <2>1, Zenon DEF LockSuccessor
<1>7. CASE ReadOwner(r)
  <2>1. CASE req' = [req EXCEPT ![r].pc = "rotate", ![r].version = user.tokenVersion]
    <3>1. req'[r].pc = "rotate" /\ req'[r].op = req[r].op /\ req'[r].row = req[r].row
      BY <1>1, <2>1, Zenon DEF Locals
    <3> QED
      BY <1>7, <3>1, Zenon DEF ReadOwner
  <2>2. CASE req' = [req EXCEPT ![r].pc = "bulk",
                       ![r].op = IF @ = "grace" THEN "reuse" ELSE "inactive"]
    <3>1. req'[r].pc = "bulk" /\ req'[r].row = req[r].row
      BY <1>1, <2>2, Zenon DEF Locals
    <3> QED
      BY <1>7, <3>1, Zenon DEF ReadOwner
  <2> QED
    BY <1>7, <2>1, <2>2, Zenon DEF ReadOwner
<1>8. ASSUME req'[r].pc \in {"bulk", "lockRows", "others", "user", "issue"}, req'[r].op = req[r].op,
             req'[r].row = req[r].row
      PROVE  RowKnown(r)'
  BY <1>8, Zenon
<1>9. CASE BulkSnapshot(r)
  <2>1. PICK targets :
          req' = [req EXCEPT ![r].pc = "lockRows", ![r].todo = targets, ![r].seen = targets]
    BY <1>9, Zenon DEF BulkSnapshot
  <2>2. req'[r].pc = "lockRows" /\ req'[r].op = req[r].op /\ req'[r].row = req[r].row
    BY <1>1, <2>1, Zenon DEF Locals
  <2> QED
    BY <1>8, <2>2, Zenon
<1>10. ASSUME NEW s \in Ids, BulkLock(r, s) PROVE RowKnown(r)'
  <2>1. req'[r].pc = req[r].pc /\ req'[r].op = req[r].op /\ req'[r].row = req[r].row
    BY <1>1, <1>10, Zenon DEF BulkLock, Locals
  <2> QED
    BY <1>8, <1>10, <2>1, Zenon DEF BulkLock
<1>11. CASE LockUser(r)
  <2>1. CASE Goto(r, "bulk") \/ req'[r] = [req[r] EXCEPT !.pc = "issue"]
    <3>1. /\ req'[r].pc \in {"bulk", "issue"} /\ req'[r].op = req[r].op
          /\ req'[r].row = req[r].row
      BY <1>1, <2>1, Zenon DEF Goto, Locals
    <3> QED
      BY <1>8, <3>1, Zenon
  <2> QED
    BY <1>1, <1>3, <1>11, <2>1, Zenon DEF LockUser
<1>12. CASE ChangeCommit(r)
  <2>1. req'[r].pc = "issue" /\ req'[r].op = req[r].op /\ req'[r].row = req[r].row
    BY <1>1, <1>12, Zenon DEF ChangeCommit, Locals
  <2> QED
    BY <1>8, <2>1, Zenon
<1>13. CASE ConsumePresented(r) \/ ConsumeOthers(r)
  BY <1>8, <1>13, TokenStepFields, Zenon
<1> QED
  BY <1>4, <1>5, <1>6, <1>7, <1>9, <1>10, <1>11, <1>12, <1>13, Zenon DEF Acts, Continue

\* The types, and where requests can be, are an invariant.
TypedInv == Typed /\ \A r \in Requests : RowKnown(r)

LEMMA TypedInvInit == Init => TypedInv
<1> SUFFICES ASSUME Init PROVE TypedInv
  OBVIOUS
<1>1. 0 \in Nat /\ 0 \in 0 .. MaxRequests
  BY IdsAreNumbers
<1>2. NoToken \in TokenRows
  BY <1>1, Zenon DEF NoToken, TokenRows
<1>3. [status |-> "ACTIVE", tokenVersion |-> 0] \in UserRows
  BY <1>1, Zenon DEF UserRows
<1>4. Typed
  BY <1>1, <1>2, <1>3, IdleFields, NoRowFields, Zenon DEF Init, Typed
<1>5. \A r \in Requests : req[r] = Idle
  BY Zenon DEF Init
<1>6. \A r \in Requests : RowKnown(r)
  BY <1>5, IdleFields, Zenon DEF RowKnown
<1> QED
  BY <1>4, <1>6, Zenon DEF TypedInv

\* Every step preserves the types.
LEMMA TypedInvStep == TypedInv /\ [Next]_vars => TypedInv'
<1> SUFFICES ASSUME TypedInv, [Next]_vars PROVE TypedInv'
  OBVIOUS
<1>1. Typed /\ Typed' /\ \A r \in Requests : RowKnown(r)
  BY TypedStep, Zenon DEF TypedInv
<1>2. CASE NobodyActs
  <2>1. req' = req
    BY <1>2, Zenon DEF NobodyActs, OperatorDisables, Tick, vars
  <2> QED
    BY <1>1, <2>1, Zenon DEF TypedInv, RowKnown
<1>3. ASSUME NEW r \in Requests, Acts(r) PROVE TypedInv'
  <2>1. ASSUME NEW q \in Requests, q # r PROVE RowKnown(q)'
    <3>1. req'[q] = req[q]
      BY <1>1, <1>3, <2>1, OwnLocalsOnly, Zenon
    <3> QED
      BY <1>1, <3>1, Zenon DEF RowKnown
  <2>2. RowKnown(r)'
    BY <1>1, <1>3, RowKnownStep, Zenon
  <2> QED
    BY <1>1, <2>1, <2>2, Zenon DEF TypedInv
<1> QED
  BY <1>2, <1>3, StepIsSomebodys, Zenon

\* Every column, lock and local always has its type, for any number of requests.
THEOREM TypesAlways == Spec => []TypedInv
BY TypedInvInit, TypedInvStep, PTL DEF Spec

-----------------------------------------------------------------------------
(* Token versions: a request works with a version of the past, except for  *)
(* the password change, which mints the one its own commit reached.        *)

VersionOK(r) ==
  /\ req[r].version <= user.tokenVersion
  /\ req[r].op = "change" /\ req[r].pc = "issue" =>
       req[r].version + 1 <= user.tokenVersion \/ user.status = "DELETED"

MintedOK == \A v \in minted : v <= user.tokenVersion

VersionInv == MintedOK /\ \A r \in Requests : VersionOK(r)

\* The version only grows, by one at a time, and a deleted account stays so.
LEMMA VersionGrows ==
  ASSUME Typed, [Next]_vars
  PROVE  /\ user'.tokenVersion \in {user.tokenVersion, user.tokenVersion + 1}
         /\ user.status = "DELETED" => user'.status = "DELETED"
<1>1. BumpVersion => /\ user'.tokenVersion = user.tokenVersion + 1
                     /\ user'.status = user.status
  BY Zenon DEF BumpVersion, Typed, UserRows
<1>2. \A st : user' = [user EXCEPT !.status = st]
                => user'.tokenVersion = user.tokenVersion /\ user'.status = st
  BY Zenon DEF Typed, UserRows
<1>3. ASSUME NEW r \in Requests, Begin(r) \/ Continue(r) \/ Fail(r)
      PROVE  user' = user \/ BumpVersion \/ user' = [user EXCEPT !.status = "DELETED"]
  <2>1. Begin(r) => user' = user
    BY Zenon DEF Begin, LoginRead, RefreshLive, RefreshGrace, RefreshReuse, LockPresented,
       RefreshExpired, LogoutFind, ResetResolve, RequestReset, ReadAccount
  <2>2. Fail(r) => user' = user
    BY Zenon DEF Fail
  <2>3. Continue(r) => user' = user \/ BumpVersion \/ user' = [user EXCEPT !.status = "DELETED"]
    BY Zenon DEF Continue, IssueSession, LockSuccessor, ReadOwner, Rotate, Recover, RotateInto,
       BulkSnapshot, BulkLock, InactiveCommit, ReuseCommit, LogoutCommit, ConsumePresented,
       ConsumeOthers, TakeTokens, LockUser,
       ResetCommit, ChangeCommit, DeleteCommit
  <2> QED
    BY <1>3, <2>1, <2>2, <2>3, Zenon
<1>4. CASE OperatorDisables
  BY <1>2, <1>4, Zenon DEF OperatorDisables
<1>5. CASE Tick \/ Terminated \/ UNCHANGED vars
  BY <1>5, Zenon DEF Tick, Terminated, vars
<1> QED
  BY <1>1, <1>2, <1>3, <1>4, <1>5, Zenon DEF Next

\* A request that stays at or below the version it knew keeps VersionOK.
LEMMA VersionKept ==
  ASSUME Typed, Typed', [Next]_vars, NEW r \in Requests, VersionOK(r),
         \/ req'[r] = req[r]
         \/ req'[r].version \in {0, req[r].version, user.tokenVersion}
            /\ ~(req'[r].op = "change" /\ req'[r].pc = "issue")
  PROVE  VersionOK(r)'
<1>1. /\ user.tokenVersion \in Nat /\ user'.tokenVersion \in Nat /\ user'.tokenVersion >= user.tokenVersion
      /\ user.status = "DELETED" => user'.status = "DELETED"
  <2>1. user.tokenVersion \in Nat /\ user'.tokenVersion \in Nat
    BY Zenon DEF Typed, UserRows
  <2> QED
    BY <2>1, VersionGrows
<1>2. req[r].version \in Nat
  BY Zenon DEF Typed, Locals
<1> QED
  BY <1>1, <1>2 DEF VersionOK

\* What a request does keeps its own version at or below the account's.
LEMMA OwnVersionStep ==
  ASSUME Typed, Typed', [Next]_vars, NEW r \in Requests, Acts(r), VersionOK(r)
  PROVE  VersionOK(r)'
<1>1. req \in [Requests -> Locals]
  BY Zenon DEF Typed
<1>2. ASSUME req'[r] = Idle PROVE VersionOK(r)'
  <2>1. req'[r].version = 0 /\ req'[r].op # "change"
    BY <1>2, IdleFields, Zenon
  <2> QED
    BY <2>1, VersionKept
<1>3. CASE Begin(r)
  <2>1. user.tokenVersion \in Nat /\ clock \in Nat
    BY Zenon DEF Typed, UserRows
  <2>2. /\ [Idle EXCEPT !.version = user.tokenVersion] \in Locals
        /\ [Idle EXCEPT !.version = user.tokenVersion].version = user.tokenVersion
        /\ \A s \in Ids : /\ [Idle EXCEPT !.row = s] \in Locals
                          /\ [Idle EXCEPT !.row = s, !.at = clock] \in Locals
                          /\ [Idle EXCEPT !.row = s].version = 0
                          /\ [Idle EXCEPT !.row = s, !.at = clock].version = 0
    BY <2>1, IdleFields, IdsAreNumbers, Zenon DEF Locals
  <2>3. ASSUME NEW op \in {"login", "refresh", "grace", "reuse", "logout", "reset", "change", "delete"},
               NEW pc \in {"issue", "owner", "successor", "bulk", "consume", "user"},
               op # "change" \/ pc # "issue", NEW locals \in Locals,
               locals.version \in {0, user.tokenVersion}, Arrive(r), Enter(r, op, pc, locals)
        PROVE  VersionOK(r)'
    <3>1. op \in Operations /\ pc \in Labels
      BY DEF Operations, Labels
    <3>2. req'[r].pc = pc /\ req'[r].op = op /\ req'[r].version = locals.version
      BY <2>3, <3>1, EnterFields
    <3> QED
      BY <2>3, <3>2, VersionKept
  <2>4. CASE LoginRead(r) \/ ReadAccount(r, "change") \/ ReadAccount(r, "delete")
    BY <2>2, <2>3, <2>4, Zenon DEF LoginRead, ReadAccount
  <2>5. CASE \E s \in Ids : ResetResolve(r, s) \/ LogoutFind(r, s)
    BY <2>2, <2>3, <2>5, Zenon DEF ResetResolve, LogoutFind
  <2>6. CASE \E s \in Ids : RefreshLive(r, s) \/ RefreshGrace(r, s) \/ RefreshReuse(r, s)
    BY <2>2, <2>3, <2>6, Zenon DEF RefreshLive, RefreshGrace, RefreshReuse, LockPresented
  <2>7. CASE RequestReset(r) \/ \E s \in Ids : RefreshExpired(r, s)
    <3>1. req'[r] = req[r]
      BY <2>7, Zenon DEF RequestReset, RefreshExpired
    <3> QED
      BY <3>1, VersionKept
  <2> QED
    BY <1>3, <2>4, <2>5, <2>6, <2>7, Zenon DEF Begin
<1>4. CASE IssueSession(r) \/ Rotate(r) \/ Recover(r) \/ InactiveCommit(r) \/ ReuseCommit(r)
           \/ LogoutCommit(r) \/ ResetCommit(r) \/ DeleteCommit(r) \/ Fail(r)
  <2>1. End(r)
    BY <1>4, Zenon DEF IssueSession, Rotate, Recover, RotateInto, InactiveCommit, ReuseCommit,
       LogoutCommit, ResetCommit, DeleteCommit, Fail
  <2> QED
    BY <1>2, <2>1, EndFields
<1>5. CASE LockSuccessor(r) \/ BulkSnapshot(r) \/ ConsumePresented(r) \/ ConsumeOthers(r)
  <2>1. req'[r].version = req[r].version /\ req'[r].pc # "issue"
    <3>1. CASE LockSuccessor(r)
      <4>1. PICK t \in Ids \cup {0} : req' = [req EXCEPT ![r].pc = "owner", ![r].successor = t]
        BY <3>1, Zenon DEF LockSuccessor
      <4> QED
        BY <1>1, <4>1, Zenon DEF Locals
    <3>2. CASE BulkSnapshot(r)
      BY <1>1, <3>2, Zenon DEF BulkSnapshot, Locals
    <3>3. CASE ConsumePresented(r) \/ ConsumeOthers(r)
      BY <3>3, TokenStepFields, Zenon
    <3> QED
      BY <1>5, <3>1, <3>2, <3>3
  <2> QED
    BY <2>1, VersionKept
<1>6. CASE ReadOwner(r)
  <2>1. /\ req'[r].version = req[r].version \/ req'[r].version = user.tokenVersion
        /\ req'[r].pc # "issue"
    <3>1. CASE req' = [req EXCEPT ![r].pc = "rotate", ![r].version = user.tokenVersion]
      BY <1>1, <3>1, Zenon DEF Locals
    <3>2. CASE req' = [req EXCEPT ![r].pc = "bulk",
                         ![r].op = IF @ = "grace" THEN "reuse" ELSE "inactive"]
      BY <1>1, <3>2, Zenon DEF Locals
    <3> QED
      BY <1>6, <3>1, <3>2, Zenon DEF ReadOwner
  <2> QED
    BY <2>1, VersionKept
<1>7. ASSUME NEW s \in Ids, BulkLock(r, s) PROVE VersionOK(r)'
  <2>1. req'[r].version = req[r].version /\ req'[r].pc = "lockRows"
    <3>1. req[r].pc = "lockRows"
      BY <1>7, Zenon DEF BulkLock
    <3>2. CASE req' = [req EXCEPT ![r].todo = @ \ {s}, ![r].hit = @ \cup {s}]
      BY <1>1, <3>1, <3>2, Zenon DEF Locals
    <3>3. CASE req' = [req EXCEPT ![r].todo = @ \ {s}]
      BY <1>1, <3>1, <3>3, Zenon DEF Locals
    <3> QED
      BY <1>7, <3>2, <3>3, Zenon DEF BulkLock
  <2> QED
    BY <2>1, VersionKept
<1>8. CASE LockUser(r)
  <2>1. CASE Goto(r, "bulk")
    <3>1. req'[r].version = req[r].version /\ req'[r].pc = "bulk"
      BY <1>1, <2>1, Zenon DEF Goto, Locals
    <3> QED
      BY <3>1, VersionKept
  <2>2. CASE user.status = "DELETED" /\ req'[r] = [req[r] EXCEPT !.pc = "issue"]
    <3>1. req'[r].version = req[r].version /\ user' = user
      <4>1. req[r] \in Locals /\ user' = user
        BY <1>1, <1>8, Zenon DEF LockUser
      <4> QED
        BY <2>2, <4>1, Zenon DEF Locals
    <3> QED
      BY <2>2, <3>1 DEF VersionOK
  <2> QED
    BY <1>1, <1>2, <1>8, <2>1, <2>2, Zenon DEF LockUser
<1>9. CASE ChangeCommit(r)
  <2>1. req'[r].version = req[r].version /\ user'.tokenVersion = user.tokenVersion + 1
    BY <1>1, <1>9, Zenon DEF ChangeCommit, BumpVersion, Locals, Typed, UserRows
  <2>2. req[r].version \in Nat /\ user.tokenVersion \in Nat
    BY <1>1, Zenon DEF Locals, Typed, UserRows
  <2> QED
    BY <2>1, <2>2 DEF VersionOK
<1> QED
  BY <1>3, <1>4, <1>5, <1>6, <1>7, <1>8, <1>9, Zenon DEF Acts, Continue

\* What is minted is a version the account has reached.
LEMMA MintedStep ==
  ASSUME Typed, Typed', [Next]_vars, MintedOK, \A r \in Requests : VersionOK(r)
  PROVE  MintedOK'
<1>1. /\ user.tokenVersion \in Nat /\ user'.tokenVersion \in Nat /\ user'.tokenVersion >= user.tokenVersion
      /\ minted \in SUBSET Nat
  <2>1. user.tokenVersion \in Nat /\ user'.tokenVersion \in Nat /\ minted \in SUBSET Nat
    BY Zenon DEF Typed, UserRows
  <2> QED
    BY <2>1, VersionGrows
<1>2. CASE minted' = minted
  BY <1>1, <1>2 DEF MintedOK
<1>3. ASSUME NEW v, v <= user.tokenVersion, minted' = minted \cup {v} PROVE MintedOK'
  BY <1>1, <1>3, Typed' DEF MintedOK, Typed
<1>4. ASSUME NEW r \in Requests, IssueSession(r) PROVE MintedOK'
  <2>1. VersionToMint(r) <= user.tokenVersion
    BY <1>4 DEF VersionToMint, VersionOK, IssueSession, ForeignKeyHolds
  <2> QED
    BY <1>3, <1>4, <2>1, Zenon DEF IssueSession
<1>5. ASSUME NEW r \in Requests, Rotate(r) \/ Recover(r) PROVE MintedOK'
  BY <1>3, <1>5, Zenon DEF Rotate, Recover, RotateInto, VersionOK
<1>6. ASSUME NEW r \in Requests, Begin(r) \/ Fail(r) PROVE minted' = minted
  BY <1>6, Zenon DEF Fail, Begin, LoginRead, RefreshLive, RefreshGrace, RefreshReuse, LockPresented,
     RefreshExpired, LogoutFind, ResetResolve, RequestReset, ReadAccount
<1>7. ASSUME NEW r \in Requests, Continue(r) PROVE MintedOK'
  BY <1>2, <1>4, <1>5, <1>7, Zenon DEF Continue, LockSuccessor, ReadOwner, BulkSnapshot, BulkLock,
     InactiveCommit, ReuseCommit, LogoutCommit, ConsumePresented, ConsumeOthers, TakeTokens,
     LockUser, ResetCommit, ChangeCommit,
     DeleteCommit
<1>8. CASE NobodyActs
  BY <1>2, <1>8, Zenon DEF NobodyActs, OperatorDisables, Tick, vars
<1> QED
  BY <1>2, <1>6, <1>7, <1>8, StepIsSomebodys, Zenon DEF Acts

\* The versions in flight and minted never run ahead of the account's.
LEMMA VersionInvStep == TypedInv /\ TypedInv' /\ VersionInv /\ [Next]_vars => VersionInv'
<1> SUFFICES ASSUME TypedInv, TypedInv', VersionInv, [Next]_vars PROVE VersionInv'
  OBVIOUS
<1>1. Typed /\ Typed' /\ MintedOK /\ \A r \in Requests : VersionOK(r)
  BY Zenon DEF TypedInv, VersionInv
<1>2. MintedOK'
  BY <1>1, MintedStep
<1>3. ASSUME NEW q \in Requests PROVE VersionOK(q)'
  <2>1. CASE req'[q] = req[q]
    BY <1>1, <2>1, VersionKept
  <2>2. NobodyActs => req' = req
    BY Zenon DEF NobodyActs, OperatorDisables, Tick, vars
  <2>3. ASSUME NEW r \in Requests, Acts(r), r # q PROVE req'[q] = req[q]
    BY <1>1, <2>3, OwnLocalsOnly, Zenon
  <2>4. Acts(q) => VersionOK(q)'
    BY <1>1, OwnVersionStep
  <2> QED
    BY <2>1, <2>2, <2>3, <2>4, StepIsSomebodys, Zenon
<1> QED
  BY <1>2, <1>3, Zenon DEF VersionInv

\* token_version + 1 at a commit is a version that no access token carries, for
\* any number of requests: the bump kills every token minted before it.
THEOREM BumpKills == Spec => BumpKillsEveryToken
<1>1. Init => VersionInv
  <2> SUFFICES ASSUME Init PROVE VersionInv
    OBVIOUS
  <2>1. user.tokenVersion = 0 /\ minted = {} /\ \A r \in Requests : req[r] = Idle
    BY Zenon DEF Init
  <2>2. \A r \in Requests : req[r].version = 0 /\ req[r].op = "none"
    BY <2>1, IdleFields, Zenon
  <2> QED
    BY <2>1, <2>2 DEF VersionInv, VersionOK, MintedOK
<1>2. TypedInv /\ VersionInv /\ [Next]_vars
        => [user'.tokenVersion # user.tokenVersion => user'.tokenVersion \notin minted]_vars
  <2> SUFFICES ASSUME TypedInv, VersionInv, [Next]_vars, user'.tokenVersion # user.tokenVersion
               PROVE  user'.tokenVersion \notin minted
    OBVIOUS
  <2>1. user.tokenVersion \in Nat /\ minted \in SUBSET Nat
    BY Zenon DEF TypedInv, Typed, UserRows
  <2>2. user'.tokenVersion = user.tokenVersion + 1
    BY VersionGrows DEF TypedInv
  <2> QED
    BY <2>1, <2>2 DEF VersionInv, MintedOK
<1> QED
  BY <1>1, <1>2, VersionInvStep, TypedInvInit, TypedInvStep, PTL DEF Spec, BumpKillsEveryToken

-----------------------------------------------------------------------------
(* The shape of the session families: what the proofs are about.           *)

InFlight(r) == req[r].pc # "idle"
Holds(r, s) == Exists(s) /\ rowLock[s] = r

-----------------------------------------------------------------------------
(* The inductive invariant.                                                *)

\* The CHECK constraints of the table.
RowChecks ==
  \A s \in Ids : /\ sessions[s].rotatedFrom # s
                 /\ sessions[s].graceUsed => sessions[s].reason = "ROTATED"

\* A live row has no successor yet: what makes a rotation a new leaf.
LiveIsLast ==
  \A s, t \in Ids : Live(s) /\ Exists(t) => sessions[t].rotatedFrom # s

\* Rows mention only numbers that were handed out ...
Numbered ==
  \A s \in Ids : Exists(s) => /\ s <= begun
                              /\ sessions[s].familyId <= begun
                              /\ sessions[s].rotatedFrom <= begun

Table == /\ RowChecks /\ LiveIsLast /\ Numbered /\ NoOrphans
         /\ AtMostOneLivePerFamily /\ ChainNeverForks

\* ... and not the one of a request that has yet to insert its row.
Fresh(r) ==
  InFlight(r) =>
    /\ req[r].id \in 1 .. begun
    /\ \A s \in Ids : Exists(s) => /\ s # req[r].id
                                   /\ sessions[s].familyId # req[r].id
                                   /\ sessions[s].rotatedFrom # req[r].id
    /\ \A q \in Requests : InFlight(q) /\ q # r => req[q].id # req[r].id

RowHeld(r) ==
  LET row == req[r].row
  IN /\ req[r].op \in {"refresh", "grace", "reuse", "inactive"} =>
          row \in Ids /\ Holds(r, row)
     /\ req[r].op = "refresh" => Live(row)
     /\ req[r].op = "grace" =>
          sessions[row].reason = "ROTATED" /\ ~sessions[row].graceUsed

SuccessorHeld(r) ==
  LET next == req[r].successor
  IN req[r].op = "grace" =>
       /\ next # 0 => /\ next \in Ids /\ Holds(r, next)
                      /\ sessions[next].rotatedFrom = req[r].row
                      /\ sessions[next].familyId = sessions[req[r].row].familyId
       /\ req[r].pc = "rotate" => next # 0 /\ Live(next)

HitsHeld(r) ==
  \A s \in req[r].hit : Holds(r, s) /\ (req[r].op # "delete" => Live(s))

UserHeld(r) ==
  req[r].op \in {"delete", "reset", "change"} /\ req[r].pc \in {"bulk", "lockRows"} =>
    userLock = r /\ user.status # "DELETED"

\* What a deletion has not locked yet it still has on its list.
DeletionSeesAll(r) ==
  req[r].op = "delete" /\ req[r].pc = "lockRows" =>
    \A s \in Ids : Exists(s) => s \in req[r].todo \cup req[r].hit

Held(r) == /\ RowHeld(r) /\ SuccessorHeld(r) /\ HitsHeld(r)
           /\ UserHeld(r) /\ DeletionSeesAll(r)

\* Between requests nothing is remembered.
IdleIsNone(r) == ~InFlight(r) => req[r].op = "none" /\ req[r].hit = {}

Settled(r) == Held(r) /\ IdleIsNone(r)

IInv == TypedInv /\ Table /\ \A r \in Requests : Fresh(r) /\ Settled(r)

-----------------------------------------------------------------------------
(* The ways in which a step of request r writes the sessions table.        *)

SameLinks(s) == /\ sessions'[s].familyId = sessions[s].familyId
                /\ sessions'[s].rotatedFrom = sessions[s].rotatedFrom

Kills(r) ==
  \A s \in Ids :
    \/ sessions'[s] = sessions[s]
    \/ /\ Live(s) /\ rowLock[s] \in {r, NoRequest}
       /\ sessions'[s].reason \in Revocations /\ SameLinks(s)
       /\ sessions'[s].graceUsed = sessions[s].graceUsed

\* A new last row of a new family, or of the family whose live row it replaces ...
NewLeaf(r, new, old) ==
  /\ ForeignKeyHolds /\ InFlight(r)
  /\ new = req[r].id /\ new \in Ids
  /\ sessions'[new].reason = "LIVE" /\ ~sessions'[new].graceUsed
  /\ sessions'[new].rotatedFrom = old
  /\ \/ old = 0 /\ sessions'[new].familyId = new
     \/ /\ old \in Ids /\ Live(old) /\ sessions'[old].reason = "ROTATED"
        /\ sessions'[new].familyId = sessions[old].familyId

\* ... and what happens meanwhile to a row s that is there already.
Keeps(r, s, old) ==
  /\ sessions'[s] # sessions[s] => rowLock[s] = r
  /\ SameLinks(s)
  /\ s # old => sessions'[s].reason = sessions[s].reason
  /\ sessions'[s].graceUsed => sessions[s].graceUsed \/ sessions[s].reason = "ROTATED"

Inserts(r, new, old) ==
  NewLeaf(r, new, old) /\ \A s \in Ids \ {new} : Keeps(r, s, old)

Wipes(r) ==
  /\ userLock = r /\ user'.status = "DELETED"
  /\ \A s \in Ids : /\ ~Exists(s)'
                    /\ sessions'[s] # sessions[s] => rowLock[s] = r /\ sessions'[s] = NoRow

RowStep(r) ==
  \/ UNCHANGED sessions
  \/ Kills(r)
  \/ \E new \in Ids, old \in Ids \cup {0} : Inserts(r, new, old)
  \/ Wipes(r)

\* Rows that exist afterwards existed before with the same links, or are the new one.
ComesFrom(r, s) ==
  \/ Exists(s) /\ SameLinks(s)
  \/ /\ s = req[r].id /\ ForeignKeyHolds /\ InFlight(r)
     /\ \/ sessions'[s].familyId = s
        \/ \E t \in Ids : Exists(t) /\ sessions'[s].familyId = sessions[t].familyId
     /\ \/ sessions'[s].rotatedFrom = 0
        \/ \E t \in Ids : Exists(t) /\ sessions'[s].rotatedFrom = t

RowsComeFrom(r) == \A s \in Ids : Exists(s)' => ComesFrom(r, s)

OthersRowsUntouched(r) ==
  \A s \in Ids, q \in Requests : q # r /\ Holds(q, s) => sessions'[s] = sessions[s]

\* A live row exists.
LEMMA LiveExists == \A s \in Ids : Live(s) => Exists(s)
BY DEF Live, Exists

\* Each way leaves the rows of others alone and invents no links.
LEMMA RowStepFrames ==
  ASSUME NEW r \in Requests, Fresh(r), RowStep(r)
  PROVE  RowsComeFrom(r) /\ OthersRowsUntouched(r)
<1>1. NoRequest \notin Requests
  BY ConstantsOK DEF ConstantsOK
<1>2. CASE UNCHANGED sessions
  BY <1>2, Zenon DEF RowsComeFrom, ComesFrom, OthersRowsUntouched, Exists, SameLinks
<1>3. CASE Kills(r)
  BY <1>1, <1>3 DEF Kills, RowsComeFrom, ComesFrom, OthersRowsUntouched, Holds, Exists, Live, SameLinks
<1>4. ASSUME NEW new \in Ids, NEW old \in Ids \cup {0}, Inserts(r, new, old)
      PROVE  RowsComeFrom(r) /\ OthersRowsUntouched(r)
  <2>1. NewLeaf(r, new, old) /\ \A s \in Ids \ {new} : Keeps(r, s, old)
    BY <1>4, Zenon DEF Inserts
  <2>2. ComesFrom(r, new)
    BY <2>1, LiveExists, Zenon DEF NewLeaf, ComesFrom
  <2>3. ASSUME NEW s \in Ids \ {new}, Exists(s)' PROVE ComesFrom(r, s)
    <3>1. SameLinks(s) /\ (s # old => sessions'[s].reason = sessions[s].reason)
      BY <2>1, Zenon DEF Keeps
    <3>2. s = old => Live(s)
      BY <2>1, IdsAreNumbers, Zenon DEF NewLeaf
    <3>3. Exists(s)
      BY <2>3, <3>1, <3>2, LiveExists, Zenon DEF Exists
    <3> QED
      BY <3>1, <3>3, Zenon DEF ComesFrom
  <2>4. RowsComeFrom(r)
    BY <2>2, <2>3, Zenon DEF RowsComeFrom
  <2>5. OthersRowsUntouched(r)
    <3>1. ~Exists(new)
      BY <2>1, Zenon DEF NewLeaf, Fresh
    <3> QED
      BY <1>1, <2>1, <3>1, Zenon DEF Keeps, OthersRowsUntouched, Holds
  <2> QED
    BY <2>4, <2>5
<1>5. CASE Wipes(r)
  BY <1>1, <1>5 DEF Wipes, RowsComeFrom, OthersRowsUntouched, Holds, Exists
<1> QED
  BY <1>2, <1>3, <1>4, <1>5 DEF RowStep

Shape == LiveIsLast /\ AtMostOneLivePerFamily /\ ChainNeverForks

\* No row appears and none comes back to life.
Shrinks == \A s \in Ids : /\ Exists(s)' => Exists(s) /\ SameLinks(s)
                          /\ Live(s)' => Live(s)

\* A table that only shrinks stays in shape.
LEMMA ShrinkingKeepsShape == Shape /\ Shrinks => Shape'
BY LiveExists DEF Shape, Shrinks, LiveIsLast, AtMostOneLivePerFamily, ChainNeverForks, SameLinks,
   Exists, Live

\* A fresh last row keeps the table in shape: the row it replaces was its
\* family's only live one and had no successor.
LEMMA NewLeafKeepsShape ==
  ASSUME Typed, RowChecks, Shape, NEW r \in Requests, Fresh(r), NEW new \in Ids,
         NEW old \in Ids \cup {0}, Inserts(r, new, old)
  PROVE  Shape'
<1>1. NewLeaf(r, new, old) /\ \A s \in Ids \ {new} : Keeps(r, s, old)
  BY Zenon DEF Inserts
<1>2. \A s \in Ids : Exists(s) => s # new /\ sessions[s].familyId # new
                                  /\ sessions[s].rotatedFrom # new
  BY <1>1, Zenon DEF NewLeaf, Fresh
<1>3. \A s \in Ids \ {new} : /\ SameLinks(s)
                             /\ s # old => sessions'[s].reason = sessions[s].reason
  BY <1>1, Zenon DEF Keeps
<1>4. /\ sessions'[new].rotatedFrom = old
      /\ \/ old = 0 /\ sessions'[new].familyId = new
         \/ /\ old \in Ids /\ Live(old) /\ sessions'[old].reason = "ROTATED"
            /\ sessions'[new].familyId = sessions[old].familyId
  BY <1>1, Zenon DEF NewLeaf
<1>5. \A s \in Ids \ {new} : /\ Exists(s)' => Exists(s)
                             /\ Live(s)' => Live(s) /\ s # old
  BY <1>3, <1>4, IdsAreNumbers DEF Exists, Live
<1>6. LiveIsLast'
  BY <1>2, <1>3, <1>4, <1>5, LiveExists, IdsAreNumbers DEF Shape, LiveIsLast, SameLinks
<1>7. AtMostOneLivePerFamily'
  BY <1>2, <1>3, <1>4, <1>5, LiveExists, IdsAreNumbers DEF Shape, AtMostOneLivePerFamily, SameLinks
<1>8. ChainNeverForks'
  BY <1>2, <1>3, <1>4, <1>5, LiveExists, IdsAreNumbers DEF Shape, LiveIsLast, ChainNeverForks, SameLinks
<1> QED
  BY <1>6, <1>7, <1>8 DEF Shape

\* Each way of writing the table keeps it in shape.
LEMMA RowStepKeepsShape ==
  ASSUME Typed, RowChecks, Shape, NEW r \in Requests, Fresh(r), RowStep(r)
  PROVE  Shape'
<1>1. CASE UNCHANGED sessions
  BY <1>1, ShrinkingKeepsShape DEF Shrinks, Exists, Live, SameLinks
<1>2. CASE Kills(r)
  <2>1. ASSUME NEW s \in Ids
        PROVE  /\ Exists(s)' => Exists(s) /\ SameLinks(s)
               /\ Live(s)' => Live(s)
    <3>1. CASE sessions'[s] = sessions[s]
      BY <3>1, Zenon DEF Exists, Live, SameLinks
    <3>2. CASE Live(s) /\ SameLinks(s)
      BY <3>2, LiveExists
    <3> QED
      BY <1>2, <3>1, <3>2, Zenon DEF Kills
  <2> QED
    BY <2>1, ShrinkingKeepsShape DEF Shrinks
<1>3. CASE \E new \in Ids, old \in Ids \cup {0} : Inserts(r, new, old)
  BY <1>3, NewLeafKeepsShape, Zenon
<1>4. CASE Wipes(r)
  BY <1>4, LiveExists, ShrinkingKeepsShape DEF Wipes, Shrinks, Exists, Live
<1> QED
  BY <1>1, <1>2, <1>3, <1>4, Zenon DEF RowStep

\* Each way of writing the table keeps the CHECK constraints.
LEMMA RowStepKeepsChecks ==
  ASSUME Typed, RowChecks, NEW r \in Requests, Fresh(r), RowStep(r)
  PROVE  RowChecks'
<1> SUFFICES ASSUME NEW s \in Ids
             PROVE  /\ sessions'[s].rotatedFrom # s
                    /\ sessions'[s].graceUsed => sessions'[s].reason = "ROTATED"
  BY Zenon DEF RowChecks
<1>1. sessions'[s] = sessions[s] => sessions'[s].rotatedFrom # s
                                    /\ (sessions'[s].graceUsed => sessions'[s].reason = "ROTATED")
  BY Zenon DEF RowChecks
<1>2. CASE Kills(r)
  <2>1. CASE Live(s) /\ SameLinks(s) /\ sessions'[s].graceUsed = sessions[s].graceUsed
    <3>1. sessions[s].reason # "ROTATED"
      BY <2>1 DEF Live
    <3> QED
      BY <2>1, <3>1, Zenon DEF RowChecks, SameLinks
  <2> QED
    BY <1>1, <1>2, <2>1, Zenon DEF Kills
<1>3. ASSUME NEW new \in Ids, NEW old \in Ids \cup {0}, Inserts(r, new, old)
      PROVE  /\ sessions'[s].rotatedFrom # s
             /\ sessions'[s].graceUsed => sessions'[s].reason = "ROTATED"
  <2>1. NewLeaf(r, new, old)
    BY <1>3, Zenon DEF Inserts
  <2>2. CASE s = new
    <3>1. old # new
      <4>1. Live(old) => old # new
        BY <2>1, LiveExists, Zenon DEF NewLeaf, Fresh
      <4> QED
        BY <2>1, <4>1, IdsAreNumbers, Zenon DEF NewLeaf
    <3> QED
      BY <2>1, <2>2, <3>1, Zenon DEF NewLeaf
  <2>3. CASE s # new
    <3>1. Keeps(r, s, old)
      BY <1>3, <2>3, Zenon DEF Inserts
    <3>2. sessions'[s].rotatedFrom # s
      BY <3>1, Zenon DEF Keeps, SameLinks, RowChecks
    <3>3. sessions'[s].graceUsed => sessions[s].reason = "ROTATED"
      BY <3>1, Zenon DEF Keeps, RowChecks
    <3>4. sessions'[s].reason = sessions[s].reason \/ sessions'[s].reason = "ROTATED"
      BY <2>1, <3>1, IdsAreNumbers, Zenon DEF Keeps, NewLeaf
    <3> QED
      BY <3>2, <3>3, <3>4, Zenon
  <2> QED
    BY <2>2, <2>3
<1>4. CASE Wipes(r)
  <2>1. NoRow.rotatedFrom # s /\ ~NoRow.graceUsed
    BY NoRowFields, IdsAreNumbers, Zenon
  <2> QED
    BY <1>1, <1>4, <2>1, Zenon DEF Wipes
<1> QED
  BY <1>1, <1>2, <1>3, <1>4, Zenon DEF RowStep

\* Numbers that are mentioned were handed out.
LEMMA RowStepKeepsNumbered ==
  ASSUME Typed, Typed', Numbered, NEW r \in Requests, Fresh(r), RowStep(r), begun' >= begun
  PROVE  Numbered'
<1>1. RowsComeFrom(r)
  BY RowStepFrames
<1>2. InFlight(r) => req[r].id <= begun
  BY DEF Fresh, Typed
<1>3. \A s \in Ids : /\ sessions[s].familyId \in Nat /\ sessions[s].rotatedFrom \in Nat
                     /\ s \in Nat
  BY IdsAreNumbers, ConstantsOK DEF ConstantsOK, Typed, SessionRows
<1>4. begun \in Nat /\ begun' \in Nat
  BY ConstantsOK DEF ConstantsOK, Typed
<1> QED
  BY <1>1, <1>2, <1>3, <1>4 DEF Numbered, RowsComeFrom, ComesFrom, SameLinks

-----------------------------------------------------------------------------
(* What a step of request r leaves to the others.                          *)

LocksKept(r) ==
  \A q \in Requests : q # r =>
    /\ \A s \in Ids : rowLock[s] = q => rowLock'[s] = q
    /\ userLock = q => userLock' = q

Framed(r) ==
  /\ \A q \in Requests : q # r => req'[q] = req[q]
  /\ LocksKept(r)
  /\ begun' >= begun
  /\ InFlight(r)' => \/ InFlight(r) /\ req'[r].id = req[r].id
                     \/ begun' = begun + 1 /\ req'[r].id = begun'
  /\ user.status # "DELETED" /\ userLock # r => user'.status # "DELETED"

\* What another request has locked, it still has, unchanged.
LEMMA HeldRowsKept ==
  ASSUME NEW r \in Requests, NEW q \in Requests, q # r, Fresh(r), RowStep(r), Framed(r),
         NEW s \in Ids, Holds(q, s)
  PROVE  Holds(q, s)' /\ sessions'[s] = sessions[s] /\ (Live(s) => Live(s)')
<1>1. sessions'[s] = sessions[s]
  BY RowStepFrames, Zenon DEF OthersRowsUntouched
<1>2. rowLock'[s] = q
  BY Zenon DEF Framed, LocksKept, Holds
<1> QED
  BY <1>1, <1>2, Zenon DEF Holds, Exists, Live

\* A request in flight keeps a number that nothing refers to.
LEMMA OthersStayFresh ==
  ASSUME Typed, Typed', NEW r \in Requests, NEW q \in Requests, q # r, Fresh(r), Fresh(q),
         RowStep(r), Framed(r)
  PROVE  Fresh(q)'
<1> SUFFICES ASSUME InFlight(q)' PROVE Fresh(q)'
  BY Zenon DEF Fresh
<1>1. req'[q] = req[q] /\ InFlight(q)
  BY Zenon DEF Framed, InFlight
<1>2. /\ begun \in Nat /\ begun' \in Nat /\ begun' >= begun /\ req[q].id \in 1 .. begun
      /\ \A s \in Ids : Exists(s) => /\ s # req[q].id
                                     /\ sessions[s].familyId # req[q].id
                                     /\ sessions[s].rotatedFrom # req[q].id
      /\ \A p \in Requests : InFlight(p) /\ p # q => req[p].id # req[q].id
  <2>1. begun \in Nat /\ begun' \in Nat
    BY ConstantsOK DEF ConstantsOK, Typed
  <2> QED
    BY <1>1, <2>1, Zenon DEF Fresh, Framed
<1>3. req'[q].id \in 1 .. begun'
  BY <1>1, <1>2
<1>4. ASSUME NEW s \in Ids, Exists(s)'
      PROVE  /\ s # req[q].id
             /\ sessions'[s].familyId # req[q].id
             /\ sessions'[s].rotatedFrom # req[q].id
  <2>1. ComesFrom(r, s)
    BY <1>4, RowStepFrames, Zenon DEF RowsComeFrom
  <2>2. req[q].id # 0
    BY <1>2
  <2>3. InFlight(r) => req[r].id # req[q].id
    BY <1>2, Zenon
  <2> QED
    BY <1>2, <2>1, <2>2, <2>3, Zenon DEF ComesFrom, SameLinks
<1>5. ASSUME NEW p \in Requests, InFlight(p)', p # q PROVE req'[p].id # req[q].id
  <2>1. CASE p # r
    BY <1>2, <1>5, <2>1, Zenon DEF Framed, InFlight
  <2>2. CASE p = r
    BY <1>2, <1>5, <2>2 DEF Framed
  <2> QED
    BY <2>1, <2>2
<1> QED
  BY <1>1, <1>3, <1>4, <1>5, Zenon DEF Fresh

\* What another request has learned stays true.
LEMMA OthersStayHeld ==
  ASSUME Typed, NEW r \in Requests, NEW q \in Requests, q # r, Fresh(r), Held(q),
         RowStep(r), Framed(r)
  PROVE  Held(q)'
<1>1. req'[q] = req[q] /\ req[q] \in Locals
  BY Zenon DEF Framed, Typed
<1>2. \A s \in Ids : Holds(q, s) => /\ Holds(q, s)' /\ sessions'[s] = sessions[s]
                                    /\ Live(s) => Live(s)'
  BY HeldRowsKept
<1>3. RowHeld(q)'
  BY <1>1, <1>2, Zenon DEF Held, RowHeld
<1>4. SuccessorHeld(q)'
  <2>1. req[q].op = "grace" => req[q].row \in Ids /\ Holds(q, req[q].row)
    BY Zenon DEF Held, RowHeld
  <2> QED
    BY <1>1, <1>2, <2>1, Zenon DEF Held, SuccessorHeld
<1>5. HitsHeld(q)'
  <2>1. \A s \in req[q].hit : s \in Ids
    BY <1>1, Zenon DEF Locals
  <2> QED
    BY <1>1, <1>2, <2>1, Zenon DEF Held, HitsHeld
<1>6. UserHeld(q)'
  BY <1>1, Zenon DEF Held, UserHeld, Framed, LocksKept
<1>7. DeletionSeesAll(q)'
  <2> SUFFICES ASSUME req[q].op = "delete", req[q].pc = "lockRows", NEW s \in Ids, Exists(s)'
               PROVE  s \in req[q].todo \cup req[q].hit
    BY <1>1, Zenon DEF DeletionSeesAll
  <2>1. userLock = q /\ q # NoRequest
    BY ConstantsOK DEF ConstantsOK, Held, UserHeld
  <2>2. ~ForeignKeyHolds
    BY <2>1, Zenon DEF ForeignKeyHolds, DeletionHoldsUser
  <2>3. Exists(s)
    BY <2>2, RowStepFrames, Zenon DEF RowsComeFrom, ComesFrom
  <2> QED
    BY <2>3, Zenon DEF Held, DeletionSeesAll
<1> QED
  BY <1>3, <1>4, <1>5, <1>6, <1>7, Zenon DEF Held

-----------------------------------------------------------------------------
(* Every action writes the table in one of the four ways.                  *)

\* A bulk revocation kills only live rows that its transaction has locked.
LEMMA RevokingKills ==
  ASSUME Typed, NEW r \in Requests, HitsHeld(r), req[r].op # "delete",
         NEW reason \in Revocations, RevokeHits(r, reason)
  PROVE  Kills(r)
<1> SUFFICES ASSUME NEW s \in Ids, s \in req[r].hit
             PROVE  /\ Live(s) /\ rowLock[s] \in {r, NoRequest}
                    /\ sessions'[s].reason \in Revocations /\ SameLinks(s)
                    /\ sessions'[s].graceUsed = sessions[s].graceUsed
  BY Zenon DEF Kills, RevokeHits
<1>1. sessions'[s] = Revoke(sessions[s], reason) /\ sessions[s] \in SessionRows
  BY Zenon DEF RevokeHits, Typed
<1>2. Live(s) /\ rowLock[s] = r
  BY Zenon DEF HitsHeld, Holds
<1>3. /\ Revoke(sessions[s], reason).reason = reason
      /\ Revoke(sessions[s], reason).familyId = sessions[s].familyId
      /\ Revoke(sessions[s], reason).rotatedFrom = sessions[s].rotatedFrom
      /\ Revoke(sessions[s], reason).graceUsed = sessions[s].graceUsed
  BY <1>1, RevokeFields, Zenon
<1> QED
  BY <1>1, <1>2, <1>3, Zenon DEF SameLinks

\* A login opens a family of its own.
LEMMA IssuingInserts ==
  ASSUME Typed, NEW r \in Requests, Fresh(r), IssueSession(r)
  PROVE  req[r].id \in Ids /\ Inserts(r, req[r].id, 0)
<1> DEFINE new == req[r].id
<1>1. ForeignKeyHolds /\ InFlight(r) /\ new \in Ids /\ clock \in Nat
  <2>1. req[r].pc = "issue" /\ ForeignKeyHolds
    BY Zenon DEF IssueSession
  <2>2. InFlight(r)
    BY <2>1 DEF InFlight
  <2>3. new \in 1 .. begun
    BY <2>2, Zenon DEF Fresh
  <2>4. new \in Ids
    BY <2>3, ConstantsOK DEF ConstantsOK, Typed, Ids
  <2> QED
    BY <2>1, <2>2, <2>4, Zenon DEF Typed
<1>2. sessions'[new] = NewRow(new, 0, clock) /\ \A s \in Ids \ {new} : sessions'[s] = sessions[s]
  BY <1>1, Zenon DEF IssueSession, Typed
<1>3. NewLeaf(r, new, 0)
  <2>1. new \in 0 .. MaxRequests /\ 0 \in 0 .. MaxRequests
    BY <1>1, IdsAreNumbers, Zenon
  <2>2. /\ NewRow(new, 0, clock).reason = "LIVE" /\ ~NewRow(new, 0, clock).graceUsed
        /\ NewRow(new, 0, clock).rotatedFrom = 0 /\ NewRow(new, 0, clock).familyId = new
    BY <1>1, <2>1, NewRowFields
  <2> DEFINE leaf == NewRow(new, 0, clock)
  <2>3. sessions'[new] = leaf
    BY <1>2, Zenon
  <2>4. /\ sessions'[new].reason = "LIVE" /\ ~sessions'[new].graceUsed
        /\ sessions'[new].rotatedFrom = 0 /\ sessions'[new].familyId = new
    <3> HIDE DEF leaf
    <3> QED
      BY <2>2, <2>3, Zenon DEF leaf
  <2> HIDE DEF leaf
  <2> QED
    BY <1>1, <2>4, Zenon DEF NewLeaf
<1>4. \A s \in Ids \ {new} : Keeps(r, s, 0)
  BY <1>2, Zenon DEF Keeps, SameLinks
<1> QED
  BY <1>1, <1>3, <1>4, Zenon DEF Inserts

\* A rotation, or a recovery, replaces the live row it has locked; the recovery
\* also spends the grace of the rotated row it was presented with.
LEMMA RotatingInserts ==
  ASSUME Typed, NEW r \in Requests, InFlight(r), Fresh(r), NEW row \in Ids, row = req[r].row,
         Holds(r, row), NEW old \in Ids, Live(old), Holds(r, old),
         sessions[old].familyId = sessions[row].familyId,
         row # old => sessions[row].reason = "ROTATED",
         NEW at \in Nat, RotateInto(r, old, at)
  PROVE  req[r].id \in Ids /\ Inserts(r, req[r].id, old)
<1> DEFINE new == req[r].id
<1>1. ForeignKeyHolds /\ new \in Ids /\ row # new /\ old # new
  <2>1. new \in 1 .. begun /\ row # new /\ old # new
    BY Zenon DEF Fresh, Holds
  <2>2. new \in Ids
    BY <2>1, ConstantsOK DEF ConstantsOK, Typed, Ids
  <2> QED
    BY <2>1, <2>2, Zenon DEF RotateInto
<1>2. /\ sessions'[new] = NewRow(sessions[row].familyId, old, at)
      /\ sessions'[old] = Rotated(sessions[old], at)
      /\ row # old => sessions'[row] = SpendGrace(sessions[row])
      /\ \A s \in Ids \ {new, old, row} : sessions'[s] = sessions[s]
  BY <1>1, Zenon DEF RotateInto
<1>3. \A s \in Ids : sessions[s] \in SessionRows
  BY Zenon DEF Typed
<1>4. NewLeaf(r, new, old)
  <2>1. sessions[row].familyId \in 0 .. MaxRequests /\ old \in 0 .. MaxRequests
    BY <1>3, IdsAreNumbers, Zenon DEF SessionRows
  <2>2. PICK family \in 0 .. MaxRequests : family = sessions[row].familyId
    BY <2>1, Zenon
  <2> DEFINE leaf == NewRow(family, old, at)
  <2>7. leaf.reason = "LIVE" /\ ~leaf.graceUsed /\ leaf.rotatedFrom = old /\ leaf.familyId = family
    BY <2>1, NewRowFields
  <2>3. Rotated(sessions[old], at).reason = "ROTATED"
    BY <1>3, RotatedFields, Zenon
  <2>4. sessions'[new] = leaf
    BY <1>2, <2>2, Zenon
  <2>5. /\ sessions'[new].reason = "LIVE" /\ ~sessions'[new].graceUsed
        /\ sessions'[new].rotatedFrom = old
        /\ sessions'[new].familyId = sessions[old].familyId
    <3> HIDE DEF leaf
    <3> QED
      BY <2>2, <2>4, <2>7, Zenon
  <2>6. sessions'[old].reason = "ROTATED"
    BY <1>2, <2>3, Zenon
  <2> QED
    BY <1>1, <2>5, <2>6, Zenon DEF NewLeaf
<1>5. ASSUME NEW s \in Ids \ {new} PROVE Keeps(r, s, old)
  <2>1. CASE s = old
    <3>1. sessions'[s] = Rotated(sessions[s], at)
      BY <1>2, <2>1, Zenon
    <3>2. /\ Rotated(sessions[s], at).familyId = sessions[s].familyId
          /\ Rotated(sessions[s], at).rotatedFrom = sessions[s].rotatedFrom
          /\ Rotated(sessions[s], at).graceUsed = sessions[s].graceUsed
      BY <1>3, RotatedFields, Zenon
    <3>3. SameLinks(s) /\ sessions'[s].graceUsed = sessions[s].graceUsed
      BY <3>1, <3>2, Zenon DEF SameLinks
    <3> QED
      BY <2>1, <3>3, Zenon DEF Keeps, Holds
  <2>2. CASE s = row /\ s # old
    <3>1. sessions'[s] = SpendGrace(sessions[s])
      BY <1>2, <2>2, Zenon
    <3>2. /\ SpendGrace(sessions[s]).familyId = sessions[s].familyId
          /\ SpendGrace(sessions[s]).rotatedFrom = sessions[s].rotatedFrom
          /\ SpendGrace(sessions[s]).reason = sessions[s].reason
      BY <1>3, SpendGraceFields, Zenon
    <3>3. SameLinks(s) /\ sessions'[s].reason = sessions[s].reason
      BY <3>1, <3>2, Zenon DEF SameLinks
    <3> QED
      BY <2>2, <3>3, Zenon DEF Keeps, Holds
  <2>3. CASE s \notin {new, old, row}
    BY <1>2, <2>3, Zenon DEF Keeps, SameLinks
  <2> QED
    BY <2>1, <2>2, <2>3, Zenon
<1> QED
  BY <1>1, <1>4, <1>5, Zenon DEF Inserts

\* When a deletion commits it has locked every row of the account.
LEMMA DeletingWipes ==
  ASSUME Typed, NEW r \in Requests, Held(r), DeleteCommit(r)
  PROVE  Wipes(r) /\ \A s \in Ids : sessions'[s] = sessions[s] \/ s \in req[r].hit
<1>1. req[r].op = "delete" /\ req[r].pc = "lockRows" /\ req[r].todo = {}
  BY Zenon DEF DeleteCommit, BulkDone
<1>2. userLock = r
  BY <1>1, Zenon DEF Held, UserHeld
<1>3. \A s \in Ids : Exists(s) => s \in req[r].hit
  BY <1>1, Zenon DEF Held, DeletionSeesAll
<1>4. \A s \in Ids : IF s \in req[r].hit THEN sessions'[s] = NoRow ELSE sessions'[s] = sessions[s]
  BY Zenon DEF DeleteCommit
<1>5. \A s \in req[r].hit : rowLock[s] = r
  BY Zenon DEF Held, HitsHeld, Holds
<1>6. \A s \in Ids : ~Exists(s)'
  BY <1>3, <1>4, NoRowFields, Zenon DEF Exists
<1>7. user'.status = "DELETED"
  BY Zenon DEF DeleteCommit, Typed, UserRows
<1> QED
  BY <1>2, <1>4, <1>5, <1>6, <1>7, Zenon DEF Wipes

\* Only a login, a rotation and a recovery insert rows; everything else kills,
\* wipes or leaves the table alone.
LEMMA WritersKnown ==
  ASSUME Typed, NEW r \in Requests, Held(r), Acts(r)
  PROVE  Kills(r) \/ Wipes(r) \/ UNCHANGED sessions \/ IssueSession(r) \/ Rotate(r) \/ Recover(r)
<1>1. {"ACCOUNT_INACTIVE", "REUSE_DETECTED", "LOGOUT", "PASSWORD_RESET", "EXPIRED"}
        \subseteq Revocations
  BY Zenon DEF Revocations
<1>2. ASSUME NEW s \in Ids, RefreshExpired(r, s) PROVE Kills(r)
  <2>1. /\ Live(s) /\ rowLock[s] = NoRequest /\ sessions[s] \in SessionRows
        /\ sessions'[s] = Revoke(sessions[s], "EXPIRED")
        /\ \A t \in Ids \ {s} : sessions'[t] = sessions[t]
    BY <1>2, Zenon DEF RefreshExpired, Typed
  <2>2. /\ Revoke(sessions[s], "EXPIRED").reason = "EXPIRED"
        /\ Revoke(sessions[s], "EXPIRED").familyId = sessions[s].familyId
        /\ Revoke(sessions[s], "EXPIRED").rotatedFrom = sessions[s].rotatedFrom
        /\ Revoke(sessions[s], "EXPIRED").graceUsed = sessions[s].graceUsed
    BY <1>1, <2>1, RevokeFields, Zenon
  <2> QED
    BY <1>1, <2>1, <2>2, Zenon DEF Kills, SameLinks
<1>3. CASE Begin(r) /\ ~\E s \in Ids : RefreshExpired(r, s)
  BY <1>3, Zenon DEF Begin, LoginRead, RefreshLive, RefreshGrace, RefreshReuse, LockPresented,
     LogoutFind, ResetResolve, RequestReset, ReadAccount
<1>4. CASE InactiveCommit(r) \/ ReuseCommit(r) \/ LogoutCommit(r) \/ ResetCommit(r) \/ ChangeCommit(r)
  <2>1. req[r].op # "delete"
    BY <1>4 DEF InactiveCommit, ReuseCommit, LogoutCommit, ResetCommit, ChangeCommit, BulkDone
  <2>2. \A reason \in Revocations : RevokeHits(r, reason) => Kills(r)
    BY <2>1, RevokingKills, Zenon DEF Held
  <2> QED
    BY <1>1, <1>4, <2>2, Zenon
       DEF InactiveCommit, ReuseCommit, LogoutCommit, ResetCommit, ChangeCommit
<1>5. CASE DeleteCommit(r)
  BY <1>5, DeletingWipes, Zenon
<1>6. CASE LockSuccessor(r) \/ ReadOwner(r) \/ BulkSnapshot(r) \/ (\E s \in Ids : BulkLock(r, s))
           \/ ConsumePresented(r) \/ ConsumeOthers(r) \/ LockUser(r) \/ Fail(r)
  BY <1>6, Zenon DEF LockSuccessor, ReadOwner, BulkSnapshot, BulkLock, ConsumePresented,
             ConsumeOthers, TakeTokens, LockUser, Fail
<1> QED
  BY <1>2, <1>3, <1>4, <1>5, <1>6, Zenon DEF Acts, Continue

\* Whatever request r does, it writes the table in one of the four ways.
LEMMA EveryActionIsARowStep ==
  ASSUME Typed, NEW r \in Requests, Fresh(r), Held(r), Acts(r)
  PROVE  RowStep(r)
<1>1. UNCHANGED sessions \/ Kills(r) \/ Wipes(r) => RowStep(r)
  BY Zenon DEF RowStep
<1>2. ASSUME NEW new \in Ids, NEW old \in Ids \cup {0}, Inserts(r, new, old) PROVE RowStep(r)
  BY <1>2, Zenon DEF RowStep
<1>3. CASE IssueSession(r)
  BY <1>2, <1>3, IssuingInserts
<1>4. CASE Rotate(r)
  <2>1. InFlight(r) /\ req[r].op = "refresh" /\ RotateInto(r, req[r].row, clock)
    BY <1>4 DEF Rotate, InFlight
  <2>2. req[r].row \in Ids /\ Holds(r, req[r].row) /\ Live(req[r].row)
    BY <2>1, Zenon DEF Held, RowHeld
  <2>3. clock \in Nat
    BY Zenon DEF Typed
  <2>4. req[r].id \in Ids /\ Inserts(r, req[r].id, req[r].row)
    BY <2>1, <2>2, <2>3, RotatingInserts
  <2> QED
    BY <1>2, <2>2, <2>4
<1>5. CASE Recover(r)
  <2>1. /\ InFlight(r) /\ req[r].op = "grace" /\ req[r].pc = "rotate"
        /\ RotateInto(r, req[r].successor, req[r].at)
    BY <1>5 DEF Recover, InFlight
  <2>2. req[r].row \in Ids /\ Holds(r, req[r].row) /\ sessions[req[r].row].reason = "ROTATED"
    BY <2>1, Zenon DEF Held, RowHeld
  <2>3. /\ req[r].successor \in Ids /\ Holds(r, req[r].successor) /\ Live(req[r].successor)
        /\ sessions[req[r].successor].familyId = sessions[req[r].row].familyId
    BY <2>1, Zenon DEF Held, SuccessorHeld
  <2>4. req[r].at \in Nat
    BY Zenon DEF Typed, Locals
  <2>5. req[r].id \in Ids /\ Inserts(r, req[r].id, req[r].successor)
    BY <2>1, <2>2, <2>3, <2>4, RotatingInserts
  <2> QED
    BY <1>2, <2>3, <2>5
<1> QED
  BY <1>1, <1>3, <1>4, <1>5, WritersKnown

\* A request never takes a lock from another or drops another's.
LEMMA EveryActionKeepsLocks ==
  ASSUME Typed, NEW r \in Requests, Acts(r)
  PROVE  LocksKept(r)
<1>1. NoRequest \notin Requests
  BY ConstantsOK DEF ConstantsOK
<1>2. ASSUME UNCHANGED <<rowLock, userLock>> PROVE LocksKept(r)
  BY <1>2, Zenon DEF LocksKept
<1>3. ASSUME ReleaseLocks(r) PROVE LocksKept(r)
  BY <1>3, Zenon DEF LocksKept, ReleaseLocks
<1>4. ASSUME NEW s \in Ids, rowLock[s] \in {NoRequest, r}, rowLock' = [rowLock EXCEPT ![s] = r],
             UNCHANGED userLock
      PROVE  LocksKept(r)
  BY <1>1, <1>4, Zenon DEF LocksKept, Typed
<1>5. CASE Begin(r)
  <2>1. CASE \E s \in Ids : RefreshLive(r, s) \/ RefreshGrace(r, s) \/ RefreshReuse(r, s)
    BY <1>4, <2>1, Zenon DEF RefreshLive, RefreshGrace, RefreshReuse, LockPresented
  <2> QED
    BY <1>2, <1>5, <2>1, Zenon DEF Begin, LoginRead, RefreshExpired, LogoutFind, ResetResolve,
       RequestReset, ReadAccount
<1>6. CASE LockSuccessor(r)
  BY <1>1, <1>6, Zenon DEF LockSuccessor, LocksKept
<1>7. CASE \E s \in Ids : BulkLock(r, s)
  BY <1>2, <1>4, <1>7, Zenon DEF BulkLock
<1>8. CASE LockUser(r)
  BY <1>1, <1>8, Zenon DEF LockUser, LocksKept
<1>9. CASE ReadOwner(r) \/ BulkSnapshot(r) \/ ConsumePresented(r) \/ ConsumeOthers(r)
  BY <1>2, <1>9, Zenon DEF ReadOwner, BulkSnapshot, ConsumePresented, ConsumeOthers, TakeTokens
<1>10. CASE IssueSession(r) \/ Rotate(r) \/ Recover(r) \/ InactiveCommit(r) \/ ReuseCommit(r)
            \/ LogoutCommit(r) \/ ResetCommit(r) \/ DeleteCommit(r) \/ Fail(r) \/ ChangeCommit(r)
  BY <1>3, <1>10, Zenon DEF IssueSession, Rotate, Recover, RotateInto, InactiveCommit, ReuseCommit,
     LogoutCommit, ResetCommit, DeleteCommit, Fail, ChangeCommit, End
<1> QED
  BY <1>5, <1>6, <1>7, <1>8, <1>9, <1>10, Zenon DEF Acts, Continue

-----------------------------------------------------------------------------
(* A request enters with the next number, moves on under it, or ends.      *)

Enters(r) == /\ ~InFlight(r) /\ UNCHANGED <<sessions, user, resetTokens, userLock>>
             /\ begun' = begun + 1 /\ req'[r].id = begun'
             /\ req'[r].hit = {} /\ req'[r].seen = {} /\ req'[r].successor = 0
             /\ req'[r].pc \notin {"rotate", "lockRows"}
Moves(r) == /\ InFlight(r) /\ begun' = begun /\ req'[r].id = req[r].id
            /\ UNCHANGED sessions \/ Kills(r)
Ends(r) == /\ begun' \in {begun, begun + 1}
           /\ req'[r] = Idle \/ (~InFlight(r) /\ req'[r] = req[r])

\* The locals with which a request can enter.
LEMMA EntryLocals ==
  ASSUME Typed
  PROVE  /\ LET locals == [Idle EXCEPT !.version = user.tokenVersion]
            IN locals \in Locals /\ locals.hit = {} /\ locals.seen = {} /\ locals.successor = 0
         /\ \A s \in Ids :
              /\ LET locals == [Idle EXCEPT !.row = s]
                 IN /\ locals \in Locals /\ locals.row = s
                    /\ locals.hit = {} /\ locals.seen = {} /\ locals.successor = 0
              /\ LET locals == [Idle EXCEPT !.row = s, !.at = clock]
                 IN /\ locals \in Locals /\ locals.row = s
                    /\ locals.hit = {} /\ locals.seen = {} /\ locals.successor = 0
<1>1. user.tokenVersion \in Nat /\ clock \in Nat
  BY Zenon DEF Typed, UserRows
<1> QED
  BY <1>1, IdleFields, IdsAreNumbers, Zenon DEF Locals

\* A request that arrives enters, unless it is answered at once.
LEMMA BeginEnters ==
  ASSUME Typed, NEW r \in Requests, Begin(r)
  PROVE  Enters(r) \/ Ends(r)
<1>1. req[r].pc = "idle" /\ begun' = begun + 1
  BY Zenon DEF Begin, LoginRead, RefreshLive, RefreshGrace, RefreshReuse, LockPresented,
     RefreshExpired, LogoutFind, ResetResolve, RequestReset, ReadAccount, Arrive
<1>2. CASE RequestReset(r) \/ \E s \in Ids : RefreshExpired(r, s)
  <2>1. req' = req
    BY <1>2, Zenon DEF RequestReset, RefreshExpired
  <2> QED
    BY <1>1, <2>1 DEF Ends, InFlight
<1>3. ASSUME NEW op \in {"login", "refresh", "grace", "reuse", "logout", "reset", "change", "delete"},
             NEW pc \in {"issue", "owner", "successor", "bulk", "consume", "user"},
             NEW locals \in Locals, locals.hit = {}, locals.seen = {}, locals.successor = 0,
             Arrive(r), Enter(r, op, pc, locals),
             UNCHANGED <<sessions, user, resetTokens, userLock>>
      PROVE  Enters(r)
  <2>1. op \in Operations /\ pc \in Labels /\ pc \notin {"rotate", "lockRows"}
    BY DEF Operations, Labels
  <2>2. /\ req'[r].id = begun' /\ req'[r].pc = pc
        /\ req'[r].hit = locals.hit /\ req'[r].seen = locals.seen /\ req'[r].successor = locals.successor
    BY <1>3, <2>1, EnterFields
  <2> QED
    BY <1>1, <1>3, <2>1, <2>2, Zenon DEF Enters, InFlight
<1>4. CASE LoginRead(r)
  <2>1. Enter(r, "login", "issue", [Idle EXCEPT !.version = user.tokenVersion]) /\ Arrive(r)
        /\ UNCHANGED <<sessions, user, resetTokens, userLock>>
    BY <1>4, Zenon DEF LoginRead
  <2> QED
    BY <1>3, <2>1, EntryLocals, Zenon
<1>5. CASE ReadAccount(r, "change")
  BY <1>3, <1>5, EntryLocals, Zenon DEF ReadAccount
<1>9. CASE ReadAccount(r, "delete")
  BY <1>3, <1>9, EntryLocals, Zenon DEF ReadAccount
<1>7. ASSUME NEW s \in Ids, ResetResolve(r, s) PROVE Enters(r)
  BY <1>3, <1>7, EntryLocals, Zenon DEF ResetResolve
<1>8. ASSUME NEW s \in Ids, LogoutFind(r, s) PROVE Enters(r)
  <2>1. Enter(r, "logout", "bulk", [Idle EXCEPT !.row = s]) /\ Arrive(r)
        /\ UNCHANGED <<sessions, user, resetTokens, userLock>>
    BY <1>8, Zenon DEF LogoutFind
  <2> QED
    BY <1>3, <2>1, EntryLocals, Zenon
<1>6. ASSUME NEW s \in Ids, RefreshLive(r, s) \/ RefreshGrace(r, s) \/ RefreshReuse(r, s)
      PROVE  Enters(r)
  <2>1. Arrive(r) /\ UNCHANGED <<sessions, user, resetTokens, userLock>>
    BY <1>6, Zenon DEF RefreshLive, RefreshGrace, RefreshReuse, LockPresented
  <2>2. CASE Enter(r, "refresh", "owner", [Idle EXCEPT !.row = s])
    BY <1>3, <2>1, <2>2, EntryLocals, Zenon
  <2>3. CASE Enter(r, "grace", "successor", [Idle EXCEPT !.row = s, !.at = clock])
    <3> DEFINE locals == [Idle EXCEPT !.row = s, !.at = clock]
    <3>1. locals \in Locals /\ locals.hit = {} /\ locals.seen = {} /\ locals.successor = 0
      BY EntryLocals, Zenon
    <3>2. Enter(r, "grace", "successor", locals)
      BY <2>3, Zenon
    <3> HIDE DEF locals
    <3> QED
      BY <1>3, <2>1, <3>1, <3>2, Zenon
  <2>4. CASE Enter(r, "reuse", "bulk", [Idle EXCEPT !.row = s])
    BY <1>3, <2>1, <2>4, EntryLocals, Zenon
  <2> QED
    BY <1>6, <2>2, <2>3, <2>4, Zenon DEF RefreshLive, RefreshGrace, RefreshReuse
<1> QED
  BY <1>2, <1>4, <1>5, <1>6, <1>7, <1>8, <1>9, Zenon DEF Begin

\* A request in flight moves on or ends.
LEMMA ContinueMoves ==
  ASSUME Typed, NEW r \in Requests, Held(r), Continue(r) \/ Fail(r)
  PROVE  Moves(r) \/ Ends(r)
<1>1. req \in [Requests -> Locals] /\ req[r] \in Locals
  BY Zenon DEF Typed
<1>2. CASE IssueSession(r) \/ Rotate(r) \/ Recover(r) \/ InactiveCommit(r) \/ ReuseCommit(r)
           \/ LogoutCommit(r) \/ ResetCommit(r) \/ DeleteCommit(r) \/ Fail(r)
  <2>1. End(r) /\ begun' = begun
    BY <1>2, Zenon DEF IssueSession, Rotate, Recover, RotateInto, InactiveCommit, ReuseCommit,
       LogoutCommit, ResetCommit, DeleteCommit, Fail
  <2>2. req'[r] = Idle
    BY <2>1, EndFields
  <2> QED
    BY <2>1, <2>2 DEF Ends
<1>3. ASSUME InFlight(r), req'[r].id = req[r].id, begun' = begun, UNCHANGED sessions PROVE Moves(r)
  BY <1>3, Zenon DEF Moves
<1>4. CASE LockSuccessor(r)
  <2>1. PICK t \in Ids \cup {0} : req' = [req EXCEPT ![r].pc = "owner", ![r].successor = t]
    BY <1>4, Zenon DEF LockSuccessor
  <2>2. req'[r].id = req[r].id
    BY <1>1, <2>1, Zenon DEF Locals
  <2>3. InFlight(r) /\ begun' = begun /\ sessions' = sessions
    BY <1>4 DEF LockSuccessor, InFlight
  <2> QED
    BY <1>3, <2>2, <2>3
<1>5. CASE ReadOwner(r)
  <2>1. req'[r].id = req[r].id
    <3>1. CASE req' = [req EXCEPT ![r].pc = "rotate", ![r].version = user.tokenVersion]
      BY <1>1, <3>1, Zenon DEF Locals
    <3>2. CASE req' = [req EXCEPT ![r].pc = "bulk",
                         ![r].op = IF @ = "grace" THEN "reuse" ELSE "inactive"]
      BY <1>1, <3>2, Zenon DEF Locals
    <3> QED
      BY <1>5, <3>1, <3>2, Zenon DEF ReadOwner
  <2>2. InFlight(r) /\ begun' = begun /\ sessions' = sessions
    BY <1>5 DEF ReadOwner, InFlight
  <2> QED
    BY <1>3, <2>1, <2>2
<1>6. CASE BulkSnapshot(r)
  <2>1. req'[r].id = req[r].id
    BY <1>1, <1>6, Zenon DEF BulkSnapshot, Locals
  <2>2. InFlight(r) /\ begun' = begun /\ sessions' = sessions
    BY <1>6 DEF BulkSnapshot, InFlight
  <2> QED
    BY <1>3, <2>1, <2>2
<1>7. ASSUME NEW s \in Ids, BulkLock(r, s) PROVE Moves(r)
  <2>1. req'[r].id = req[r].id
    BY <1>1, <1>7, Zenon DEF BulkLock, Locals
  <2>2. InFlight(r) /\ begun' = begun /\ sessions' = sessions
    BY <1>7 DEF BulkLock, InFlight
  <2> QED
    BY <1>3, <2>1, <2>2
<1>8. CASE ConsumePresented(r) \/ ConsumeOthers(r)
  <2>1. req'[r].id = req[r].id /\ begun' = begun /\ sessions' = sessions
    BY <1>8, TokenStepFields, Zenon
  <2>2. InFlight(r)
    BY <1>8 DEF ConsumePresented, ConsumeOthers, InFlight
  <2> QED
    BY <1>3, <2>1, <2>2
<1>9. CASE LockUser(r)
  <2>1. InFlight(r) /\ begun' = begun /\ sessions' = sessions
    BY <1>9 DEF LockUser, InFlight
  <2>2. CASE Goto(r, "bulk")
    <3>1. req'[r].id = req[r].id
      BY <1>1, <2>2, Zenon DEF Goto, Locals
    <3> QED
      BY <1>3, <2>1, <3>1
  <2>3. CASE req'[r] = [req[r] EXCEPT !.pc = "issue"]
    <3>1. req'[r].id = req[r].id
      BY <1>1, <2>3, Zenon DEF Locals
    <3> QED
      BY <1>3, <2>1, <3>1
  <2>4. CASE req'[r] = Idle
    BY <2>1, <2>4 DEF Ends
  <2> QED
    BY <1>1, <1>9, <2>2, <2>3, <2>4, Zenon DEF LockUser
<1>10. CASE ChangeCommit(r)
  <2>1. req'[r].id = req[r].id
    BY <1>1, <1>10, Zenon DEF ChangeCommit, Locals
  <2>2. InFlight(r) /\ begun' = begun /\ req[r].op # "delete" /\ RevokeHits(r, "PASSWORD_RESET")
    BY <1>10 DEF ChangeCommit, BulkDone, InFlight
  <2>3. Kills(r)
    <3>1. "PASSWORD_RESET" \in Revocations
      BY DEF Revocations
    <3> QED
      BY <2>2, <3>1, RevokingKills, Zenon DEF Held
  <2> QED
    BY <2>1, <2>2, <2>3, Zenon DEF Moves
<1> QED
  BY <1>2, <1>4, <1>5, <1>6, <1>7, <1>8, <1>9, <1>10, Zenon DEF Continue

\* Every action of request r leaves the others what they have.
LEMMA EveryActionIsFramed ==
  ASSUME Typed, Typed', NEW r \in Requests, Held(r), Acts(r)
  PROVE  Framed(r) /\ (Enters(r) \/ Moves(r) \/ Ends(r))
<1>1. Enters(r) \/ Moves(r) \/ Ends(r)
  BY BeginEnters, ContinueMoves, Zenon DEF Acts
<1>2. begun \in Nat /\ begun' \in Nat
  BY ConstantsOK DEF ConstantsOK, Typed
<1>3. begun' >= begun
  BY <1>1, <1>2 DEF Enters, Moves, Ends
<1>4. InFlight(r)' => \/ InFlight(r) /\ req'[r].id = req[r].id
                      \/ begun' = begun + 1 /\ req'[r].id = begun'
  <2>1. Ends(r) => ~InFlight(r)'
    BY IdleFields, Zenon DEF Ends, InFlight
  <2> QED
    BY <1>1, <2>1, Zenon DEF Enters, Moves
<1>5. ASSUME user.status # "DELETED", userLock # r PROVE user'.status # "DELETED"
  <2>1. Begin(r) \/ Fail(r) => user' = user
    BY Zenon DEF Begin, LoginRead, RefreshLive, RefreshGrace, RefreshReuse, LockPresented,
       RefreshExpired, LogoutFind, ResetResolve, RequestReset, ReadAccount, Fail
  <2>2. Continue(r) => user' = user \/ BumpVersion \/ DeleteCommit(r)
    BY Zenon DEF Continue, IssueSession, LockSuccessor, ReadOwner, Rotate, Recover, RotateInto,
       BulkSnapshot, BulkLock, InactiveCommit, ReuseCommit, LogoutCommit, ConsumePresented,
       ConsumeOthers, TakeTokens, LockUser,
       ResetCommit, ChangeCommit
  <2>3. ~DeleteCommit(r)
    BY <1>5, Zenon DEF DeleteCommit, BulkDone, Held, UserHeld
  <2>4. BumpVersion => user'.status = user.status
    BY Zenon DEF BumpVersion, Typed, UserRows
  <2> QED
    BY <1>5, <2>1, <2>2, <2>3, <2>4, Zenon DEF Acts
<1> QED
  BY <1>1, <1>3, <1>4, <1>5, OwnLocalsOnly, EveryActionKeepsLocks, Zenon DEF Framed

\* The acting request's own number: new when it enters, still unused when it moves on.
LEMMA StaysFresh ==
  ASSUME Typed, Typed', Numbered, NEW r \in Requests, \A q \in Requests : Fresh(q), Framed(r),
         Enters(r) \/ Moves(r) \/ Ends(r)
  PROVE  Fresh(r)'
<1>1. begun \in Nat /\ begun' \in Nat
  BY ConstantsOK DEF ConstantsOK, Typed
<1>2. CASE Ends(r)
  BY <1>2, IdleFields, Zenon DEF Ends, InFlight, Fresh
<1>3. CASE Enters(r)
  <2>1. begun' = begun + 1 /\ req'[r].id = begun' /\ sessions' = sessions
    BY <1>3, Zenon DEF Enters
  <2>2. ASSUME NEW s \in Ids, Exists(s)
        PROVE  s # begun' /\ sessions[s].familyId # begun' /\ sessions[s].rotatedFrom # begun'
    BY <1>1, <2>1, <2>2 DEF Numbered
  <2>3. ASSUME NEW q \in Requests, q # r, InFlight(q)' PROVE req'[q].id # begun'
    <3>1. req'[q] = req[q] /\ InFlight(q)
      BY <2>3, Zenon DEF Framed, InFlight
    <3>2. req[q].id \in 1 .. begun
      BY <3>1, Zenon DEF Fresh
    <3> QED
      BY <1>1, <2>1, <3>1, <3>2
  <2>4. begun' \in 1 .. begun'
    BY <1>1, <2>1
  <2> QED
    BY <2>1, <2>2, <2>3, <2>4, Zenon DEF Fresh, Exists
<1>4. CASE Moves(r)
  <2>1. InFlight(r) /\ begun' = begun /\ req'[r].id = req[r].id
    BY <1>4, Zenon DEF Moves
  <2>2. ASSUME NEW s \in Ids, Exists(s)' PROVE Exists(s) /\ SameLinks(s)
    <3>1. CASE UNCHANGED sessions
      BY <2>2, <3>1, Zenon DEF Exists, SameLinks
    <3>2. CASE Kills(r)
      <4>1. sessions'[s] = sessions[s] \/ (Live(s) /\ SameLinks(s))
        BY <3>2, Zenon DEF Kills
      <4> QED
        BY <2>2, <4>1, LiveExists, Zenon DEF Exists, SameLinks
    <3> QED
      BY <1>4, <3>1, <3>2, Zenon DEF Moves
  <2>3. ASSUME NEW q \in Requests, q # r, InFlight(q)' PROVE InFlight(q) /\ req'[q].id = req[q].id
    BY <2>3, Zenon DEF Framed, InFlight
  <2>4. /\ req'[r].id \in 1 .. begun'
        /\ \A q \in Requests : InFlight(q)' /\ q # r => req'[q].id # req'[r].id
    BY <2>1, <2>3, Zenon DEF Fresh
  <2>5. ASSUME NEW s \in Ids, Exists(s)'
        PROVE  /\ s # req'[r].id /\ sessions'[s].familyId # req'[r].id
               /\ sessions'[s].rotatedFrom # req'[r].id
    BY <2>1, <2>2, <2>5, Zenon DEF Fresh, SameLinks
  <2> QED
    BY <2>4, <2>5, Zenon DEF Fresh, Exists
<1> QED
  BY <1>2, <1>3, <1>4

-----------------------------------------------------------------------------
(* What the acting request knows after its own step.                       *)

\* A request that ends knows nothing.
LEMMA EndingIsSettled ==
  ASSUME Typed, NEW r \in Requests, IdleIsNone(r), Ends(r)
  PROVE  Settled(r)'
<1>1. req'[r].op = "none" /\ req'[r].hit = {}
  BY IdleFields, Zenon DEF Ends, IdleIsNone
<1>2. RowHeld(r)' /\ SuccessorHeld(r)' /\ UserHeld(r)' /\ DeletionSeesAll(r)'
  BY <1>1 DEF RowHeld, SuccessorHeld, UserHeld, DeletionSeesAll
<1>3. HitsHeld(r)' /\ IdleIsNone(r)'
  BY <1>1, Zenon DEF HitsHeld, IdleIsNone
<1> QED
  BY <1>2, <1>3, Zenon DEF Settled, Held

\* A request that enters with no row, or a row it does not rely on.
LEMMA EnteringFreely ==
  ASSUME NEW r \in Requests, Enters(r), req'[r].pc # "idle",
         req'[r].op \notin {"refresh", "grace", "reuse", "inactive"},
         req'[r].pc = "bulk" => req'[r].op \notin {"delete", "reset", "change"}
  PROVE  Settled(r)'
<1>1. req'[r].hit = {} /\ req'[r].pc # "lockRows"
  BY Zenon DEF Enters
<1>2. RowHeld(r)' /\ SuccessorHeld(r)' /\ UserHeld(r)' /\ DeletionSeesAll(r)'
  BY <1>1 DEF RowHeld, SuccessorHeld, UserHeld, DeletionSeesAll
<1>3. HitsHeld(r)' /\ IdleIsNone(r)'
  BY <1>1, Zenon DEF HitsHeld, IdleIsNone, InFlight
<1> QED
  BY <1>2, <1>3, Zenon DEF Settled, Held

\* A refresh enters with the row it was presented with locked.
LEMMA EnteringWithRow ==
  ASSUME Typed, NEW r \in Requests, NEW s \in Ids, LockPresented(r, s), Enters(r),
         req'[r].row = s, req'[r].pc # "idle", req'[r].op \in {"refresh", "grace", "reuse"},
         req'[r].op = "refresh" => Live(s), req'[r].op = "grace" => RotatedWithinGrace(s)
  PROVE  Settled(r)'
<1>1. req'[r].hit = {} /\ req'[r].successor = 0 /\ req'[r].pc \notin {"rotate", "lockRows"}
  BY Zenon DEF Enters
<1>2. sessions' = sessions /\ rowLock'[s] = r /\ Exists(s)
  BY Zenon DEF LockPresented, Typed
<1>3. Holds(r, s)'
  BY <1>2, Zenon DEF Holds, Exists
<1>4. RowHeld(r)'
  <2>1. req'[r].op = "refresh" => Live(s)'
    BY <1>2, Zenon DEF Live
  <2>2. req'[r].op = "grace" => sessions'[s].reason = "ROTATED" /\ ~sessions'[s].graceUsed
    BY <1>2, Zenon DEF RotatedWithinGrace
  <2> QED
    BY <1>3, <2>1, <2>2, Zenon DEF RowHeld
<1>5. SuccessorHeld(r)' /\ UserHeld(r)' /\ DeletionSeesAll(r)'
  BY <1>1 DEF SuccessorHeld, UserHeld, DeletionSeesAll
<1>6. HitsHeld(r)' /\ IdleIsNone(r)'
  BY <1>1, Zenon DEF HitsHeld, IdleIsNone, InFlight
<1> QED
  BY <1>4, <1>5, <1>6, Zenon DEF Settled, Held

\* Whatever a request arrives for, it knows what its operation relies on.
LEMMA BeginIsSettled ==
  ASSUME Typed, NEW r \in Requests, IdleIsNone(r), Begin(r)
  PROVE  Settled(r)'
<1>1. CASE Ends(r)
  BY <1>1, EndingIsSettled
<1>2. CASE Enters(r)
  <2> USE <1>2
  <2>1. ASSUME NEW op \in {"login", "reset", "change", "delete", "logout"},
               NEW pc \in {"issue", "consume", "user", "bulk"}, op = "logout" \/ pc # "bulk",
               NEW locals \in Locals, Arrive(r), Enter(r, op, pc, locals)
        PROVE  Settled(r)'
    <3>1. op \in Operations /\ pc \in Labels
      BY DEF Operations, Labels
    <3>2. req'[r].op = op /\ req'[r].pc = pc
      BY <2>1, <3>1, EnterFields
    <3> QED
      BY <2>1, <3>2, EnteringFreely
  <2>2. ASSUME NEW s \in Ids, NEW op \in {"refresh", "grace", "reuse"},
               NEW pc \in {"owner", "successor", "bulk"}, NEW locals \in Locals, locals.row = s,
               LockPresented(r, s), Enter(r, op, pc, locals),
               op = "refresh" => Live(s), op = "grace" => RotatedWithinGrace(s)
        PROVE  Settled(r)'
    <3>1. op \in Operations /\ pc \in Labels
      BY DEF Operations, Labels
    <3>2. Arrive(r)
      BY <2>2, Zenon DEF LockPresented
    <3>3. req'[r].op = op /\ req'[r].pc = pc /\ req'[r].row = s
      BY <2>2, <3>1, <3>2, EnterFields
    <3> QED
      BY <2>2, <3>3, EnteringWithRow
  <2>3. CASE LoginRead(r)
    BY <2>1, <2>3, EntryLocals, Zenon DEF LoginRead
  <2>4. CASE ReadAccount(r, "change")
    BY <2>1, <2>4, EntryLocals, Zenon DEF ReadAccount
  <2>5. CASE ReadAccount(r, "delete")
    BY <2>1, <2>5, EntryLocals, Zenon DEF ReadAccount
  <2>6. ASSUME NEW s \in Ids, ResetResolve(r, s) PROVE Settled(r)'
    BY <2>1, <2>6, EntryLocals, Zenon DEF ResetResolve
  <2>7. ASSUME NEW s \in Ids, LogoutFind(r, s) PROVE Settled(r)'
    <3>1. Arrive(r) /\ Enter(r, "logout", "bulk", [Idle EXCEPT !.row = s])
      BY <2>7, Zenon DEF LogoutFind
    <3> QED
      BY <2>1, <3>1, EntryLocals, Zenon
  <2>8. ASSUME NEW s \in Ids, RefreshLive(r, s) PROVE Settled(r)'
    <3>1. /\ LockPresented(r, s) /\ Enter(r, "refresh", "owner", [Idle EXCEPT !.row = s])
          /\ Live(s)
      BY <2>8, Zenon DEF RefreshLive
    <3> QED
      BY <2>2, <3>1, EntryLocals, Zenon
  <2>9. ASSUME NEW s \in Ids, RefreshGrace(r, s) PROVE Settled(r)'
    <3> DEFINE locals == [Idle EXCEPT !.row = s, !.at = clock]
    <3>1. locals \in Locals /\ locals.row = s
      BY EntryLocals, Zenon
    <3>2. LockPresented(r, s) /\ Enter(r, "grace", "successor", locals) /\ RotatedWithinGrace(s)
      BY <2>9, Zenon DEF RefreshGrace
    <3> HIDE DEF locals
    <3> QED
      BY <2>2, <3>1, <3>2, Zenon
  <2>10. ASSUME NEW s \in Ids, RefreshReuse(r, s) PROVE Settled(r)'
    <3>1. LockPresented(r, s) /\ Enter(r, "reuse", "bulk", [Idle EXCEPT !.row = s])
      BY <2>10, Zenon DEF RefreshReuse
    <3> QED
      BY <2>2, <3>1, EntryLocals, Zenon
  <2>11. CASE RequestReset(r) \/ \E s \in Ids : RefreshExpired(r, s)
    <3>1. req' = req /\ Arrive(r)
      BY <2>11, Zenon DEF RequestReset, RefreshExpired
    <3>2. Ends(r)
      BY <3>1 DEF Arrive, Ends, InFlight
    <3> QED
      BY <3>2, EndingIsSettled
  <2> QED
    BY <2>3, <2>4, <2>5, <2>6, <2>7, <2>8, <2>9, <2>10, <2>11, Zenon DEF Begin
<1> QED
  BY <1>1, <1>2, BeginEnters

\* A step that writes no row and drops no lock keeps what is held.
LEMMA OwnHoldsKept ==
  ASSUME NEW r \in Requests, UNCHANGED sessions,
         \A s \in Ids : rowLock[s] = r => rowLock'[s] = r
  PROVE  \A s \in Ids : /\ Holds(r, s) => Holds(r, s)'
                        /\ Live(s)' <=> Live(s)
                        /\ Exists(s)' <=> Exists(s)
BY Zenon DEF Holds, Exists, Live

\* A refresh that finds the one successor of its row locks it with its row.
LEMMA LockingSuccessorSettles ==
  ASSUME Typed, NEW r \in Requests, RowKnown(r), Settled(r), LockSuccessor(r)
  PROVE  Settled(r)'
<1> DEFINE row == req[r].row
           succs == {t \in Ids : /\ Exists(t)
                                 /\ sessions[t].rotatedFrom = req[r].row
                                 /\ sessions[t].familyId = sessions[req[r].row].familyId}
<1>1. PICK t \in succs \cup {0} : /\ IF t = 0 THEN Cardinality(succs) # 1 ELSE succs = {t}
                                  /\ req' = [req EXCEPT ![r].pc = "owner", ![r].successor = t]
  BY Zenon DEF LockSuccessor
<1>2. /\ req[r].pc = "successor" /\ sessions' = sessions
      /\ rowLock' = [s \in Ids |-> IF s \in succs THEN r ELSE rowLock[s]]
  BY Zenon DEF LockSuccessor
<1>3. req[r].op = "grace" /\ row \in Ids /\ Holds(r, row) /\ sessions[row].reason = "ROTATED"
      /\ ~sessions[row].graceUsed
  BY <1>2, Zenon DEF RowKnown, Settled, Held, RowHeld
<1>4. /\ req'[r].pc = "owner" /\ req'[r].op = req[r].op /\ req'[r].row = req[r].row
      /\ req'[r].hit = req[r].hit /\ req'[r].successor = t
  <2>1. req[r] \in Locals
    BY Zenon DEF Typed
  <2> QED
    BY <1>1, <2>1, Zenon DEF Locals, Typed
<1>5. \A s \in Ids : /\ Holds(r, s) => Holds(r, s)'
                     /\ Live(s)' <=> Live(s)
                     /\ Exists(s)' <=> Exists(s)
  BY <1>2, OwnHoldsKept, Zenon
<1>6. RowHeld(r)'
  BY <1>2, <1>3, <1>4, <1>5 DEF RowHeld
<1>7. SuccessorHeld(r)'
  <2>1. CASE t = 0
    BY <1>4, <2>1 DEF SuccessorHeld
  <2>2. CASE t \in succs
    <3>1. /\ t \in Ids /\ Exists(t) /\ sessions[t].rotatedFrom = row
          /\ sessions[t].familyId = sessions[row].familyId /\ rowLock'[t] = r
      BY <1>2, <2>2, Zenon
    <3>2. Holds(r, t)'
      BY <1>2, <3>1, Zenon DEF Holds, Exists
    <3> QED
      BY <1>2, <1>4, <3>1, <3>2 DEF SuccessorHeld
  <2> QED
    BY <1>1, <2>1, <2>2
<1>8. HitsHeld(r)'
  <2>1. \A s \in req[r].hit : s \in Ids
    BY Zenon DEF Typed, Locals
  <2> QED
    BY <1>4, <1>5, <2>1, Zenon DEF HitsHeld, Settled, Held
<1>9. UserHeld(r)' /\ DeletionSeesAll(r)'
  BY <1>4 DEF UserHeld, DeletionSeesAll
<1>10. IdleIsNone(r)'
  BY <1>4 DEF IdleIsNone, InFlight
<1> QED
  BY <1>6, <1>7, <1>8, <1>9, <1>10, Zenon DEF Settled, Held

\* Once the owner is read the request rotates the row, or kills its family.
LEMMA ReadingOwnerSettles ==
  ASSUME Typed, NEW r \in Requests, RowKnown(r), Settled(r), ReadOwner(r)
  PROVE  Settled(r)'
<1>1. req[r].pc = "owner" /\ sessions' = sessions /\ rowLock' = rowLock
  BY Zenon DEF ReadOwner
<1>2. req[r].op \in {"refresh", "grace"} /\ req[r].row \in Ids /\ Holds(r, req[r].row)
  BY <1>1, Zenon DEF RowKnown, Settled, Held, RowHeld
<1>3. req[r] \in Locals /\ req \in [Requests -> Locals]
  BY Zenon DEF Typed
<1>4. \A s \in Ids : /\ Holds(r, s) => Holds(r, s)'
                     /\ Live(s)' <=> Live(s)
                     /\ Exists(s)' <=> Exists(s)
  BY <1>1, OwnHoldsKept, Zenon
<1>5. \A s \in req[r].hit : s \in Ids
  BY <1>3, Zenon DEF Locals
<1>6. CASE MayRotate(r)
           /\ req' = [req EXCEPT ![r].pc = "rotate", ![r].version = user.tokenVersion]
  <2>1. /\ req'[r].pc = "rotate" /\ req'[r].op = req[r].op /\ req'[r].row = req[r].row
        /\ req'[r].hit = req[r].hit /\ req'[r].successor = req[r].successor
    BY <1>3, <1>6, Zenon DEF Locals
  <2>2. RowHeld(r)'
    BY <1>1, <1>4, <2>1, Zenon DEF RowHeld, Settled, Held
  <2>3. SuccessorHeld(r)'
    <3>1. req[r].op = "grace" => req[r].successor # 0 /\ Live(req[r].successor)
      BY <1>6, Zenon DEF MayRotate
    <3> QED
      BY <1>1, <1>4, <2>1, <3>1, Zenon DEF SuccessorHeld, Settled, Held
  <2>4. HitsHeld(r)'
    BY <1>4, <1>5, <2>1, Zenon DEF HitsHeld, Settled, Held
  <2>5. UserHeld(r)' /\ DeletionSeesAll(r)' /\ IdleIsNone(r)'
    BY <2>1 DEF UserHeld, DeletionSeesAll, IdleIsNone, InFlight
  <2> QED
    BY <2>2, <2>3, <2>4, <2>5, Zenon DEF Settled, Held
<1>7. CASE req' = [req EXCEPT ![r].pc = "bulk",
                     ![r].op = IF @ = "grace" THEN "reuse" ELSE "inactive"]
  <2>1. /\ req'[r].pc = "bulk" /\ req'[r].row = req[r].row /\ req'[r].hit = req[r].hit
        /\ req'[r].op = IF req[r].op = "grace" THEN "reuse" ELSE "inactive"
    BY <1>3, <1>7, Zenon DEF Locals
  <2>2. req'[r].op \in {"reuse", "inactive"}
    BY <2>1
  <2>3. RowHeld(r)'
    BY <1>2, <1>4, <2>1, <2>2 DEF RowHeld
  <2>4. HitsHeld(r)'
    <3>1. req[r].op # "delete"
      BY <1>2
    <3> QED
      BY <1>4, <1>5, <2>1, <3>1, Zenon DEF HitsHeld, Settled, Held
  <2>5. SuccessorHeld(r)' /\ UserHeld(r)' /\ DeletionSeesAll(r)' /\ IdleIsNone(r)'
    BY <2>1, <2>2 DEF SuccessorHeld, UserHeld, DeletionSeesAll, IdleIsNone, InFlight
  <2> QED
    BY <2>3, <2>4, <2>5, Zenon DEF Settled, Held
<1> QED
  BY <1>6, <1>7, Zenon DEF ReadOwner

\* A step that leaves the operation and its rows alone keeps what it knows of them.
LEMMA RowsStayHeld ==
  ASSUME Typed, NEW r \in Requests, Settled(r), UNCHANGED sessions,
         \A s \in Ids : rowLock[s] = r => rowLock'[s] = r,
         req'[r].op = req[r].op, req'[r].row = req[r].row,
         req'[r].successor = req[r].successor, req'[r].pc # "rotate"
  PROVE  /\ RowHeld(r)' /\ SuccessorHeld(r)'
         /\ req'[r].hit = req[r].hit => HitsHeld(r)'
<1>1. \A s \in Ids : /\ Holds(r, s) => Holds(r, s)'
                     /\ Live(s)' <=> Live(s)
                     /\ Exists(s)' <=> Exists(s)
  BY OwnHoldsKept, Zenon
<1>2. RowHeld(r) /\ SuccessorHeld(r) /\ HitsHeld(r)
  BY Zenon DEF Settled, Held
<1>3. RowHeld(r)'
  BY <1>1, <1>2, Zenon DEF RowHeld
<1>4. SuccessorHeld(r)'
  BY <1>1, <1>2, Zenon DEF SuccessorHeld
<1>5. req'[r].hit = req[r].hit => HitsHeld(r)'
  <2>1. \A s \in req[r].hit : s \in Ids
    BY Zenon DEF Typed, Locals
  <2> QED
    BY <1>1, <1>2, <2>1, Zenon DEF HitsHeld
<1> QED
  BY <1>3, <1>4, <1>5

\* A deletion's snapshot sees every row: nobody can insert one any more.
LEMMA SnapshotSettles ==
  ASSUME Typed, NEW r \in Requests, Settled(r), BulkSnapshot(r)
  PROVE  Settled(r)'
<1> DEFINE targets == {s \in Ids : InScope(r, s)}
<1>1. /\ req[r].pc = "bulk" /\ UNCHANGED <<sessions, user, rowLock, userLock>>
      /\ req' = [req EXCEPT ![r].pc = "lockRows", ![r].todo = targets, ![r].seen = targets]
  BY Zenon DEF BulkSnapshot
<1>2. /\ req'[r].pc = "lockRows" /\ req'[r].op = req[r].op /\ req'[r].row = req[r].row
      /\ req'[r].hit = req[r].hit /\ req'[r].successor = req[r].successor
      /\ req'[r].todo = targets
  <2>1. req[r] \in Locals /\ req \in [Requests -> Locals]
    BY Zenon DEF Typed
  <2> QED
    BY <1>1, <2>1, Zenon DEF Locals
<1>3. RowHeld(r)' /\ SuccessorHeld(r)' /\ HitsHeld(r)'
  BY <1>1, <1>2, RowsStayHeld
<1>4. UserHeld(r)'
  BY <1>1, <1>2, Zenon DEF UserHeld, Settled, Held
<1>5. DeletionSeesAll(r)'
  BY <1>1, <1>2, Zenon DEF DeletionSeesAll, InScope, Exists
<1>6. IdleIsNone(r)'
  BY <1>2 DEF IdleIsNone, InFlight
<1> QED
  BY <1>3, <1>4, <1>5, <1>6, Zenon DEF Settled, Held

\* A row is hit only if it is locked and still in scope; a deletion skips a row
\* only if it is gone.
LEMMA BulkLockSettles ==
  ASSUME Typed, NEW r \in Requests, Settled(r), NEW s \in Ids, BulkLock(r, s)
  PROVE  Settled(r)'
<1>1. /\ req[r].pc = "lockRows" /\ UNCHANGED <<sessions, user, userLock>>
      /\ rowLock[s] \in {NoRequest, r} /\ s \in req[r].todo
  BY Zenon DEF BulkLock
<1>2. req[r] \in Locals /\ req \in [Requests -> Locals]
  BY Zenon DEF Typed
<1>3. CASE /\ InScope(r, s) /\ rowLock' = [rowLock EXCEPT ![s] = r]
           /\ req' = [req EXCEPT ![r].todo = @ \ {s}, ![r].hit = @ \cup {s}]
  <2>1. /\ req'[r].pc = req[r].pc /\ req'[r].op = req[r].op /\ req'[r].row = req[r].row
        /\ req'[r].successor = req[r].successor
        /\ req'[r].todo = req[r].todo \ {s} /\ req'[r].hit = req[r].hit \cup {s}
    BY <1>2, <1>3, Zenon DEF Locals
  <2>2. rowLock'[s] = r /\ \A t \in Ids : rowLock[t] = r => rowLock'[t] = r
    BY <1>3, Zenon DEF Typed
  <2>3. RowHeld(r)' /\ SuccessorHeld(r)'
    BY <1>1, <2>1, <2>2, RowsStayHeld
  <2>4. Exists(s) /\ (req[r].op # "delete" => Live(s))
    BY <1>3, LiveExists DEF InScope
  <2>5. HitsHeld(r)'
    <3>1. \A t \in req[r].hit : t \in Ids /\ Holds(r, t) /\ (req[r].op # "delete" => Live(t))
      BY <1>2, Zenon DEF Locals, Settled, Held, HitsHeld
    <3> QED
      BY <1>1, <2>1, <2>2, <2>4, <3>1, Zenon DEF HitsHeld, Holds, Exists, Live
  <2>6. UserHeld(r)'
    BY <1>1, <2>1, Zenon DEF UserHeld, Settled, Held
  <2>7. DeletionSeesAll(r)'
    BY <1>1, <2>1, Zenon DEF DeletionSeesAll, Settled, Held, Exists
  <2>8. IdleIsNone(r)'
    BY <1>1, <2>1 DEF IdleIsNone, InFlight
  <2> QED
    BY <2>3, <2>5, <2>6, <2>7, <2>8, Zenon DEF Settled, Held
<1>4. CASE /\ ~InScope(r, s) /\ UNCHANGED rowLock
           /\ req' = [req EXCEPT ![r].todo = @ \ {s}]
  <2>1. /\ req'[r].pc = req[r].pc /\ req'[r].op = req[r].op /\ req'[r].row = req[r].row
        /\ req'[r].successor = req[r].successor
        /\ req'[r].todo = req[r].todo \ {s} /\ req'[r].hit = req[r].hit
    BY <1>2, <1>4, Zenon DEF Locals
  <2>2. RowHeld(r)' /\ SuccessorHeld(r)' /\ HitsHeld(r)'
    BY <1>1, <1>4, <2>1, RowsStayHeld
  <2>3. UserHeld(r)'
    BY <1>1, <2>1, Zenon DEF UserHeld, Settled, Held
  <2>4. DeletionSeesAll(r)'
    <3>1. req[r].op = "delete" => ~Exists(s)
      BY <1>4 DEF InScope
    <3> QED
      BY <1>1, <2>1, <3>1, Zenon DEF DeletionSeesAll, Settled, Held, Exists
  <2>5. IdleIsNone(r)'
    BY <1>1, <2>1 DEF IdleIsNone, InFlight
  <2> QED
    BY <2>2, <2>3, <2>4, <2>5, Zenon DEF Settled, Held
<1> QED
  BY <1>3, <1>4, Zenon DEF BulkLock

\* A request at another label than a bulk statement's relies on its rows only.
LEMMA GoingOnSettles ==
  ASSUME Typed, NEW r \in Requests, Settled(r), UNCHANGED <<sessions, rowLock>>,
         req'[r].op = req[r].op, req'[r].row = req[r].row, req'[r].hit = req[r].hit,
         req'[r].successor = req[r].successor, req'[r].pc \in {"others", "user", "issue", "bulk"},
         req'[r].pc = "bulk" => userLock' = r /\ user'.status # "DELETED"
  PROVE  Settled(r)'
<1>1. RowHeld(r)' /\ SuccessorHeld(r)' /\ HitsHeld(r)'
  BY RowsStayHeld
<1>2. UserHeld(r)' /\ DeletionSeesAll(r)' /\ IdleIsNone(r)'
  BY DEF UserHeld, DeletionSeesAll, IdleIsNone, InFlight
<1> QED
  BY <1>1, <1>2, Zenon DEF Settled, Held

\* The reset's token steps, and the first statement on the users row.
LEMMA LockingUserSettles ==
  ASSUME Typed, NEW r \in Requests, Settled(r),
         ConsumePresented(r) \/ ConsumeOthers(r) \/ LockUser(r)
  PROVE  Settled(r)'
<1>1. req[r] \in Locals /\ req \in [Requests -> Locals]
  BY Zenon DEF Typed
<1>2. UNCHANGED <<sessions, rowLock, user, begun>>
  BY Zenon DEF ConsumePresented, ConsumeOthers, TakeTokens, LockUser
<1>3. CASE ConsumePresented(r) \/ ConsumeOthers(r)
  <2>1. /\ req'[r].pc \in {"others", "user"} /\ req'[r].op = req[r].op /\ req'[r].row = req[r].row
        /\ req'[r].hit = req[r].hit /\ req'[r].successor = req[r].successor
    BY <1>3, TokenStepFields, Zenon
  <2> QED
    BY <1>2, <2>1, GoingOnSettles
<1>4. CASE user.status # "DELETED" /\ userLock' = r /\ Goto(r, "bulk")
  <2>1. /\ req'[r].pc = "bulk" /\ req'[r].op = req[r].op /\ req'[r].row = req[r].row
        /\ req'[r].hit = req[r].hit /\ req'[r].successor = req[r].successor
    BY <1>1, <1>4, Zenon DEF Goto, Locals
  <2> QED
    BY <1>2, <1>4, <2>1, GoingOnSettles
<1>5. CASE req'[r] = [req[r] EXCEPT !.pc = "issue"]
  <2>1. /\ req'[r].pc = "issue" /\ req'[r].op = req[r].op /\ req'[r].row = req[r].row
        /\ req'[r].hit = req[r].hit /\ req'[r].successor = req[r].successor
    BY <1>1, <1>5, Zenon DEF Locals
  <2> QED
    BY <1>2, <2>1, GoingOnSettles
<1>6. CASE req'[r] = Idle
  BY <1>2, <1>6, EndingIsSettled DEF Ends, Settled
<1>7. LockUser(r) => \/ user.status # "DELETED" /\ userLock' = r /\ Goto(r, "bulk")
                     \/ req'[r] = [req[r] EXCEPT !.pc = "issue"] \/ req'[r] = Idle
  BY <1>1, Zenon DEF LockUser
<1> QED
  BY <1>3, <1>4, <1>5, <1>6, <1>7, Zenon

\* After its commit a password change holds nothing and goes on to issue.
LEMMA ChangeSettles ==
  ASSUME Typed, NEW r \in Requests, Settled(r), ChangeCommit(r)
  PROVE  Settled(r)'
<1>1. /\ req'[r].pc = "issue" /\ req'[r].op = req[r].op /\ req'[r].hit = {} /\ req[r].op = "change"
  BY Zenon DEF ChangeCommit, BulkDone, Typed, Locals
<1>2. RowHeld(r)' /\ SuccessorHeld(r)' /\ UserHeld(r)' /\ DeletionSeesAll(r)' /\ IdleIsNone(r)'
  BY <1>1 DEF RowHeld, SuccessorHeld, UserHeld, DeletionSeesAll, IdleIsNone, InFlight
<1>3. HitsHeld(r)'
  BY <1>1, Zenon DEF HitsHeld
<1> QED
  BY <1>2, <1>3, Zenon DEF Settled, Held

\* Whatever request r does, it knows what its operation relies on afterwards.
LEMMA EveryActionSettles ==
  ASSUME Typed, NEW r \in Requests, RowKnown(r), Settled(r), Acts(r)
  PROVE  Settled(r)'
<1>1. CASE Begin(r)
  BY <1>1, BeginIsSettled DEF Settled
<1>2. CASE IssueSession(r) \/ Rotate(r) \/ Recover(r) \/ InactiveCommit(r) \/ ReuseCommit(r)
           \/ LogoutCommit(r) \/ ResetCommit(r) \/ DeleteCommit(r) \/ Fail(r)
  <2>1. End(r) /\ begun' = begun
    BY <1>2, Zenon DEF IssueSession, Rotate, Recover, RotateInto, InactiveCommit, ReuseCommit,
       LogoutCommit, ResetCommit, DeleteCommit, Fail
  <2>2. Ends(r)
    BY <2>1, EndFields DEF Ends
  <2> QED
    BY <2>2, EndingIsSettled DEF Settled
<1>3. CASE LockSuccessor(r)
  BY <1>3, LockingSuccessorSettles
<1>4. CASE ReadOwner(r)
  BY <1>4, ReadingOwnerSettles
<1>5. CASE BulkSnapshot(r) \/ \E s \in Ids : BulkLock(r, s)
  BY <1>5, SnapshotSettles, BulkLockSettles
<1>6. CASE ConsumePresented(r) \/ ConsumeOthers(r) \/ LockUser(r)
  BY <1>6, LockingUserSettles
<1>7. CASE ChangeCommit(r)
  BY <1>7, ChangeSettles
<1> QED
  BY <1>1, <1>2, <1>3, <1>4, <1>5, <1>6, <1>7, Zenon DEF Acts, Continue

-----------------------------------------------------------------------------
(* The invariant.                                                          *)

\* Only the commit of a deletion changes whether the account is there.
LEMMA OnlyDeletionDeletes ==
  ASSUME Typed, NEW r \in Requests, Acts(r), ~DeleteCommit(r)
  PROVE  user'.status = user.status
<1>1. Begin(r) \/ Fail(r) => user' = user
  BY Zenon DEF Begin, LoginRead, RefreshLive, RefreshGrace, RefreshReuse, LockPresented,
     RefreshExpired, LogoutFind, ResetResolve, RequestReset, ReadAccount, Fail
<1>2. Continue(r) => user' = user \/ BumpVersion
  BY Zenon DEF Continue, IssueSession, LockSuccessor, ReadOwner, Rotate, Recover,
     RotateInto, BulkSnapshot, BulkLock, InactiveCommit, ReuseCommit, LogoutCommit,
     ConsumePresented, ConsumeOthers, TakeTokens, LockUser, ResetCommit, ChangeCommit
<1>3. BumpVersion => user'.status = user.status
  BY Zenon DEF BumpVersion, Typed, UserRows
<1> QED
  BY <1>1, <1>2, <1>3, Zenon DEF Acts

\* Inserts wait for a deletion, and a deletion leaves nothing behind.
LEMMA NoOrphansStep ==
  ASSUME Typed, NEW r \in Requests, Fresh(r), Held(r), NoOrphans, Acts(r), [Next]_vars
  PROVE  NoOrphans'
<1>1. RowStep(r)
  BY EveryActionIsARowStep
<1>2. CASE DeleteCommit(r)
  <2>1. Wipes(r)
    BY <1>2, DeletingWipes
  <2>2. \A s \in Ids : resetTokens'[s] = NoToken
    BY <1>2, Zenon DEF DeleteCommit
  <2> QED
    BY <2>1, <2>2, Zenon DEF Wipes, NoOrphans
<1>3. ASSUME ~DeleteCommit(r), user'.status = "DELETED" PROVE NoOrphans'
  <2>1. user.status = "DELETED"
    BY <1>3, OnlyDeletionDeletes
  <2>2. ~ForeignKeyHolds /\ \A s \in Ids : ~Exists(s) /\ resetTokens[s] = NoToken
    BY <2>1, Zenon DEF ForeignKeyHolds, NoOrphans
  <2>3. \A s \in Ids : ~Exists(s)'
    BY <1>1, <2>2, RowStepFrames, Zenon DEF RowsComeFrom, ComesFrom
  <2>4. resetTokens' = resetTokens
    <3>1. Begin(r) \/ Fail(r) => resetTokens' = resetTokens
      BY <2>2, Zenon DEF Begin, LoginRead, RefreshLive, RefreshGrace, RefreshReuse, LockPresented,
         RefreshExpired, LogoutFind, ResetResolve, RequestReset, ReadAccount, Fail
    <3>2. ~ResetCommit(r)
      BY <2>1, Zenon DEF ResetCommit, BulkDone, Held, UserHeld
    <3>3. Continue(r) => resetTokens' = resetTokens
      BY <1>3, <3>2, Zenon DEF Continue, IssueSession, LockSuccessor, ReadOwner, Rotate, Recover,
         RotateInto, BulkSnapshot, BulkLock, InactiveCommit, ReuseCommit, LogoutCommit,
         ConsumePresented, ConsumeOthers, TakeTokens, LockUser, ChangeCommit
    <3> QED
      BY <3>1, <3>3, Zenon DEF Acts
  <2> QED
    BY <2>2, <2>3, <2>4, Zenon DEF NoOrphans
<1> QED
  BY <1>2, <1>3, Zenon DEF NoOrphans

\* When no request acts, no row, lock or local changes.
LEMMA NobodyActsKeeps ==
  ASSUME Typed, NobodyActs
  PROVE  /\ UNCHANGED <<begun, sessions, resetTokens, rowLock, userLock, req>>
         /\ user'.status = "DELETED" <=> user.status = "DELETED"
<1>1. CASE OperatorDisables
  <2>1. user'.status = "DISABLED" /\ user.status = "ACTIVE"
    BY <1>1, Zenon DEF OperatorDisables, Typed, UserRows
  <2> QED
    BY <1>1, <2>1 DEF OperatorDisables
<1>2. CASE Tick \/ UNCHANGED vars
  BY <1>2, Zenon DEF Tick, vars
<1> QED
  BY <1>1, <1>2, Zenon DEF NobodyActs

\* The invariant holds initially.
LEMMA IInvInit == Init => IInv
<1> SUFFICES ASSUME Init PROVE IInv
  OBVIOUS
<1>1. TypedInv
  BY TypedInvInit
<1>2. /\ \A s \in Ids : sessions[s] = NoRow
      /\ \A r \in Requests : req[r] = Idle
      /\ user.status = "ACTIVE"
  BY Zenon DEF Init
<1>3. \A s \in Ids : ~Exists(s) /\ ~Live(s)
  BY <1>2, NoRowFields DEF Exists, Live
<1>4. RowChecks
  BY <1>2, NoRowFields, IdsAreNumbers, Zenon DEF RowChecks
<1>5. Table
  BY <1>2, <1>3, <1>4 DEF Table, LiveIsLast, Numbered, NoOrphans, AtMostOneLivePerFamily,
                          ChainNeverForks
<1>6. ASSUME NEW r \in Requests PROVE Fresh(r) /\ Settled(r)
  <2>1. req[r].pc = "idle" /\ req[r].op = "none" /\ req[r].hit = {}
    BY <1>2, IdleFields
  <2>2. RowHeld(r) /\ SuccessorHeld(r) /\ UserHeld(r) /\ DeletionSeesAll(r)
    BY <2>1 DEF RowHeld, SuccessorHeld, UserHeld, DeletionSeesAll
  <2>3. HitsHeld(r) /\ IdleIsNone(r) /\ Fresh(r)
    BY <2>1, Zenon DEF HitsHeld, IdleIsNone, Fresh, InFlight
  <2> QED
    BY <2>2, <2>3, Zenon DEF Settled, Held
<1> QED
  BY <1>1, <1>5, <1>6, Zenon DEF IInv

\* Every step preserves the invariant.
LEMMA IInvStep == IInv /\ [Next]_vars => IInv'
<1> SUFFICES ASSUME IInv, [Next]_vars PROVE IInv'
  OBVIOUS
<1>1. /\ TypedInv /\ TypedInv' /\ Typed /\ Typed' /\ Table
      /\ \A r \in Requests : RowKnown(r) /\ Fresh(r) /\ Settled(r) /\ Held(r)
  BY TypedInvStep, Zenon DEF IInv, TypedInv, Settled
<1>2. RowChecks /\ Shape /\ Numbered /\ NoOrphans
  BY <1>1, Zenon DEF Table, Shape
<1>3. CASE NobodyActs
  <2>1. /\ UNCHANGED <<begun, sessions, resetTokens, rowLock, userLock, req>>
        /\ user'.status = "DELETED" <=> user.status = "DELETED"
    BY <1>1, <1>3, NobodyActsKeeps
  <2>2. Table'
    BY <1>1, <2>1, Zenon DEF Table, RowChecks, LiveIsLast, Numbered, NoOrphans,
       AtMostOneLivePerFamily, ChainNeverForks, Live, Exists
  <2>3. ASSUME NEW r \in Requests PROVE Fresh(r)' /\ Settled(r)'
    <3>1. Fresh(r)'
      BY <1>1, <2>1, Zenon DEF Fresh, InFlight, Exists
    <3>2. RowHeld(r)' /\ SuccessorHeld(r)'
      BY <1>1, <2>1, Zenon DEF Held, RowHeld, SuccessorHeld, Holds, Exists, Live
    <3>3. HitsHeld(r)' /\ UserHeld(r)'
      BY <1>1, <2>1, Zenon DEF Held, HitsHeld, UserHeld, Holds, Exists, Live
    <3>4. DeletionSeesAll(r)' /\ IdleIsNone(r)'
      BY <1>1, <2>1, Zenon DEF Held, DeletionSeesAll, Settled, IdleIsNone, InFlight, Exists
    <3> QED
      BY <3>1, <3>2, <3>3, <3>4, Zenon DEF Settled, Held
  <2> QED
    BY <1>1, <2>2, <2>3, Zenon DEF IInv
<1>4. ASSUME NEW r \in Requests, Acts(r) PROVE IInv'
  <2>1. RowStep(r) /\ Framed(r) /\ (Enters(r) \/ Moves(r) \/ Ends(r))
    BY <1>1, <1>4, EveryActionIsARowStep, EveryActionIsFramed
  <2>2. begun' >= begun
    BY <2>1, Zenon DEF Framed
  <2>3. RowChecks' /\ Shape' /\ Numbered' /\ NoOrphans'
    BY <1>1, <1>2, <1>4, <2>1, <2>2, RowStepKeepsChecks, RowStepKeepsShape, RowStepKeepsNumbered,
       NoOrphansStep
  <2>4. Fresh(r)' /\ Settled(r)'
    BY <1>1, <1>2, <1>4, <2>1, StaysFresh, EveryActionSettles
  <2>5. ASSUME NEW q \in Requests, q # r PROVE Fresh(q)' /\ Settled(q)'
    <3>1. Fresh(q)' /\ Held(q)'
      BY <1>1, <2>1, <2>5, OthersStayFresh, OthersStayHeld
    <3>2. IdleIsNone(q)'
      BY <1>1, <2>1, <2>5, Zenon DEF Framed, Settled, IdleIsNone, InFlight
    <3> QED
      BY <3>1, <3>2, Zenon DEF Settled
  <2>6. Table'
    BY <2>3, Zenon DEF Table, Shape
  <2> QED
    BY <1>1, <2>4, <2>5, <2>6, Zenon DEF IInv
<1> QED
  BY <1>3, <1>4, StepIsSomebodys, Zenon

\* The invariant, for any number of requests, ids and clock values.
THEOREM InvariantHolds == Spec => []IInv
BY IInvInit, IInvStep, PTL DEF Spec

-----------------------------------------------------------------------------
(* The theorems.                                                           *)

\* Types and the CHECK constraints of the sessions table, always.
THEOREM TypeCorrect == Spec => []TypeOK
<1>1. IInv => TypeOK
  BY Zenon DEF IInv, TypedInv, Typed, Table, RowChecks, TypeOK, UserRows
<1> QED
  BY <1>1, InvariantHolds, PTL

\* However requests interleave, a family never has two refresh tokens that work.
THEOREM OneLivePerFamily == Spec => []AtMostOneLivePerFamily
<1>1. IInv => AtMostOneLivePerFamily
  BY Zenon DEF IInv, Table
<1> QED
  BY <1>1, InvariantHolds, PTL

\* A refresh token is exchanged for at most one successor, ever.
THEOREM NoForks == Spec => []ChainNeverForks
<1>1. IInv => ChainNeverForks
  BY Zenon DEF IInv, Table
<1> QED
  BY <1>1, InvariantHolds, PTL

\* A deleted account leaves no session and no reset token behind.
THEOREM DeletionIsComplete == Spec => []NoOrphans
<1>1. IInv => NoOrphans
  BY Zenon DEF IInv, Table
<1> QED
  BY <1>1, InvariantHolds, PTL

\* The one row that a rotation or recovery rewrites and that was not live is the
\* presented one, whose grace it spends for the first time.
LEMMA RotatingFreezes ==
  ASSUME Typed, NEW r \in Requests, Fresh(r), Held(r), Rotate(r) \/ Recover(r),
         NEW s \in Ids, Exists(s), ~Live(s)
  PROVE  \/ sessions'[s] = sessions[s]
         \/ ~sessions[s].graceUsed /\ sessions'[s] = SpendGrace(sessions[s])
<1>1. s # req[r].id
  BY Zenon DEF Fresh, InFlight, Rotate, Recover
<1>2. CASE Rotate(r)
  <2>1. req[r].op = "refresh" /\ RotateInto(r, req[r].row, clock)
    BY <1>2, Zenon DEF Rotate
  <2>2. s # req[r].row
    BY <2>1, Zenon DEF Held, RowHeld
  <2> QED
    BY <1>1, <2>1, <2>2, Zenon DEF RotateInto
<1>3. CASE Recover(r)
  <2>1. /\ req[r].op = "grace" /\ req[r].pc = "rotate"
        /\ RotateInto(r, req[r].successor, req[r].at)
    BY <1>3, Zenon DEF Recover
  <2>2. s # req[r].successor
    BY <2>1, Zenon DEF Held, SuccessorHeld
  <2>3. s = req[r].row => ~sessions[s].graceUsed
    BY <2>1, Zenon DEF Held, RowHeld
  <2> QED
    BY <1>1, <2>1, <2>2, <2>3, Zenon DEF RotateInto
<1> QED
  BY <1>2, <1>3

\* A revoked row is never rewritten, but for its grace, spent once, and deletion.
THEOREM RevokedStayRevoked == Spec => RevokedRowsFrozen
<1> DEFINE Frozen(s) == Exists(s) /\ ~Live(s) =>
             \/ sessions'[s] = sessions[s]
             \/ ~sessions[s].graceUsed /\ sessions'[s] = SpendGrace(sessions[s])
             \/ sessions'[s] = NoRow
<1>1. IInv /\ [Next]_vars => \A s \in Ids : Frozen(s)
  <2> SUFFICES ASSUME IInv, [Next]_vars, NEW s \in Ids, Exists(s), ~Live(s) PROVE Frozen(s)
    BY Zenon
  <2>1. Typed /\ \A r \in Requests : Fresh(r) /\ Held(r)
    BY Zenon DEF IInv, TypedInv, Settled
  <2>2. CASE NobodyActs
    BY <2>1, <2>2, NobodyActsKeeps
  <2>3. ASSUME NEW r \in Requests, Acts(r) PROVE Frozen(s)
    <3>1. CASE Rotate(r) \/ Recover(r)
      BY <2>1, <3>1, RotatingFreezes
    <3>2. CASE IssueSession(r)
      <4>1. s # req[r].id
        BY <2>1, <3>2, Zenon DEF Fresh, InFlight, IssueSession
      <4> QED
        BY <2>1, <3>2, <4>1, Zenon DEF IssueSession, Typed
    <3>3. CASE Kills(r)
      BY <3>3, Zenon DEF Kills
    <3>4. CASE Wipes(r)
      BY <3>4, Zenon DEF Wipes
    <3>5. CASE UNCHANGED sessions
      BY <3>5
    <3>6. Kills(r) \/ Wipes(r) \/ UNCHANGED sessions \/ IssueSession(r) \/ Rotate(r) \/ Recover(r)
      BY <2>1, <2>3, WritersKnown
    <3> QED
      BY <3>1, <3>2, <3>3, <3>4, <3>5, <3>6
  <2> QED
    BY <2>2, <2>3, StepIsSomebodys
<1>2. IInv /\ [Next]_vars => [\A s \in Ids : Frozen(s)]_vars
  BY <1>1
<1> QED
  BY <1>2, InvariantHolds, PTL DEF Spec, RevokedRowsFrozen

-----------------------------------------------------------------------------
(* Revocation: what the proofs are about.                                  *)

RevokingOps == {"inactive", "reuse", "logout", "reset", "change"}
FamilyOps == {"inactive", "reuse", "logout"}

SeenExist(r) == \A s \in req[r].seen : Exists(s) \/ user.status = "DELETED"

SeenListed(r) ==
  req[r].pc = "lockRows" /\ req[r].op \in RevokingOps =>
    \A s \in req[r].seen : Live(s) => s \in req[r].todo \cup req[r].hit

SeenOfFamily(r) ==
  req[r].pc = "lockRows" /\ req[r].op \in FamilyOps =>
    \A s \in req[r].seen : Exists(s) /\ Exists(req[r].row)
                             => sessions[s].familyId = sessions[req[r].row].familyId

\* Logout does not even lock the row it was presented with; only deletion removes it.
RowPersists(r) ==
  req[r].op \in FamilyOps => Exists(req[r].row) \/ user.status = "DELETED"

Seen(r) == SeenExist(r) /\ SeenListed(r) /\ SeenOfFamily(r) /\ RowPersists(r)

SeenInv == \A r \in Requests : Seen(r)

-----------------------------------------------------------------------------
(* What becomes of a row.                                                  *)

Persists ==
  /\ \A s \in Ids : Exists(s) => /\ Exists(s)' \/ user'.status = "DELETED"
                                 /\ Exists(s)' => SameLinks(s)
                                 /\ Live(s)' => Live(s)
  /\ user.status = "DELETED" => user'.status = "DELETED"
  /\ user'.status = "DELETED" => \A s \in Ids : ~Exists(s)' /\ ~Live(s)'

\* A row keeps its links, never comes back to life and goes only with the account.
LEMMA RowsPersist == IInv /\ IInv' /\ [Next]_vars => Persists
<1> SUFFICES ASSUME IInv, IInv', [Next]_vars PROVE Persists
  OBVIOUS
<1>1. Typed /\ \A r \in Requests : Fresh(r) /\ Held(r)
  BY Zenon DEF IInv, TypedInv, Settled
<1>2. user.status = "DELETED" => user'.status = "DELETED"
  BY <1>1, VersionGrows
<1>3. user'.status = "DELETED" => \A s \in Ids : ~Exists(s)' /\ ~Live(s)'
  <2>1. NoOrphans'
    BY Zenon DEF IInv, Table
  <2>2. \A s \in Ids : Live(s)' => Exists(s)'
    BY DEF Live, Exists
  <2> QED
    BY <2>1, <2>2, Zenon DEF NoOrphans
<1>4. ASSUME NEW s \in Ids, Exists(s)
      PROVE  /\ Exists(s)' \/ user'.status = "DELETED"
             /\ Exists(s)' => SameLinks(s)
             /\ Live(s)' => Live(s)
  <2>1. sessions' = sessions => Exists(s)' /\ SameLinks(s) /\ (Live(s)' => Live(s))
    BY <1>4, Zenon DEF Exists, Live, SameLinks
  <2>2. NobodyActs => sessions' = sessions
    BY <1>1, NobodyActsKeeps
  <2>3. ASSUME NEW r \in Requests, Acts(r)
        PROVE  /\ Exists(s)' \/ user'.status = "DELETED"
               /\ Exists(s)' => SameLinks(s)
               /\ Live(s)' => Live(s)
    <3>1. CASE Kills(r)
      <4>1. CASE sessions'[s] = sessions[s]
        BY <1>4, <4>1, Zenon DEF Exists, Live, SameLinks
      <4>2. CASE sessions'[s].reason \in Revocations /\ SameLinks(s)
        BY <4>2 DEF Exists, Live, Revocations
      <4> QED
        BY <3>1, <4>1, <4>2, Zenon DEF Kills
    <3>2. ASSUME NEW new \in Ids, NEW old \in Ids \cup {0}, Inserts(r, new, old)
          PROVE  /\ Exists(s)' /\ SameLinks(s)
                 /\ Live(s)' => Live(s)
      <4>1. NewLeaf(r, new, old)
        BY <3>2, Zenon DEF Inserts
      <4>2. s # new
        BY <1>1, <1>4, <4>1, Zenon DEF NewLeaf, Fresh
      <4>3. SameLinks(s) /\ (s # old => sessions'[s].reason = sessions[s].reason)
        BY <3>2, <4>2, Zenon DEF Inserts, Keeps
      <4>4. s = old => sessions'[s].reason = "ROTATED"
        BY <4>1, IdsAreNumbers, Zenon DEF NewLeaf
      <4> QED
        BY <1>4, <4>3, <4>4 DEF Exists, Live
    <3>3. CASE Wipes(r)
      <4>1. ~Exists(s)' /\ ~Live(s)'
        BY <3>3 DEF Wipes, Exists, Live
      <4>2. user'.status = "DELETED"
        BY <3>3, Zenon DEF Wipes
      <4> QED
        BY <4>1, <4>2
    <3> QED
      BY <1>1, <2>1, <2>3, <3>1, <3>2, <3>3, EveryActionIsARowStep, Zenon DEF RowStep
  <2> QED
    BY <2>1, <2>2, <2>3, StepIsSomebodys
<1> QED
  BY <1>2, <1>3, <1>4, Zenon DEF Persists

-----------------------------------------------------------------------------
(* Preservation.                                                           *)

\* What an unchanged list has seen is as it was, or dead.
LEMMA SeenKept ==
  ASSUME Typed, NEW r \in Requests, RowKnown(r), Seen(r), Persists, req'[r] = req[r]
  PROVE  Seen(r)'
<1>1. /\ \A s \in req[r].seen : s \in Ids
      /\ req[r].op \in FamilyOps => req[r].row \in Ids
  BY Zenon DEF Typed, Locals, RowKnown, FamilyOps
<1>2. \A s \in Ids : Exists(s) \/ user.status = "DELETED" =>
        /\ Exists(s)' \/ user'.status = "DELETED"
        /\ Exists(s)' => Exists(s) /\ SameLinks(s)
        /\ Live(s)' => Live(s)
  BY Zenon DEF Persists
<1>3. SeenExist(r)' /\ RowPersists(r)'
  BY <1>1, <1>2, Zenon DEF Seen, SeenExist, RowPersists
<1>4. SeenListed(r)'
  BY <1>1, <1>2, Zenon DEF Seen, SeenExist, SeenListed
<1>5. SeenOfFamily(r)'
  <2> SUFFICES ASSUME req[r].pc = "lockRows", req[r].op \in FamilyOps, NEW s \in req[r].seen,
                      Exists(s)', Exists(req[r].row)'
               PROVE  sessions'[s].familyId = sessions'[req[r].row].familyId
    BY Zenon DEF SeenOfFamily, Exists
  <2>1. Exists(s) /\ SameLinks(s)
    BY <1>1, <1>2, Zenon DEF Seen, SeenExist
  <2>2. Exists(req[r].row) /\ SameLinks(req[r].row)
    BY <1>1, <1>2, Zenon DEF Seen, RowPersists
  <2> QED
    BY <2>1, <2>2, Zenon DEF SameLinks, Seen, SeenOfFamily
<1> QED
  BY <1>3, <1>4, <1>5, Zenon DEF Seen

\* A request that is not at its bulk statement has only to know its row.
LEMMA SeenElsewhere ==
  ASSUME Typed, NEW r \in Requests, RowKnown(r), Seen(r), Settled(r)', Persists,
         req'[r].pc # "lockRows", req'[r].seen \in {{}, req[r].seen},
         req'[r].op = "logout" => \/ req[r].op = "logout" /\ req'[r].row = req[r].row
                                  \/ req'[r].row \in Ids /\ Exists(req'[r].row)
  PROVE  Seen(r)'
<1>1. /\ \A s \in req[r].seen : s \in Ids
      /\ req[r].op = "logout" => req[r].row \in Ids
  BY Zenon DEF Typed, Locals, RowKnown
<1>2. \A s \in Ids : Exists(s) \/ user.status = "DELETED" => Exists(s)' \/ user'.status = "DELETED"
  BY Zenon DEF Persists
<1>3. SeenExist(r)'
  BY <1>1, <1>2, Zenon DEF Seen, SeenExist
<1>4. RowPersists(r)'
  <2>1. CASE req'[r].op \in {"reuse", "inactive"}
    BY <2>1, Zenon DEF Settled, Held, RowHeld, Holds, Exists, RowPersists
  <2>2. CASE req'[r].op = "logout"
    <3>1. CASE req[r].op = "logout" /\ req'[r].row = req[r].row
      <4>1. Exists(req[r].row) \/ user.status = "DELETED"
        BY <3>1 DEF Seen, RowPersists, FamilyOps
      <4> QED
        BY <1>1, <1>2, <3>1, <4>1, Zenon DEF RowPersists, Exists
    <3>2. CASE req'[r].row \in Ids /\ Exists(req'[r].row)
      BY <1>2, <3>2, Zenon DEF RowPersists, Exists
    <3> QED
      BY <2>2, <3>1, <3>2
  <2> QED
    BY <2>1, <2>2 DEF RowPersists, FamilyOps
<1> QED
  BY <1>3, <1>4, Zenon DEF Seen, SeenListed, SeenOfFamily

\* A request that ends, or arrives, has seen nothing.
LEMMA SeenAtTheEnds ==
  ASSUME Typed, NEW r \in Requests, RowKnown(r), Seen(r), Settled(r)', Persists,
         Begin(r) \/ Ends(r)
  PROVE  Seen(r)'
<1>1. CASE Ends(r)
  <2>1. CASE req'[r] = req[r]
    BY <2>1, SeenKept
  <2>2. CASE req'[r] = Idle
    <3>1. req'[r].pc = "idle" /\ req'[r].seen = {} /\ req'[r].op = "none"
      BY <2>2, IdleFields
    <3> QED
      BY <3>1, SeenElsewhere
  <2> QED
    BY <1>1, <2>1, <2>2, Zenon DEF Ends
<1>2. CASE Begin(r) /\ Enters(r)
  <2>1. req'[r].seen = {} /\ req'[r].pc # "lockRows" /\ sessions' = sessions
    BY <1>2, Zenon DEF Enters
  <2>2. CASE \E s \in Ids : LogoutFind(r, s)
    <3>1. PICK s \in Ids : LogoutFind(r, s)
      BY <2>2, Zenon
    <3> DEFINE locals == [Idle EXCEPT !.row = s]
    <3>2. locals \in Locals /\ locals.row = s
      BY EntryLocals, Zenon
    <3>3. Exists(s) /\ Arrive(r) /\ Enter(r, "logout", "bulk", locals)
      BY <3>1, Zenon DEF LogoutFind
    <3>4. "logout" \in Operations /\ "bulk" \in Labels
      BY DEF Operations, Labels
    <3> HIDE DEF locals
    <3>5. req'[r].row = s
      BY <3>2, <3>3, <3>4, EnterFields
    <3> QED
      BY <2>1, <3>3, <3>5, SeenElsewhere
  <2>3. CASE ~\E s \in Ids : LogoutFind(r, s)
    <3>1. req'[r].op # "logout"
      <4>1. ASSUME NEW op \in Operations, op # "logout", NEW pc \in Labels, NEW locals \in Locals,
                   Arrive(r), Enter(r, op, pc, locals)
            PROVE  req'[r].op # "logout"
        BY <4>1, EnterFields
      <4>2. /\ {"login", "refresh", "grace", "reuse", "reset", "change", "delete"} \subseteq Operations
            /\ {"issue", "owner", "successor", "bulk", "consume", "user"} \subseteq Labels
        BY DEF Operations, Labels
      <4>3. CASE LoginRead(r) \/ ReadAccount(r, "change") \/ ReadAccount(r, "delete")
        BY <4>1, <4>2, <4>3, EntryLocals, Zenon DEF LoginRead, ReadAccount
      <4>4. ASSUME NEW s \in Ids, RefreshLive(r, s) PROVE req'[r].op # "logout"
        BY <4>1, <4>2, <4>4, EntryLocals, Zenon DEF RefreshLive, LockPresented
      <4>5. ASSUME NEW s \in Ids, RefreshGrace(r, s) PROVE req'[r].op # "logout"
        BY <4>1, <4>2, <4>5, EntryLocals, Zenon DEF RefreshGrace, LockPresented
      <4>6. ASSUME NEW s \in Ids, RefreshReuse(r, s) PROVE req'[r].op # "logout"
        BY <4>1, <4>2, <4>6, EntryLocals, Zenon DEF RefreshReuse, LockPresented
      <4>7. ASSUME NEW s \in Ids, ResetResolve(r, s) PROVE req'[r].op # "logout"
        BY <4>1, <4>2, <4>7, EntryLocals, Zenon DEF ResetResolve
      <4>8. CASE RequestReset(r) \/ \E s \in Ids : RefreshExpired(r, s)
        <5>1. req' = req /\ ~InFlight(r)
          BY <4>8, Zenon DEF RequestReset, RefreshExpired, Arrive, InFlight
        <5> QED
          BY <5>1, Zenon DEF Settled, IdleIsNone, InFlight
      <4> QED
        BY <1>2, <2>3, <4>3, <4>4, <4>5, <4>6, <4>7, <4>8, Zenon DEF Begin
    <3> QED
      BY <2>1, <3>1, SeenElsewhere
  <2> QED
    BY <1>2, <2>2, <2>3
<1> QED
  BY <1>1, <1>2, BeginEnters

\* Away from its bulk statement a request forgets what it saw, or keeps it.
LEMMA OwnStepElsewhere ==
  ASSUME Typed, NEW r \in Requests, RowKnown(r), Seen(r), Settled(r)', Persists,
         \/ LockSuccessor(r) \/ ReadOwner(r) \/ ConsumePresented(r) \/ ConsumeOthers(r)
         \/ LockUser(r) \/ ChangeCommit(r)
  PROVE  Seen(r)'
<1>1. req \in [Requests -> Locals] /\ req[r] \in Locals
  BY Zenon DEF Typed
<1>2. /\ req'[r].pc # "lockRows" /\ req'[r].seen \in {{}, req[r].seen}
      /\ req'[r].op = "logout" => req[r].op = "logout" /\ req'[r].row = req[r].row
  <2>1. CASE LockSuccessor(r)
    <3>1. PICK t \in Ids \cup {0} : req' = [req EXCEPT ![r].pc = "owner", ![r].successor = t]
      BY <2>1, Zenon DEF LockSuccessor
    <3>2. /\ req'[r].pc = "owner" /\ req'[r].seen = req[r].seen
          /\ req'[r].op = req[r].op /\ req'[r].row = req[r].row
      BY <1>1, <3>1, Zenon DEF Locals
    <3> QED
      BY <3>2
  <2>2. CASE ReadOwner(r)
    <3>1. CASE req' = [req EXCEPT ![r].pc = "rotate", ![r].version = user.tokenVersion]
      <4>1. /\ req'[r].pc = "rotate" /\ req'[r].seen = req[r].seen
            /\ req'[r].op = req[r].op /\ req'[r].row = req[r].row
        BY <1>1, <3>1, Zenon DEF Locals
      <4> QED
        BY <4>1
    <3>2. CASE req' = [req EXCEPT ![r].pc = "bulk",
                         ![r].op = IF @ = "grace" THEN "reuse" ELSE "inactive"]
      <4>1. /\ req'[r].pc = "bulk" /\ req'[r].seen = req[r].seen
            /\ req'[r].op = IF req[r].op = "grace" THEN "reuse" ELSE "inactive"
        BY <1>1, <3>2, Zenon DEF Locals
      <4> QED
        BY <4>1
    <3> QED
      BY <2>2, <3>1, <3>2, Zenon DEF ReadOwner
  <2>3. CASE ConsumePresented(r) \/ ConsumeOthers(r)
    BY <2>3, TokenStepFields
  <2>4. CASE LockUser(r)
    <3>1. CASE Goto(r, "bulk")
      <4>1. /\ req'[r].pc = "bulk" /\ req'[r].seen = req[r].seen
            /\ req'[r].op = req[r].op /\ req'[r].row = req[r].row
        BY <1>1, <3>1, Zenon DEF Goto, Locals
      <4> QED
        BY <4>1
    <3>2. CASE req' = [req EXCEPT ![r] = [@ EXCEPT !.pc = "issue"]]
      <4>1. /\ req'[r].pc = "issue" /\ req'[r].seen = req[r].seen
            /\ req'[r].op = req[r].op /\ req'[r].row = req[r].row
        BY <1>1, <3>2, Zenon DEF Locals
      <4> QED
        BY <4>1
    <3>3. CASE req' = [req EXCEPT ![r] = Idle]
      <4>1. req'[r] = Idle
        BY <1>1, <3>3, Zenon
      <4> QED
        BY <4>1, IdleFields
    <3>4. req' = [req EXCEPT ![r] = IF @.op = "change" THEN [@ EXCEPT !.pc = "issue"] ELSE Idle]
            => \/ req' = [req EXCEPT ![r] = [@ EXCEPT !.pc = "issue"]]
               \/ req' = [req EXCEPT ![r] = Idle]
      BY Zenon
    <3> QED
      BY <2>4, <3>1, <3>2, <3>3, <3>4, Zenon DEF LockUser
  <2>5. CASE ChangeCommit(r)
    <3>1. req' = [req EXCEPT ![r].pc = "issue", ![r].seen = {}, ![r].hit = {}]
      BY <2>5, Zenon DEF ChangeCommit
    <3>2. /\ req'[r].pc = "issue" /\ req'[r].seen = {}
          /\ req'[r].op = req[r].op /\ req'[r].row = req[r].row
      BY <1>1, <3>1, Zenon DEF Locals
    <3> QED
      BY <3>2
  <2> QED
    BY <2>1, <2>2, <2>3, <2>4, <2>5
<1> QED
  BY <1>2, SeenElsewhere

\* The snapshot lists all it sees.
LEMMA SnapshotSees ==
  ASSUME Typed, NEW r \in Requests, RowKnown(r), Seen(r), BulkSnapshot(r)
  PROVE  Seen(r)'
<1> DEFINE targets == {s \in Ids : InScope(r, s)}
<1>1. /\ UNCHANGED <<sessions, user>>
      /\ req' = [req EXCEPT ![r].pc = "lockRows", ![r].todo = targets, ![r].seen = targets]
  BY Zenon DEF BulkSnapshot
<1>2. /\ req'[r].op = req[r].op /\ req'[r].row = req[r].row
      /\ req'[r].todo = targets /\ req'[r].seen = targets
  <2>1. req[r] \in Locals /\ req \in [Requests -> Locals]
    BY Zenon DEF Typed
  <2> QED
    BY <1>1, <2>1, Zenon DEF Locals
<1>3. \A s \in targets : /\ s \in Ids /\ Exists(s)
                         /\ req[r].op \in FamilyOps =>
                              sessions[s].familyId = sessions[req[r].row].familyId
  BY LiveExists DEF InScope, FamilyOps
<1>4. SeenExist(r)' /\ SeenListed(r)'
  BY <1>1, <1>2, <1>3, Zenon DEF SeenExist, SeenListed, Exists
<1>5. SeenOfFamily(r)'
  BY <1>1, <1>2, <1>3, Zenon DEF SeenOfFamily
<1>6. RowPersists(r)'
  BY <1>1, <1>2, Zenon DEF Seen, RowPersists, Exists
<1> QED
  BY <1>4, <1>5, <1>6, Zenon DEF Seen

\* A row that the re-check drops is dead: it is where it was, in its family.
LEMMA DroppedIsDead ==
  ASSUME Typed, NoOrphans, NEW r \in Requests, Seen(r), req[r].pc = "lockRows",
         req[r].op \in RevokingOps, NEW s \in Ids, s \in req[r].seen, ~InScope(r, s)
  PROVE  ~Live(s)
<1> SUFFICES ASSUME Live(s) PROVE FALSE
  OBVIOUS
<1>1. Exists(s) /\ user.status # "DELETED"
  BY LiveExists, Zenon DEF NoOrphans
<1>2. CASE req[r].op \in {"reset", "change"}
  BY <1>2 DEF InScope
<1>3. CASE req[r].op \in FamilyOps
  <2>1. Exists(req[r].row)
    BY <1>1, <1>3, Zenon DEF Seen, RowPersists
  <2>2. sessions[s].familyId = sessions[req[r].row].familyId
    BY <1>1, <1>3, <2>1, Zenon DEF Seen, SeenOfFamily
  <2> QED
    BY <1>3, <2>2 DEF InScope, FamilyOps
<1> QED
  BY <1>2, <1>3 DEF RevokingOps, FamilyOps

\* Locking one row of the list hits it or finds it dead.
LEMMA LockingSees ==
  ASSUME Typed, NoOrphans, NEW r \in Requests, RowKnown(r), Seen(r), NEW s \in Ids, BulkLock(r, s)
  PROVE  Seen(r)'
<1>1. req[r].pc = "lockRows" /\ UNCHANGED <<sessions, user>> /\ s \in req[r].todo
  BY Zenon DEF BulkLock
<1>2. /\ req'[r].pc = req[r].pc /\ req'[r].op = req[r].op /\ req'[r].row = req[r].row
      /\ req'[r].seen = req[r].seen /\ req'[r].todo = req[r].todo \ {s}
      /\ \/ req'[r].hit = req[r].hit \cup {s}
         \/ req'[r].hit = req[r].hit /\ ~InScope(r, s)
  <2>1. req[r] \in Locals /\ req \in [Requests -> Locals]
    BY Zenon DEF Typed
  <2>2. CASE req' = [req EXCEPT ![r].todo = @ \ {s}, ![r].hit = @ \cup {s}]
    BY <2>1, <2>2, Zenon DEF Locals
  <2>3. CASE req' = [req EXCEPT ![r].todo = @ \ {s}] /\ ~InScope(r, s)
    BY <2>1, <2>3, Zenon DEF Locals
  <2> QED
    BY <2>2, <2>3, Zenon DEF BulkLock
<1>3. SeenExist(r)' /\ SeenOfFamily(r)' /\ RowPersists(r)'
  BY <1>1, <1>2, Zenon DEF Seen, SeenExist, SeenOfFamily, RowPersists, Exists
<1>4. SeenListed(r)'
  <2> SUFFICES ASSUME req[r].op \in RevokingOps, NEW t \in req[r].seen, Live(t)
               PROVE  t \in req'[r].todo \cup req'[r].hit
    BY <1>1, <1>2, Zenon DEF SeenListed, Live
  <2>1. t \in req[r].todo \cup req[r].hit
    BY <1>1, Zenon DEF Seen, SeenListed
  <2>2. t = s => InScope(r, s)
    BY <1>1, DroppedIsDead, Zenon
  <2> QED
    BY <1>2, <2>1, <2>2, Zenon
<1> QED
  BY <1>3, <1>4, Zenon DEF Seen

\* Whatever a request does, it loses sight of no row it saw live.
LEMMA OwnSeenStep ==
  ASSUME Typed, NoOrphans, NEW r \in Requests, RowKnown(r), Settled(r), Seen(r), Persists, Acts(r)
  PROVE  Seen(r)'
<1>1. Settled(r)'
  BY EveryActionSettles
<1>2. CASE Begin(r)
  BY <1>1, <1>2, SeenAtTheEnds
<1>3. CASE IssueSession(r) \/ Rotate(r) \/ Recover(r) \/ InactiveCommit(r) \/ ReuseCommit(r)
           \/ LogoutCommit(r) \/ ResetCommit(r) \/ DeleteCommit(r) \/ Fail(r)
  <2>1. End(r) /\ UNCHANGED begun
    BY <1>3, Zenon DEF IssueSession, Rotate, Recover, RotateInto, InactiveCommit, ReuseCommit,
       LogoutCommit, ResetCommit, DeleteCommit, Fail
  <2>2. Ends(r)
    BY <2>1, EndFields, Zenon DEF Ends
  <2> QED
    BY <1>1, <2>2, SeenAtTheEnds
<1>4. CASE \/ LockSuccessor(r) \/ ReadOwner(r) \/ ConsumePresented(r) \/ ConsumeOthers(r)
           \/ LockUser(r) \/ ChangeCommit(r)
  BY <1>1, <1>4, OwnStepElsewhere
<1>5. CASE BulkSnapshot(r)
  BY <1>5, SnapshotSees
<1>6. ASSUME NEW s \in Ids, BulkLock(r, s) PROVE Seen(r)'
  BY <1>6, LockingSees
<1> QED
  BY <1>2, <1>3, <1>4, <1>5, <1>6, Zenon DEF Acts, Continue

\* SeenInv holds initially ...
LEMMA SeenInvInit == Init => SeenInv
<1> SUFFICES ASSUME Init, NEW r \in Requests PROVE Seen(r)
  BY Zenon DEF SeenInv
<1>1. req[r] = Idle
  BY Zenon DEF Init
<1>2. req[r].seen = {} /\ req[r].pc = "idle" /\ req[r].op = "none"
  BY <1>1, IdleFields
<1> QED
  BY <1>2 DEF Seen, SeenExist, SeenListed, SeenOfFamily, RowPersists, FamilyOps

\* ... and is preserved, given the invariant of the table.
LEMMA SeenInvStep == IInv /\ IInv' /\ SeenInv /\ [Next]_vars => SeenInv'
<1> SUFFICES ASSUME IInv, IInv', SeenInv, [Next]_vars, NEW r \in Requests PROVE Seen(r)'
  BY Zenon DEF SeenInv
<1>1. /\ Typed /\ NoOrphans /\ Persists
      /\ RowKnown(r) /\ Settled(r) /\ Seen(r)
  BY RowsPersist, Zenon DEF IInv, TypedInv, Table, SeenInv
<1>2. CASE NobodyActs
  <2>1. req'[r] = req[r]
    BY <1>1, <1>2, NobodyActsKeeps, Zenon
  <2> QED
    BY <1>1, <2>1, SeenKept
<1>3. ASSUME NEW q \in Requests, q # r, Acts(q) PROVE Seen(r)'
  <2>1. req'[r] = req[r]
    BY <1>1, <1>3, OwnLocalsOnly
  <2> QED
    BY <1>1, <2>1, SeenKept
<1>4. CASE Acts(r)
  BY <1>1, <1>4, OwnSeenStep
<1> QED
  BY <1>2, <1>3, <1>4, StepIsSomebodys, Zenon

-----------------------------------------------------------------------------
(* The theorem.                                                            *)

\* A commit that has been through its list leaves nothing of what it saw alive.
LEMMA CommitKillsSeen ==
  ASSUME Typed, NEW r \in Requests, Seen(r), req[r].pc = "lockRows", req[r].op \in RevokingOps,
         req[r].todo = {}, NEW reason \in Revocations, RevokeHits(r, reason), NEW s \in req[r].seen
  PROVE  sessions'[s].reason # "LIVE"
<1>1. s \in Ids
  BY Zenon DEF Typed, Locals
<1>2. CASE s \in req[r].hit
  <2>1. sessions'[s] = Revoke(sessions[s], reason) /\ sessions[s] \in SessionRows
    BY <1>1, <1>2, Zenon DEF RevokeHits, Typed
  <2>2. sessions'[s].reason = reason
    BY <2>1, RevokeFields
  <2> QED
    BY <2>2 DEF Revocations
<1>3. CASE s \notin req[r].hit
  <2>1. sessions'[s] = sessions[s]
    BY <1>1, <1>3, Zenon DEF RevokeHits
  <2>2. ~Live(s)
    BY <1>3, Zenon DEF Seen, SeenListed
  <2> QED
    BY <2>1, <2>2, Zenon DEF Live
<1> QED
  BY <1>2, <1>3

\* Every row that was live when a revoking UPDATE began is dead when its
\* transaction commits, whoever held it locked in between.
THEOREM SeenDie == Spec => SeenRowsDie
<1>1. IInv /\ SeenInv =>
        \A r \in Requests :
          \/ InactiveCommit(r) \/ ReuseCommit(r) \/ LogoutCommit(r)
          \/ ResetCommit(r) \/ ChangeCommit(r)
          => \A s \in req[r].seen : sessions'[s].reason # "LIVE"
  <2> SUFFICES ASSUME IInv, SeenInv, NEW r \in Requests,
                      \/ InactiveCommit(r) \/ ReuseCommit(r) \/ LogoutCommit(r)
                      \/ ResetCommit(r) \/ ChangeCommit(r),
                      NEW s \in req[r].seen
               PROVE  sessions'[s].reason # "LIVE"
    BY Zenon
  <2>1. Typed /\ Seen(r)
    BY Zenon DEF IInv, TypedInv, SeenInv
  <2>2. {"ACCOUNT_INACTIVE", "REUSE_DETECTED", "LOGOUT", "PASSWORD_RESET"} \subseteq Revocations
    BY Zenon DEF Revocations
  <2>3. PICK reason \in Revocations : RevokeHits(r, reason)
    BY <2>2, Zenon DEF InactiveCommit, ReuseCommit, LogoutCommit, ResetCommit, ChangeCommit
  <2>4. PICK op \in RevokingOps : BulkDone(r, op)
    BY Zenon DEF InactiveCommit, ReuseCommit, LogoutCommit, ResetCommit, ChangeCommit, RevokingOps
  <2>5. req[r].pc = "lockRows" /\ req[r].op \in RevokingOps /\ req[r].todo = {}
    BY <2>4, Zenon DEF BulkDone
  <2> QED
    BY <2>1, <2>3, <2>5, CommitKillsSeen
<1>2. Spec => []IInv
  BY InvariantHolds
<1>3. SeenInv /\ IInv /\ IInv' /\ [Next]_vars => SeenInv'
  BY SeenInvStep
<1> QED
  BY <1>1, <1>2, <1>3, SeenInvInit, PTL DEF Spec, SeenRowsDie

-----------------------------------------------------------------------------
(* The table implements the families: what the proof is about.             *)

\* The current token of a family is its live row, and 0 when it has none.
Represents ==
  /\ CurrentToken \in [Ids -> Ids \cup {0}]
  /\ \A f \in Ids :
       \/ /\ CurrentToken[f] # 0 /\ Live(CurrentToken[f])
          /\ sessions[CurrentToken[f]].familyId = f
       \/ /\ CurrentToken[f] = 0
          /\ \A s \in Ids : Live(s) => sessions[s].familyId # f

\* A family is named by the number of a row.
FamiliesNamed == \A s \in Ids : Exists(s) => sessions[s].familyId \in Ids

RefInv == IInv /\ FamiliesNamed

-----------------------------------------------------------------------------
(* The mapping.                                                            *)

LEMMA CurrentIs == Represents
<1>1. ASSUME NEW f \in Ids, \E s \in Ids : Live(s) /\ sessions[s].familyId = f
      PROVE  /\ CurrentToken[f] \in Ids /\ Live(CurrentToken[f])
             /\ sessions[CurrentToken[f]].familyId = f
  <2> DEFINE top == CHOOSE s \in Ids : Live(s) /\ sessions[s].familyId = f
  <2>1. top \in Ids /\ Live(top) /\ sessions[top].familyId = f
    BY <1>1, Zenon
  <2>2. CurrentToken[f] = top
    BY <1>1, Zenon DEF CurrentToken
  <2> HIDE DEF top
  <2> QED
    BY <2>1, <2>2, Zenon
<1>2. ASSUME NEW f \in Ids, ~\E s \in Ids : Live(s) /\ sessions[s].familyId = f
      PROVE  CurrentToken[f] = 0
  BY <1>2, Zenon DEF CurrentToken
<1>3. CurrentToken = [f \in Ids |-> CurrentToken[f]]
  BY Zenon DEF CurrentToken
<1>4. \A f \in Ids : CurrentToken[f] \in Ids \cup {0}
  BY <1>1, <1>2, Zenon
<1>5. \A f \in Ids : CurrentToken[f] \in Ids => CurrentToken[f] # 0
  BY IdsAreNumbers
<1> QED
  BY <1>1, <1>2, <1>3, <1>4, <1>5, Zenon DEF Represents

LEMMA CurrentIsNext == Represents'
BY CurrentIs, PTL

\* Two functions of the families that agree on each are the same.
LEMMA CurrentEquals ==
  ASSUME NEW K \in [Ids -> Ids \cup {0}], NEW L \in [Ids -> Ids \cup {0}],
         \A f \in Ids : K[f] = L[f]
  PROVE  K = L
OBVIOUS

\* The live row of a family is its current token, before and after a step.
LEMMA CurrentOf ==
  ASSUME AtMostOneLivePerFamily, NEW s \in Ids, Live(s), NEW f \in Ids, sessions[s].familyId = f
  PROVE  CurrentToken[f] = s
<1>1. /\ CurrentToken[f] \in Ids \cup {0}
      /\ \/ /\ CurrentToken[f] # 0 /\ Live(CurrentToken[f])
            /\ sessions[CurrentToken[f]].familyId = f
         \/ /\ CurrentToken[f] = 0
            /\ \A t \in Ids : Live(t) => sessions[t].familyId # f
  BY CurrentIs, Zenon DEF Represents
<1> QED
  BY <1>1, Zenon DEF AtMostOneLivePerFamily

LEMMA CurrentOfNext ==
  ASSUME AtMostOneLivePerFamily', NEW s \in Ids, Live(s)', NEW f \in Ids,
         sessions'[s].familyId = f
  PROVE  CurrentToken'[f] = s
<1>1. /\ CurrentToken'[f] \in Ids \cup {0}
      /\ \/ /\ CurrentToken'[f] # 0 /\ sessions'[CurrentToken'[f]].reason = "LIVE"
            /\ sessions'[CurrentToken'[f]].familyId = f
         \/ /\ CurrentToken'[f] = 0
            /\ \A t \in Ids : Live(t)' => sessions'[t].familyId # f
  BY CurrentIsNext, Zenon DEF Represents, Live
<1> QED
  BY <1>1, Zenon DEF AtMostOneLivePerFamily, Live

\* And the current token of a family that has one is such a row.
LEMMA CurrentRow ==
  ASSUME NEW f \in Ids, CurrentToken[f] # 0
  PROVE  \E s \in Ids : CurrentToken[f] = s /\ Live(s) /\ sessions[s].familyId = f
BY CurrentIs, Zenon DEF Represents

LEMMA CurrentRowNext ==
  ASSUME NEW f \in Ids, CurrentToken'[f] # 0
  PROVE  \E s \in Ids : /\ CurrentToken'[f] = s /\ sessions'[s].reason = "LIVE"
                        /\ sessions'[s].familyId = f
<1>1. CurrentToken'[f] \in Ids
  BY CurrentIsNext, Zenon DEF Represents
<1>2. /\ sessions'[CurrentToken'[f]].reason = "LIVE"
      /\ sessions'[CurrentToken'[f]].familyId = f
  BY CurrentIsNext, Zenon DEF Represents, Live
<1> QED
  BY <1>1, <1>2, Zenon

-----------------------------------------------------------------------------
(* Each way of writing the table is a step of the families.                *)

Issued == {s \in Ids : Exists(s)}

\* No row moved: no family did.
LEMMA SameTableSameFamilies ==
  ASSUME UNCHANGED sessions
  PROVE  CurrentToken' = CurrentToken /\ Issued' = Issued
BY Zenon DEF CurrentToken, Issued, Live, Exists

\* Rows are killed: the families of those that were live end.
LEMMA KillingEnds ==
  ASSUME RefInv, IInv', NEW r \in Requests, Kills(r)
  PROVE  /\ \E F \in SUBSET Ids :
              /\ \A f \in F : CurrentToken[f] # 0
              /\ CurrentToken' = [f \in Ids |-> IF f \in F THEN 0 ELSE CurrentToken[f]]
         /\ Issued' = Issued
<1> DEFINE F == {f \in Ids : CurrentToken[f] # 0 /\ CurrentToken'[f] = 0}
<1>1. AtMostOneLivePerFamily
  BY Zenon DEF RefInv, IInv, Table
<1>2. /\ CurrentToken' \in [Ids -> Ids \cup {0}] /\ CurrentToken \in [Ids -> Ids \cup {0}]
  BY CurrentIs, CurrentIsNext, Zenon DEF Represents
<1>3. ASSUME NEW s \in Ids
      PROVE  /\ Live(s)' => Live(s) /\ sessions'[s] = sessions[s]
             /\ Exists(s)' <=> Exists(s)
  <2>1. CASE sessions'[s] = sessions[s]
    BY <2>1, Zenon DEF Live, Exists
  <2>2. CASE Live(s) /\ sessions'[s].reason \in Revocations
    BY <2>2 DEF Live, Exists, Revocations
  <2> QED
    BY <2>1, <2>2, Zenon DEF Kills
<1>4. ASSUME NEW f \in Ids PROVE CurrentToken'[f] = IF f \in F THEN 0 ELSE CurrentToken[f]
  <2>1. CASE CurrentToken'[f] = 0
    BY <2>1
  <2>2. CASE CurrentToken'[f] # 0
    <3>1. PICK s \in Ids : /\ CurrentToken'[f] = s /\ sessions'[s].reason = "LIVE"
                          /\ sessions'[s].familyId = f
      BY <2>2, CurrentRowNext
    <3>2. Live(s)'
      BY <3>1, Zenon DEF Live
    <3>3. Live(s) /\ sessions[s].familyId = f
      BY <1>3, <3>1, <3>2, Zenon
    <3>4. CurrentToken[f] = s
      BY <1>1, <3>3, CurrentOf, Zenon
    <3> QED
      BY <2>2, <3>1, <3>4, Zenon
  <2> QED
    BY <2>1, <2>2
<1>5. F \in SUBSET Ids /\ \A f \in F : CurrentToken[f] # 0
  BY Zenon
<1> HIDE DEF F
<1>6. CurrentToken' = [f \in Ids |-> IF f \in F THEN 0 ELSE CurrentToken[f]]
  BY <1>2, <1>4, Zenon
<1>7. Issued' = Issued
  BY <1>3, Zenon DEF Issued
<1> QED
  BY <1>5, <1>6, <1>7, Zenon

\* A row is inserted: a family opens, or exchanges its current token.
LEMMA InsertingExchanges ==
  ASSUME RefInv, IInv', NEW r \in Requests, NEW new \in Ids, NEW old \in Ids \cup {0},
         Inserts(r, new, old)
  PROVE  /\ user.status # "DELETED" /\ new \notin Issued /\ Issued' = Issued \cup {new}
         /\ \E f \in Ids :
              /\ (old = 0 /\ f = new) \/ CurrentToken[f] # 0
              /\ CurrentToken' = [CurrentToken EXCEPT ![f] = new]
<1>1. NewLeaf(r, new, old) /\ \A s \in Ids \ {new} : Keeps(r, s, old)
  BY Zenon DEF Inserts
<1>2. AtMostOneLivePerFamily /\ AtMostOneLivePerFamily' /\ ~Exists(new)
  BY <1>1, Zenon DEF RefInv, IInv, Table, Fresh, NewLeaf
<1>3. user.status # "DELETED"
  BY <1>1, Zenon DEF NewLeaf, ForeignKeyHolds
<1>4. /\ CurrentToken' \in [Ids -> Ids \cup {0}] /\ CurrentToken \in [Ids -> Ids \cup {0}]
  BY CurrentIs, CurrentIsNext, Zenon DEF Represents
<1>5. Live(new)' /\ Exists(new)'
  BY <1>1 DEF NewLeaf, Live, Exists
<1>6. ASSUME NEW s \in Ids \ {new}
      PROVE  /\ Exists(s)' <=> Exists(s)
             /\ sessions'[s].familyId = sessions[s].familyId
             /\ s # old => (Live(s)' <=> Live(s))
             /\ s = old => ~Live(s)'
  <2>1. SameLinks(s) /\ (s # old => sessions'[s].reason = sessions[s].reason)
    BY <1>1, Zenon DEF Keeps
  <2>2. s = old => Live(s) /\ sessions'[s].reason = "ROTATED"
    BY <1>1, IdsAreNumbers, Zenon DEF NewLeaf
  <2> QED
    BY <2>1, <2>2 DEF SameLinks, Live, Exists
<1>7. Issued' = Issued \cup {new} /\ new \notin Issued
  <2>1. ASSUME NEW s \in Ids PROVE s \in Issued' <=> s \in Issued \cup {new}
    BY <1>5, <1>6, Zenon DEF Issued
  <2>2. Issued' \subseteq Ids /\ Issued \subseteq Ids
    BY Zenon DEF Issued
  <2> QED
    BY <1>2, <2>1, <2>2, Zenon DEF Issued
<1> DEFINE f == sessions'[new].familyId
<1>8. f \in Ids /\ \/ old = 0 /\ f = new
                   \/ old \in Ids /\ Live(old) /\ f = sessions[old].familyId
  BY <1>1, LiveExists, Zenon DEF NewLeaf, RefInv, FamiliesNamed
<1>9. (old = 0 /\ f = new) \/ CurrentToken[f] # 0
  <2>1. CASE old \in Ids /\ Live(old) /\ f = sessions[old].familyId
    <3>1. CurrentToken[f] = old
      BY <1>2, <1>8, <2>1, CurrentOf, Zenon
    <3> QED
      BY <2>1, <3>1, IdsAreNumbers
  <2> QED
    BY <1>8, <2>1
<1>10. CurrentToken'[f] = new
  BY <1>2, <1>5, <1>8, CurrentOfNext, Zenon
<1>11. f = sessions'[new].familyId
  OBVIOUS
<1> HIDE DEF f
<1>12. ASSUME NEW g \in Ids, g # f PROVE CurrentToken'[g] = CurrentToken[g]
  <2>1. CASE CurrentToken'[g] # 0
    <3>1. PICK s \in Ids : /\ CurrentToken'[g] = s /\ sessions'[s].reason = "LIVE"
                          /\ sessions'[s].familyId = g
      BY <2>1, CurrentRowNext
    <3>2. Live(s)' /\ s # new
      BY <1>11, <1>12, <3>1, Zenon DEF Live
    <3>3. Live(s) /\ sessions[s].familyId = g
      BY <1>6, <3>1, <3>2, Zenon
    <3>4. CurrentToken[g] = s
      BY <1>2, <3>3, CurrentOf, Zenon
    <3> QED
      BY <3>1, <3>4, Zenon
  <2>2. CASE CurrentToken'[g] = 0 /\ CurrentToken[g] # 0
    <3>1. PICK s \in Ids : CurrentToken[g] = s /\ Live(s) /\ sessions[s].familyId = g
      BY <2>2, CurrentRow
    <3>2. s # new /\ s # old
      BY <1>2, <1>8, <1>12, <3>1, LiveExists, IdsAreNumbers, Zenon
    <3>3. Live(s)' /\ sessions'[s].familyId = g
      BY <1>6, <3>1, <3>2, Zenon
    <3>4. CurrentToken'[g] = s
      BY <1>2, <3>1, <3>3, CurrentOfNext, Zenon
    <3> QED
      BY <2>2, <3>1, <3>4, IdsAreNumbers
  <2> QED
    BY <2>1, <2>2
<1>13. CurrentToken' = [CurrentToken EXCEPT ![f] = new]
  <2>1. [CurrentToken EXCEPT ![f] = new] \in [Ids -> Ids \cup {0}]
    BY <1>4
  <2>2. \A g \in Ids : CurrentToken'[g] = [CurrentToken EXCEPT ![f] = new][g]
    BY <1>4, <1>10, <1>12
  <2> QED
    BY <1>4, <2>1, <2>2, CurrentEquals
<1> QED
  BY <1>3, <1>7, <1>8, <1>9, <1>13, Zenon

\* The account and its rows go.
LEMMA WipingCloses ==
  ASSUME NEW r \in Requests, Wipes(r)
  PROVE  /\ user'.status = "DELETED" /\ Issued' = {}
         /\ CurrentToken' = [f \in Ids |-> 0]
<1>1. user'.status = "DELETED" /\ \A s \in Ids : ~Exists(s)'
  BY Zenon DEF Wipes
<1>2. \A s \in Ids : ~Live(s)'
  BY <1>1 DEF Live, Exists
<1>3. CurrentToken' = [f \in Ids |-> 0]
  BY <1>2, Zenon DEF CurrentToken
<1>4. Issued' = {}
  BY <1>1, Zenon DEF Issued
<1> QED
  BY <1>1, <1>3, <1>4

-----------------------------------------------------------------------------
(* The refinement.                                                         *)

\* A step of no request, or of one, keeps the families named.
LEMMA FamiliesStayNamed ==
  ASSUME RefInv, [Next]_vars
  PROVE  FamiliesNamed'
<1>1. Typed /\ \A r \in Requests : Fresh(r) /\ Held(r)
  BY Zenon DEF RefInv, IInv, TypedInv, Settled
<1>2. CASE NobodyActs
  <2>1. sessions' = sessions
    BY <1>1, <1>2, NobodyActsKeeps
  <2> QED
    BY <2>1, Zenon DEF RefInv, FamiliesNamed, Exists
<1>3. ASSUME NEW r \in Requests, Acts(r) PROVE FamiliesNamed'
  <2>1. RowsComeFrom(r)
    BY <1>1, <1>3, EveryActionIsARowStep, RowStepFrames
  <2> SUFFICES ASSUME NEW s \in Ids, Exists(s)' PROVE sessions'[s].familyId \in Ids
    BY Zenon DEF FamiliesNamed
  <2>2. ComesFrom(r, s)
    BY <2>1, Zenon DEF RowsComeFrom
  <2> QED
    BY <2>2, Zenon DEF ComesFrom, SameLinks, RefInv, FamiliesNamed
<1> QED
  BY <1>2, <1>3, StepIsSomebodys

LEMMA RefInvHolds == Spec => []RefInv
<1>1. Init => FamiliesNamed
  BY NoRowFields, Zenon DEF Init, FamiliesNamed, Exists
<1>2. RefInv /\ IInv' /\ [Next]_vars => RefInv'
  BY FamiliesStayNamed, Zenon DEF RefInv
<1>3. FamiliesNamed /\ IInv => RefInv
  BY DEF RefInv
<1> QED
  BY <1>1, <1>2, <1>3, IInvInit, InvariantHolds, PTL DEF Spec

LEMMA InitRefines == Init => Families!Init
<1> SUFFICES ASSUME Init PROVE Families!Init
  OBVIOUS
<1>1. user.status = "ACTIVE" /\ \A s \in Ids : ~Exists(s)
  BY NoRowFields, Zenon DEF Init, Exists
<1>2. \A s \in Ids : ~Live(s)
  BY <1>1, LiveExists, Zenon
<1>3. CurrentToken = [f \in Ids |-> 0]
  BY <1>2, Zenon DEF CurrentToken
<1>4. {s \in Ids : Exists(s)} = {}
  BY <1>1, Zenon
<1> QED
  BY <1>1, <1>3, <1>4 DEF Families!Init

\* A step of the table is one of the families, or none that they notice.
LEMMA StepRefines ==
  ASSUME RefInv, IInv', [Next]_vars
  PROVE  \/ Families!Next
         \/ UNCHANGED <<user.status # "DELETED", CurrentToken, {s \in Ids : Exists(s)}>>
<1>1. Typed /\ \A r \in Requests : Fresh(r) /\ Held(r)
  BY Zenon DEF RefInv, IInv, TypedInv, Settled
<1>2. CASE NobodyActs
  <2>1. sessions' = sessions /\ (user'.status = "DELETED" <=> user.status = "DELETED")
    BY <1>1, <1>2, NobodyActsKeeps
  <2>2. CurrentToken' = CurrentToken /\ Issued' = Issued
    BY <2>1, SameTableSameFamilies
  <2> QED
    BY <2>1, <2>2 DEF Issued
<1>3. ASSUME NEW r \in Requests, Acts(r)
      PROVE  \/ Families!Next
             \/ UNCHANGED <<user.status # "DELETED", CurrentToken, {s \in Ids : Exists(s)}>>
  <2>1. RowStep(r)
    BY <1>1, <1>3, EveryActionIsARowStep
  <2>2. CASE Wipes(r)
    <3>1. user'.status = "DELETED" /\ Issued' = {} /\ CurrentToken' = [f \in Ids |-> 0]
      BY <2>2, WipingCloses
    <3>2. Families!CloseAccount
      BY <3>1 DEF Families!CloseAccount, Issued
    <3> QED
      BY <3>2 DEF Families!Next
  <2>3. ASSUME ~Wipes(r) PROVE user'.status = user.status
    <3>1. ~DeleteCommit(r)
      BY <1>1, <2>3, DeletingWipes
    <3> QED
      BY <1>1, <1>3, <3>1, OnlyDeletionDeletes
  <2>4. CASE UNCHANGED sessions /\ ~Wipes(r)
    <3>1. CurrentToken' = CurrentToken /\ Issued' = Issued /\ user'.status = user.status
      BY <2>3, <2>4, SameTableSameFamilies
    <3> QED
      BY <3>1 DEF Issued
  <2>5. CASE Kills(r) /\ ~Wipes(r)
    <3>1. user'.status = user.status
      BY <2>3, <2>5
    <3>2. Issued' = Issued
      BY <2>5, KillingEnds
    <3>3. PICK F \in SUBSET Ids :
            /\ \A f \in F : CurrentToken[f] # 0
            /\ CurrentToken' = [f \in Ids |-> IF f \in F THEN 0 ELSE CurrentToken[f]]
      BY <2>5, KillingEnds
    <3>4. Families!EndFamilies(F)
      BY <3>1, <3>2, <3>3 DEF Families!EndFamilies, Issued
    <3> QED
      BY <3>4 DEF Families!Next
  <2>6. ASSUME NEW new \in Ids, NEW old \in Ids \cup {0}, Inserts(r, new, old), ~Wipes(r)
        PROVE  Families!Next
    <3>1. user'.status = user.status
      BY <2>3, <2>6
    <3>2. /\ user.status # "DELETED" /\ new \notin Issued /\ Issued' = Issued \cup {new}
          /\ \E f \in Ids :
               /\ (old = 0 /\ f = new) \/ CurrentToken[f] # 0
               /\ CurrentToken' = [CurrentToken EXCEPT ![f] = new]
      BY <2>6, InsertingExchanges
    <3>3. PICK f \in Ids : /\ f = new \/ CurrentToken[f] # 0
                           /\ CurrentToken' = [CurrentToken EXCEPT ![f] = new]
      BY <3>2
    <3>4. CASE f = new
      <4>1. Families!OpenFamily(new)
        BY <3>1, <3>2, <3>3, <3>4 DEF Families!OpenFamily, Issued
      <4> QED
        BY <4>1 DEF Families!Next
    <3>5. CASE CurrentToken[f] # 0
      <4>1. Families!Exchange(f, new)
        BY <3>1, <3>2, <3>3, <3>5 DEF Families!Exchange, Issued
      <4> QED
        BY <4>1 DEF Families!Next
    <3> QED
      BY <3>3, <3>4, <3>5
  <2> QED
    BY <2>1, <2>2, <2>4, <2>5, <2>6 DEF RowStep
<1> QED
  BY <1>2, <1>3, StepIsSomebodys

\* Seen from outside, the sessions table is a set of families that open, exchange
\* their one current token, end for good and close with the account.
THEOREM FamiliesImplemented == Spec => ImplementsFamilies
<1>1. RefInv /\ IInv' /\ [Next]_vars =>
        [Families!Next]_<<user.status # "DELETED", CurrentToken, {s \in Ids : Exists(s)}>>
  BY StepRefines
<1> QED
  BY <1>1, InitRefines, RefInvHolds, InvariantHolds, PTL DEF Spec, ImplementsFamilies,
     Families!Spec
=============================================================================
