---------------------------- MODULE AuthSessions ----------------------------
(***************************************************************************)
(* The refresh-session lifecycle of one account: login, refresh (rotation, *)
(* lost-response recovery, reuse detection), logout, password reset,       *)
(* password change and account deletion, as the requests that run them     *)
(* interleave on PostgreSQL under READ COMMITTED.                          *)
(*                                                                         *)
(* Grain of atomicity: one action per statement that reads or locks shared *)
(* state.  A transaction's writes are invisible to the others until it     *)
(* commits and the rows it writes stay locked until then, so they are      *)
(* applied by its last action.  A bulk UPDATE takes its targets from the   *)
(* rows committed when the statement starts, then locks them one by one,   *)
(* waiting for each, and re-checks its WHERE clause on the row it gets.    *)
(***************************************************************************)
EXTENDS Integers, FiniteSets

CONSTANTS Requests,      \* the requests that may be in flight at one time
          NoRequest,     \* owner of an unlocked row
          MaxRequests,   \* bound: how many requests are ever accepted
          GraceWindow,   \* REFRESH_ROTATION_GRACE_WINDOW_MS
          RefreshTtl,    \* REFRESH_TOKEN_TTL_MS
          ResetTtl,      \* PASSWORD_RESET_TTL_MINUTES
          MaxTime        \* bound: the last instant of the clock

ASSUME ConstantsOK ==
  /\ NoRequest \notin Requests
  /\ MaxRequests \in Nat \ {0}
  /\ GraceWindow \in Nat
  /\ RefreshTtl \in Nat \ {0}
  /\ ResetTtl \in Nat \ {0}
  /\ MaxTime \in Nat

VARIABLES clock,        \* wall clock, read with new Date()
          begun,        \* requests accepted so far
          user,         \* the users row
          sessions,     \* the sessions table, committed rows
          resetTokens,  \* the password_reset_tokens table, committed rows
          rowLock,      \* owner of the row lock of a sessions row
          userLock,     \* owner of the UPDATE or DELETE lock of the users row
          req,          \* where each in-flight request is, and its locals
          minted        \* history: the sv claim of every access token minted

vars == <<clock, begun, user, sessions, resetTokens, rowLock, userLock, req, minted>>

-----------------------------------------------------------------------------
(* Rows and request locals.                                                *)

\* A request that inserts a session or a reset token gives it its own number.
Ids == 1 .. MaxRequests

\* revoked_reason; LIVE is NULL, ABSENT is no such row.
Revocations == {"ROTATED", "LOGOUT", "REUSE_DETECTED", "PASSWORD_RESET",
                "EXPIRED", "ACCOUNT_INACTIVE"}

\* revoked_at is read only to time the grace window, so only rotation keeps it.
NoRow == [reason |-> "ABSENT", familyId |-> 0, rotatedFrom |-> 0,
          rotatedAt |-> 0, expiresAt |-> 0, graceUsed |-> FALSE]

NewRow(family, from, at) ==
  [NoRow EXCEPT !.reason = "LIVE", !.familyId = family, !.rotatedFrom = from,
                !.expiresAt = at + RefreshTtl]

NoToken == [state |-> "ABSENT", expiresAt |-> 0]

Idle == [pc |-> "idle", op |-> "none", id |-> 0, row |-> 0, successor |-> 0,
         version |-> 0, at |-> 0, todo |-> {}, seen |-> {}, hit |-> {},
         tokens |-> {}]

Exists(s) == sessions[s].reason # "ABSENT"
Live(s)   == sessions[s].reason = "LIVE"

\* MUTANTS: a definition named Of_How is Of with one plausible slip in the code.
\* None is part of the model; each shows that a property can fail.
Rotated_StaysLive(row, at) == [row EXCEPT !.rotatedAt = at]

Revoke(row, reason) == [row EXCEPT !.reason = reason]
Rotated(row, at) == [row EXCEPT !.reason = "ROTATED", !.rotatedAt = at]
SpendGrace(row) == [row EXCEPT !.graceUsed = TRUE]

\* DELETE FROM users takes the one row lock that the foreign-key check of an
\* insert into sessions or password_reset_tokens has to wait for.
DeletionHoldsUser == userLock # NoRequest /\ req[userLock].op = "delete"
ForeignKeyHolds_NoWait == user.status # "DELETED"
ForeignKeyHolds == user.status # "DELETED" /\ ~DeletionHoldsUser

-----------------------------------------------------------------------------
(* What every request does when it arrives, moves on and ends.             *)

Arrive(r) ==
  /\ req[r].pc = "idle"
  /\ begun < MaxRequests
  /\ begun' = begun + 1

\* The locals of request r when it enters operation op at label pc.
Enter(r, op, pc, locals) ==
  req' = [req EXCEPT ![r] = [locals EXCEPT !.pc = pc, !.op = op, !.id = begun + 1]]

Goto(r, pc) == req' = [req EXCEPT ![r].pc = pc]

\* COMMIT, ROLLBACK or the end of a request drops its locks and its locals.
ReleaseLocks(r) ==
  /\ rowLock' = [s \in Ids |-> IF rowLock[s] = r THEN NoRequest ELSE rowLock[s]]
  /\ userLock' = IF userLock = r THEN NoRequest ELSE userLock

End(r) == ReleaseLocks(r) /\ req' = [req EXCEPT ![r] = Idle]

-----------------------------------------------------------------------------
(* SessionService.login and issueSession.                                  *)

\* The account as read before the slow Argon2 check; the insert comes later.
LoginRead(r) ==
  /\ Arrive(r)
  /\ user.status = "ACTIVE"
  /\ Enter(r, "login", "issue", [Idle EXCEPT !.version = user.tokenVersion])
  /\ UNCHANGED <<clock, user, sessions, resetTokens, rowLock, userLock, minted>>

VersionToMint_Ahead(r) == req[r].version + 1

\* The version an access token issued by r carries.
VersionToMint(r) ==
  IF req[r].op = "change" THEN req[r].version + 1 ELSE req[r].version

IssueSession(r) ==
  /\ req[r].pc = "issue"
  /\ ForeignKeyHolds
  /\ sessions' = [sessions EXCEPT ![req[r].id] = NewRow(req[r].id, 0, clock)]
  /\ minted' = minted \cup {VersionToMint(r)}
  /\ End(r)
  /\ UNCHANGED <<clock, begun, user, resetTokens>>

-----------------------------------------------------------------------------
(* SessionService.refresh: SELECT ... FOR UPDATE on the presented row, then *)
(* one branch of the transaction.                                          *)

LockPresented_PlainSelect(r, s) ==
  /\ Arrive(r)
  /\ Exists(s)
  /\ UNCHANGED <<clock, user, sessions, resetTokens, rowLock, userLock, minted>>

LockPresented(r, s) ==
  /\ Arrive(r)
  /\ Exists(s)
  /\ rowLock[s] = NoRequest
  /\ rowLock' = [rowLock EXCEPT ![s] = r]
  /\ UNCHANGED <<clock, user, sessions, resetTokens, userLock, minted>>

RotatedWithinGrace(s) ==
  /\ sessions[s].reason = "ROTATED"
  /\ ~sessions[s].graceUsed
  /\ sessions[s].rotatedAt + GraceWindow >= clock

RefreshLive(r, s) ==
  /\ Live(s)
  /\ sessions[s].expiresAt > clock
  /\ LockPresented(r, s)
  /\ Enter(r, "refresh", "owner", [Idle EXCEPT !.row = s])

RefreshGrace(r, s) ==
  /\ RotatedWithinGrace(s)
  /\ LockPresented(r, s)
  /\ Enter(r, "grace", "successor", [Idle EXCEPT !.row = s, !.at = clock])

RefreshReuse(r, s) ==
  /\ ~Live(s)
  /\ ~RotatedWithinGrace(s)
  /\ LockPresented(r, s)
  /\ Enter(r, "reuse", "bulk", [Idle EXCEPT !.row = s])

\* Lock, UPDATE and COMMIT in one step: no other read or lock comes between.
RefreshExpired(r, s) ==
  /\ Arrive(r)
  /\ Live(s)
  /\ sessions[s].expiresAt <= clock
  /\ rowLock[s] = NoRequest
  /\ sessions' = [sessions EXCEPT ![s] = Revoke(@, "EXPIRED")]
  /\ UNCHANGED <<clock, user, resetTokens, rowLock, userLock, req, minted>>

\* FOR UPDATE on the rows rotated from the presented one, all of them free.
LockSuccessor(r) ==
  LET succs == {t \in Ids : /\ Exists(t)
                            /\ sessions[t].rotatedFrom = req[r].row
                            /\ sessions[t].familyId = sessions[req[r].row].familyId}
  IN /\ req[r].pc = "successor"
     /\ \A t \in succs : rowLock[t] = NoRequest
     /\ rowLock' = [s \in Ids |-> IF s \in succs THEN r ELSE rowLock[s]]
     /\ \E t \in succs \cup {0} :
          /\ IF t = 0 THEN Cardinality(succs) # 1 ELSE succs = {t}
          /\ req' = [req EXCEPT ![r].pc = "owner", ![r].successor = t]
     /\ UNCHANGED <<clock, begun, user, sessions, resetTokens, userLock, minted>>

MayRotate_DeadSuccessor(r) == user.status = "ACTIVE"

\* May the presented row be rotated, now that its owner has been read?
MayRotate(r) ==
  /\ user.status = "ACTIVE"
  /\ req[r].op = "grace" => req[r].successor # 0 /\ Live(req[r].successor)

ReadOwner(r) ==
  /\ req[r].pc = "owner"
  /\ \/ /\ MayRotate(r)
        /\ req' = [req EXCEPT ![r].pc = "rotate", ![r].version = user.tokenVersion]
     \/ /\ ~MayRotate(r)
        /\ req' = [req EXCEPT ![r].pc = "bulk",
                     ![r].op = IF @ = "grace" THEN "reuse" ELSE "inactive"]
  /\ UNCHANGED <<clock, begun, user, sessions, resetTokens, rowLock, userLock, minted>>

\* Insert the new row, revoke the row it replaces, commit, mint.
RotateInto(r, old, at) ==
  /\ ForeignKeyHolds
  /\ sessions' = [s \in Ids |->
       CASE s = req[r].id -> NewRow(sessions[req[r].row].familyId, old, at)
         [] s = old       -> Rotated(sessions[s], at)
         [] s = req[r].row /\ s # old -> SpendGrace(sessions[s])
         [] OTHER         -> sessions[s]]
  /\ minted' = minted \cup {req[r].version}
  /\ End(r)
  /\ UNCHANGED <<clock, begun, user, resetTokens>>

Rotate(r) ==
  /\ req[r].pc = "rotate"
  /\ req[r].op = "refresh"
  /\ RotateInto(r, req[r].row, clock)

Recover(r) ==
  /\ req[r].pc = "rotate"
  /\ req[r].op = "grace"
  /\ RotateInto(r, req[r].successor, req[r].at)

-----------------------------------------------------------------------------
(* UPDATE sessions SET revoked_at ... WHERE ... AND revoked_at IS NULL, and *)
(* the cascade of DELETE FROM users.                                       *)

InScope_AnyRow(r, s) ==
  /\ Exists(s)
  /\ req[r].op \notin {"delete", "reset", "change"}
       => sessions[s].familyId = sessions[req[r].row].familyId

InScope(r, s) ==
  CASE req[r].op = "delete" -> Exists(s)
    [] req[r].op \in {"reset", "change"} -> Live(s)
    [] OTHER -> Live(s) /\ sessions[s].familyId = sessions[req[r].row].familyId

BulkSnapshot(r) ==
  LET targets == {s \in Ids : InScope(r, s)}
  IN /\ req[r].pc = "bulk"
     /\ req' = [req EXCEPT ![r].pc = "lockRows", ![r].todo = targets, ![r].seen = targets]
     /\ UNCHANGED <<clock, begun, user, sessions, resetTokens, rowLock, userLock, minted>>

BulkLock(r, s) ==
  /\ req[r].pc = "lockRows"
  /\ s \in req[r].todo
  /\ rowLock[s] \in {NoRequest, r}
  /\ \/ /\ InScope(r, s)
        /\ rowLock' = [rowLock EXCEPT ![s] = r]
        /\ req' = [req EXCEPT ![r].todo = @ \ {s}, ![r].hit = @ \cup {s}]
     \/ /\ ~InScope(r, s)
        /\ req' = [req EXCEPT ![r].todo = @ \ {s}]
        /\ UNCHANGED rowLock
  /\ UNCHANGED <<clock, begun, user, sessions, resetTokens, userLock, minted>>

BulkDone(r, op) ==
  /\ req[r].pc = "lockRows"
  /\ req[r].op = op
  /\ req[r].todo = {}

RevokeHits_PresentedOnly(r, reason) ==
  sessions' = [sessions EXCEPT ![req[r].row] = Revoke(@, reason)]

RevokeHits(r, reason) ==
  sessions' = [s \in Ids |-> IF s \in req[r].hit THEN Revoke(sessions[s], reason)
                                                 ELSE sessions[s]]

BumpVersion == user' = [user EXCEPT !.tokenVersion = @ + 1]

InactiveCommit(r) ==
  /\ BulkDone(r, "inactive")
  /\ RevokeHits(r, "ACCOUNT_INACTIVE")
  /\ End(r)
  /\ UNCHANGED <<clock, begun, user, resetTokens, minted>>

\* The increment of users.token_version waits for the users row.
ReuseCommit(r) ==
  /\ BulkDone(r, "reuse")
  /\ userLock = NoRequest
  /\ RevokeHits(r, "REUSE_DETECTED")
  /\ BumpVersion
  /\ End(r)
  /\ UNCHANGED <<clock, begun, resetTokens, minted>>

-----------------------------------------------------------------------------
(* SessionService.logout.                                                  *)

LogoutFind(r, s) ==
  /\ Arrive(r)
  /\ Exists(s)
  /\ Enter(r, "logout", "bulk", [Idle EXCEPT !.row = s])
  /\ UNCHANGED <<clock, user, sessions, resetTokens, rowLock, userLock, minted>>

LogoutCommit(r) ==
  /\ BulkDone(r, "logout")
  /\ RevokeHits(r, "LOGOUT")
  /\ End(r)
  /\ UNCHANGED <<clock, begun, user, resetTokens, minted>>

-----------------------------------------------------------------------------
(* PasswordResetService.                                                   *)

RequestReset(r) ==
  /\ Arrive(r)
  /\ ForeignKeyHolds
  /\ resetTokens' = [resetTokens EXCEPT
       ![begun + 1] = [state |-> "OPEN", expiresAt |-> clock + ResetTtl]]
  /\ UNCHANGED <<clock, user, sessions, rowLock, userLock, req, minted>>

\* resolveValidToken runs before the transaction, then the password is hashed.
ResetResolve(r, t) ==
  /\ Arrive(r)
  /\ resetTokens[t].state = "OPEN"
  /\ resetTokens[t].expiresAt > clock
  /\ Enter(r, "reset", "consume", [Idle EXCEPT !.row = t])
  /\ UNCHANGED <<clock, user, sessions, resetTokens, rowLock, userLock, minted>>

\* An UPDATE of password_reset_tokens waits for every row that another
\* confirmation has updated and not committed; its own rows it keeps.
TakeTokens(r, rows, pc) ==
  /\ \A q \in Requests \ {r} : req[q].tokens \cap rows = {}
  /\ req' = [req EXCEPT ![r].pc = pc, ![r].tokens = @ \cup rows]
  /\ UNCHANGED <<clock, begun, user, sessions, resetTokens, rowLock, userLock, minted>>

\* Step 1 of the transaction: the presented token, by its id, whatever its state.
ConsumePresented(r) ==
  /\ req[r].pc = "consume"
  /\ TakeTokens(r, {t \in Ids : t = req[r].row /\ resetTokens[t].state # "ABSENT"}, "others")

\* Step 2: every token of the user that is still open.
ConsumeOthers(r) ==
  /\ req[r].pc = "others"
  /\ TakeTokens(r, {t \in Ids : resetTokens[t].state = "OPEN"}, "user")

ResetCommit(r) ==
  /\ BulkDone(r, "reset")
  /\ RevokeHits(r, "PASSWORD_RESET")
  /\ BumpVersion
  /\ resetTokens' = [t \in Ids |-> IF t \in req[r].tokens
                                   THEN [resetTokens[t] EXCEPT !.state = "CONSUMED"]
                                   ELSE resetTokens[t]]
  /\ End(r)
  /\ UNCHANGED <<clock, begun, minted>>

-----------------------------------------------------------------------------
(* PasswordChangeService.change and AccountDeletionService.deleteAccount:  *)
(* the account is read and the password verified before anything is locked. *)

\* AccessTokenGuard let the caller in on a token it checked a query earlier: by
\* now the version may have moved on and the account may be disabled.
ReadAccount(r, op) ==
  /\ Arrive(r)
  /\ minted # {}
  /\ user.status # "DELETED"
  /\ Enter(r, op, "user", [Idle EXCEPT !.version = user.tokenVersion])
  /\ UNCHANGED <<clock, user, sessions, resetTokens, rowLock, userLock, minted>>

\* The first statement on the users row.  When the account is gone it touches
\* nothing: deletion answers 401, a reset 204, a change goes on to issue.
LockUser(r) ==
  /\ req[r].pc = "user"
  /\ userLock = NoRequest
  /\ \/ /\ user.status # "DELETED"
        /\ userLock' = r
        /\ Goto(r, "bulk")
     \/ /\ user.status = "DELETED"
        /\ req' = [req EXCEPT ![r] = IF @.op = "change" THEN [@ EXCEPT !.pc = "issue"]
                                                        ELSE Idle]
        /\ UNCHANGED userLock
  /\ UNCHANGED <<clock, begun, user, sessions, resetTokens, rowLock, minted>>

ChangeCommit(r) ==
  /\ BulkDone(r, "change")
  /\ RevokeHits(r, "PASSWORD_RESET")
  /\ BumpVersion
  /\ ReleaseLocks(r)
  /\ req' = [req EXCEPT ![r].pc = "issue", ![r].seen = {}, ![r].hit = {}]
  /\ UNCHANGED <<clock, begun, resetTokens, minted>>

\* The cascade also waits for token rows a confirmation has updated.
DeleteCommit(r) ==
  /\ BulkDone(r, "delete")
  /\ \A q \in Requests : req[q].tokens = {}
  /\ user' = [user EXCEPT !.status = "DELETED"]
  /\ sessions' = [s \in Ids |-> IF s \in req[r].hit THEN NoRow ELSE sessions[s]]
  /\ resetTokens' = [t \in Ids |-> NoToken]
  /\ End(r)
  /\ UNCHANGED <<clock, begun, minted>>

-----------------------------------------------------------------------------
(* Failures and the environment.                                           *)

\* The statement is cancelled (statement_timeout, deadlock victim), the
\* connection or the process dies: ROLLBACK, or nothing more happens.
Fail(r) ==
  /\ req[r].pc # "idle"
  /\ End(r)
  /\ UNCHANGED <<clock, begun, user, sessions, resetTokens, minted>>

\* No code writes DISABLED; the services and the guard read it.
OperatorDisables ==
  /\ user.status = "ACTIVE"
  /\ userLock = NoRequest
  /\ user' = [user EXCEPT !.status = "DISABLED"]
  /\ UNCHANGED <<clock, begun, sessions, resetTokens, rowLock, userLock, req, minted>>

Tick ==
  /\ clock < MaxTime
  /\ clock' = clock + 1
  /\ UNCHANGED <<begun, user, sessions, resetTokens, rowLock, userLock, req, minted>>

\* Nothing is left to do but reject: the bound on requests is used up or the
\* account is gone, and every accepted request has been answered.
Terminated ==
  /\ begun = MaxRequests \/ user.status = "DELETED"
  /\ \A r \in Requests : req[r].pc = "idle"
  /\ UNCHANGED vars

-----------------------------------------------------------------------------

Init ==
  /\ clock = 0
  /\ begun = 0
  /\ user = [status |-> "ACTIVE", tokenVersion |-> 0]
  /\ sessions = [s \in Ids |-> NoRow]
  /\ resetTokens = [t \in Ids |-> NoToken]
  /\ rowLock = [s \in Ids |-> NoRequest]
  /\ userLock = NoRequest
  /\ req = [r \in Requests |-> Idle]
  /\ minted = {}

Begin(r) ==
  \/ LoginRead(r)
  \/ \E s \in Ids : RefreshLive(r, s) \/ RefreshGrace(r, s) \/ RefreshReuse(r, s)
                    \/ RefreshExpired(r, s) \/ LogoutFind(r, s) \/ ResetResolve(r, s)
  \/ RequestReset(r)
  \/ ReadAccount(r, "change")
  \/ ReadAccount(r, "delete")

Continue(r) ==
  \/ IssueSession(r)
  \/ LockSuccessor(r) \/ ReadOwner(r) \/ Rotate(r) \/ Recover(r)
  \/ BulkSnapshot(r) \/ \E s \in Ids : BulkLock(r, s)
  \/ InactiveCommit(r) \/ ReuseCommit(r) \/ LogoutCommit(r)
  \/ ConsumePresented(r) \/ ConsumeOthers(r) \/ LockUser(r) \/ ResetCommit(r)
  \/ ChangeCommit(r) \/ DeleteCommit(r)

Next ==
  \/ \E r \in Requests : Begin(r) \/ Continue(r) \/ Fail(r)
  \/ OperatorDisables
  \/ Tick
  \/ Terminated

Spec == Init /\ [][Next]_vars

\* Node runs every accepted request on, PostgreSQL grants a free lock, and
\* statement_timeout cancels a statement that waits for a lock for too long.
Blocked(r) == ~ENABLED Continue(r)
CancelBlocked_NoTimeout(r) == FALSE
CancelBlocked(r) == Blocked(r) /\ Fail(r)

FairSpec ==
  /\ Spec
  /\ \A r \in Requests : WF_vars(Continue(r) \/ CancelBlocked(r))

-----------------------------------------------------------------------------
(* Properties.                                                             *)

Labels == {"idle", "issue", "successor", "owner", "rotate", "bulk", "lockRows",
           "consume", "others", "user"}
Operations == {"none", "login", "refresh", "grace", "reuse", "inactive", "logout",
               "reset", "change", "delete"}

SessionRows == [reason : Revocations \cup {"ABSENT", "LIVE"}, familyId : 0 .. MaxRequests,
                rotatedFrom : 0 .. MaxRequests, rotatedAt : Nat, expiresAt : Nat,
                graceUsed : BOOLEAN]
TokenRows == [state : {"ABSENT", "OPEN", "CONSUMED"}, expiresAt : Nat]
Locals == [pc : Labels, op : Operations, id : 0 .. MaxRequests, row : 0 .. MaxRequests,
           successor : 0 .. MaxRequests, version : Nat, at : Nat, todo : SUBSET Ids,
           seen : SUBSET Ids, hit : SUBSET Ids, tokens : SUBSET Ids]

\* Types, and the CHECK constraints of the sessions table that relate columns:
\* a rotated row is not its own predecessor and only a ROTATED row can carry a
\* used grace.
TypeOK ==
  /\ clock \in Nat
  /\ begun \in 0 .. MaxRequests
  /\ user \in [status : {"ACTIVE", "DISABLED", "DELETED"}, tokenVersion : Nat]
  /\ sessions \in [Ids -> SessionRows]
  /\ resetTokens \in [Ids -> TokenRows]
  /\ rowLock \in [Ids -> Requests \cup {NoRequest}]
  /\ userLock \in Requests \cup {NoRequest}
  /\ req \in [Requests -> Locals]
  /\ minted \in SUBSET Nat
  /\ \A s \in Ids : /\ sessions[s].rotatedFrom # s
                    /\ sessions[s].graceUsed => sessions[s].reason = "ROTATED"

\* However rotations, recoveries and revocations interleave, a family never has
\* two refresh tokens that work (session.service.ts, refresh).
AtMostOneLivePerFamily ==
  \A s, t \in Ids : /\ Live(s) /\ Live(t)
                    /\ sessions[s].familyId = sessions[t].familyId
                    => s = t

\* A refresh token is exchanged for at most one successor, ever: neither two
\* concurrent refreshes nor the lost-response recovery forks the chain, so the
\* recovery's successors.length === 1 test never fails for a second row.
ChainNeverForks ==
  \A s, t \in Ids : /\ Exists(s) /\ Exists(t)
                    /\ sessions[s].rotatedFrom = sessions[t].rotatedFrom
                    /\ sessions[s].rotatedFrom # 0
                    => s = t

\* Deleting the account leaves no session or reset token behind, whatever login,
\* refresh or reset was past its own check of the account when the row went.
NoOrphans ==
  user.status = "DELETED" => \A s \in Ids : ~Exists(s) /\ resetTokens[s] = NoToken

\* A revoked row is history: no later statement makes it live again or rewrites
\* why it was revoked; only its grace can be spent, once, and deletion remove it.
RevokedRowsFrozen ==
  [][\A s \in Ids : Exists(s) /\ ~Live(s) =>
       \/ sessions'[s] = sessions[s]
       \/ ~sessions[s].graceUsed /\ sessions'[s] = SpendGrace(sessions[s])
       \/ sessions'[s] = NoRow]_vars

\* Seen from outside, the whole table is a set of families that each have one
\* current token or have ended for good (module SessionFamilies): every commit
\* opens, exchanges, ends or closes, and nothing in flight revives a family.
CurrentToken == [f \in Ids |->
  IF \E s \in Ids : Live(s) /\ sessions[s].familyId = f
  THEN CHOOSE s \in Ids : Live(s) /\ sessions[s].familyId = f
  ELSE 0]

Families == INSTANCE SessionFamilies WITH
  Tokens <- Ids, open <- user.status # "DELETED", current <- CurrentToken,
  issued <- {s \in Ids : Exists(s)}

ImplementsFamilies == Families!Spec

\* Every row that was live when a revoking UPDATE began is dead when its
\* transaction commits, even a row another request held locked at the time.
SeenRowsDie ==
  [][\A r \in Requests :
       \/ InactiveCommit(r) \/ ReuseCommit(r) \/ LogoutCommit(r)
       \/ ResetCommit(r) \/ ChangeCommit(r)
       => \A s \in req[r].seen : sessions'[s].reason # "LIVE"]_vars

\* token_version++ kills EVERY access token minted so far, those of a password
\* change that mints the version it expects included: the new version is one
\* that no token carries.
BumpKillsEveryToken ==
  [][user'.tokenVersion # user.tokenVersion => user'.tokenVersion \notin minted]_vars

\* Every accepted request is answered: the lock cycles between a reset (users,
\* then sessions) and reuse detection (sessions, then users) are broken.
EveryRequestAnswered ==
  \A r \in Requests : req[r].pc # "idle" ~> req[r].pc = "idle"

-----------------------------------------------------------------------------
(* What the comments and tests say and the interleavings do not keep.      *)

\* session.service.ts: "REUSE DETECTED: the WHOLE family dies";
\* password-reset.service.ts: "Every live refresh family for this user is
\* revoked".  No family that was live when the UPDATE began outlives the commit.
WholeFamilyDies ==
  [][\A r \in Requests : ReuseCommit(r) \/ ResetCommit(r) =>
       \A s \in req[r].seen, t \in Ids :
         sessions[s].familyId = sessions[t].familyId => sessions'[t].reason # "LIVE"]_vars

\* auth-security.e2e-spec.ts: "P1 - a token cannot confirm twice": a confirmation
\* commits only while its token is still unconsumed.
TokenConfirmsOnce ==
  [][\A r \in Requests : ResetCommit(r) => resetTokens[req[r].row].state = "OPEN"]_vars

\* password-change.service.ts: "Mint a fresh pair against the BUMPED version".
MintsTheBumpedVersion ==
  [][\A r \in Requests : ChangeCommit(r) =>
       req[r].version + 1 = user'.tokenVersion]_vars

=============================================================================
