---------------------------- MODULE AuthSessions ----------------------------
(***************************************************************************)
(* Accounts, login sessions and the HTTP requests that change them:        *)
(* src/src/auth/auth.service.ts, src/src/auth/jwt.strategy.ts and the      *)
(* session-bearing half of src/src/users/users.service.ts.                 *)
(*                                                                         *)
(* The service holds no state in memory and opens no transaction around a  *)
(* handler.  Every  await  on the database is therefore a point where the  *)
(* other requests run, and what the handler read before it may be stale    *)
(* after it.  One action below is one SQL statement together with the      *)
(* JavaScript that runs on its answer, up to the next statement.           *)
(*                                                                         *)
(* A request is used once: Requests stands for all the calls a behaviour   *)
(* makes, and the session that request r opens (randomUUID) is named r.    *)
(***************************************************************************)
EXTENDS Naturals, FiniteSets

CONSTANTS
  Users,              \* ids of core.users
  Requests,           \* the HTTP calls of a behaviour
  Passwords,          \* passwords; all of them satisfy the complexity rule
  None,               \* no user, no request, no password, no row
  MaxFailedAttempts,  \* AuthService.MAX_FAILED_ATTEMPTS
  LockoutDuration,    \* AuthService.LOCKOUT_DURATION_MS, in ticks
  AccessTtl,          \* jwt.accessExpiryMs, in ticks
  RefreshTtl,         \* jwt.refreshExpiryMs, in ticks
  MaxTime,            \* bound: the clock stops here
  MaxInFlight,        \* bound: requests between their first and last statement
  StatusChoices,      \* the statuses an administrator asks for
  Handlers            \* bound: the handlers this instance calls

Statuses == {"ACTIVE", "SUSPENDED", "LOCKED", "INACTIVE"}

AllHandlers ==
  {"login", "refresh", "logout", "changePassword", "update", "updateStatus",
   "bulkUpdateStatus", "resetPassword", "delete", "terminateSession",
   "terminateAllSessions"}

ASSUME SentinelAssumption == None \notin Users \cup Requests \cup Passwords
ASSUME BoundsAssumption ==
  /\ MaxFailedAttempts \in Nat \ {0}
  /\ LockoutDuration \in Nat \ {0}
  /\ AccessTtl \in Nat /\ RefreshTtl \in Nat
  /\ MaxTime \in Nat /\ MaxInFlight \in Nat
  /\ StatusChoices \subseteq Statuses
  /\ Handlers \subseteq AllHandlers

VARIABLES
  users,     \* core.users: Users -> account row
  sessions,  \* core.refresh_sessions: request that opened it -> row or NoSession
  audit,     \* core.audit_logs: request -> the accounts it has logged
  now,       \* the clock, Date.now()
  pc,        \* the statement a request runs next, or how it ended
  frame      \* the handler's local variables

vars == <<users, sessions, audit, now, pc, frame>>

-----------------------------------------------------------------------------
(* Rows and local variables *)

\* accountLockedUntil = 0 is SQL NULL: a lock set at time 0 ends later.
AccountRow ==
  [status : Statuses, isDeleted : BOOLEAN, passwordHash : Passwords,
   failedLoginAttempts : Nat, accountLockedUntil : Nat]

\* root is history: the login at the origin of the chain of rotations.
SessionRow ==
  [user : Users, isRevoked : BOOLEAN, isActive : BOOLEAN, expiresAt : Nat,
   root : Requests]

NoSession ==
  [user |-> None, isRevoked |-> TRUE, isActive |-> FALSE, expiresAt |-> 0,
   root |-> None]

NoEntities == [u \in Users |-> None]

\* What a handler is doing.  A login that fails its checks is another path of
\* the same handler.
Paths ==
  AllHandlers \cup {"loginUnknown", "loginLocked", "loginDenied",
                    "changePasswordDenied", "none"}

Statements ==
  {"reload", "write", "claim", "revokeOne", "revokeAll", "audit", "issue"}

\* done: the handler returned; denied: it logged a failure and threw;
\* refused: it ended at its first read or lost the claim, nothing changed;
\* aborted: a statement failed or the process died between two statements.
Outcomes == {"done", "denied", "refused", "aborted"}

Frame ==
  [path : Paths, targets : SUBSET Users, token : Requests \cup {None},
   pw : Passwords \cup {None}, revokes : BOOLEAN,
   ent : [Users -> AccountRow \cup {None}],
   base : [Users -> AccountRow \cup {None}]]

Call(path, targets, token, pw, revokes, ent) ==
  [path |-> path, targets |-> targets, token |-> token, pw |-> pw,
   revokes |-> revokes, ent |-> ent, base |-> NoEntities]

NoCall == Call("none", {}, None, None, FALSE, NoEntities)

InFlight == {r \in Requests : pc[r] \in Statements}

Issued == {s \in Requests : sessions[s] # NoSession}

Live(s) == ~sessions[s].isRevoked /\ sessions[s].isActive

-----------------------------------------------------------------------------
(* Mutants: one plausible bug each, for the properties at the end *)

RevokedKeepsActive(row) == [row EXCEPT !.isRevoked = TRUE]

UnconditionalClaim(s) == TRUE

CountsAboveLimit(row) ==
  LET n == row.failedLoginAttempts + 1
  IN  [row EXCEPT !.failedLoginAttempts = n,
                  !.accountLockedUntil =
                    IF n > MaxFailedAttempts THEN now + LockoutDuration ELSE @]

RevokesOnStatusOnly(path, status) ==
  /\ path \in {"updateStatus", "bulkUpdateStatus"}
  /\ status \in {"LOCKED", "INACTIVE"}

RevokesOnPasswordOnly(path, status) ==
  path \in {"changePassword", "resetPassword"}

RevokesTokenOnly(r) == {frame[r].token}

LoginIssuesFirst(r) ==
  IF frame[r].revokes THEN "revokeAll"
  ELSE IF frame[r].path = "login" THEN "issue" ELSE "audit"

ClaimKeepsSession(r) ==
  /\ pc[r] = "claim"
  /\ pc' = [pc EXCEPT ![r] = "issue"]
  /\ UNCHANGED <<users, sessions, audit, now, frame>>

IssueReusesRow(r) ==
  /\ pc[r] = "issue"
  /\ \E u \in frame[r].targets :
       LET s == IF frame[r].path = "login" THEN r ELSE frame[r].token
       IN  sessions' = [sessions EXCEPT ![s] =
             [user |-> u, isRevoked |-> FALSE, isActive |-> TRUE,
              expiresAt |-> now + RefreshTtl,
              root |-> IF s = r THEN r ELSE sessions[s].root]]
  /\ pc' = [pc EXCEPT ![r] = "done"]
  /\ UNCHANGED <<users, audit, now, frame>>

-----------------------------------------------------------------------------
(* What the handlers compute *)

\* The columns every revocation writes; logout_at is left out.
Revoked(row) == [row EXCEPT !.isRevoked = TRUE, !.isActive = FALSE]

\* The failed branch of login.
FailedAttempt(row) ==
  LET n == row.failedLoginAttempts + 1
  IN  [row EXCEPT !.failedLoginAttempts = n,
                  !.accountLockedUntil =
                    IF n >= MaxFailedAttempts THEN now + LockoutDuration ELSE @]

ClearedLock(row) ==
  [row EXCEPT !.failedLoginAttempts = 0, !.accountLockedUntil = 0]

\* status = ACTIVE also clears the lockout.
WithStatus(row, status) ==
  LET changed == [row EXCEPT !.status = status]
  IN  IF status = "ACTIVE" THEN ClearedLock(changed) ELSE changed

\* Whether the handler revokes the account's sessions after saving it.
RevokesAfterSave(path, status) ==
  \/ path \in {"changePassword", "resetPassword", "delete"}
  \/ /\ path \in {"updateStatus", "bulkUpdateStatus"}
     /\ status \in {"LOCKED", "INACTIVE"}

\* TypeORM's save: the columns in which the entity differs from the row that
\* save re-read are written, the others are left as the table has them.
Merge(row, base, ent) ==
  LET pick(mine, read, stored) == IF mine = read THEN stored ELSE mine
  IN  [status       |-> pick(ent.status, base.status, row.status),
       isDeleted    |-> pick(ent.isDeleted, base.isDeleted, row.isDeleted),
       passwordHash |->
         pick(ent.passwordHash, base.passwordHash, row.passwordHash),
       failedLoginAttempts |->
         pick(ent.failedLoginAttempts, base.failedLoginAttempts,
              row.failedLoginAttempts),
       accountLockedUntil |->
         pick(ent.accountLockedUntil, base.accountLockedUntil,
              row.accountLockedUntil)]

One(u, row) == [NoEntities EXCEPT ![u] = row]

\* The checks of a refresh token against its session and account.
RefreshAccepts(s) ==
  /\ Live(s)
  /\ ~users[sessions[s].user].isDeleted
  /\ users[sessions[s].user].status = "ACTIVE"
  /\ now < sessions[s].expiresAt

\* JwtStrategy.validate, and passport's check of the access token's expiry:
\* the token was signed when the session was opened.
GuardAdmits(s) ==
  /\ Live(s)
  /\ now < sessions[s].expiresAt
  /\ now + RefreshTtl < sessions[s].expiresAt + AccessTtl
  /\ ~users[sessions[s].user].isDeleted
  /\ users[sessions[s].user].status = "ACTIVE"

-----------------------------------------------------------------------------
(* First statements: a request arrives and its first SELECT is answered *)

Begin(r, handler, statement, call) ==
  /\ handler \in Handlers
  /\ pc[r] = "idle"
  /\ Cardinality(InFlight) < MaxInFlight
  /\ pc' = [pc EXCEPT ![r] = statement]
  /\ frame' = [frame EXCEPT ![r] = call]
  /\ UNCHANGED <<users, sessions, audit, now>>

LoginUnknown(r, u) ==
  /\ users[u].isDeleted
  /\ Begin(r, "login", "audit",
           Call("loginUnknown", {}, None, None, FALSE, NoEntities))

LoginLocked(r, u) ==
  /\ ~users[u].isDeleted
  /\ users[u].accountLockedUntil > now
  /\ Begin(r, "login", "audit",
           Call("loginLocked", {u}, None, None, FALSE, NoEntities))

LoginDenied(r, u, p) ==
  /\ ~users[u].isDeleted
  /\ users[u].accountLockedUntil <= now
  /\ users[u].status # "ACTIVE" \/ p # users[u].passwordHash
  /\ Begin(r, "login", "reload",
           Call("loginDenied", {u}, None, p, FALSE,
                One(u, FailedAttempt(users[u]))))

LoginPermitted(r, u, p) ==
  /\ ~users[u].isDeleted
  /\ users[u].accountLockedUntil <= now
  /\ users[u].status = "ACTIVE"
  /\ p = users[u].passwordHash
  /\ Begin(r, "login", "reload",
           Call("login", {u}, None, p, FALSE, One(u, ClearedLock(users[u]))))

RefreshRead(r, s) ==
  /\ s \in Issued
  /\ RefreshAccepts(s)
  /\ Begin(r, "refresh", "claim",
           Call("refresh", {sessions[s].user}, s, None, FALSE, NoEntities))

RefreshRefused(r, s) ==
  /\ s \in Issued
  /\ ~RefreshAccepts(s)
  /\ Begin(r, "refresh", "refused", NoCall)

LogoutRead(r, s) ==
  /\ s \in Issued
  /\ ~sessions[s].isRevoked
  /\ Begin(r, "logout", "revokeOne",
           Call("logout", {sessions[s].user}, s, None, FALSE, NoEntities))

\* An unknown or revoked token: logout returns without a word.
LogoutIgnored(r, s) ==
  /\ s \in Issued
  /\ sessions[s].isRevoked
  /\ Begin(r, "logout", "refused", NoCall)

ChangePasswordRefused(r, s) ==
  /\ s \in Issued
  /\ ~GuardAdmits(s)
  /\ Begin(r, "changePassword", "refused", NoCall)

\* p is the current password typed, q the new one; the account is the one the
\* guard loaded with the session.
ChangePasswordDenied(r, s, p) ==
  /\ s \in Issued
  /\ GuardAdmits(s)
  /\ p # users[sessions[s].user].passwordHash
  /\ Begin(r, "changePassword", "audit",
           Call("changePasswordDenied", {sessions[s].user}, s, None, FALSE,
                NoEntities))

ChangePassword(r, s, p, q) ==
  LET u == sessions[s].user IN
  /\ s \in Issued
  /\ GuardAdmits(s)
  /\ p = users[u].passwordHash
  /\ IF q = p
     THEN Begin(r, "changePassword", "refused", NoCall)
     ELSE Begin(r, "changePassword", "reload",
                Call("changePassword", {u}, s, None,
                     RevokesAfterSave("changePassword", users[u].status),
                     One(u, [users[u] EXCEPT !.passwordHash = q])))

-----------------------------------------------------------------------------
(* Administration: the caller is an administrator outside Users, and      *)
(* findUser refuses a deleted account.                                     *)

AdminSave(r, handler, u, status, row) ==
  /\ ~users[u].isDeleted
  /\ Begin(r, handler, "reload",
           Call(handler, {u}, None, None, RevokesAfterSave(handler, status),
                One(u, row)))

FindUserFails(r, handler, u) ==
  /\ handler \in {"update", "updateStatus", "resetPassword", "delete",
                  "terminateAllSessions"}
  /\ users[u].isDeleted
  /\ Begin(r, handler, "refused", NoCall)

\* request.status is optional; update never touches the sessions.
Update(r, u) ==
  \E status \in StatusChoices \cup {users[u].status} :
    AdminSave(r, "update", u, status, [users[u] EXCEPT !.status = status])

UpdateStatus(r, u) ==
  \E status \in StatusChoices :
    AdminSave(r, "updateStatus", u, status, WithStatus(users[u], status))

\* One SELECT, one save of all the accounts found, one UPDATE of the sessions.
BulkUpdateStatus(r, ids) ==
  LET found == {u \in ids : ~users[u].isDeleted} IN
  \E status \in StatusChoices :
    IF found = {}
    THEN Begin(r, "bulkUpdateStatus", "refused", NoCall)
    ELSE Begin(r, "bulkUpdateStatus", "reload",
               Call("bulkUpdateStatus", found, None, None,
                    RevokesAfterSave("bulkUpdateStatus", status),
                    [u \in Users |-> IF u \in found
                                     THEN WithStatus(users[u], status)
                                     ELSE None]))

\* The temporary password is random: never the current one.
ResetPassword(r, u) ==
  \E q \in Passwords \ {users[u].passwordHash} :
    AdminSave(r, "resetPassword", u, users[u].status,
              [users[u] EXCEPT !.passwordHash = q])

Delete(r, u) ==
  AdminSave(r, "delete", u, users[u].status,
            [users[u] EXCEPT !.isDeleted = TRUE])

TerminateSession(r, s) ==
  /\ s \in Issued
  /\ IF users[sessions[s].user].isDeleted
     THEN Begin(r, "terminateSession", "refused", NoCall)
     ELSE Begin(r, "terminateSession", "revokeOne",
                Call("terminateSession", {sessions[s].user}, s, None, FALSE,
                     NoEntities))

TerminateAllSessions(r, u) ==
  /\ ~users[u].isDeleted
  /\ Begin(r, "terminateAllSessions", "revokeAll",
           Call("terminateAllSessions", {u}, None, None, TRUE, NoEntities))

-----------------------------------------------------------------------------
(* The statements that follow *)

\* save, first half: SELECT the rows again to compute the difference.
Reload(r) ==
  /\ pc[r] = "reload"
  /\ frame' = [frame EXCEPT ![r].base =
                 [u \in Users |-> IF u \in frame[r].targets
                                  THEN users[u] ELSE None]]
  /\ pc' = [pc EXCEPT ![r] = "write"]
  /\ UNCHANGED <<users, sessions, audit, now>>

AfterWrite(r) == IF frame[r].revokes THEN "revokeAll" ELSE "audit"

\* save, second half: UPDATE the columns that differ, all accounts in one
\* transaction.
Write(r) ==
  /\ pc[r] = "write"
  /\ users' = [u \in Users |->
                 IF u \in frame[r].targets
                 THEN Merge(users[u], frame[r].base[u], frame[r].ent[u])
                 ELSE users[u]]
  /\ frame' = [frame EXCEPT ![r].ent = NoEntities, ![r].base = NoEntities]
  /\ pc' = [pc EXCEPT ![r] = AfterWrite(r)]
  /\ UNCHANGED <<sessions, audit, now>>

\* The WHERE of the rotation's UPDATE.
Claimable(s) == Live(s)

\* refresh: UPDATE ... WHERE is_revoked = false AND is_active = true.
ClaimWon(r) ==
  LET s == frame[r].token IN
  /\ pc[r] = "claim"
  /\ Claimable(s)
  /\ sessions' = [sessions EXCEPT ![s] = Revoked(@)]
  /\ pc' = [pc EXCEPT ![r] = "issue"]
  /\ UNCHANGED <<users, audit, now, frame>>

\* affected = 0: somebody else revoked the session since it was read.
ClaimLost(r) ==
  /\ pc[r] = "claim"
  /\ ~Claimable(frame[r].token)
  /\ pc' = [pc EXCEPT ![r] = "refused"]
  /\ frame' = [frame EXCEPT ![r] = NoCall]
  /\ UNCHANGED <<users, sessions, audit, now>>

\* logout and terminateSession: save of the session entity.
RevokeOne(r) ==
  /\ pc[r] = "revokeOne"
  /\ sessions' = [sessions EXCEPT ![frame[r].token] = Revoked(@)]
  /\ pc' = [pc EXCEPT ![r] = "audit"]
  /\ UNCHANGED <<users, audit, now, frame>>

\* The WHERE of the bulk revocation: user_id IN (targets) AND is_active.
RevocationScope(r) ==
  {s \in Requests : /\ sessions[s].user \in frame[r].targets
                    /\ sessions[s].isActive}

RevokeAll(r) ==
  /\ pc[r] = "revokeAll"
  /\ sessions' = [s \in Requests |-> IF s \in RevocationScope(r)
                                     THEN Revoked(sessions[s])
                                     ELSE sessions[s]]
  /\ pc' = [pc EXCEPT ![r] = "audit"]
  /\ UNCHANGED <<users, audit, now, frame>>

\* A login for an unknown username is logged without an account.
Subjects(r) == IF frame[r].targets = {} THEN {None} ELSE frame[r].targets

AfterAudit(r) ==
  CASE frame[r].path = "login" -> "issue"
    [] frame[r].path \in {"loginUnknown", "loginLocked", "loginDenied",
                          "changePasswordDenied"} -> "denied"
    [] OTHER -> "done"

\* One INSERT per account; bulkUpdateStatus loops.
Audit(r) ==
  /\ pc[r] = "audit"
  /\ \E u \in Subjects(r) \ audit[r] :
       /\ audit' = [audit EXCEPT ![r] = @ \cup {u}]
       /\ pc' = [pc EXCEPT ![r] = IF audit'[r] = Subjects(r)
                                  THEN AfterAudit(r) ELSE "audit"]
  /\ UNCHANGED <<users, sessions, now, frame>>

\* buildSession: INSERT of the new session.  The role and permission reads
\* before it change nothing.
Issue(r) ==
  LET f == frame[r] IN
  /\ pc[r] = "issue"
  /\ \E u \in f.targets :
       sessions' = [sessions EXCEPT ![r] =
         [user |-> u, isRevoked |-> FALSE, isActive |-> TRUE,
          expiresAt |-> now + RefreshTtl,
          root |-> IF f.path = "login" THEN r ELSE sessions[f.token].root]]
  /\ pc' = [pc EXCEPT ![r] = "done"]
  /\ UNCHANGED <<users, audit, now, frame>>

\* A statement fails (the handler throws, the client sees a 500) or the
\* process dies: what was committed stays, the rest never happens.
Abort(r) ==
  /\ pc[r] \in Statements
  /\ pc' = [pc EXCEPT ![r] = "aborted"]
  /\ frame' = [frame EXCEPT ![r].ent = NoEntities, ![r].base = NoEntities]
  /\ UNCHANGED <<users, sessions, audit, now>>

Tick ==
  /\ now < MaxTime
  /\ now' = now + 1
  /\ UNCHANGED <<users, sessions, audit, pc, frame>>

-----------------------------------------------------------------------------
(* The specification *)

Init ==
  /\ users \in [Users -> {[status |-> "ACTIVE", isDeleted |-> FALSE,
                           passwordHash |-> p, failedLoginAttempts |-> 0,
                           accountLockedUntil |-> 0] : p \in Passwords}]
  /\ sessions = [s \in Requests |-> NoSession]
  /\ audit = [r \in Requests |-> {}]
  /\ now = 0
  /\ pc = [r \in Requests |-> "idle"]
  /\ frame = [r \in Requests |-> NoCall]

PublicCall(r) ==
  \/ \E u \in Users : LoginUnknown(r, u) \/ LoginLocked(r, u)
  \/ \E u \in Users, p \in Passwords :
       LoginDenied(r, u, p) \/ LoginPermitted(r, u, p)
  \/ \E s \in Requests : RefreshRead(r, s) \/ RefreshRefused(r, s)
  \/ \E s \in Requests : LogoutRead(r, s) \/ LogoutIgnored(r, s)

PasswordCall(r) ==
  \E s \in Requests :
    \/ ChangePasswordRefused(r, s)
    \/ \E p \in Passwords : ChangePasswordDenied(r, s, p)
    \/ \E p, q \in Passwords : ChangePassword(r, s, p, q)

AdminCall(r) ==
  \/ \E u \in Users, handler \in AllHandlers : FindUserFails(r, handler, u)
  \/ \E u \in Users : Update(r, u) \/ UpdateStatus(r, u)
  \/ \E ids \in SUBSET Users \ {{}} : BulkUpdateStatus(r, ids)
  \/ \E u \in Users : ResetPassword(r, u) \/ Delete(r, u)
  \/ \E s \in Requests : TerminateSession(r, s)
  \/ \E u \in Users : TerminateAllSessions(r, u)

Step(r) ==
  \/ Reload(r) \/ Write(r)
  \/ ClaimWon(r) \/ ClaimLost(r)
  \/ RevokeOne(r) \/ RevokeAll(r)
  \/ Audit(r) \/ Issue(r)

Next ==
  \/ \E r \in Requests :
       PublicCall(r) \/ PasswordCall(r) \/ AdminCall(r) \/ Step(r) \/ Abort(r)
  \/ Tick

Spec == Init /\ [][Next]_vars

\* A request that was accepted gets its answers from the database.
FairSpec == Spec /\ \A r \in Requests : WF_vars(Step(r))

-----------------------------------------------------------------------------
(* Safety under any interleaving *)

\* Every variable has its type; the two flags of a session move together,
\* although refresh reads both, logout one and the bulk revocation the other.
TypeOK ==
  /\ users \in [Users -> AccountRow]
  /\ sessions \in [Requests -> SessionRow \cup {NoSession}]
  /\ \A s \in Requests : sessions[s].isActive = ~sessions[s].isRevoked
  /\ audit \in [Requests -> SUBSET (Users \cup {None})]
  /\ now \in Nat
  /\ pc \in [Requests -> {"idle"} \cup Statements \cup Outcomes]
  /\ frame \in [Requests -> Frame]

\* Request r has won the claim on its refresh token, or has used it already.
HasClaimed(r) ==
  frame[r].path = "refresh" /\ (pc[r] = "issue" \/ r \in Issued)

\* "rotation atomically revokes the previous token so it cannot be reused"
\* (README): a refresh token gives at most one successor, and is revoked from
\* the moment the claim on it is won.
TokenRotatesOnce ==
  \A x, y \in Requests :
    HasClaimed(x) =>
      /\ ~Live(frame[x].token)
      /\ HasClaimed(y) /\ frame[x].token = frame[y].token => x = y

\* The chain of login g is held by its live session, by the refresh that has
\* revoked one session and not inserted the next, or, before there is any
\* session, by the login request itself.
Holds(x, g) ==
  \/ x \in Issued /\ Live(x) /\ sessions[x].root = g
  \/ /\ pc[x] = "issue" /\ frame[x].path = "refresh"
     /\ sessions[frame[x].token].root = g
  \/ x = g /\ g \notin Issued

\* One login never turns into two live sessions, however its refreshes, its
\* logout and the administrator's revocations interleave.
OneHolderPerLogin ==
  \A g, x, y \in Requests : Holds(x, g) /\ Holds(y, g) => x = y

\* The consequence a client sees: of the sessions that descend from one login,
\* one at most is live.
OneLiveSessionPerLogin ==
  \A s, t \in Issued :
    Live(s) /\ Live(t) /\ sessions[s].root = sessions[t].root => s = t

\* A revoked session stays revoked and a session keeps its account: no stale
\* save of a session entity brings one back.
RevocationIsFinal ==
  [][\A s \in Issued :
       /\ sessions'[s].user = sessions[s].user
       /\ sessions[s].isRevoked => sessions'[s].isRevoked]_vars

\* "Login ... events are audited" (README): a session that a login opened has
\* its audit row, even when the request dies later.
LoginAuditedFirst ==
  \A s \in Issued : frame[s].path = "login" => audit[s] = {sessions[s].user}

\* The facts about a handler's variables that its next statement relies on.
FrameFits(r) ==
  /\ pc[r] \in {"reload", "write"} =>
       \A u \in frame[r].targets : frame[r].ent[u] \in AccountRow
  /\ pc[r] = "write" =>
       \A u \in frame[r].targets : frame[r].base[u] \in AccountRow
  /\ pc[r] = "claim" => frame[r].path = "refresh"
  /\ pc[r] = "issue" => frame[r].path \in {"login", "refresh"}
  /\ pc[r] = "revokeOne" => frame[r].token \in Issued
  /\ frame[r].path \in {"login", "refresh"} =>
       \E u \in Users : frame[r].targets = {u}
  /\ frame[r].path = "refresh" => frame[r].token \in Issued
  /\ frame[r].path = "login" /\ pc[r] \in {"issue", "done"} =>
       audit[r] = frame[r].targets
  /\ r \in Issued => /\ pc[r] = "done"
                     /\ frame[r].path \in {"login", "refresh"}
                     /\ sessions[r].user \in frame[r].targets

FramesFit == \A r \in Requests : FrameFits(r)

\* The inductive invariant behind the theorems of AuthSessionsProofs: the
\* type, the shape of the frames, and the two facts about rotation.
IInv == TypeOK /\ FramesFit /\ TokenRotatesOnce /\ OneHolderPerLogin

\* The sessions of this specification, seen as the abstract ledger.
LiveSessions == {s \in Issued : Live(s)}

Owing(r) == pc[r] = "issue" /\ frame[r].path = "refresh"

OwedTokens == {frame[r].token : r \in {x \in Requests : Owing(x)}}

Ledger ==
  INSTANCE SessionLedger WITH
    Ids <- Requests, issued <- Issued, live <- LiveSessions, owed <- OwedTokens

\* Every step on the sessions is a step of the ledger or changes nothing in it.
ImplementsLedger == Ledger!Spec

\* Once a handler that revokes has started to save, every session the account
\* has at that moment is dead in the end, unless the handler is cut short.
RevocationCompletes ==
  \A r, s \in Requests :
    ( /\ pc[r] \in {"reload", "write", "revokeAll"}
      /\ frame[r].revokes
      /\ sessions[s].user \in frame[r].targets
      /\ Live(s) )
    ~> (~Live(s) \/ pc[r] = "aborted")

-----------------------------------------------------------------------------
(* What the code promises when requests on one account do not overlap *)

\* Requests under way at the same time concern different accounts.
Apart ==
  \A q, r \in InFlight : frame[q].targets \cap frame[r].targets # {} => q = r

Quiet == InFlight = {}

NothingAborted == \A r \in Requests : pc[r] # "aborted"

\* change-password "invalidates all sessions" (README), and so does a reset by
\* an administrator: between requests, a live session goes back to a login
\* that gave the password the account has now.
SessionsMatchPassword ==
  Quiet /\ NothingAborted =>
    \A s \in Issued :
      Live(s) => frame[sessions[s].root].pw = users[sessions[s].user].passwordHash

\* Accounts that were deleted, or locked or deactivated by the status
\* endpoints, have no live session; update can lock one and revokes nothing.
DeactivatedHaveNoSessions ==
  Quiet /\ NothingAborted /\ (\A r \in Requests : frame[r].path # "update") =>
    \A s \in Issued :
      Live(s) => /\ users[sessions[s].user].status \notin {"LOCKED", "INACTIVE"}
                 /\ ~users[sessions[s].user].isDeleted

Denials(u) ==
  {r \in Requests : /\ pc[r] = "denied" /\ frame[r].path = "loginDenied"
                    /\ u \in frame[r].targets}

\* "Five failed logins lock an account for 30 minutes" (README): so many denied
\* logins, and no login or status change that clears the count, leave a lock.
FailedLoginsLock ==
  \A u \in Users :
    /\ Cardinality(Denials(u)) >= MaxFailedAttempts
    /\ \A r \in Requests : u \in frame[r].targets =>
         frame[r].path \notin {"login", "updateStatus", "bulkUpdateStatus"}
    => users[u].accountLockedUntil > 0

\* 'Password changed successfully' (changePassword's answer): the password of
\* an account only changes when somebody sets a password.
PasswordChangeSticks ==
  [][\A u \in Users :
       users'[u].passwordHash # users[u].passwordHash =>
         \E r \in Requests :
           /\ pc[r] = "write" /\ pc'[r] # "write"
           /\ frame[r].path \in {"changePassword", "resetPassword"}]_vars

-----------------------------------------------------------------------------
(* The inductive invariant of requests that share no account *)

\* The handlers that clear the count of failed logins.
Clearing == {"login", "updateStatus", "bulkUpdateStatus"}

\* The handlers that set a password.
Setting == {"changePassword", "resetPassword"}

Barred == {"LOCKED", "INACTIVE"}

IdleFrames == \A r \in Requests : pc[r] = "idle" => frame[r] = NoCall

RootsDone == \A s \in Issued : pc[sessions[s].root] = "done"

\* What a save is about to write, compared with the account as it is: only a
\* handler that revokes afterwards sets a password, deletes or deactivates, but
\* for update; and a failed login counts one more.
EntityHolds(f) ==
  /\ f.path \in {"login", "loginDenied"} => ~f.revokes
  /\ \A u \in f.targets :
    LET row == users[u]
        ent == f.ent[u]
    IN
    /\ ~f.revokes \/ f.path \notin Setting =>
         ent.passwordHash = row.passwordHash
    /\ ~f.revokes /\ f.path # "update" =>
         /\ ent.status \in Barred => ent.status = row.status
         /\ ent.isDeleted = row.isDeleted
    /\ f.path \in {"login", "loginDenied"} =>
         ent.status = row.status
    /\ f.path = "loginDenied" =>
         /\ ent.failedLoginAttempts = row.failedLoginAttempts + 1
         /\ ent.failedLoginAttempts >= MaxFailedAttempts =>
              ent.accountLockedUntil > 0
    /\ f.path \notin Clearing \cup {"loginDenied"} =>
         /\ ent.failedLoginAttempts = row.failedLoginAttempts
         /\ ent.accountLockedUntil = row.accountLockedUntil

LoginHolds(r) ==
  \A u \in frame[r].targets :
    /\ frame[r].pw = users[u].passwordHash
    /\ users[u].status = "ACTIVE" /\ ~users[u].isDeleted

RefreshHolds(r) ==
  LET t == frame[r].token
      u == sessions[frame[r].token].user
  IN
  /\ frame[r].targets = {u}
  /\ users[u].status = "ACTIVE" /\ ~users[u].isDeleted
  /\ NothingAborted /\ pc[r] = "issue" =>
       frame[sessions[t].root].pw = users[u].passwordHash

\* What the request under way has read or checked still holds.
StillHolds(r) ==
  /\ pc[r] \in {"reload", "write"} => EntityHolds(frame[r])
  /\ pc[r] = "write" => \A u \in frame[r].targets : frame[r].base[u] = users[u]
  /\ frame[r].path = "login" => LoginHolds(r)
  /\ frame[r].path = "loginDenied" => pc[r] \in {"reload", "write", "audit"}
  /\ pc[r] \in {"claim", "issue"} /\ frame[r].path = "refresh" => RefreshHolds(r)

\* The account is saved and its sessions are about to be revoked.
Pending(u) == \E r \in Requests : pc[r] = "revokeAll" /\ u \in frame[r].targets

NoUpdate == \A r \in Requests : frame[r].path # "update"

SessionsHold ==
  NothingAborted =>
    \A s \in Issued :
      Live(s) /\ ~Pending(sessions[s].user) =>
        LET row == users[sessions[s].user] IN
        /\ frame[sessions[s].root].pw = row.passwordHash
        /\ NoUpdate => row.status \notin Barred /\ ~row.isDeleted

\* The denied logins whose failure has been saved.
Counted(u) ==
  {r \in Requests : /\ frame[r].path = "loginDenied" /\ u \in frame[r].targets
                    /\ pc[r] \in {"audit", "denied"}}

Uncleared(u) ==
  \A r \in Requests : u \in frame[r].targets => frame[r].path \notin Clearing

CountsHold ==
  \A u \in Users :
    Uncleared(u) =>
      /\ IsFiniteSet(Counted(u))
      /\ Cardinality(Counted(u)) <= users[u].failedLoginAttempts
      /\ users[u].failedLoginAttempts >= MaxFailedAttempts =>
           users[u].accountLockedUntil > 0

\* What IInv needs beside it as long as requests stay apart.
ApartIInv ==
  /\ IdleFrames /\ RootsDone
  /\ \A r \in InFlight : StillHolds(r)
  /\ SessionsHold
  /\ CountsHold
=============================================================================
