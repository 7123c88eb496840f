------------------------- MODULE AuthSessionsProofs -------------------------
(***************************************************************************)
(* Theorems about AuthSessions, for every set of accounts, requests and    *)
(* passwords and every value of the bounds.                                *)
(*                                                                         *)
(* Every call begins in the same way: an idle request gets a frame and its *)
(* next statement, and nothing else changes.  The lemmas of the first part *)
(* say that once, so that the invariance proofs have one case for all the  *)
(* handlers and one for each statement.                                    *)
(***************************************************************************)
EXTENDS AuthSessions, TLAPS

-----------------------------------------------------------------------------
(* The rows the handlers compute *)

\* What a handler puts into an account row is an account row.
LEMMA RowTypes ==
  ASSUME NEW row \in AccountRow, now \in Nat
  PROVE  /\ FailedAttempt(row) \in AccountRow
         /\ ClearedLock(row) \in AccountRow
         /\ \A st \in Statuses : WithStatus(row, st) \in AccountRow
         /\ \A st \in Statuses : [row EXCEPT !.status = st] \in AccountRow
         /\ \A q \in Passwords : [row EXCEPT !.passwordHash = q] \in AccountRow
         /\ [row EXCEPT !.isDeleted = TRUE] \in AccountRow
<1>1. FailedAttempt(row) \in AccountRow
  <2> DEFINE n == row.failedLoginAttempts + 1
             until == IF n >= MaxFailedAttempts
                      THEN now + LockoutDuration ELSE row.accountLockedUntil
  <2>1. n \in Nat
    BY DEF AccountRow
  <2>2. until \in Nat
    BY BoundsAssumption DEF AccountRow
  <2> HIDE DEF n, until
  <2>3. [row EXCEPT !.failedLoginAttempts = n, !.accountLockedUntil = until]
          \in AccountRow
    BY <2>1, <2>2 DEF AccountRow
  <2>4. QED
    BY <2>3 DEF FailedAttempt, n, until
<1>2. \A x \in AccountRow : ClearedLock(x) \in AccountRow
  BY DEF ClearedLock, AccountRow
<1>3. \A st \in Statuses : [row EXCEPT !.status = st] \in AccountRow
  BY DEF AccountRow
<1>4. \A st \in Statuses : WithStatus(row, st) \in AccountRow
  BY <1>2, <1>3 DEF WithStatus
<1>5. \A q \in Passwords : [row EXCEPT !.passwordHash = q] \in AccountRow
  BY DEF AccountRow
<1>6. [row EXCEPT !.isDeleted = TRUE] \in AccountRow
  BY DEF AccountRow
<1>7. QED
  BY <1>1, <1>2, <1>3, <1>4, <1>5, <1>6

\* So is what save leaves in the table, whatever mixture of the three it is.
LEMMA MergeType ==
  ASSUME NEW row \in AccountRow, NEW base \in AccountRow, NEW ent \in AccountRow
  PROVE  Merge(row, base, ent) \in AccountRow
BY DEF Merge, AccountRow

\* The fields of a call, and its type.
LEMMA CallType ==
  ASSUME NEW path \in Paths, NEW targets \in SUBSET Users,
         NEW token \in Requests \cup {None}, NEW pw \in Passwords \cup {None},
         NEW revokes \in BOOLEAN,
         NEW ent \in [Users -> AccountRow \cup {None}]
  PROVE  Call(path, targets, token, pw, revokes, ent) \in Frame
BY DEF Call, Frame, NoEntities

LEMMA EntityTypes ==
  /\ NoEntities \in [Users -> AccountRow \cup {None}]
  /\ \A u \in Users, row \in AccountRow :
       /\ One(u, row) \in [Users -> AccountRow \cup {None}]
       /\ One(u, row)[u] = row
BY DEF NoEntities, One

LEMMA NoCallType == NoCall \in Frame
BY CallType, EntityTypes DEF NoCall, Paths

\* A row is not the absent row.
LEMMA SessionRowIsRow == NoSession \notin SessionRow
BY SentinelAssumption DEF NoSession, SessionRow

-----------------------------------------------------------------------------
(* How calls begin *)

Opening == {"reload", "audit", "claim", "revokeOne", "revokeAll", "refused"}

\* What the first statement of a handler leaves in the frame it starts.
WellFormed(st, c) ==
  /\ c \in Frame
  /\ st \in Opening
  /\ st = "reload" => \A u \in c.targets : c.ent[u] \in AccountRow
  /\ st = "claim" => c.path = "refresh"
  /\ st = "revokeOne" => c.token \in Issued
  /\ c.path \in {"login", "refresh"} => \E u \in Users : c.targets = {u}
  /\ c.path = "refresh" => c.token \in Issued

\* A step that begins request r.
Begins(r) ==
  /\ pc[r] = "idle"
  /\ \E st \in Opening, c \in Frame :
       /\ WellFormed(st, c)
       /\ pc' = [pc EXCEPT ![r] = st]
       /\ frame' = [frame EXCEPT ![r] = c]
  /\ UNCHANGED <<users, sessions, audit, now>>

LEMMA BeginBegins ==
  ASSUME NEW r \in Requests, NEW h, NEW st, NEW c,
         WellFormed(st, c), Begin(r, h, st, c)
  PROVE  Begins(r)
BY DEF Begin, Begins, WellFormed

\* A call that starts with no entity.
LEMMA PlainCall ==
  ASSUME NEW st \in Opening \ {"reload"}, NEW path \in Paths,
         NEW targets \in SUBSET Users, NEW token \in Requests \cup {None},
         NEW revokes \in BOOLEAN,
         st = "claim" => path = "refresh",
         st = "revokeOne" => token \in Issued,
         path # "login",
         path = "refresh" => token \in Issued /\ \E u \in Users : targets = {u}
  PROVE  WellFormed(st, Call(path, targets, token, None, revokes, NoEntities))
<1> DEFINE c == Call(path, targets, token, None, revokes, NoEntities)
<1>1. c \in Frame
  BY CallType, EntityTypes
<1>2. c.path = path /\ c.targets = targets /\ c.token = token
  BY DEF Call
<1> HIDE DEF c
<1>3. WellFormed(st, c)
  BY <1>1, <1>2 DEF WellFormed
<1>4. QED
  BY <1>3 DEF c

LEMMA RefusedCall == WellFormed("refused", NoCall)
<1>1. "none" \in Paths /\ "refused" \in Opening \ {"reload"}
  BY DEF Paths, Opening
<1>2. QED
  BY <1>1, PlainCall DEF NoCall

\* A call that starts with one account loaded and one row to save.
LEMMA SavingCall ==
  ASSUME NEW path \in Paths \ {"refresh"}, NEW u \in Users,
         NEW token \in Requests \cup {None}, NEW pw \in Passwords \cup {None},
         NEW revokes \in BOOLEAN, NEW row \in AccountRow
  PROVE  WellFormed("reload", Call(path, {u}, token, pw, revokes, One(u, row)))
<1> DEFINE c == Call(path, {u}, token, pw, revokes, One(u, row))
<1>1. c \in Frame
  BY CallType, EntityTypes
<1>2. c.path = path /\ c.targets = {u} /\ c.ent = One(u, row)
  BY DEF Call
<1>3. c.ent[u] \in AccountRow
  BY <1>2, EntityTypes
<1> HIDE DEF c
<1>4. WellFormed("reload", c)
  BY <1>1, <1>2, <1>3 DEF WellFormed, Opening
<1>5. QED
  BY <1>4 DEF c

LEMMA RevokesType ==
  \A path, status : RevokesAfterSave(path, status) \in BOOLEAN
BY DEF RevokesAfterSave

\* An issued session is a row, and belongs to an account.
LEMMA IssuedRow ==
  ASSUME TypeOK, NEW s \in Issued
  PROVE  /\ s \in Requests
         /\ sessions[s] \in SessionRow
         /\ sessions[s].user \in Users
         /\ sessions[s].root \in Requests
<1>1. s \in Requests /\ sessions[s] \in SessionRow
  BY DEF Issued, TypeOK
<1>2. QED
  BY <1>1 DEF SessionRow

-----------------------------------------------------------------------------
(* Each group of handlers *)

LEMMA PublicCallBegins ==
  ASSUME TypeOK, NEW r \in Requests, PublicCall(r)
  PROVE  Begins(r)
<1>0. \A u \in Users : users[u] \in AccountRow
  BY DEF TypeOK
<1>n. now \in Nat
  BY DEF TypeOK
<1>1. ASSUME NEW u \in Users, LoginUnknown(r, u)
      PROVE  Begins(r)
  <2>1. WellFormed("audit",
          Call("loginUnknown", {}, None, None, FALSE, NoEntities))
    BY PlainCall DEF Paths, Opening
  <2>2. QED
    BY <1>1, <2>1, BeginBegins DEF LoginUnknown
<1>2. ASSUME NEW u \in Users, LoginLocked(r, u)
      PROVE  Begins(r)
  <2>1. WellFormed("audit",
          Call("loginLocked", {u}, None, None, FALSE, NoEntities))
    BY PlainCall DEF Paths, Opening
  <2>2. QED
    BY <1>2, <2>1, BeginBegins DEF LoginLocked
<1>3. ASSUME NEW u \in Users, NEW p \in Passwords, LoginDenied(r, u, p)
      PROVE  Begins(r)
  <2>1. FailedAttempt(users[u]) \in AccountRow
    BY <1>0, <1>n, RowTypes
  <2>2. WellFormed("reload", Call("loginDenied", {u}, None, p, FALSE,
                                  One(u, FailedAttempt(users[u]))))
    BY <2>1, SavingCall DEF Paths
  <2>3. QED
    BY <1>3, <2>2, BeginBegins DEF LoginDenied
<1>4. ASSUME NEW u \in Users, NEW p \in Passwords, LoginPermitted(r, u, p)
      PROVE  Begins(r)
  <2>1. ClearedLock(users[u]) \in AccountRow
    BY <1>0, <1>n, RowTypes
  <2>2. WellFormed("reload", Call("login", {u}, None, p, FALSE,
                                  One(u, ClearedLock(users[u]))))
    BY <2>1, SavingCall DEF Paths, AllHandlers
  <2>3. QED
    BY <1>4, <2>2, BeginBegins DEF LoginPermitted
<1>5. ASSUME NEW s \in Requests, RefreshRead(r, s)
      PROVE  Begins(r)
  <2>1. s \in Issued /\ sessions[s].user \in Users
    BY <1>5, IssuedRow DEF RefreshRead
  <2>2. WellFormed("claim", Call("refresh", {sessions[s].user}, s, None, FALSE,
                                 NoEntities))
    BY <2>1, PlainCall DEF Paths, AllHandlers, Opening
  <2>3. QED
    BY <1>5, <2>2, BeginBegins DEF RefreshRead
<1>6. ASSUME NEW s \in Requests, RefreshRefused(r, s) \/ LogoutIgnored(r, s)
      PROVE  Begins(r)
  BY <1>6, RefusedCall, BeginBegins DEF RefreshRefused, LogoutIgnored
<1>7. ASSUME NEW s \in Requests, LogoutRead(r, s)
      PROVE  Begins(r)
  <2>1. s \in Issued /\ sessions[s].user \in Users
    BY <1>7, IssuedRow DEF LogoutRead
  <2>2. WellFormed("revokeOne", Call("logout", {sessions[s].user}, s, None,
                                     FALSE, NoEntities))
    BY <2>1, PlainCall DEF Paths, AllHandlers, Opening
  <2>3. QED
    BY <1>7, <2>2, BeginBegins DEF LogoutRead
<1>8. QED
  BY <1>1, <1>2, <1>3, <1>4, <1>5, <1>6, <1>7 DEF PublicCall

LEMMA PasswordCallBegins ==
  ASSUME TypeOK, NEW r \in Requests, PasswordCall(r)
  PROVE  Begins(r)
<1>1. PICK s \in Requests :
        \/ ChangePasswordRefused(r, s)
        \/ \E p \in Passwords : ChangePasswordDenied(r, s, p)
        \/ \E p, q \in Passwords : ChangePassword(r, s, p, q)
  BY DEF PasswordCall
<1>2. s \in Issued /\ sessions[s].user \in Users
  BY <1>1, IssuedRow
     DEF ChangePasswordRefused, ChangePasswordDenied, ChangePassword
<1>3. CASE ChangePasswordRefused(r, s)
  BY <1>3, RefusedCall, BeginBegins DEF ChangePasswordRefused
<1>4. ASSUME NEW p \in Passwords, ChangePasswordDenied(r, s, p)
      PROVE  Begins(r)
  <2>1. WellFormed("audit", Call("changePasswordDenied", {sessions[s].user}, s,
                                 None, FALSE, NoEntities))
    BY <1>2, PlainCall DEF Paths, Opening
  <2>2. QED
    BY <1>4, <2>1, BeginBegins DEF ChangePasswordDenied
<1>5. ASSUME NEW p \in Passwords, NEW q \in Passwords,
             ChangePassword(r, s, p, q)
      PROVE  Begins(r)
  <2> DEFINE u == sessions[s].user
             row == [users[u] EXCEPT !.passwordHash = q]
             rev == RevokesAfterSave("changePassword", users[u].status)
  <2>1. row \in AccountRow /\ rev \in BOOLEAN
    BY <1>2, RowTypes, RevokesType DEF TypeOK
  <2>2. u \in Users
    BY <1>2
  <2>3. \/ Begin(r, "changePassword", "refused", NoCall)
        \/ Begin(r, "changePassword", "reload",
                 Call("changePassword", {u}, s, None, rev, One(u, row)))
    BY <1>5 DEF ChangePassword
  <2> HIDE DEF u, row, rev
  <2>4. WellFormed("reload",
          Call("changePassword", {u}, s, None, rev, One(u, row)))
    BY <2>1, <2>2, SavingCall DEF Paths, AllHandlers
  <2>5. QED
    BY <2>3, <2>4, RefusedCall, BeginBegins
<1>6. QED
  BY <1>1, <1>3, <1>4, <1>5

LEMMA AdminSaveBegins ==
  ASSUME NEW r \in Requests, NEW h \in AllHandlers \ {"refresh"},
         NEW u \in Users, NEW status, NEW row \in AccountRow,
         AdminSave(r, h, u, status, row)
  PROVE  Begins(r)
<1> DEFINE rev == RevokesAfterSave(h, status)
<1>1. rev \in BOOLEAN /\ h \in Paths \ {"refresh"}
  BY RevokesType DEF Paths
<1>2. Begin(r, h, "reload", Call(h, {u}, None, None, rev, One(u, row)))
  BY DEF AdminSave
<1> HIDE DEF rev
<1>3. WellFormed("reload", Call(h, {u}, None, None, rev, One(u, row)))
  BY <1>1, SavingCall
<1>4. QED
  BY <1>2, <1>3, BeginBegins

LEMMA BulkBegins ==
  ASSUME TypeOK, NEW r \in Requests, NEW ids \in SUBSET Users \ {{}},
         BulkUpdateStatus(r, ids)
  PROVE  Begins(r)
<1> DEFINE found == {u \in ids : ~users[u].isDeleted}
           ent(status) == [u \in Users |-> IF u \in found
                                           THEN WithStatus(users[u], status)
                                           ELSE None]
           rev(status) == RevokesAfterSave("bulkUpdateStatus", status)
           c(status) == Call("bulkUpdateStatus", found, None, None, rev(status),
                             ent(status))
<1>1. PICK status \in StatusChoices :
        \/ Begin(r, "bulkUpdateStatus", "refused", NoCall)
        \/ Begin(r, "bulkUpdateStatus", "reload", c(status))
  BY DEF BulkUpdateStatus
<1>2. status \in Statuses
  BY BoundsAssumption
<1>3. \A u \in Users : WithStatus(users[u], status) \in AccountRow
  BY <1>2, RowTypes DEF TypeOK
<1>4. /\ ent(status) \in [Users -> AccountRow \cup {None}]
      /\ \A u \in found : ent(status)[u] \in AccountRow
  BY <1>3
<1>5. rev(status) \in BOOLEAN /\ found \in SUBSET Users
  BY RevokesType
<1>6. c(status) \in Frame
  BY <1>4, <1>5, CallType DEF Paths, AllHandlers
<1>7. /\ c(status).path = "bulkUpdateStatus"
      /\ c(status).targets = found
      /\ c(status).ent = ent(status)
  BY DEF Call
<1> HIDE DEF c, ent, rev, found
<1>8. WellFormed("reload", c(status))
  BY <1>4, <1>6, <1>7 DEF WellFormed, Opening
<1>9. QED
  BY <1>1, <1>8, RefusedCall, BeginBegins

LEMMA AdminCallBegins ==
  ASSUME TypeOK, NEW r \in Requests, AdminCall(r)
  PROVE  Begins(r)
<1>0. \A u \in Users : users[u] \in AccountRow /\ users[u].status \in Statuses
  BY DEF TypeOK, AccountRow
<1>n. now \in Nat
  BY DEF TypeOK
<1>1. ASSUME NEW u \in Users, NEW h \in AllHandlers, FindUserFails(r, h, u)
      PROVE  Begins(r)
  BY <1>1, RefusedCall, BeginBegins DEF FindUserFails
<1>2. ASSUME NEW u \in Users, Update(r, u)
      PROVE  Begins(r)
  <2>1. PICK status \in StatusChoices \cup {users[u].status} :
          AdminSave(r, "update", u, status, [users[u] EXCEPT !.status = status])
    BY <1>2 DEF Update
  <2>2. status \in Statuses
    BY <1>0, BoundsAssumption
  <2>3. [users[u] EXCEPT !.status = status] \in AccountRow
    BY <1>0, <1>n, <2>2, RowTypes
  <2>4. QED
    BY <2>1, <2>3, AdminSaveBegins DEF AllHandlers
<1>3. ASSUME NEW u \in Users, UpdateStatus(r, u)
      PROVE  Begins(r)
  <2>1. PICK status \in StatusChoices :
          AdminSave(r, "updateStatus", u, status, WithStatus(users[u], status))
    BY <1>3 DEF UpdateStatus
  <2>2. WithStatus(users[u], status) \in AccountRow
    BY <1>0, <1>n, RowTypes, BoundsAssumption
  <2>3. QED
    BY <2>1, <2>2, AdminSaveBegins DEF AllHandlers
<1>4. ASSUME NEW ids \in SUBSET Users \ {{}}, BulkUpdateStatus(r, ids)
      PROVE  Begins(r)
  BY <1>4, BulkBegins
<1>5. ASSUME NEW u \in Users, ResetPassword(r, u)
      PROVE  Begins(r)
  <2>1. PICK q \in Passwords :
          AdminSave(r, "resetPassword", u, users[u].status,
                    [users[u] EXCEPT !.passwordHash = q])
    BY <1>5 DEF ResetPassword
  <2>2. [users[u] EXCEPT !.passwordHash = q] \in AccountRow
    BY <1>0, <1>n, RowTypes
  <2>3. QED
    BY <2>1, <2>2, AdminSaveBegins DEF AllHandlers
<1>6. ASSUME NEW u \in Users, Delete(r, u)
      PROVE  Begins(r)
  <2>1. [users[u] EXCEPT !.isDeleted = TRUE] \in AccountRow
    BY <1>0, <1>n, RowTypes
  <2>2. QED
    BY <1>6, <2>1, AdminSaveBegins DEF AllHandlers, Delete
<1>7. ASSUME NEW s \in Requests, TerminateSession(r, s)
      PROVE  Begins(r)
  <2>1. s \in Issued /\ sessions[s].user \in Users
    BY <1>7, IssuedRow DEF TerminateSession
  <2>2. WellFormed("revokeOne", Call("terminateSession", {sessions[s].user}, s,
                                     None, FALSE, NoEntities))
    BY <2>1, PlainCall DEF Paths, AllHandlers, Opening
  <2>3. QED
    BY <1>7, <2>2, RefusedCall, BeginBegins DEF TerminateSession
<1>8. ASSUME NEW u \in Users, TerminateAllSessions(r, u)
      PROVE  Begins(r)
  <2>1. WellFormed("revokeAll", Call("terminateAllSessions", {u}, None, None,
                                     TRUE, NoEntities))
    BY PlainCall DEF Paths, AllHandlers, Opening
  <2>2. QED
    BY <1>8, <2>1, BeginBegins DEF TerminateAllSessions
<1>9. QED
  BY <1>1, <1>2, <1>3, <1>4, <1>5, <1>6, <1>7, <1>8 DEF AdminCall

\* The steps of the specification, as the proofs below go through them.
LEMMA NextCases ==
  ASSUME TypeOK, [Next]_vars
  PROVE  \/ \E r \in Requests : \/ Begins(r)
                                 \/ Reload(r) \/ Write(r)
                                 \/ ClaimWon(r) \/ ClaimLost(r)
                                 \/ RevokeOne(r) \/ RevokeAll(r)
                                 \/ Audit(r) \/ Issue(r) \/ Abort(r)
         \/ Tick
         \/ UNCHANGED vars
BY PublicCallBegins, PasswordCallBegins, AdminCallBegins DEF Next, Step

-----------------------------------------------------------------------------
(* Types and frames *)

\* Request x is not concerned by a step that leaves its own variables alone
\* and only adds sessions.
LEMMA OtherFrames ==
  ASSUME NEW x \in Requests, FrameFits(x),
         pc'[x] = pc[x], frame'[x] = frame[x], audit'[x] = audit[x],
         Issued \subseteq Issued',
         x \in Issued' => x \in Issued /\ sessions'[x].user = sessions[x].user
  PROVE  FrameFits(x)'
BY DEF FrameFits

\* A revocation keeps everything of a session but its two flags.
LEMMA RevokedRow ==
  ASSUME NEW row \in SessionRow
  PROVE  /\ Revoked(row) \in SessionRow
         /\ Revoked(row).user = row.user /\ Revoked(row).root = row.root
         /\ Revoked(row).isRevoked /\ ~Revoked(row).isActive
BY DEF SessionRow, Revoked

\* What revoking a set of sessions does to the table.
LEMMA RevokingSessions ==
  ASSUME TypeOK, NEW S \in SUBSET Issued,
         sessions' = [s \in Requests |-> IF s \in S THEN Revoked(sessions[s])
                                                   ELSE sessions[s]]
  PROVE  /\ sessions' \in [Requests -> SessionRow \cup {NoSession}]
         /\ \A s \in Requests : sessions'[s].isActive = ~sessions'[s].isRevoked
         /\ Issued' = Issued
         /\ \A s \in Issued : /\ sessions'[s].user = sessions[s].user
                              /\ sessions'[s].root = sessions[s].root
                              /\ sessions[s].isRevoked => sessions'[s].isRevoked
                              /\ s \in S => sessions'[s].isRevoked
                              /\ s \notin S => sessions'[s] = sessions[s]
<1>1. \A s \in Requests : sessions[s] \in SessionRow \cup {NoSession}
  BY DEF TypeOK
<1>2. \A s \in Requests :
        sessions'[s] = IF s \in S THEN Revoked(sessions[s]) ELSE sessions[s]
  OBVIOUS
<1>3. \A s \in Requests : /\ sessions'[s] \in SessionRow \cup {NoSession}
                          /\ sessions'[s].isActive = ~sessions'[s].isRevoked
                          /\ (sessions'[s] = NoSession) = (sessions[s] = NoSession)
  <2> SUFFICES ASSUME NEW s \in Requests
               PROVE  /\ sessions'[s] \in SessionRow \cup {NoSession}
                      /\ sessions'[s].isActive = ~sessions'[s].isRevoked
                      /\ (sessions'[s] = NoSession) = (sessions[s] = NoSession)
    OBVIOUS
  <2>1. CASE s \notin S
    BY <1>1, <1>2, <2>1 DEF TypeOK
  <2>2. CASE s \in S
    <3>1. sessions[s] \in SessionRow
      BY <2>2, IssuedRow
    <3>2. /\ sessions'[s] \in SessionRow
          /\ sessions'[s].isRevoked /\ ~sessions'[s].isActive
      BY <1>2, <2>2, <3>1, RevokedRow
    <3>3. sessions'[s] # NoSession /\ sessions[s] # NoSession
      BY <3>1, <3>2, SessionRowIsRow
    <3>4. sessions'[s].isActive \in BOOLEAN /\ sessions'[s].isRevoked \in BOOLEAN
      BY <3>2 DEF SessionRow
    <3>5. QED
      BY <3>2, <3>3, <3>4
  <2>3. QED
    BY <2>1, <2>2
<1>4. Issued' = Issued
  BY <1>3 DEF Issued
<1>5. \A s \in Issued : /\ sessions'[s].user = sessions[s].user
                        /\ sessions'[s].root = sessions[s].root
                        /\ sessions[s].isRevoked => sessions'[s].isRevoked
                        /\ s \in S => sessions'[s].isRevoked
                        /\ s \notin S => sessions'[s] = sessions[s]
  BY <1>2, IssuedRow, RevokedRow
<1>6. sessions' \in [Requests -> SessionRow \cup {NoSession}]
  BY <1>3
<1>7. QED
  BY <1>3, <1>4, <1>5, <1>6

Shape == TypeOK /\ FramesFit

\* A step of request r keeps the shape of everything when it keeps the types of
\* the tables, lets the variables of the other requests alone, and leaves r a
\* frame that fits its next statement.
LEMMA StepShape ==
  ASSUME Shape, NEW r \in Requests,
         NEW st \in Statements \cup Outcomes, NEW f \in Frame,
         pc' = [pc EXCEPT ![r] = st], frame' = [frame EXCEPT ![r] = f],
         now' = now,
         users' \in [Users -> AccountRow],
         sessions' \in [Requests -> SessionRow \cup {NoSession}],
         \A s \in Requests : sessions'[s].isActive = ~sessions'[s].isRevoked,
         audit' \in [Requests -> SUBSET (Users \cup {None})],
         \A x \in Requests \ {r} : audit'[x] = audit[x],
         Issued \subseteq Issued',
         \A x \in Requests \ {r} : x \in Issued' =>
           x \in Issued /\ sessions'[x].user = sessions[x].user,
         pc'[r] = st /\ frame'[r] = f => FrameFits(r)'
  PROVE  Shape'
<1>0. TypeOK /\ FramesFit
  BY DEF Shape
<1>1. TypeOK'
  BY <1>0 DEF TypeOK
<1>2. FrameFits(r)'
  BY <1>0 DEF TypeOK
<1>3. ASSUME NEW x \in Requests, x # r
      PROVE  FrameFits(x)'
  <2>1. FrameFits(x)
    BY <1>0 DEF FramesFit
  <2>2. pc'[x] = pc[x] /\ frame'[x] = frame[x] /\ audit'[x] = audit[x]
    BY <1>0, <1>3 DEF TypeOK
  <2>3. x \in Issued' => x \in Issued /\ sessions'[x].user = sessions[x].user
    BY <1>3
  <2>4. QED
    BY <2>1, <2>2, <2>3, OtherFrames
<1>4. FramesFit'
  BY <1>2, <1>3 DEF FramesFit
<1>5. QED
  BY <1>1, <1>4 DEF Shape

\* A step that leaves the sessions and the audit log alone.
LEMMA QuietStepShape ==
  ASSUME Shape, NEW r \in Requests,
         NEW st \in Statements \cup Outcomes, NEW f \in Frame,
         pc' = [pc EXCEPT ![r] = st], frame' = [frame EXCEPT ![r] = f],
         users' \in [Users -> AccountRow],
         UNCHANGED <<sessions, audit, now>>,
         pc'[r] = st /\ frame'[r] = f /\ Issued' = Issued => FrameFits(r)'
  PROVE  Shape'
<1>1. /\ sessions' \in [Requests -> SessionRow \cup {NoSession}]
      /\ \A s \in Requests : sessions'[s].isActive = ~sessions'[s].isRevoked
      /\ audit' \in [Requests -> SUBSET (Users \cup {None})]
  BY DEF Shape, TypeOK
<1>2. Issued' = Issued
  BY DEF Issued
<1>3. QED
  BY <1>1, <1>2, StepShape

\* Writing its own frame back changes nothing.
LEMMA SameFrame ==
  ASSUME Shape, NEW r \in Requests
  PROVE  /\ frame = [frame EXCEPT ![r] = frame[r]]
         /\ frame[r] \in Frame
         /\ FrameFits(r)
BY DEF Shape, TypeOK, FramesFit

LEMMA BeginsShape ==
  ASSUME Shape, NEW r \in Requests, Begins(r)
  PROVE  Shape'
<1>1. PICK st \in Opening, c \in Frame :
        /\ WellFormed(st, c)
        /\ pc' = [pc EXCEPT ![r] = st]
        /\ frame' = [frame EXCEPT ![r] = c]
  BY DEF Begins
<1>2. pc[r] = "idle" /\ UNCHANGED <<users, sessions, audit, now>>
  BY DEF Begins
<1>3. st \in Statements \cup Outcomes
  BY DEF Opening, Statements, Outcomes
<1>4. users' \in [Users -> AccountRow]
  BY <1>2 DEF Shape, TypeOK
<1>5. r \notin Issued
  BY <1>2, SameFrame DEF FrameFits
<1>6. ASSUME pc'[r] = st, frame'[r] = c, Issued' = Issued
      PROVE  FrameFits(r)'
  BY <1>1, <1>5, <1>6 DEF FrameFits, WellFormed, Opening
<1>7. QED
  BY <1>1, <1>2, <1>3, <1>4, <1>6, QuietStepShape

LEMMA ReloadShape ==
  ASSUME Shape, NEW r \in Requests, Reload(r)
  PROVE  Shape'
<1> DEFINE b == [u \in Users |-> IF u \in frame[r].targets
                                 THEN users[u] ELSE None]
           f == [frame[r] EXCEPT !.base = b]
<1>1. /\ pc[r] = "reload"
      /\ pc' = [pc EXCEPT ![r] = "write"]
      /\ frame' = [frame EXCEPT ![r] = f]
      /\ UNCHANGED <<users, sessions, audit, now>>
  BY DEF Reload
<1>2. \A u \in Users : users[u] \in AccountRow
  BY DEF Shape, TypeOK
<1>3. /\ b \in [Users -> AccountRow \cup {None}]
      /\ \A u \in frame[r].targets : b[u] \in AccountRow
  BY <1>2, SameFrame DEF Frame
<1> HIDE DEF b
<1>4. /\ f \in Frame /\ f.base = b /\ f.ent = frame[r].ent
      /\ f.targets = frame[r].targets /\ f.path = frame[r].path
      /\ f.token = frame[r].token
  BY <1>3, SameFrame DEF Frame
<1> HIDE DEF f
<1>5. ASSUME pc'[r] = "write", frame'[r] = f, Issued' = Issued
      PROVE  FrameFits(r)'
  BY <1>1, <1>3, <1>4, <1>5, SameFrame DEF FrameFits
<1>6. users' \in [Users -> AccountRow] /\ "write" \in Statements
  BY <1>1 DEF Shape, TypeOK, Statements
<1>7. QED
  BY <1>1, <1>4, <1>5, <1>6, QuietStepShape

\* A frame stripped of its entities still fits the statements after a save.
LEMMA StrippedFrame ==
  ASSUME NEW g \in Frame
  PROVE  LET f == [g EXCEPT !.ent = NoEntities, !.base = NoEntities]
         IN  /\ f \in Frame /\ f.targets = g.targets /\ f.path = g.path
             /\ f.token = g.token /\ f.revokes = g.revokes
BY EntityTypes DEF Frame

LEMMA WriteShape ==
  ASSUME Shape, NEW r \in Requests, Write(r)
  PROVE  Shape'
<1> DEFINE f == [frame[r] EXCEPT !.ent = NoEntities, !.base = NoEntities]
           st == AfterWrite(r)
<1>1. /\ pc[r] = "write"
      /\ pc' = [pc EXCEPT ![r] = st]
      /\ frame' = [frame EXCEPT ![r] = f]
      /\ UNCHANGED <<sessions, audit, now>>
  <2>1. frame' = [frame EXCEPT ![r].ent = NoEntities, ![r].base = NoEntities]
    BY DEF Write
  <2>2. frame' = [frame EXCEPT ![r] = f]
    BY <2>1 DEF Shape, TypeOK
  <2>3. QED
    BY <2>2 DEF Write
<1>2. st \in {"revokeAll", "audit"}
  BY DEF AfterWrite
<1>3. /\ f \in Frame /\ f.targets = frame[r].targets /\ f.path = frame[r].path
      /\ f.token = frame[r].token
  BY SameFrame, StrippedFrame
<1> HIDE DEF f, st
<1>4. users' \in [Users -> AccountRow]
  <2>1. users' = [u \in Users |->
                    IF u \in frame[r].targets
                    THEN Merge(users[u], frame[r].base[u], frame[r].ent[u])
                    ELSE users[u]]
    BY DEF Write
  <2>2. \A u \in frame[r].targets : /\ frame[r].ent[u] \in AccountRow
                                    /\ frame[r].base[u] \in AccountRow
    BY <1>1, SameFrame DEF FrameFits
  <2>3. \A u \in Users : users[u] \in AccountRow
    BY DEF Shape, TypeOK
  <2>4. QED
    BY <2>1, <2>2, <2>3, MergeType
<1>5. ASSUME pc'[r] = st, frame'[r] = f, Issued' = Issued
      PROVE  FrameFits(r)'
  BY <1>1, <1>2, <1>3, <1>5, SameFrame DEF FrameFits
<1>6. st \in Statements
  BY <1>2 DEF Statements
<1>7. QED
  BY <1>1, <1>3, <1>4, <1>5, <1>6, QuietStepShape

LEMMA ClaimLostShape ==
  ASSUME Shape, NEW r \in Requests, ClaimLost(r)
  PROVE  Shape'
<1>1. /\ pc[r] = "claim"
      /\ pc' = [pc EXCEPT ![r] = "refused"]
      /\ frame' = [frame EXCEPT ![r] = NoCall]
      /\ UNCHANGED <<users, sessions, audit, now>>
  BY DEF ClaimLost
<1>2. users' \in [Users -> AccountRow] /\ "refused" \in Outcomes
  BY <1>1 DEF Shape, TypeOK, Outcomes
<1>3. ASSUME pc'[r] = "refused", frame'[r] = NoCall, Issued' = Issued
      PROVE  FrameFits(r)'
  BY <1>1, <1>3, SameFrame DEF FrameFits, NoCall, Call
<1>4. QED
  BY <1>1, <1>2, <1>3, NoCallType, QuietStepShape

LEMMA AbortShape ==
  ASSUME Shape, NEW r \in Requests, Abort(r)
  PROVE  Shape'
<1> DEFINE f == [frame[r] EXCEPT !.ent = NoEntities, !.base = NoEntities]
<1>1. /\ pc[r] \in Statements
      /\ pc' = [pc EXCEPT ![r] = "aborted"]
      /\ frame' = [frame EXCEPT ![r] = f]
      /\ UNCHANGED <<users, sessions, audit, now>>
  <2>1. frame' = [frame EXCEPT ![r].ent = NoEntities, ![r].base = NoEntities]
    BY DEF Abort
  <2>2. frame' = [frame EXCEPT ![r] = f]
    BY <2>1 DEF Shape, TypeOK
  <2>3. QED
    BY <2>2 DEF Abort
<1>2. /\ f \in Frame /\ f.targets = frame[r].targets /\ f.path = frame[r].path
      /\ f.token = frame[r].token
  BY SameFrame, StrippedFrame
<1> HIDE DEF f
<1>3. users' \in [Users -> AccountRow] /\ "aborted" \in Outcomes
  BY <1>1 DEF Shape, TypeOK, Outcomes
<1>4. ASSUME pc'[r] = "aborted", frame'[r] = f, Issued' = Issued
      PROVE  FrameFits(r)'
  BY <1>1, <1>2, <1>4, SameFrame DEF FrameFits, Statements
<1>5. QED
  BY <1>1, <1>2, <1>3, <1>4, QuietStepShape

\* A step that revokes the sessions S and moves request r to its statement st.
Revoking(r, S, st) ==
  /\ sessions' = [s \in Requests |-> IF s \in S THEN Revoked(sessions[s])
                                                ELSE sessions[s]]
  /\ pc' = [pc EXCEPT ![r] = st]
  /\ UNCHANGED <<users, audit, now, frame>>

LEMMA RevokingShape ==
  ASSUME Shape, NEW r \in Requests, NEW S \in SUBSET Issued,
         NEW st \in {"issue", "audit"}, Revoking(r, S, st),
         pc[r] \in Statements, pc[r] # "issue",
         st = "issue" => frame[r].path = "refresh"
  PROVE  Shape'
<1>1. /\ sessions' \in [Requests -> SessionRow \cup {NoSession}]
      /\ \A s \in Requests : sessions'[s].isActive = ~sessions'[s].isRevoked
      /\ Issued' = Issued
      /\ \A s \in Issued : sessions'[s].user = sessions[s].user
  BY RevokingSessions DEF Shape, Revoking
<1>2. /\ pc' = [pc EXCEPT ![r] = st] /\ frame' = [frame EXCEPT ![r] = frame[r]]
      /\ users' = users /\ audit' = audit /\ now' = now
  BY SameFrame DEF Revoking
<1>3. /\ users' \in [Users -> AccountRow]
      /\ audit' \in [Requests -> SUBSET (Users \cup {None})]
      /\ st \in Statements
  BY <1>2 DEF Shape, TypeOK, Statements
<1>4. r \notin Issued
  BY SameFrame DEF FrameFits, Statements
<1>5. ASSUME pc'[r] = st, frame'[r] = frame[r]
      PROVE  FrameFits(r)'
  BY <1>1, <1>4, <1>5, SameFrame DEF FrameFits
<1>6. QED
  BY <1>1, <1>2, <1>3, <1>5, SameFrame, StepShape

\* The three statements that revoke.
LEMMA ClaimWonRevokes ==
  ASSUME Shape, NEW r \in Requests, ClaimWon(r)
  PROVE  /\ frame[r].token \in Issued /\ frame[r].path = "refresh"
         /\ Live(frame[r].token) /\ pc[r] = "claim"
         /\ Revoking(r, {frame[r].token}, "issue")
<1>1. pc[r] = "claim" /\ Live(frame[r].token)
  BY DEF ClaimWon, Claimable
<1>2. frame[r].path = "refresh" /\ frame[r].token \in Issued
  BY <1>1, SameFrame DEF FrameFits
<1>3. sessions' = [s \in Requests |-> IF s \in {frame[r].token}
                                      THEN Revoked(sessions[s])
                                      ELSE sessions[s]]
  BY <1>2 DEF ClaimWon, Shape, TypeOK, Issued
<1>4. QED
  BY <1>1, <1>2, <1>3 DEF ClaimWon, Revoking

LEMMA RevokeOneRevokes ==
  ASSUME Shape, NEW r \in Requests, RevokeOne(r)
  PROVE  /\ frame[r].token \in Issued /\ pc[r] = "revokeOne"
         /\ Revoking(r, {frame[r].token}, "audit")
<1>1. pc[r] = "revokeOne" /\ frame[r].token \in Issued
  BY SameFrame DEF RevokeOne, FrameFits
<1>2. sessions' = [s \in Requests |-> IF s \in {frame[r].token}
                                      THEN Revoked(sessions[s])
                                      ELSE sessions[s]]
  BY <1>1 DEF RevokeOne, Shape, TypeOK, Issued
<1>3. QED
  BY <1>1, <1>2 DEF RevokeOne, Revoking

LEMMA RevokeAllRevokes ==
  ASSUME Shape, NEW r \in Requests, RevokeAll(r)
  PROVE  /\ RevocationScope(r) \in SUBSET Issued /\ pc[r] = "revokeAll"
         /\ Revoking(r, RevocationScope(r), "audit")
<1>1. frame[r].targets \subseteq Users
  BY SameFrame DEF Frame
<1>2. RevocationScope(r) \in SUBSET Issued
  BY <1>1, SentinelAssumption DEF RevocationScope, Issued, NoSession
<1>3. QED
  BY <1>2 DEF RevokeAll, Revoking

LEMMA AuditShape ==
  ASSUME Shape, NEW r \in Requests, Audit(r)
  PROVE  Shape'
<1>1. PICK u \in Subjects(r) :
        /\ audit' = [audit EXCEPT ![r] = @ \cup {u}]
        /\ pc' = [pc EXCEPT ![r] = IF audit'[r] = Subjects(r)
                                   THEN AfterAudit(r) ELSE "audit"]
  BY DEF Audit
<1>2. /\ pc[r] = "audit"
      /\ users' = users /\ sessions' = sessions /\ now' = now
      /\ frame' = [frame EXCEPT ![r] = frame[r]]
  BY SameFrame DEF Audit
<1>3. Subjects(r) \subseteq Users \cup {None}
  BY SameFrame DEF Subjects, Frame
<1> DEFINE st == IF audit'[r] = Subjects(r) THEN AfterAudit(r) ELSE "audit"
<1>4. /\ frame[r].path = "login" => AfterAudit(r) = "issue"
      /\ frame[r].path # "login" => AfterAudit(r) \in {"denied", "done"}
  <2>1. CASE frame[r].path = "login"
    BY <2>1 DEF AfterAudit
  <2>2. CASE frame[r].path \in {"loginUnknown", "loginLocked", "loginDenied",
                                "changePasswordDenied"}
    BY <2>2 DEF AfterAudit
  <2>3. CASE frame[r].path \notin {"login", "loginUnknown", "loginLocked",
                                   "loginDenied", "changePasswordDenied"}
    BY <2>3 DEF AfterAudit
  <2>4. QED
    BY <2>1, <2>2, <2>3
<1>5. \/ st = "issue" /\ frame[r].path = "login" /\ audit'[r] = Subjects(r)
      \/ st \in {"denied", "done"} /\ frame[r].path # "login"
      \/ st = "audit"
  BY <1>4
<1>6. pc' = [pc EXCEPT ![r] = st]
  BY <1>1
<1> HIDE DEF st
<1>7. /\ audit' \in [Requests -> SUBSET (Users \cup {None})]
      /\ \A x \in Requests \ {r} : audit'[x] = audit[x]
  BY <1>1, <1>3 DEF Shape, TypeOK
<1>8. Issued' = Issued
  BY <1>2 DEF Issued
<1>9. /\ users' \in [Users -> AccountRow]
      /\ sessions' \in [Requests -> SessionRow \cup {NoSession}]
      /\ \A s \in Requests : sessions'[s].isActive = ~sessions'[s].isRevoked
      /\ st \in Statements \cup Outcomes
  BY <1>2, <1>5 DEF Shape, TypeOK, Statements, Outcomes
<1>10. r \notin Issued
  BY <1>2, SameFrame DEF FrameFits
<1>11. frame[r].path = "login" => Subjects(r) = frame[r].targets
  BY SameFrame DEF FrameFits, Subjects
<1>12. ASSUME pc'[r] = st, frame'[r] = frame[r]
       PROVE  FrameFits(r)'
  BY <1>2, <1>5, <1>8, <1>10, <1>11, <1>12, SameFrame DEF FrameFits
<1>13. QED
  BY <1>2, <1>6, <1>7, <1>8, <1>9, <1>12, SameFrame, StepShape

\* What the insertion of a session does: it is new, live, and continues the
\* chain of the token it was exchanged for, or starts one.
LEMMA IssueInserts ==
  ASSUME Shape, NEW r \in Requests, Issue(r)
  PROVE  /\ pc[r] = "issue" /\ r \notin Issued /\ Issued' = Issued \cup {r}
         /\ pc' = [pc EXCEPT ![r] = "done"]
         /\ UNCHANGED <<users, audit, now, frame>>
         /\ sessions' \in [Requests -> SessionRow \cup {NoSession}]
         /\ \A s \in Requests : s # r => sessions'[s] = sessions[s]
         /\ sessions'[r].user \in frame[r].targets
         /\ sessions'[r].isRevoked = FALSE /\ sessions'[r].isActive = TRUE
         /\ frame[r].path \in {"login", "refresh"}
         /\ frame[r].path = "login" => sessions'[r].root = r
         /\ frame[r].path = "refresh" =>
              /\ frame[r].token \in Issued
              /\ sessions'[r].root = sessions[frame[r].token].root
<1> DEFINE root == IF frame[r].path = "login" THEN r
                   ELSE sessions[frame[r].token].root
<1>1. PICK u \in frame[r].targets :
        sessions' = [sessions EXCEPT ![r] =
          [user |-> u, isRevoked |-> FALSE, isActive |-> TRUE,
           expiresAt |-> now + RefreshTtl, root |-> root]]
  BY DEF Issue
<1>2. /\ pc[r] = "issue" /\ pc' = [pc EXCEPT ![r] = "done"]
      /\ UNCHANGED <<users, audit, now, frame>>
  BY DEF Issue
<1>3. /\ r \notin Issued
      /\ frame[r].path \in {"login", "refresh"}
      /\ frame[r].path = "refresh" => frame[r].token \in Issued
  BY <1>2, SameFrame DEF FrameFits
<1>4. u \in Users
  BY SameFrame DEF Frame
<1>5. root \in Requests
  BY <1>3, IssuedRow DEF Shape
<1>6. /\ frame[r].path = "login" => root = r
      /\ frame[r].path = "refresh" => root = sessions[frame[r].token].root
  OBVIOUS
<1> HIDE DEF root
<1> DEFINE new == [user |-> u, isRevoked |-> FALSE, isActive |-> TRUE,
                   expiresAt |-> now + RefreshTtl, root |-> root]
<1>7. new \in SessionRow
  <2>1. now + RefreshTtl \in Nat
    BY BoundsAssumption DEF Shape, TypeOK
  <2>2. QED
    BY <1>4, <1>5, <2>1 DEF SessionRow
<1>8. sessions' = [sessions EXCEPT ![r] = new]
  BY <1>1
<1>9. /\ new.user = u /\ new.isRevoked = FALSE /\ new.isActive = TRUE
      /\ new.root = root
  OBVIOUS
<1> HIDE DEF new
<1>10. /\ sessions' \in [Requests -> SessionRow \cup {NoSession}]
       /\ sessions'[r] = new
       /\ \A s \in Requests : s # r => sessions'[s] = sessions[s]
  BY <1>7, <1>8 DEF Shape, TypeOK
<1>11. Issued' = Issued \cup {r}
  BY <1>7, <1>10, SessionRowIsRow DEF Issued
<1>12. QED
  BY <1>2, <1>3, <1>6, <1>9, <1>10, <1>11

LEMMA IssueShape ==
  ASSUME Shape, NEW r \in Requests, Issue(r)
  PROVE  Shape'
<1>1. /\ pc' = [pc EXCEPT ![r] = "done"]
      /\ frame' = [frame EXCEPT ![r] = frame[r]]
      /\ users' = users /\ audit' = audit /\ now' = now
  BY IssueInserts, SameFrame
<1>2. \A s \in Requests : sessions'[s].isActive = ~sessions'[s].isRevoked
  <2>1. sessions'[r].isActive = ~sessions'[r].isRevoked
    BY IssueInserts
  <2>2. \A s \in Requests : s # r => sessions'[s] = sessions[s]
    BY IssueInserts
  <2>3. QED
    BY <2>1, <2>2 DEF Shape, TypeOK
<1>3. /\ users' \in [Users -> AccountRow]
      /\ audit' \in [Requests -> SUBSET (Users \cup {None})]
      /\ "done" \in Outcomes
  BY <1>1 DEF Shape, TypeOK, Outcomes
<1>4. ASSUME pc'[r] = "done", frame'[r] = frame[r]
      PROVE  FrameFits(r)'
  <2>1. /\ pc[r] = "issue" /\ audit' = audit /\ Issued' = Issued \cup {r}
        /\ sessions'[r].user \in frame[r].targets
        /\ frame[r].path \in {"login", "refresh"}
        /\ frame[r].path = "refresh" => frame[r].token \in Issued
    BY IssueInserts
  <2>2. /\ \E u \in Users : frame[r].targets = {u}
        /\ frame[r].path = "login" => audit[r] = frame[r].targets
    BY <2>1, SameFrame DEF FrameFits
  <2>3. QED
    BY <1>4, <2>1, <2>2 DEF FrameFits
<1>5. /\ sessions' \in [Requests -> SessionRow \cup {NoSession}]
      /\ Issued \subseteq Issued'
      /\ \A x \in Requests \ {r} : x \in Issued' =>
           x \in Issued /\ sessions'[x].user = sessions[x].user
      /\ \A x \in Requests \ {r} : audit'[x] = audit[x]
  BY IssueInserts
<1>6. frame[r] \in Frame /\ "done" \in Statements \cup Outcomes
  BY <1>3, SameFrame
<1>7. QED
  BY <1>1, <1>2, <1>3, <1>4, <1>5, <1>6, StepShape

\* Every step keeps the types and the frames.
LEMMA ShapeInvariant ==
  ASSUME Shape, [Next]_vars
  PROVE  Shape'
<1>1. ASSUME NEW r \in Requests, ClaimWon(r)
      PROVE  Shape'
  BY <1>1, ClaimWonRevokes, RevokingShape DEF Statements
<1>2. ASSUME NEW r \in Requests, RevokeOne(r)
      PROVE  Shape'
  BY <1>2, RevokeOneRevokes, RevokingShape DEF Statements
<1>3. ASSUME NEW r \in Requests, RevokeAll(r)
      PROVE  Shape'
  BY <1>3, RevokeAllRevokes, RevokingShape DEF Statements
<1>4. CASE Tick
  <2>1. TypeOK'
    BY <1>4 DEF Tick, Shape, TypeOK
  <2>2. FramesFit'
    BY <1>4 DEF Tick, Shape, FramesFit, FrameFits, Issued
  <2>3. QED
    BY <2>1, <2>2 DEF Shape
<1>5. CASE UNCHANGED vars
  BY <1>5 DEF vars, Shape, TypeOK, FramesFit, FrameFits, Issued
<1>6. QED
  BY <1>1, <1>2, <1>3, <1>4, <1>5, NextCases, BeginsShape, ReloadShape,
     WriteShape, ClaimLostShape, AuditShape, IssueShape, AbortShape DEF Shape

-----------------------------------------------------------------------------
(* Rotation *)

Rotation == TokenRotatesOnce /\ OneHolderPerLogin

\* A request that claimed a token claimed one that was issued, and an issued
\* session's own request has nothing more to do.
LEMMA ClaimedTokens ==
  ASSUME Shape, NEW x \in Requests
  PROVE  /\ HasClaimed(x) => frame[x].token \in Issued
         /\ pc[x] = "issue" /\ frame[x].path = "refresh" =>
              frame[x].token \in Issued
         /\ x \in Issued => pc[x] = "done"
BY SameFrame DEF HasClaimed, FrameFits

\* A step after which no request has claimed or holds anything it did not
\* claim or hold before, and no session is back alive, keeps both facts.
LEMMA NoNewHolders ==
  ASSUME Shape, Rotation,
         \A x \in Requests : HasClaimed(x)' =>
           HasClaimed(x) /\ frame'[x].token = frame[x].token,
         \A s \in Issued : Live(s)' => Live(s),
         \A x, g \in Requests : Holds(x, g)' => Holds(x, g)
  PROVE  Rotation'
<1>1. TokenRotatesOnce'
  <2> SUFFICES ASSUME NEW x \in Requests, NEW y \in Requests, HasClaimed(x)'
               PROVE  /\ ~Live(frame[x].token)'
                      /\ HasClaimed(y)' /\ frame'[x].token = frame'[y].token
                           => x = y
    BY DEF TokenRotatesOnce
  <2>1. HasClaimed(x) /\ frame'[x].token = frame[x].token
    OBVIOUS
  <2>2. HasClaimed(y)' => HasClaimed(y) /\ frame'[y].token = frame[y].token
    OBVIOUS
  <2>3. /\ ~Live(frame[x].token)
        /\ HasClaimed(y) /\ frame[x].token = frame[y].token => x = y
    BY <2>1 DEF Rotation, TokenRotatesOnce
  <2>4. frame[x].token \in Issued
    BY <2>1, ClaimedTokens
  <2>5. ~Live(frame[x].token)'
    <3> DEFINE t == frame[x].token
    <3>1. \A s \in Issued : ~Live(s) => ~Live(s)'
      OBVIOUS
    <3>2. ~(~sessions'[t].isRevoked /\ sessions'[t].isActive)
      BY <2>3, <2>4, <3>1 DEF Live
    <3>3. QED
      BY <2>1, <3>2 DEF Live
  <2>6. QED
    BY <2>1, <2>2, <2>3, <2>5
<1>2. OneHolderPerLogin'
  BY DEF Rotation, OneHolderPerLogin
<1>3. QED
  BY <1>1, <1>2 DEF Rotation

\* A step that opens no session, wins no claim and brings nothing back.
LEMMA NoClaimRotation ==
  ASSUME Shape, Rotation, Issued' = Issued,
         \A s \in Issued : /\ sessions'[s].root = sessions[s].root
                           /\ Live(s)' => Live(s)
                           /\ frame'[s] = frame[s],
         \A x \in Requests :
           pc'[x] = "issue" /\ frame'[x].path = "refresh" =>
             pc[x] = "issue" /\ frame'[x] = frame[x]
  PROVE  Rotation'
<1>1. ASSUME NEW x \in Requests, HasClaimed(x)'
      PROVE  HasClaimed(x) /\ frame'[x].token = frame[x].token
  BY <1>1 DEF HasClaimed
<1>2. ASSUME NEW x \in Requests, NEW g \in Requests, Holds(x, g)'
      PROVE  Holds(x, g)
  <2>1. CASE x \in Issued' /\ Live(x)' /\ sessions'[x].root = g
    BY <2>1 DEF Holds
  <2>2. CASE /\ pc'[x] = "issue" /\ frame'[x].path = "refresh"
             /\ sessions'[frame'[x].token].root = g
    <3>1. pc[x] = "issue" /\ frame'[x] = frame[x]
      BY <2>2
    <3>2. frame[x].token \in Issued
      BY <2>2, <3>1, ClaimedTokens
    <3>3. QED
      BY <2>2, <3>1, <3>2 DEF Holds
  <2>3. CASE x = g /\ g \notin Issued'
    BY <2>3 DEF Holds
  <2>4. QED
    BY <1>2, <2>1, <2>2, <2>3 DEF Holds
<1>3. QED
  BY <1>1, <1>2, NoNewHolders

\* What the steps of one request change, for the lemma above.
LEMMA OneRequestRotation ==
  ASSUME Shape, Rotation, NEW r \in Requests, NEW st, NEW f,
         pc' = [pc EXCEPT ![r] = st], frame' = [frame EXCEPT ![r] = f],
         pc[r] # "done",
         st = "issue" => f.path # "refresh",
         Issued' = Issued,
         \A s \in Issued : /\ sessions'[s].root = sessions[s].root
                           /\ Live(s)' => Live(s)
  PROVE  Rotation'
<1>1. \A x \in Requests : x # r => pc'[x] = pc[x] /\ frame'[x] = frame[x]
  BY DEF Shape, TypeOK
<1>2. pc'[r] = st /\ frame'[r] = f
  BY DEF Shape, TypeOK
<1>3. r \notin Issued
  BY ClaimedTokens
<1>4. \A s \in Issued : s \in Requests
  BY DEF Issued
<1>5. QED
  BY <1>1, <1>2, <1>3, <1>4, NoClaimRotation

\* The same sessions: every fact about them that the lemmas above ask for.
LEMMA SameSessions ==
  ASSUME sessions' = sessions
  PROVE  /\ Issued' = Issued
         /\ \A s \in Issued : /\ sessions'[s].root = sessions[s].root
                              /\ Live(s)' => Live(s)
BY DEF Issued, Live

\* Request r goes on to its statement st with frame f; it wins no claim.
Moves(r, st, f) ==
  /\ pc' = [pc EXCEPT ![r] = st]
  /\ frame' = [frame EXCEPT ![r] = f]
  /\ sessions' = sessions
  /\ pc[r] # "done"
  /\ st = "issue" => f.path # "refresh"

\* The steps that leave the sessions alone; only Abort ends a debt.
LEMMA QuietSteps ==
  ASSUME Shape, NEW r \in Requests,
         \/ Begins(r) \/ Reload(r) \/ Write(r) \/ ClaimLost(r) \/ Audit(r)
         \/ Abort(r)
  PROVE  /\ \E st, f : Moves(r, st, f)
         /\ pc[r] = "issue" => Abort(r)
<1>1. CASE Begins(r)
  BY <1>1 DEF Begins, Opening, Moves
<1>2. CASE Reload(r)
  <2> DEFINE f == [frame[r] EXCEPT !.base =
                     [u \in Users |-> IF u \in frame[r].targets
                                      THEN users[u] ELSE None]]
  <2>1. /\ frame' = [frame EXCEPT ![r] = f] /\ sessions' = sessions
        /\ pc' = [pc EXCEPT ![r] = "write"] /\ pc[r] = "reload"
    BY <1>2 DEF Reload
  <2> HIDE DEF f
  <2>2. Moves(r, "write", f) /\ pc[r] # "issue"
    BY <2>1 DEF Moves
  <2>3. QED
    BY <2>2
<1>3. CASE Write(r)
  <2> DEFINE f == [frame[r] EXCEPT !.ent = NoEntities, !.base = NoEntities]
  <2>1. frame' = [frame EXCEPT ![r].ent = NoEntities, ![r].base = NoEntities]
    BY <1>3 DEF Write
  <2>2. frame' = [frame EXCEPT ![r] = f]
    BY <2>1 DEF Shape, TypeOK
  <2>3. /\ pc[r] = "write" /\ sessions' = sessions
        /\ pc' = [pc EXCEPT ![r] = AfterWrite(r)]
    BY <1>3 DEF Write
  <2>4. AfterWrite(r) # "issue"
    BY DEF AfterWrite
  <2> HIDE DEF f
  <2>5. Moves(r, AfterWrite(r), f) /\ pc[r] # "issue"
    BY <2>2, <2>3, <2>4 DEF Moves
  <2>6. QED
    BY <2>5
<1>4. CASE ClaimLost(r)
  <2>1. Moves(r, "refused", NoCall) /\ pc[r] # "issue"
    BY <1>4 DEF ClaimLost, Moves
  <2>2. QED
    BY <2>1
<1>5. CASE Audit(r)
  <2> DEFINE st == IF audit'[r] = Subjects(r) THEN AfterAudit(r) ELSE "audit"
  <2>1. /\ pc' = [pc EXCEPT ![r] = st] /\ pc[r] = "audit"
        /\ sessions' = sessions
        /\ frame' = [frame EXCEPT ![r] = frame[r]]
    BY <1>5, SameFrame DEF Audit
  <2>2. frame[r].path = "refresh" => AfterAudit(r) # "issue"
    BY DEF AfterAudit
  <2>3. st = "issue" => frame[r].path # "refresh"
    BY <2>2
  <2> HIDE DEF st
  <2>4. Moves(r, st, frame[r]) /\ pc[r] # "issue"
    BY <2>1, <2>3 DEF Moves
  <2>5. QED
    BY <2>4
<1>6. CASE Abort(r)
  <2> DEFINE f == [frame[r] EXCEPT !.ent = NoEntities, !.base = NoEntities]
  <2>1. frame' = [frame EXCEPT ![r].ent = NoEntities, ![r].base = NoEntities]
    BY <1>6 DEF Abort
  <2>2. frame' = [frame EXCEPT ![r] = f]
    BY <2>1 DEF Shape, TypeOK
  <2>3. /\ pc[r] # "done" /\ sessions' = sessions
        /\ pc' = [pc EXCEPT ![r] = "aborted"]
    BY <1>6 DEF Abort, Statements
  <2> HIDE DEF f
  <2>4. Moves(r, "aborted", f)
    BY <2>2, <2>3 DEF Moves
  <2>5. QED
    BY <1>6, <2>4
<1>7. QED
  BY <1>1, <1>2, <1>3, <1>4, <1>5, <1>6

LEMMA QuietRotation ==
  ASSUME Shape, Rotation, NEW r \in Requests,
         \/ Begins(r) \/ Reload(r) \/ Write(r) \/ ClaimLost(r) \/ Audit(r)
         \/ Abort(r)
  PROVE  Rotation'
<1>1. PICK st, f : Moves(r, st, f)
  BY QuietSteps
<1>2. QED
  BY <1>1, SameSessions, OneRequestRotation DEF Moves

\* Revoking sessions leaves fewer holders, whatever the set.
LEMMA RevokingRotation ==
  ASSUME Shape, Rotation, NEW r \in Requests, NEW S \in SUBSET Issued,
         Revoking(r, S, "audit"), pc[r] # "done"
  PROVE  Rotation'
<1>1. /\ Issued' = Issued
      /\ \A s \in Issued : /\ sessions'[s].root = sessions[s].root
                           /\ sessions[s].isRevoked => sessions'[s].isRevoked
                           /\ s \in S => sessions'[s].isRevoked
                           /\ s \notin S => sessions'[s] = sessions[s]
  BY RevokingSessions DEF Shape, Revoking
<1>2. \A s \in Issued : Live(s)' => Live(s)
  BY <1>1 DEF Live
<1>3. /\ pc' = [pc EXCEPT ![r] = "audit"]
      /\ frame' = [frame EXCEPT ![r] = frame[r]]
  BY SameFrame DEF Revoking
<1>4. QED
  BY <1>1, <1>2, <1>3, OneRequestRotation

\* The claim: the token was live, so nobody had claimed it and only it held its
\* chain; now r does.
LEMMA ClaimWonRotation ==
  ASSUME Shape, Rotation, NEW r \in Requests, ClaimWon(r)
  PROVE  Rotation'
<1>0. PICK t \in Issued : t = frame[r].token
  BY ClaimWonRevokes
<1>1. /\ t \in Issued /\ t \in Requests /\ Live(t)
      /\ pc[r] = "claim" /\ frame[r].path = "refresh"
      /\ Revoking(r, {t}, "issue")
  BY <1>0, ClaimWonRevokes DEF Issued
<1>2. /\ Issued' = Issued
      /\ \A s \in Issued : /\ sessions'[s].root = sessions[s].root
                           /\ sessions[s].isRevoked => sessions'[s].isRevoked
                           /\ s # t => sessions'[s] = sessions[s]
      /\ sessions'[t].isRevoked
  <2> DEFINE S == {t}
  <2>1. S \in SUBSET Issued /\ t \in S /\ \A s \in Issued : s # t => s \notin S
    OBVIOUS
  <2>2. sessions' = [s \in Requests |-> IF s \in S THEN Revoked(sessions[s])
                                                  ELSE sessions[s]]
    BY <1>1 DEF Revoking
  <2> HIDE DEF S
  <2>3. QED
    BY <2>1, <2>2, RevokingSessions DEF Shape
<1>3. /\ frame' = frame /\ pc'[r] = "issue"
      /\ \A x \in Requests : x # r => pc'[x] = pc[x]
  BY <1>1 DEF Revoking, Shape, TypeOK
<1>4. r \notin Issued
  BY <1>1, ClaimedTokens
<1>5. ~Live(t)' /\ \A s \in Issued : Live(s)' => Live(s)
  BY <1>2 DEF Live
<1>6. TokenRotatesOnce'
  <2> SUFFICES ASSUME NEW x \in Requests, NEW y \in Requests, HasClaimed(x)'
               PROVE  /\ ~Live(frame[x].token)'
                      /\ HasClaimed(y)' /\ frame'[x].token = frame'[y].token
                           => x = y
    BY DEF TokenRotatesOnce
  <2>1. \A z \in Requests \ {r} : HasClaimed(z)' =>
          /\ HasClaimed(z) /\ ~Live(frame[z].token)
          /\ frame[z].token \in Issued /\ frame[z].token # t
    <3>1. ASSUME NEW z \in Requests \ {r}, HasClaimed(z)'
          PROVE  HasClaimed(z)
      BY <1>2, <1>3, <3>1 DEF HasClaimed
    <3>2. ASSUME NEW z \in Requests, HasClaimed(z)
          PROVE  ~Live(frame[z].token)
      BY <3>2 DEF Rotation, TokenRotatesOnce
    <3>3. QED
      BY <1>1, <3>1, <3>2, ClaimedTokens
  <2>2. ~Live(frame[x].token)'
    <3>1. CASE x = r
      BY <1>0, <1>2, <1>3, <3>1 DEF Live
    <3>2. CASE x # r
      <4>1. frame[x].token \in Issued /\ frame[x].token # t
            /\ ~Live(frame[x].token)
        BY <2>1, <3>2
      <4>2. sessions'[frame[x].token] = sessions[frame[x].token]
        BY <1>2, <4>1
      <4>3. QED
        BY <1>3, <4>1, <4>2 DEF Live
    <3>3. QED
      BY <3>1, <3>2
  <2>3. ASSUME HasClaimed(y)', frame'[x].token = frame'[y].token
        PROVE  x = y
    <3>1. CASE x # r /\ y # r
      BY <1>3, <2>1, <2>3, <3>1 DEF Rotation, TokenRotatesOnce
    <3>2. CASE x = r \/ y = r
      BY <1>0, <1>3, <2>1, <2>3, <3>2
    <3>3. QED
      BY <3>1, <3>2
  <2>4. QED
    BY <2>2, <2>3
<1>7. ASSUME NEW x \in Requests, NEW g \in Requests, Holds(x, g)'
      PROVE  \/ Holds(x, g) /\ x # t
             \/ Holds(t, g) /\ x = r
  <2>1. CASE x \in Issued' /\ Live(x)' /\ sessions'[x].root = g
    <3>1. x # t
      BY <1>5, <2>1
    <3>2. Holds(x, g)
      BY <1>2, <1>5, <2>1, <3>1 DEF Holds
    <3>3. QED
      BY <3>1, <3>2
  <2>2. CASE /\ pc'[x] = "issue" /\ frame'[x].path = "refresh"
             /\ sessions'[frame'[x].token].root = g
    <3>1. CASE x = r
      BY <1>0, <1>1, <1>2, <1>3, <2>2, <3>1 DEF Holds
    <3>2. CASE x # r
      <4>1. pc[x] = "issue" /\ frame'[x] = frame[x]
        BY <1>3, <2>2, <3>2
      <4>2. frame[x].token \in Issued /\ x \notin Issued
        BY <2>2, <4>1, ClaimedTokens
      <4>3. sessions[frame[x].token].root = g
        BY <1>2, <2>2, <4>1, <4>2
      <4>4. Holds(x, g)
        BY <1>3, <2>2, <4>1, <4>3 DEF Holds
      <4>5. QED
        BY <4>2, <4>4
    <3>3. QED
      BY <3>1, <3>2
  <2>3. CASE x = g /\ g \notin Issued'
    <3>1. Holds(x, g) /\ x # t
      BY <1>2, <2>3 DEF Holds
    <3>2. QED
      BY <3>1
  <2>4. QED
    BY <1>7, <2>1, <2>2, <2>3 DEF Holds
<1>8. OneHolderPerLogin'
  <2> SUFFICES ASSUME NEW g \in Requests, NEW x \in Requests,
                      NEW y \in Requests, Holds(x, g)', Holds(y, g)'
               PROVE  x = y
    BY DEF OneHolderPerLogin
  <2>1. \A v, w \in Requests : Holds(v, g) /\ Holds(w, g) => v = w
    BY DEF Rotation, OneHolderPerLogin
  <2>2. (Holds(x, g) /\ x # t) \/ (Holds(t, g) /\ x = r)
    BY <1>7
  <2>3. (Holds(y, g) /\ y # t) \/ (Holds(t, g) /\ y = r)
    BY <1>7
  <2>4. QED
    BY <1>1, <2>1, <2>2, <2>3
<1>9. QED
  BY <1>6, <1>8 DEF Rotation

\* The insertion: the new session takes over what its request held.
LEMMA IssueRotation ==
  ASSUME Shape, Rotation, NEW r \in Requests, Issue(r)
  PROVE  Rotation'
<1>1. /\ pc[r] = "issue" /\ r \notin Issued /\ Issued' = Issued \cup {r}
      /\ pc' = [pc EXCEPT ![r] = "done"] /\ frame' = frame
      /\ \A s \in Requests : s # r => sessions'[s] = sessions[s]
      /\ frame[r].path \in {"login", "refresh"}
      /\ frame[r].path = "login" => sessions'[r].root = r
      /\ frame[r].path = "refresh" =>
           /\ frame[r].token \in Issued
           /\ sessions'[r].root = sessions[frame[r].token].root
  BY IssueInserts
<1>2. pc'[r] = "done" /\ \A x \in Requests : x # r => pc'[x] = pc[x]
  BY <1>1 DEF Shape, TypeOK
<1>3. \A s \in Issued : sessions'[s] = sessions[s]
  BY <1>1 DEF Issued
<1>4. ASSUME NEW x \in Requests, HasClaimed(x)'
      PROVE  HasClaimed(x) /\ frame'[x].token = frame[x].token
  BY <1>1, <1>2, <1>4 DEF HasClaimed
<1>5. \A s \in Issued : Live(s)' => Live(s)
  BY <1>3 DEF Live
<1>6. ASSUME NEW x \in Requests, NEW g \in Requests, Holds(x, g)'
      PROVE  Holds(x, g)
  <2>1. CASE x = r
    <3>1. sessions'[r].root = g
      BY <1>1, <1>2, <1>6, <2>1 DEF Holds
    <3>2. QED
      BY <1>1, <2>1, <3>1 DEF Holds
  <2>2. CASE x # r
    <3>1. CASE x \in Issued' /\ Live(x)' /\ sessions'[x].root = g
      BY <1>1, <1>3, <2>2, <3>1 DEF Holds, Live
    <3>2. CASE /\ pc'[x] = "issue" /\ frame'[x].path = "refresh"
               /\ sessions'[frame'[x].token].root = g
      <4>1. pc[x] = "issue" /\ frame[x].path = "refresh"
        BY <1>1, <1>2, <2>2, <3>2
      <4>2. frame[x].token \in Issued
        BY <4>1, ClaimedTokens
      <4>3. sessions[frame[x].token].root = g
        BY <1>1, <1>3, <3>2, <4>2
      <4>4. QED
        BY <4>1, <4>3 DEF Holds
    <3>3. CASE x = g /\ g \notin Issued'
      BY <1>1, <3>3 DEF Holds
    <3>4. QED
      BY <1>6, <3>1, <3>2, <3>3 DEF Holds
  <2>3. QED
    BY <2>1, <2>2
<1>7. QED
  BY <1>4, <1>5, <1>6, NoNewHolders

-----------------------------------------------------------------------------
(* The invariant *)

LEMMA InitInvariant == Init => IInv
<1> SUFFICES ASSUME Init
             PROVE  IInv
  OBVIOUS
<1>1. Issued = {}
  BY DEF Init, Issued
<1>2. TypeOK
  <2>1. users \in [Users -> AccountRow]
    <3>1. \A p \in Passwords :
            [status |-> "ACTIVE", isDeleted |-> FALSE, passwordHash |-> p,
             failedLoginAttempts |-> 0, accountLockedUntil |-> 0] \in AccountRow
      BY DEF AccountRow, Statuses
    <3>2. QED
      BY <3>1 DEF Init
  <2>2. \A s \in Requests : sessions[s].isActive = ~sessions[s].isRevoked
    BY DEF Init, NoSession
  <2>3. frame \in [Requests -> Frame]
    BY NoCallType DEF Init
  <2>4. QED
    BY <2>1, <2>2, <2>3 DEF Init, TypeOK
<1>3. \A r \in Requests : frame[r].path = "none" /\ pc[r] = "idle"
  BY DEF Init, NoCall, Call
<1>4. FramesFit
  BY <1>1, <1>3 DEF FramesFit, FrameFits
<1>5. TokenRotatesOnce
  BY <1>3 DEF TokenRotatesOnce, HasClaimed
<1>6. OneHolderPerLogin
  BY <1>1, <1>3 DEF OneHolderPerLogin, Holds
<1>7. QED
  BY <1>2, <1>4, <1>5, <1>6 DEF IInv

\* A step that touches neither the sessions nor the requests.
LEMMA IdleRotation ==
  ASSUME Shape, Rotation, sessions' = sessions, pc' = pc, frame' = frame
  PROVE  Rotation'
<1>1. Issued' = Issued
  BY DEF Issued
<1>2. \A s \in Issued : /\ sessions'[s].root = sessions[s].root
                       /\ Live(s)' => Live(s)
                       /\ frame'[s] = frame[s]
  BY DEF Live
<1>3. QED
  BY <1>1, <1>2, NoClaimRotation

LEMMA RotationInvariant ==
  ASSUME Shape, Rotation, [Next]_vars
  PROVE  Rotation'
<1>1. ASSUME NEW r \in Requests,
             \/ Begins(r) \/ Reload(r) \/ Write(r) \/ ClaimLost(r) \/ Audit(r)
             \/ Abort(r)
      PROVE  Rotation'
  BY <1>1, QuietRotation
<1>2. ASSUME NEW r \in Requests, ClaimWon(r)
      PROVE  Rotation'
  BY <1>2, ClaimWonRotation
<1>3. ASSUME NEW r \in Requests, RevokeOne(r)
      PROVE  Rotation'
  BY <1>3, RevokeOneRevokes, RevokingRotation
<1>4. ASSUME NEW r \in Requests, RevokeAll(r)
      PROVE  Rotation'
  BY <1>4, RevokeAllRevokes, RevokingRotation
<1>5. ASSUME NEW r \in Requests, Issue(r)
      PROVE  Rotation'
  BY <1>5, IssueRotation
<1>6. CASE Tick
  BY <1>6, IdleRotation DEF Tick
<1>7. CASE UNCHANGED vars
  BY <1>7, IdleRotation DEF vars
<1>8. TypeOK
  BY DEF Shape
<1>9. QED
  BY <1>1, <1>2, <1>3, <1>4, <1>5, <1>6, <1>7, <1>8, NextCases

LEMMA StepInvariant == IInv /\ [Next]_vars => IInv'
<1>1. IInv = (Shape /\ Rotation)
  BY DEF IInv, Shape, Rotation
<1>2. IInv' = (Shape' /\ Rotation')
  BY DEF IInv, Shape, Rotation
<1>3. QED
  BY <1>1, <1>2, ShapeInvariant, RotationInvariant

\* Every reachable state satisfies the inductive invariant.
THEOREM Invariance == Spec => []IInv
<1>1. Init => IInv
  BY InitInvariant
<1>2. IInv /\ [Next]_vars => IInv'
  BY StepInvariant
<1>3. QED
  BY <1>1, <1>2, PTL DEF Spec

\* Type correctness: every variable keeps its type, and the two flags of a
\* session row always move together.
THEOREM TypeCorrect == Spec => []TypeOK
<1>1. IInv => TypeOK
  BY DEF IInv
<1>2. QED
  BY <1>1, Invariance, PTL

\* refresh's conditional UPDATE is enough, without a transaction: however the
\* requests interleave and wherever they are cut short, a refresh token is
\* exchanged for one session at most.
THEOREM RefreshTokensAreOneShot == Spec => []TokenRotatesOnce
<1>1. IInv => TokenRotatesOnce
  BY DEF IInv
<1>2. QED
  BY <1>1, Invariance, PTL

\* Of the sessions that descend from one login, one at most is live.
THEOREM OneLivePerLogin == Spec => []OneLiveSessionPerLogin
<1>1. IInv => OneLiveSessionPerLogin
  <2> SUFFICES ASSUME IInv, NEW s \in Issued, NEW t \in Issued,
                      Live(s), Live(t), sessions[s].root = sessions[t].root
               PROVE  s = t
    BY DEF OneLiveSessionPerLogin
  <2>1. s \in Requests /\ t \in Requests /\ sessions[s].root \in Requests
    BY IssuedRow DEF IInv
  <2>2. Holds(s, sessions[s].root) /\ Holds(t, sessions[s].root)
    BY DEF Holds
  <2>3. QED
    BY <2>1, <2>2 DEF IInv, OneHolderPerLogin
<1>2. QED
  BY <1>1, Invariance, PTL

\* A session that a login opened has been audited, whenever the request died.
THEOREM LoginsAreAudited == Spec => []LoginAuditedFirst
<1>1. IInv => LoginAuditedFirst
  <2> SUFFICES ASSUME IInv, NEW s \in Issued, frame[s].path = "login"
               PROVE  audit[s] = {sessions[s].user}
    BY DEF LoginAuditedFirst
  <2>1. FrameFits(s)
    BY DEF IInv, FramesFit, Issued
  <2>2. /\ pc[s] = "done" /\ sessions[s].user \in frame[s].targets
        /\ audit[s] = frame[s].targets
        /\ \E u \in Users : frame[s].targets = {u}
    BY <2>1 DEF FrameFits
  <2>3. QED
    BY <2>2
<1>2. QED
  BY <1>1, Invariance, PTL

-----------------------------------------------------------------------------
(* Sessions over time *)

\* What a step does to the sessions: nothing, a revocation, or an insertion.
LEMMA SessionSteps ==
  ASSUME Shape, [Next]_vars
  PROVE  \/ sessions' = sessions
         \/ \E r \in Requests, S \in SUBSET Issued, st \in {"issue", "audit"} :
              Revoking(r, S, st)
         \/ \E r \in Requests : Issue(r)
<1>1. ASSUME NEW r \in Requests,
             ClaimWon(r) \/ RevokeOne(r) \/ RevokeAll(r)
      PROVE  \E S \in SUBSET Issued, st \in {"issue", "audit"} :
               Revoking(r, S, st)
  <2>1. CASE ClaimWon(r)
    BY <2>1, ClaimWonRevokes
  <2>2. CASE RevokeOne(r)
    BY <2>2, RevokeOneRevokes
  <2>3. CASE RevokeAll(r)
    BY <2>3, RevokeAllRevokes
  <2>4. QED
    BY <1>1, <2>1, <2>2, <2>3
<1>2. ASSUME NEW r \in Requests,
             \/ Begins(r) \/ Reload(r) \/ Write(r) \/ ClaimLost(r) \/ Audit(r)
             \/ Abort(r)
      PROVE  sessions' = sessions
  BY <1>2 DEF Begins, Reload, Write, ClaimLost, Audit, Abort
<1>3. Tick \/ UNCHANGED vars => sessions' = sessions
  BY DEF Tick, vars
<1>4. TypeOK
  BY DEF Shape
<1>5. QED
  BY <1>1, <1>2, <1>3, <1>4, NextCases

\* Revocation is final: no step brings a revoked session back or moves it to
\* another account, although logout saves a copy of the row it read earlier.
THEOREM RevokedForGood == Spec => RevocationIsFinal
<1>1. ASSUME IInv, [Next]_vars, NEW s \in Issued
      PROVE  /\ sessions'[s].user = sessions[s].user
             /\ sessions[s].isRevoked => sessions'[s].isRevoked
  <2>0. Shape /\ TypeOK
    BY <1>1 DEF IInv, Shape
  <2>1. CASE sessions' = sessions
    BY <2>1
  <2>2. ASSUME NEW r \in Requests, NEW S \in SUBSET Issued,
               NEW st \in {"issue", "audit"}, Revoking(r, S, st)
        PROVE  /\ sessions'[s].user = sessions[s].user
               /\ sessions[s].isRevoked => sessions'[s].isRevoked
    BY <2>0, <2>2, RevokingSessions DEF Revoking
  <2>3. ASSUME NEW r \in Requests, Issue(r)
        PROVE  sessions'[s] = sessions[s]
    BY <2>0, <2>3, IssueInserts DEF Issued
  <2>4. QED
    BY <1>1, <2>0, <2>1, <2>2, <2>3, SessionSteps
<1>2. IInv /\ [Next]_vars =>
        [\A s \in Issued :
           /\ sessions'[s].user = sessions[s].user
           /\ sessions[s].isRevoked => sessions'[s].isRevoked]_vars
  BY <1>1
<1>3. QED
  BY <1>2, Invariance, PTL DEF Spec, RevocationIsFinal

-----------------------------------------------------------------------------
(* The refinement of SessionLedger *)

\* The part of the mapping that follows from the requests' own variables.
LEMMA OwedIsIssued ==
  ASSUME Shape
  PROVE  OwedTokens \subseteq Issued /\ Issued \subseteq Requests
BY ClaimedTokens DEF OwedTokens, Owing, Issued

\* The tokens owed after a step, from who owes.
LEMMA SameOwed ==
  ASSUME \A x \in Requests : /\ Owing(x)' <=> Owing(x)
                             /\ Owing(x) => frame'[x].token = frame[x].token
  PROVE  OwedTokens' = OwedTokens
BY DEF OwedTokens

LEMMA SameLive ==
  ASSUME sessions' = sessions
  PROVE  Issued' = Issued /\ LiveSessions' = LiveSessions
BY DEF Issued, LiveSessions, Live

\* A request that stops owing takes its token off the debts: nobody else owes
\* the same one.
LEMMA OwedOnce ==
  ASSUME Rotation, NEW r \in Requests, Owing(r), ~Owing(r)',
         \A x \in Requests \ {r} : /\ Owing(x)' <=> Owing(x)
                                   /\ frame'[x] = frame[x]
  PROVE  OwedTokens' = OwedTokens \ {frame[r].token}
<1>1. ASSUME NEW x \in Requests \ {r}, Owing(x)
      PROVE  frame[x].token # frame[r].token
  BY <1>1 DEF Rotation, TokenRotatesOnce, HasClaimed, Owing
<1>2. OwedTokens' = {frame'[x].token : x \in {y \in Requests : Owing(y)'}}
  BY DEF OwedTokens
<1>3. OwedTokens' = {frame[x].token : x \in {y \in Requests \ {r} : Owing(y)}}
  BY <1>2
<1>4. QED
  BY <1>1, <1>3 DEF OwedTokens

\* A revocation in the ledger: the live sessions lose the set, and no others.
LEMMA RevokingLive ==
  ASSUME Shape, NEW S \in SUBSET Issued, NEW r \in Requests, NEW st,
         Revoking(r, S, st)
  PROVE  Issued' = Issued /\ LiveSessions' = LiveSessions \ S
<1>1. /\ Issued' = Issued
      /\ \A s \in Issued : /\ s \in S => sessions'[s].isRevoked
                           /\ s \notin S => sessions'[s] = sessions[s]
  BY RevokingSessions DEF Shape, Revoking
<1>2. LiveSessions' = {s \in Issued : Live(s)'}
  BY <1>1 DEF LiveSessions
<1>3. \A s \in Issued : Live(s)' <=> Live(s) /\ s \notin S
  BY <1>1 DEF Live
<1>4. QED
  BY <1>1, <1>2, <1>3 DEF LiveSessions

LEMMA RevokeMaps ==
  ASSUME Shape, NEW r \in Requests, RevokeOne(r) \/ RevokeAll(r)
  PROVE  Ledger!Next
<1>1. PICK S \in SUBSET Issued :
        Revoking(r, S, "audit") /\ pc[r] \in {"revokeOne", "revokeAll"}
  BY RevokeOneRevokes, RevokeAllRevokes
<1>2. Issued' = Issued /\ LiveSessions' = LiveSessions \ S
  BY <1>1, RevokingLive
<1>3. \A x \in Requests : /\ Owing(x)' <=> Owing(x)
                          /\ frame'[x].token = frame[x].token
  BY <1>1 DEF Revoking, Owing, Shape, TypeOK
<1>4. OwedTokens' = OwedTokens
  BY <1>3, SameOwed
<1>5. S \in SUBSET Requests
  BY OwedIsIssued
<1>6. Ledger!Revoke(S)
  BY <1>2, <1>4 DEF Ledger!Revoke
<1>7. QED
  BY <1>5, <1>6 DEF Ledger!Next

LEMMA ClaimMaps ==
  ASSUME Shape, NEW r \in Requests, ClaimWon(r)
  PROVE  Ledger!Next
<1>0. PICK t \in Issued : t = frame[r].token
  BY ClaimWonRevokes
<1>1. /\ Live(t) /\ pc[r] = "claim" /\ frame[r].path = "refresh"
      /\ Revoking(r, {t}, "issue")
  BY <1>0, ClaimWonRevokes
<1>2. Issued' = Issued /\ LiveSessions' = LiveSessions \ {t}
  BY <1>1, RevokingLive
<1>3. /\ Owing(r)' /\ ~Owing(r) /\ frame' = frame
      /\ \A x \in Requests \ {r} : Owing(x)' <=> Owing(x)
  BY <1>1 DEF Revoking, Owing, Shape, TypeOK
<1>4. OwedTokens' = OwedTokens \cup {t}
  <2>1. OwedTokens' = {frame[x].token : x \in {y \in Requests : Owing(y)'}}
    BY <1>3 DEF OwedTokens
  <2>2. {y \in Requests : Owing(y)'} = {y \in Requests : Owing(y)} \cup {r}
    BY <1>3
  <2>3. QED
    BY <1>0, <2>1, <2>2 DEF OwedTokens
<1>5. t \in LiveSessions /\ t \in Requests
  BY <1>1, OwedIsIssued DEF LiveSessions
<1>6. Ledger!Consume(t)
  BY <1>2, <1>4, <1>5 DEF Ledger!Consume
<1>7. QED
  BY <1>5, <1>6 DEF Ledger!Next

LEMMA IssueMaps ==
  ASSUME Shape, Rotation, NEW r \in Requests, Issue(r)
  PROVE  Ledger!Next
<1>1. /\ pc[r] = "issue" /\ r \notin Issued /\ Issued' = Issued \cup {r}
      /\ pc' = [pc EXCEPT ![r] = "done"] /\ frame' = frame
      /\ \A s \in Requests : s # r => sessions'[s] = sessions[s]
      /\ sessions'[r].isRevoked = FALSE /\ sessions'[r].isActive = TRUE
      /\ frame[r].path \in {"login", "refresh"}
      /\ frame[r].path = "refresh" => frame[r].token \in Issued
  BY IssueInserts
<1>2. LiveSessions' = LiveSessions \cup {r}
  <2>1. LiveSessions' = {s \in Issued \cup {r} : Live(s)'}
    BY <1>1 DEF LiveSessions
  <2>2. Live(r)' /\ \A s \in Issued : Live(s)' <=> Live(s)
    BY <1>1 DEF Live, Issued
  <2>3. QED
    BY <2>1, <2>2 DEF LiveSessions
<1>3. /\ ~Owing(r)'
      /\ \A x \in Requests \ {r} : Owing(x)' <=> Owing(x)
  BY <1>1 DEF Owing, Shape, TypeOK
<1>4. CASE frame[r].path = "login"
  <2>1. ~Owing(r)
    BY <1>4 DEF Owing
  <2>2. OwedTokens' = OwedTokens
    BY <1>1, <1>3, <2>1, SameOwed
  <2>3. Ledger!Open(r)
    BY <1>1, <1>2, <2>2 DEF Ledger!Open
  <2>4. QED
    BY <2>3 DEF Ledger!Next
<1>5. CASE frame[r].path = "refresh"
  <2>0. PICK t \in Issued : t = frame[r].token
    BY <1>1, <1>5
  <2>1. Owing(r) /\ t \in OwedTokens /\ t \in Requests
    BY <1>1, <1>5, <2>0, OwedIsIssued DEF Owing, OwedTokens
  <2>2. OwedTokens' = OwedTokens \ {t}
    BY <1>1, <1>3, <2>0, <2>1, OwedOnce
  <2>3. Ledger!Exchange(t, r)
    BY <1>1, <1>2, <2>1, <2>2 DEF Ledger!Exchange
  <2>4. QED
    BY <2>1, <2>3 DEF Ledger!Next
<1>6. QED
  BY <1>1, <1>4, <1>5

\* A request that dies between the two statements of a rotation forfeits.
LEMMA AbortMaps ==
  ASSUME Shape, Rotation, NEW r \in Requests, Abort(r), Owing(r)
  PROVE  Ledger!Next
<1>0. PICK t \in Issued : t = frame[r].token
  BY ClaimedTokens DEF Owing
<1>1. PICK st, f : Moves(r, st, f)
  BY QuietSteps
<1>2. \A x \in Requests \ {r} : pc'[x] = pc[x] /\ frame'[x] = frame[x]
  BY <1>1 DEF Moves, Shape, TypeOK
<1>3. ~Owing(r)' /\ sessions' = sessions
  BY DEF Abort, Owing, Shape, TypeOK
<1>4. \A x \in Requests \ {r} : /\ Owing(x)' <=> Owing(x)
                                /\ frame'[x] = frame[x]
  BY <1>2 DEF Owing
<1>5. OwedTokens' = OwedTokens \ {t}
  BY <1>0, <1>3, <1>4, OwedOnce
<1>6. t \in OwedTokens /\ t \in Requests
  BY <1>0, OwedIsIssued DEF OwedTokens
<1>7. Ledger!Forfeit(t)
  BY <1>3, <1>5, <1>6, SameLive DEF Ledger!Forfeit
<1>8. QED
  BY <1>6, <1>7 DEF Ledger!Next

\* A step of one request that neither claims, inserts nor forfeits.
LEMMA OtherStepsMap ==
  ASSUME Shape, NEW r \in Requests, NEW st, NEW f, Moves(r, st, f), ~Owing(r)
  PROVE  UNCHANGED <<Issued, LiveSessions, OwedTokens>>
<1>1. \A x \in Requests \ {r} : pc'[x] = pc[x] /\ frame'[x] = frame[x]
  BY DEF Moves, Shape, TypeOK
<1>2. pc'[r] = st /\ frame'[r] = f
  BY DEF Moves, Shape, TypeOK
<1>3. \A x \in Requests : /\ Owing(x)' <=> Owing(x)
                          /\ Owing(x) => frame'[x].token = frame[x].token
  BY <1>1, <1>2 DEF Moves, Owing
<1>4. QED
  BY <1>3, SameOwed, SameLive DEF Moves

LEMMA StepMaps ==
  ASSUME Shape, Rotation, [Next]_vars
  PROVE  Ledger!Next \/ UNCHANGED <<Issued, LiveSessions, OwedTokens>>
<1>1. ASSUME NEW r \in Requests,
             \/ Begins(r) \/ Reload(r) \/ Write(r) \/ ClaimLost(r) \/ Audit(r)
             \/ Abort(r)
      PROVE  Ledger!Next \/ UNCHANGED <<Issued, LiveSessions, OwedTokens>>
  <2>1. CASE Owing(r)
    BY <1>1, <2>1, QuietSteps, AbortMaps DEF Owing
  <2>2. CASE ~Owing(r)
    BY <1>1, <2>2, QuietSteps, OtherStepsMap
  <2>3. QED
    BY <2>1, <2>2
<1>2. ASSUME NEW r \in Requests, RevokeOne(r) \/ RevokeAll(r)
      PROVE  Ledger!Next
  BY <1>2, RevokeMaps
<1>3. ASSUME NEW r \in Requests, ClaimWon(r) \/ Issue(r)
      PROVE  Ledger!Next
  BY <1>3, ClaimMaps, IssueMaps
<1>4. CASE Tick \/ UNCHANGED vars
  <2>1. sessions' = sessions /\ pc' = pc /\ frame' = frame
    BY <1>4 DEF Tick, vars
  <2>2. OwedTokens' = OwedTokens
    BY <2>1 DEF OwedTokens, Owing
  <2>3. QED
    BY <2>1, <2>2, SameLive
<1>5. TypeOK
  BY DEF Shape
<1>6. QED
  BY <1>1, <1>2, <1>3, <1>4, <1>5, NextCases

\* The sessions table, under every interleaving of the handlers and every
\* failure, is a ledger: opened once, consumed or revoked for good, and
\* exchanged one for one.
THEOREM LedgerImplemented == Spec => ImplementsLedger
<1>1. Init => Ledger!Init
  <2> SUFFICES ASSUME Init
               PROVE  Issued = {} /\ LiveSessions = {} /\ OwedTokens = {}
    BY DEF Ledger!Init
  <2>1. Issued = {}
    BY DEF Init, Issued
  <2>2. \A r \in Requests : ~Owing(r)
    BY DEF Init, Owing
  <2>3. QED
    BY <2>1, <2>2 DEF LiveSessions, OwedTokens
<1>2. IInv /\ [Next]_vars => [Ledger!Next]_(Ledger!ledger)
  <2> SUFFICES ASSUME IInv, [Next]_vars
               PROVE  [Ledger!Next]_(Ledger!ledger)
    OBVIOUS
  <2>1. Shape /\ Rotation
    BY DEF IInv, Shape, Rotation
  <2>2. QED
    BY <2>1, StepMaps DEF Ledger!ledger
<1>3. QED
  BY <1>1, <1>2, Invariance, PTL DEF Spec, ImplementsLedger, Ledger!Spec
=============================================================================
