-------------------------- MODULE AuthApartProofs ---------------------------
(***************************************************************************)
(* What AuthSessions promises as long as requests that are under way       *)
(* together concern different accounts (Apart), for every set of accounts, *)
(* requests and passwords and every bound.  The runs on the surviving      *)
(* session, the lost attempt and the reverted password show that the       *)
(* promises need it.                                                       *)
(*                                                                         *)
(* The argument: apart from the others, a request finds its accounts as it *)
(* has read them, so that save writes exactly the entity.  Whatever makes  *)
(* a session stale is then followed by the revocation of the account's     *)
(* sessions, and every denied login counts.                                *)
(***************************************************************************)
EXTENDS AuthSessionsProofs, CountingLemmas

-----------------------------------------------------------------------------
(* The rows the handlers compute *)

LEMMA RowColumns ==
  ASSUME NEW row \in AccountRow, now \in Nat
  PROVE  /\ LET e == FailedAttempt(row) IN
            /\ e.passwordHash = row.passwordHash /\ e.status = row.status
            /\ e.isDeleted = row.isDeleted
            /\ e.failedLoginAttempts = row.failedLoginAttempts + 1
            /\ e.failedLoginAttempts >= MaxFailedAttempts => e.accountLockedUntil > 0
         /\ LET e == ClearedLock(row) IN
            /\ e.passwordHash = row.passwordHash /\ e.status = row.status
            /\ e.isDeleted = row.isDeleted
         /\ \A st \in Statuses :
              LET e == WithStatus(row, st) IN
              /\ e.passwordHash = row.passwordHash /\ e.status = st
              /\ e.isDeleted = row.isDeleted
BY BoundsAssumption DEF FailedAttempt, ClearedLock, WithStatus, AccountRow

LEMMA OneRow ==
  ASSUME NEW u \in Users, NEW row
  PROVE  One(u, row)[u] = row
BY DEF One, NoEntities

\* save of an entity over the row it was read from leaves the entity.
LEMMA MergeFresh ==
  ASSUME NEW row \in AccountRow, NEW ent \in AccountRow
  PROVE  LET m == Merge(row, row, ent) IN
         /\ m.status = ent.status /\ m.isDeleted = ent.isDeleted
         /\ m.passwordHash = ent.passwordHash
         /\ m.failedLoginAttempts = ent.failedLoginAttempts
         /\ m.accountLockedUntil = ent.accountLockedUntil
BY DEF Merge, AccountRow

-----------------------------------------------------------------------------
(* How calls begin *)

\* What the first statement of a handler has found out.
CallHolds(st, c) ==
  /\ st = "reload" => EntityHolds(c)
  /\ c.path = "login" =>
       /\ st = "reload"
       /\ \A u \in c.targets :
            /\ c.pw = users[u].passwordHash
            /\ users[u].status = "ACTIVE" /\ ~users[u].isDeleted
  /\ c.path = "loginDenied" => st = "reload"
  /\ c.path = "refresh" =>
       LET u == sessions[c.token].user IN
       /\ st = "claim" /\ c.targets = {u}
       /\ users[u].status = "ACTIVE" /\ ~users[u].isDeleted

\* A call that saves nothing.
LEMMA PlainHolds ==
  ASSUME NEW st, NEW c, st # "reload",
         c.path \notin {"login", "loginDenied", "refresh"}
  PROVE  CallHolds(st, c)
BY DEF CallHolds

\* A handler that saves one account and keeps the count of its failed logins.
LEMMA SaveOneHolds ==
  ASSUME NEW path, path \notin {"login", "loginDenied", "refresh"},
         NEW u \in Users, NEW token, NEW pw, NEW revokes \in BOOLEAN, NEW row,
         ~revokes \/ path \notin Setting =>
           row.passwordHash = users[u].passwordHash,
         ~revokes /\ path # "update" =>
           /\ row.status \in Barred => row.status = users[u].status
           /\ row.isDeleted = users[u].isDeleted,
         path \notin Clearing =>
           /\ row.failedLoginAttempts = users[u].failedLoginAttempts
           /\ row.accountLockedUntil = users[u].accountLockedUntil
  PROVE  CallHolds("reload", Call(path, {u}, token, pw, revokes, One(u, row)))
<1> DEFINE c == Call(path, {u}, token, pw, revokes, One(u, row))
<1>1. /\ c.path = path /\ c.targets = {u} /\ c.revokes = revokes
      /\ c.ent[u] = row
  BY OneRow DEF Call
<1> HIDE DEF c
<1>2. EntityHolds(c)
  BY <1>1 DEF EntityHolds
<1>3. CallHolds("reload", c)
  BY <1>1, <1>2 DEF CallHolds
<1>4. QED
  BY <1>3 DEF c

\* A step that begins request r.
Starts(r) ==
  /\ pc[r] = "idle" /\ Cardinality(InFlight) < MaxInFlight
  /\ \E st \in Opening, c \in Frame :
       /\ CallHolds(st, c)
       /\ pc' = [pc EXCEPT ![r] = st]
       /\ frame' = [frame EXCEPT ![r] = c]
  /\ UNCHANGED <<users, sessions, audit, now>>

LEMMA BeginStarts ==
  ASSUME NEW r \in Requests, NEW h, NEW st, NEW c,
         WellFormed(st, c), CallHolds(st, c), Begin(r, h, st, c)
  PROVE  Starts(r)
BY DEF Begin, Starts, WellFormed

LEMMA RefusedStarts ==
  ASSUME NEW r \in Requests, NEW h, Begin(r, h, "refused", NoCall)
  PROVE  Starts(r)
<1>1. NoCall.path = "none"
  BY DEF NoCall, Call
<1>2. CallHolds("refused", NoCall)
  BY <1>1, PlainHolds
<1>3. QED
  BY <1>2, RefusedCall, BeginStarts

LEMMA PlainStarts ==
  ASSUME NEW r \in Requests, NEW h, NEW st \in Opening \ {"reload", "claim"},
         NEW path \in Paths \ {"login", "loginDenied", "refresh"},
         NEW targets \in SUBSET Users, NEW token \in Requests \cup {None},
         NEW revokes \in BOOLEAN,
         st = "revokeOne" => token \in Issued,
         Begin(r, h, st, Call(path, targets, token, None, revokes, NoEntities))
  PROVE  Starts(r)
<1> DEFINE c == Call(path, targets, token, None, revokes, NoEntities)
<1>1. WellFormed(st, c)
  BY PlainCall
<1>2. c.path = path
  BY DEF Call
<1> HIDE DEF c
<1>3. CallHolds(st, c)
  BY <1>2, PlainHolds
<1>4. QED
  BY <1>1, <1>3, BeginStarts DEF c

LEMMA PublicCallStarts ==
  ASSUME TypeOK, NEW r \in Requests, PublicCall(r)
  PROVE  Starts(r)
<1>1. now \in Nat /\ \A u \in Users : users[u] \in AccountRow
  BY DEF TypeOK
<1>2. ASSUME NEW u \in Users, LoginUnknown(r, u) \/ LoginLocked(r, u)
      PROVE  Starts(r)
  <2>1. PICK path \in {"loginUnknown", "loginLocked"}, targets \in {{}, {u}} :
          Begin(r, "login", "audit", Call(path, targets, None, None, FALSE, NoEntities))
    BY <1>2 DEF LoginUnknown, LoginLocked
  <2>2. /\ path \in Paths \ {"login", "loginDenied", "refresh"}
        /\ targets \in SUBSET Users /\ "audit" \in Opening \ {"reload", "claim"}
    BY DEF Paths, Opening
  <2>3. QED
    BY <2>1, <2>2, PlainStarts
<1>3. ASSUME NEW u \in Users, NEW p \in Passwords, LoginDenied(r, u, p)
      PROVE  Starts(r)
  <2> DEFINE row == FailedAttempt(users[u])
             c == Call("loginDenied", {u}, None, p, FALSE, One(u, row))
  <2>1. row \in AccountRow
    BY <1>1, RowTypes
  <2>2. WellFormed("reload", c)
    BY <2>1, SavingCall DEF Paths
  <2>3. /\ c.path = "loginDenied" /\ c.targets = {u} /\ c.revokes = FALSE
        /\ c.ent[u] = row
    BY OneRow DEF Call
  <2>4. /\ row.passwordHash = users[u].passwordHash /\ row.status = users[u].status
        /\ row.isDeleted = users[u].isDeleted
        /\ row.failedLoginAttempts = users[u].failedLoginAttempts + 1
        /\ row.failedLoginAttempts >= MaxFailedAttempts => row.accountLockedUntil > 0
    BY <1>1, RowColumns
  <2>5. Begin(r, "login", "reload", c)
    BY <1>3 DEF LoginDenied
  <2> HIDE DEF c, row
  <2>6. EntityHolds(c)
    BY <2>3, <2>4 DEF EntityHolds
  <2>7. CallHolds("reload", c)
    BY <2>3, <2>6 DEF CallHolds
  <2>8. QED
    BY <2>2, <2>5, <2>7, BeginStarts
<1>4. ASSUME NEW u \in Users, NEW p \in Passwords, LoginPermitted(r, u, p)
      PROVE  Starts(r)
  <2> DEFINE row == ClearedLock(users[u])
             c == Call("login", {u}, None, p, FALSE, One(u, row))
  <2>1. row \in AccountRow
    BY <1>1, RowTypes
  <2>2. WellFormed("reload", c)
    BY <2>1, SavingCall DEF Paths, AllHandlers
  <2>3. /\ c.path = "login" /\ c.targets = {u} /\ c.revokes = FALSE
        /\ c.ent[u] = row /\ c.pw = p
    BY OneRow DEF Call
  <2>4. /\ row.passwordHash = users[u].passwordHash /\ row.status = users[u].status
        /\ row.isDeleted = users[u].isDeleted
    BY <1>1, RowColumns
  <2>5. /\ Begin(r, "login", "reload", c)
        /\ users[u].status = "ACTIVE" /\ ~users[u].isDeleted
        /\ p = users[u].passwordHash
    BY <1>4 DEF LoginPermitted
  <2> HIDE DEF c, row
  <2>6. EntityHolds(c)
    BY <2>3, <2>4 DEF EntityHolds, Clearing
  <2>7. CallHolds("reload", c)
    BY <2>3, <2>5, <2>6 DEF CallHolds
  <2>8. QED
    BY <2>2, <2>5, <2>7, BeginStarts
<1>5. ASSUME NEW s \in Requests, RefreshRead(r, s)
      PROVE  Starts(r)
  <2> DEFINE c == Call("refresh", {sessions[s].user}, s, None, FALSE, NoEntities)
  <2>1. s \in Issued /\ sessions[s].user \in Users
    BY <1>5, IssuedRow DEF RefreshRead
  <2>2. WellFormed("claim", c)
    BY <2>1, PlainCall DEF Paths, AllHandlers, Opening
  <2>3. c.path = "refresh" /\ c.targets = {sessions[s].user} /\ c.token = s
    BY DEF Call
  <2>4. /\ Begin(r, "refresh", "claim", c)
        /\ users[sessions[s].user].status = "ACTIVE"
        /\ ~users[sessions[s].user].isDeleted
    BY <1>5 DEF RefreshRead, RefreshAccepts
  <2> HIDE DEF c
  <2>5. CallHolds("claim", c)
    BY <2>3, <2>4 DEF CallHolds
  <2>6. QED
    BY <2>2, <2>4, <2>5, BeginStarts
<1>6. ASSUME NEW s \in Requests, RefreshRefused(r, s) \/ LogoutIgnored(r, s)
      PROVE  Starts(r)
  BY <1>6, RefusedStarts DEF RefreshRefused, LogoutIgnored
<1>7. ASSUME NEW s \in Requests, LogoutRead(r, s)
      PROVE  Starts(r)
  <2>1. s \in Issued /\ {sessions[s].user} \in SUBSET Users
    BY <1>7, IssuedRow DEF LogoutRead
  <2>2. Begin(r, "logout", "revokeOne",
              Call("logout", {sessions[s].user}, s, None, FALSE, NoEntities))
    BY <1>7 DEF LogoutRead
  <2>3. QED
    BY <2>1, <2>2, PlainStarts DEF Paths, AllHandlers, Opening
<1>8. QED
  BY <1>2, <1>3, <1>4, <1>5, <1>6, <1>7 DEF PublicCall

LEMMA PasswordCallStarts ==
  ASSUME TypeOK, NEW r \in Requests, PasswordCall(r)
  PROVE  Starts(r)
<1>1. PICK s \in Requests :
        \/ ChangePasswordRefused(r, s)
        \/ \E p \in Passwords : ChangePasswordDenied(r, s, p)
        \/ \E p, q \in Passwords : ChangePassword(r, s, p, q)
  BY DEF PasswordCall
<1>2. s \in Issued /\ sessions[s].user \in Users
  BY <1>1, IssuedRow
     DEF ChangePasswordRefused, ChangePasswordDenied, ChangePassword
<1>3. CASE ChangePasswordRefused(r, s)
  BY <1>3, RefusedStarts DEF ChangePasswordRefused
<1>4. ASSUME NEW p \in Passwords, ChangePasswordDenied(r, s, p)
      PROVE  Starts(r)
  <2>1. Begin(r, "changePassword", "audit",
              Call("changePasswordDenied", {sessions[s].user}, s, None, FALSE,
                   NoEntities))
    BY <1>4 DEF ChangePasswordDenied
  <2>2. {sessions[s].user} \in SUBSET Users
    BY <1>2
  <2>3. /\ "changePasswordDenied" \in Paths \ {"login", "loginDenied", "refresh"}
        /\ "audit" \in Opening \ {"reload", "claim"}
    BY DEF Paths, Opening
  <2>4. QED
    BY <1>2, <2>1, <2>2, <2>3, PlainStarts
<1>5. ASSUME NEW p \in Passwords, NEW q \in Passwords, ChangePassword(r, s, p, q)
      PROVE  Starts(r)
  <2> DEFINE u == sessions[s].user
             row == [users[u] EXCEPT !.passwordHash = q]
             c == Call("changePassword", {u}, s, None, TRUE, One(u, row))
  <2>1. users[u] \in AccountRow /\ u \in Users
    BY <1>2 DEF TypeOK
  <2>2. row \in AccountRow
    BY <2>1, RowTypes DEF TypeOK
  <2>3. RevokesAfterSave("changePassword", users[u].status) = TRUE
    BY DEF RevokesAfterSave
  <2>4. \/ Begin(r, "changePassword", "refused", NoCall)
        \/ Begin(r, "changePassword", "reload", c)
    BY <1>5, <2>3 DEF ChangePassword
  <2>5. /\ row.failedLoginAttempts = users[u].failedLoginAttempts
        /\ row.accountLockedUntil = users[u].accountLockedUntil
    BY <2>1 DEF AccountRow
  <2> HIDE DEF u, row
  <2>6. WellFormed("reload", c)
    BY <2>1, <2>2, SavingCall DEF Paths, AllHandlers
  <2>7. CallHolds("reload", c)
    BY <2>1, <2>5, SaveOneHolds DEF Setting
  <2>8. QED
    BY <2>4, <2>6, <2>7, RefusedStarts, BeginStarts
<1>6. QED
  BY <1>1, <1>3, <1>4, <1>5
LEMMA AdminSaveStarts ==
  ASSUME NEW r \in Requests,
         NEW h \in AllHandlers \ {"login", "refresh"}, NEW u \in Users, NEW status,
         NEW row \in AccountRow, AdminSave(r, h, u, status, row),
         ~RevokesAfterSave(h, status) \/ h \notin Setting =>
           row.passwordHash = users[u].passwordHash,
         ~RevokesAfterSave(h, status) /\ h # "update" =>
           /\ row.status \in Barred => row.status = users[u].status
           /\ row.isDeleted = users[u].isDeleted,
         h \notin Clearing =>
           /\ row.failedLoginAttempts = users[u].failedLoginAttempts
           /\ row.accountLockedUntil = users[u].accountLockedUntil
  PROVE  Starts(r)
<1> DEFINE rev == RevokesAfterSave(h, status)
           c == Call(h, {u}, None, None, rev, One(u, row))
<1>1. rev \in BOOLEAN /\ h \in Paths \ {"login", "loginDenied", "refresh"}
  BY RevokesType DEF Paths, AllHandlers
<1>2. Begin(r, h, "reload", c)
  BY DEF AdminSave
<1> HIDE DEF rev
<1>3. WellFormed("reload", c)
  BY <1>1, SavingCall
<1>4. CallHolds("reload", c)
  BY <1>1, SaveOneHolds DEF rev
<1> HIDE DEF c
<1>5. QED
  BY <1>2, <1>3, <1>4, BeginStarts

LEMMA BulkStarts ==
  ASSUME TypeOK, NEW r \in Requests, NEW ids \in SUBSET Users \ {{}},
         BulkUpdateStatus(r, ids)
  PROVE  Starts(r)
<1> DEFINE found == {u \in ids : ~users[u].isDeleted}
           ent(status) == [u \in Users |-> IF u \in found
                                           THEN WithStatus(users[u], status)
                                           ELSE None]
           rev(status) == RevokesAfterSave("bulkUpdateStatus", status)
           c(status) == Call("bulkUpdateStatus", found, None, None, rev(status),
                             ent(status))
<1>1. PICK status \in StatusChoices :
        \/ Begin(r, "bulkUpdateStatus", "refused", NoCall)
        \/ Begin(r, "bulkUpdateStatus", "reload", c(status))
  BY DEF BulkUpdateStatus
<1>2. status \in Statuses /\ now \in Nat /\ \A u \in Users : users[u] \in AccountRow
  BY BoundsAssumption DEF TypeOK
<1>3. \A u \in Users :
        LET row == WithStatus(users[u], status) IN
        /\ row \in AccountRow /\ row.status = status
        /\ row.passwordHash = users[u].passwordHash
        /\ row.isDeleted = users[u].isDeleted
  BY <1>2, RowTypes, RowColumns
<1>4. /\ ent(status) \in [Users -> AccountRow \cup {None}]
      /\ \A u \in found : u \in Users /\ ent(status)[u] = WithStatus(users[u], status)
  BY <1>3
<1>5. rev(status) \in BOOLEAN /\ found \in SUBSET Users
  BY RevokesType
<1>6. ~rev(status) => status \notin Barred
  BY DEF RevokesAfterSave, Barred
<1>7. c(status) \in Frame
  BY <1>4, <1>5, CallType DEF Paths, AllHandlers
<1>8. /\ c(status).path = "bulkUpdateStatus"
      /\ c(status).targets = found
      /\ c(status).ent = ent(status) /\ c(status).revokes = rev(status)
  BY DEF Call
<1> HIDE DEF c, ent, rev, found
<1>9. WellFormed("reload", c(status))
  BY <1>3, <1>4, <1>7, <1>8 DEF WellFormed, Opening
<1>10. EntityHolds(c(status))
  BY <1>3, <1>4, <1>6, <1>8 DEF EntityHolds, Clearing
<1>11. CallHolds("reload", c(status))
  BY <1>8, <1>10 DEF CallHolds
<1>12. QED
  BY <1>1, <1>9, <1>11, RefusedStarts, BeginStarts

LEMMA AdminCallStarts ==
  ASSUME TypeOK, NEW r \in Requests, AdminCall(r)
  PROVE  Starts(r)
<1>1. /\ now \in Nat
      /\ \A u \in Users : users[u] \in AccountRow /\ users[u].status \in Statuses
  BY DEF TypeOK, AccountRow
<1>2. ASSUME NEW u \in Users, NEW h \in AllHandlers, FindUserFails(r, h, u)
      PROVE  Starts(r)
  BY <1>2, RefusedStarts DEF FindUserFails
<1>3. ASSUME NEW u \in Users, Update(r, u)
      PROVE  Starts(r)
  <2>1. PICK status \in StatusChoices \cup {users[u].status} :
          AdminSave(r, "update", u, status, [users[u] EXCEPT !.status = status])
    BY <1>3 DEF Update
  <2> DEFINE row == [users[u] EXCEPT !.status = status]
  <2>2. status \in Statuses
    BY <1>1, BoundsAssumption
  <2>3. row \in AccountRow
    BY <1>1, <2>2, RowTypes
  <2>4. /\ row.passwordHash = users[u].passwordHash
        /\ row.failedLoginAttempts = users[u].failedLoginAttempts
        /\ row.accountLockedUntil = users[u].accountLockedUntil
    BY <1>1 DEF AccountRow
  <2>5. AdminSave(r, "update", u, status, row)
    BY <2>1
  <2> HIDE DEF row
  <2>6. QED
    BY <2>3, <2>4, <2>5, AdminSaveStarts DEF AllHandlers
<1>4. ASSUME NEW u \in Users, UpdateStatus(r, u)
      PROVE  Starts(r)
  <2>1. PICK status \in StatusChoices :
          AdminSave(r, "updateStatus", u, status, WithStatus(users[u], status))
    BY <1>4 DEF UpdateStatus
  <2> DEFINE row == WithStatus(users[u], status)
  <2>2. status \in Statuses
    BY BoundsAssumption
  <2>3. /\ row \in AccountRow /\ row.status = status
        /\ row.passwordHash = users[u].passwordHash
        /\ row.isDeleted = users[u].isDeleted
    BY <1>1, <2>2, RowTypes, RowColumns
  <2>4. ~RevokesAfterSave("updateStatus", status) => status \notin Barred
    BY DEF RevokesAfterSave, Barred
  <2>5. AdminSave(r, "updateStatus", u, status, row)
    BY <2>1
  <2> HIDE DEF row
  <2>6. QED
    BY <2>3, <2>4, <2>5, AdminSaveStarts DEF AllHandlers, Clearing
<1>5. ASSUME NEW ids \in SUBSET Users \ {{}}, BulkUpdateStatus(r, ids)
      PROVE  Starts(r)
  BY <1>5, BulkStarts
<1>6. ASSUME NEW u \in Users, ResetPassword(r, u)
      PROVE  Starts(r)
  <2>1. PICK q \in Passwords \ {users[u].passwordHash} :
          AdminSave(r, "resetPassword", u, users[u].status,
                    [users[u] EXCEPT !.passwordHash = q])
    BY <1>6 DEF ResetPassword
  <2> DEFINE row == [users[u] EXCEPT !.passwordHash = q]
  <2>2. row \in AccountRow
    BY <1>1, RowTypes
  <2>3. /\ row.failedLoginAttempts = users[u].failedLoginAttempts
        /\ row.accountLockedUntil = users[u].accountLockedUntil
    BY <1>1 DEF AccountRow
  <2>4. RevokesAfterSave("resetPassword", users[u].status)
    BY DEF RevokesAfterSave
  <2>5. AdminSave(r, "resetPassword", u, users[u].status, row)
    BY <2>1
  <2> HIDE DEF row
  <2>6. QED
    BY <2>2, <2>3, <2>4, <2>5, AdminSaveStarts DEF AllHandlers, Setting
<1>7. ASSUME NEW u \in Users, Delete(r, u)
      PROVE  Starts(r)
  <2> DEFINE row == [users[u] EXCEPT !.isDeleted = TRUE]
  <2>1. row \in AccountRow
    BY <1>1, RowTypes
  <2>2. /\ row.failedLoginAttempts = users[u].failedLoginAttempts
        /\ row.accountLockedUntil = users[u].accountLockedUntil
        /\ row.passwordHash = users[u].passwordHash
    BY <1>1 DEF AccountRow
  <2>3. RevokesAfterSave("delete", users[u].status)
    BY DEF RevokesAfterSave
  <2>4. AdminSave(r, "delete", u, users[u].status, row)
    BY <1>7 DEF Delete
  <2> HIDE DEF row
  <2>5. QED
    BY <2>1, <2>2, <2>3, <2>4, AdminSaveStarts DEF AllHandlers
<1>8. ASSUME NEW s \in Requests, TerminateSession(r, s)
      PROVE  Starts(r)
  <2>1. /\ s \in Issued
        /\ \/ Begin(r, "terminateSession", "refused", NoCall)
           \/ Begin(r, "terminateSession", "revokeOne",
                    Call("terminateSession", {sessions[s].user}, s, None, FALSE,
                         NoEntities))
    BY <1>8 DEF TerminateSession
  <2>2. {sessions[s].user} \in SUBSET Users
    BY <2>1, IssuedRow
  <2>3. /\ "terminateSession" \in Paths \ {"login", "loginDenied", "refresh"}
        /\ "revokeOne" \in Opening \ {"reload", "claim"}
    BY DEF Paths, AllHandlers, Opening
  <2>4. QED
    BY <2>1, <2>2, <2>3, RefusedStarts, PlainStarts
<1>9. ASSUME NEW u \in Users, TerminateAllSessions(r, u)
      PROVE  Starts(r)
  <2>1. Begin(r, "terminateAllSessions", "revokeAll",
              Call("terminateAllSessions", {u}, None, None, TRUE, NoEntities))
    BY <1>9 DEF TerminateAllSessions
  <2>2. /\ "terminateAllSessions" \in Paths \ {"login", "loginDenied", "refresh"}
        /\ "revokeAll" \in Opening \ {"reload", "claim"}
    BY DEF Paths, AllHandlers, Opening
  <2>3. QED
    BY <2>1, <2>2, PlainStarts
<1>10. QED
  BY <1>2, <1>3, <1>4, <1>5, <1>6, <1>7, <1>8, <1>9 DEF AdminCall

LEMMA StepCases ==
  ASSUME TypeOK, [Next]_vars
  PROVE  \/ \E r \in Requests : \/ Starts(r)
                                 \/ Reload(r) \/ Write(r)
                                 \/ ClaimWon(r) \/ ClaimLost(r)
                                 \/ RevokeOne(r) \/ RevokeAll(r)
                                 \/ Audit(r) \/ Issue(r) \/ Abort(r)
         \/ UNCHANGED <<users, sessions, pc, frame>>
BY PublicCallStarts, PasswordCallStarts, AdminCallStarts DEF Next, Step, Tick, vars
-----------------------------------------------------------------------------
(* One request at a time *)

\* Request r goes on to its next statement or out.
Moved(r, st) ==
  /\ pc' = [pc EXCEPT ![r] = st]
  /\ \A x \in Requests \ {r} : frame'[x] = frame[x]

\* What the handler was called with is kept.
KeepsCall(r) ==
  /\ frame'[r].path = frame[r].path /\ frame'[r].targets = frame[r].targets
  /\ frame'[r].token = frame[r].token /\ frame'[r].pw = frame[r].pw
  /\ frame'[r].revokes = frame[r].revokes

LEMMA MovedPc ==
  ASSUME Shape, NEW r \in Requests, NEW st, Moved(r, st)
  PROVE  /\ pc'[r] = st
         /\ \A x \in Requests \ {r} : pc'[x] = pc[x] /\ frame'[x] = frame[x]
BY DEF Shape, TypeOK, Moved

\* Nobody else is at work on the accounts of a request under way.
LEMMA Alone ==
  ASSUME Apart, ApartIInv, NEW r \in Requests, pc[r] \in Statements
  PROVE  /\ StillHolds(r)
         /\ \A x \in InFlight \ {r} : frame[x].targets \cap frame[r].targets = {}
         /\ pc[r] # "revokeAll" => \A u \in frame[r].targets : ~Pending(u)
<1>1. r \in InFlight
  BY DEF InFlight
<1>2. \A x \in InFlight \ {r} : frame[x].targets \cap frame[r].targets = {}
  BY <1>1 DEF Apart
<1>3. "revokeAll" \in Statements
  BY DEF Statements
<1>4. \A x \in Requests : pc[x] = "revokeAll" => x \in InFlight
  BY <1>3 DEF InFlight
<1>5. QED
  BY <1>1, <1>2, <1>4 DEF ApartIInv, Pending

\* The sessions there were keep their account and their root.
SessionsNamed ==
  \A s \in Issued : /\ s \in Issued'
                    /\ sessions'[s].user = sessions[s].user
                    /\ sessions'[s].root = sessions[s].root

\* Request x is not concerned by a step of r that saves none of its accounts.
LEMMA OtherHolds ==
  ASSUME Shape, ApartIInv, NEW r \in Requests, NEW st, Moved(r, st),
         pc[r] \notin {"done", "aborted"}, SessionsNamed,
         NEW x \in InFlight, x # r,
         \A u \in frame[x].targets : users'[u] = users[u]
  PROVE  StillHolds(x)'
<1>1. pc'[x] = pc[x] /\ frame'[x] = frame[x] /\ StillHolds(x) /\ x \in Requests
  BY MovedPc DEF InFlight, ApartIInv
<1>2. EntityHolds(frame[x]) => EntityHolds(frame[x])'
  BY <1>1 DEF EntityHolds
<1>3. LoginHolds(x) => LoginHolds(x)'
  BY <1>1 DEF LoginHolds
<1>4. frame[x].path = "refresh" /\ RefreshHolds(x) => RefreshHolds(x)'
  <2> SUFFICES ASSUME frame[x].path = "refresh", RefreshHolds(x)
               PROVE  RefreshHolds(x)'
    OBVIOUS
  <2> DEFINE t == frame[x].token
             u == sessions[t].user
  <2>1. t \in Issued
    BY <1>1, SameFrame DEF FrameFits
  <2>2. sessions'[t].user = u /\ sessions'[t].root = sessions[t].root
    BY <2>1 DEF SessionsNamed
  <2>3. sessions[t].root \in Requests \ {r}
    BY <2>1, IssuedRow DEF Shape, ApartIInv, RootsDone
  <2>4. frame'[sessions[t].root] = frame[sessions[t].root]
    BY <2>3, MovedPc
  <2>5. NothingAborted' => NothingAborted
    BY MovedPc DEF NothingAborted
  <2>6. frame[x].targets = {u} /\ users'[u] = users[u]
    BY DEF RefreshHolds
  <2>7. QED
    BY <1>1, <2>2, <2>4, <2>5, <2>6 DEF RefreshHolds
<1>5. QED
  BY <1>1, <1>2, <1>3, <1>4 DEF StillHolds

\* The invariant but for sessions and counts.
LEMMA MovedHolds ==
  ASSUME Shape, ApartIInv, NEW r \in Requests, NEW st \in Statements \cup Outcomes,
         Moved(r, st), pc[r] \notin {"done", "aborted"}, SessionsNamed,
         \A x \in InFlight \ {r} : \A u \in frame[x].targets : users'[u] = users[u],
         st \in Statements => StillHolds(r)'
  PROVE  /\ IdleFrames'
         /\ \A x \in InFlight' : StillHolds(x)'
<1>1. /\ pc'[r] = st
      /\ \A x \in Requests \ {r} : pc'[x] = pc[x] /\ frame'[x] = frame[x]
  BY MovedPc
<1>2. st # "idle"
  BY DEF Statements, Outcomes
<1>3. IdleFrames'
  BY <1>1, <1>2 DEF ApartIInv, IdleFrames
<1>4. ASSUME NEW x \in InFlight'
      PROVE  StillHolds(x)'
  <2>1. CASE x = r
    BY <1>1, <2>1 DEF InFlight
  <2>2. CASE x # r
    <3>1. x \in InFlight \ {r}
      BY <1>1, <2>2 DEF InFlight
    <3>2. QED
      BY <2>2, <3>1, OtherHolds
  <2>3. QED
    BY <2>1, <2>2
<1>5. QED
  BY <1>3, <1>4

\* The sessions keep their account and their root, and none comes alive.
SessionsKept ==
  /\ Issued' = Issued
  /\ SessionsNamed
  /\ \A s \in Issued : Live(s)' => Live(s)

LEMMA RootsKept ==
  ASSUME Shape, ApartIInv, NEW r \in Requests, NEW st, Moved(r, st),
         pc[r] # "done", SessionsKept
  PROVE  RootsDone'
<1>1. \A s \in Issued : sessions[s].root \in Requests /\ pc[sessions[s].root] = "done"
  BY IssuedRow DEF Shape, ApartIInv, RootsDone
<1>2. \A x \in Requests \ {r} : pc'[x] = pc[x]
  BY MovedPc
<1>3. QED
  BY <1>1, <1>2 DEF RootsDone, SessionsKept, SessionsNamed

\* A step that saves no account and does not end a revocation.
LEMMA SessionsStillHold ==
  ASSUME Shape, ApartIInv, NEW r \in Requests, NEW st, Moved(r, st),
         pc[r] \notin {"done", "aborted", "revokeAll"},
         users' = users, SessionsKept, NoUpdate' => NoUpdate
  PROVE  SessionsHold'
<1> SUFFICES ASSUME NothingAborted', NEW s \in Issued', Live(s)',
                    ~Pending(sessions[s].user)'
             PROVE  LET row == users'[sessions'[s].user] IN
                    /\ frame'[sessions'[s].root].pw = row.passwordHash
                    /\ NoUpdate' => row.status \notin Barred /\ ~row.isDeleted
  BY DEF SessionsHold
<1>1. \A x \in Requests \ {r} : pc'[x] = pc[x] /\ frame'[x] = frame[x]
  BY MovedPc
<1>2. /\ s \in Issued /\ Live(s) /\ sessions'[s].user = sessions[s].user
      /\ sessions'[s].root = sessions[s].root
  BY DEF SessionsKept, SessionsNamed
<1>3. sessions[s].root \in Requests \ {r}
  BY <1>2, IssuedRow DEF Shape, ApartIInv, RootsDone
<1>4. ~Pending(sessions[s].user)
  BY <1>1, <1>2 DEF Pending
<1>5. NothingAborted
  BY <1>1 DEF NothingAborted
<1>6. LET row == users[sessions[s].user] IN
        /\ frame[sessions[s].root].pw = row.passwordHash
        /\ NoUpdate => row.status \notin Barred /\ ~row.isDeleted
  BY <1>2, <1>4, <1>5 DEF ApartIInv, SessionsHold
<1>7. QED
  BY <1>1, <1>2, <1>3, <1>6

LEMMA CountsKept ==
  ASSUME ApartIInv,
         \A u \in Users :
           /\ Uncleared(u)' => Uncleared(u)
           /\ Counted(u)' \subseteq Counted(u)
           /\ users'[u].failedLoginAttempts = users[u].failedLoginAttempts
           /\ users'[u].accountLockedUntil = users[u].accountLockedUntil,
         Shape
  PROVE  CountsHold'
<1> SUFFICES ASSUME NEW u \in Users, Uncleared(u)'
             PROVE  /\ IsFiniteSet(Counted(u)')
                    /\ Cardinality(Counted(u)') <= users'[u].failedLoginAttempts
                    /\ users'[u].failedLoginAttempts >= MaxFailedAttempts =>
                         users'[u].accountLockedUntil > 0
  BY DEF CountsHold
<1>1. /\ IsFiniteSet(Counted(u))
      /\ Cardinality(Counted(u)) <= users[u].failedLoginAttempts
      /\ users[u].failedLoginAttempts >= MaxFailedAttempts =>
           users[u].accountLockedUntil > 0
  BY DEF ApartIInv, CountsHold
<1>2. users[u].failedLoginAttempts \in Nat
  BY DEF Shape, TypeOK, AccountRow
<1> DEFINE S == Counted(u)
           T == Counted(u)'
           n == users[u].failedLoginAttempts
<1>3. T \subseteq S /\ IsFiniteSet(S) /\ Cardinality(S) <= n /\ n \in Nat
  BY <1>1, <1>2
<1>4. IsFiniteSet(T) /\ Cardinality(T) <= n
  <2> HIDE DEF S, T, n
  <2>1. QED
    BY <1>3, PartBounded
<1>5. QED
  BY <1>1, <1>4

\* A request that is not a denied login about to be counted.
LEMMA CountedKept ==
  ASSUME Shape, NEW r \in Requests, NEW st, Moved(r, st),
         \/ frame'[r].path = frame[r].path /\ frame'[r].targets = frame[r].targets
         \/ frame[r].path \notin Clearing \cup {"loginDenied"} /\ frame'[r] = NoCall,
         frame[r].path = "loginDenied" /\ st \in {"audit", "denied"} => pc[r] = "audit",
         NEW u
  PROVE  /\ Uncleared(u)' => Uncleared(u)
         /\ Counted(u)' \subseteq Counted(u)
<1>1. /\ pc'[r] = st
      /\ \A x \in Requests \ {r} : pc'[x] = pc[x] /\ frame'[x] = frame[x]
  BY MovedPc
<1>2. NoCall.path = "none" /\ NoCall.targets = {}
  BY DEF NoCall, Call
<1>3. QED
  BY <1>1, <1>2 DEF Uncleared, Counted

-----------------------------------------------------------------------------
(* Statements that save no account *)

LEMMA CalmApart ==
  ASSUME Shape, ApartIInv, NEW r \in Requests,
         NEW st \in Statements \cup Outcomes, Moved(r, st), pc[r] \in Statements,
         users' = users, SessionsKept,
         KeepsCall(r) \/ (frame[r].path = "refresh" /\ frame'[r] = NoCall),
         frame[r].path = "loginDenied" /\ st \in {"audit", "denied"} => pc[r] = "audit",
         st \in Statements => StillHolds(r)',
         pc[r] # "revokeAll" \/ SessionsHold'
  PROVE  ApartIInv'
<1>1. /\ SessionsNamed
      /\ \A x \in InFlight \ {r} :
           \A u \in frame[x].targets : users'[u] = users[u]
  BY DEF SessionsKept
<1>2. pc[r] \notin {"done", "aborted"}
  BY DEF Statements
<1>3. /\ IdleFrames'
       /\ \A x \in InFlight' : StillHolds(x)'
  BY <1>1, <1>2, MovedHolds
<1>4. RootsDone'
  BY <1>2, RootsKept
<1>5. frame[r].path \notin {"update"} \/ frame'[r].path = frame[r].path
  BY DEF KeepsCall
<1>6. SessionsHold'
  <2>1. CASE pc[r] = "revokeAll"
    BY <2>1
  <2>2. CASE pc[r] # "revokeAll"
    <3>1. /\ pc'[r] = st
          /\ \A x \in Requests \ {r} : pc'[x] = pc[x] /\ frame'[x] = frame[x]
      BY MovedPc
    <3>2. NoUpdate' => NoUpdate
      BY <1>5, <3>1 DEF NoUpdate
    <3>3. QED
      BY <1>2, <2>2, <3>2, SessionsStillHold
  <2>3. QED
    BY <2>1, <2>2
<1>7. /\ frame[r].path = "refresh" =>
           frame[r].path \notin Clearing \cup {"loginDenied"}
      /\ KeepsCall(r) =>
           frame'[r].path = frame[r].path /\ frame'[r].targets = frame[r].targets
  BY DEF Clearing, KeepsCall
<1>8. \A u : /\ Uncleared(u)' => Uncleared(u)
             /\ Counted(u)' \subseteq Counted(u)
  BY <1>7, CountedKept
<1>9. CountsHold'
  BY <1>8, CountsKept
<1>10. QED
  BY <1>3, <1>4, <1>6, <1>9 DEF ApartIInv

\* A request that goes on with its own frame.
LEMMA SameFrameMoves ==
  ASSUME Shape, NEW r \in Requests, NEW st, pc' = [pc EXCEPT ![r] = st],
         frame' = frame
  PROVE  Moved(r, st) /\ KeepsCall(r) /\ pc'[r] = st
BY DEF Shape, TypeOK, Moved, KeepsCall

LEMMA SessionsSame ==
  ASSUME sessions' = sessions
  PROVE  SessionsKept
BY DEF SessionsKept, SessionsNamed, Issued, Live

LEMMA ReloadApart ==
  ASSUME Shape, Apart, ApartIInv, NEW r \in Requests, Reload(r)
  PROVE  ApartIInv'
<1> DEFINE b == [u \in Users |-> IF u \in frame[r].targets
                                 THEN users[u] ELSE None]
           f == [frame[r] EXCEPT !.base = b]
<1>1. /\ pc[r] = "reload"
      /\ pc' = [pc EXCEPT ![r] = "write"]
      /\ frame' = [frame EXCEPT ![r] = f]
      /\ users' = users /\ sessions' = sessions
  BY DEF Reload
<1>2. frame[r].targets \in SUBSET Users
  BY SameFrame DEF Frame
<1>3. \A u \in frame[r].targets : b[u] = users[u]
  BY <1>2
<1> HIDE DEF b
<1>4. /\ f.base = b /\ f.ent = frame[r].ent
      /\ f.targets = frame[r].targets /\ f.path = frame[r].path
      /\ f.token = frame[r].token /\ f.pw = frame[r].pw
      /\ f.revokes = frame[r].revokes
  BY SameFrame DEF Frame
<1> HIDE DEF f
<1>5. frame'[r] = f /\ \A x \in Requests \ {r} : frame'[x] = frame[x]
  BY <1>1 DEF Shape, TypeOK
<1>6. Moved(r, "write") /\ KeepsCall(r)
  BY <1>1, <1>4, <1>5 DEF Moved, KeepsCall
<1>7. pc'[r] = "write" /\ "write" \in Statements /\ pc[r] \in Statements
  BY <1>1, <1>6, MovedPc DEF Statements
<1>8. StillHolds(r)
  BY <1>7, Alone
<1>9. EntityHolds(frame[r])'
  BY <1>1, <1>4, <1>5, <1>8 DEF StillHolds, EntityHolds
<1>10. frame[r].path = "login" => LoginHolds(r)'
  BY <1>1, <1>4, <1>5, <1>8 DEF StillHolds, LoginHolds
<1>11. StillHolds(r)'
  BY <1>1, <1>3, <1>4, <1>5, <1>7, <1>9, <1>10 DEF StillHolds
<1>12. QED
  BY <1>1, <1>6, <1>7, <1>11, SessionsSame, CalmApart

LEMMA ClaimLostApart ==
  ASSUME Shape, Apart, ApartIInv, NEW r \in Requests, ClaimLost(r)
  PROVE  ApartIInv'
<1>1. /\ pc[r] = "claim" /\ pc' = [pc EXCEPT ![r] = "refused"]
      /\ frame' = [frame EXCEPT ![r] = NoCall]
      /\ users' = users /\ sessions' = sessions
  BY DEF ClaimLost
<1>2. frame[r].path = "refresh"
  BY <1>1, SameFrame DEF FrameFits
<1>3. Moved(r, "refused") /\ frame'[r] = NoCall
  BY <1>1 DEF Moved, Shape, TypeOK
<1>4. /\ "refused" \in Outcomes /\ "refused" \notin Statements
      /\ pc[r] \in Statements
  BY <1>1 DEF Statements, Outcomes
<1>5. QED
  BY <1>1, <1>2, <1>3, <1>4, SessionsSame, CalmApart

LEMMA AbortApart ==
  ASSUME Shape, Apart, ApartIInv, NEW r \in Requests, Abort(r)
  PROVE  ApartIInv'
<1> DEFINE f == [frame[r] EXCEPT !.ent = NoEntities, !.base = NoEntities]
<1>1. /\ pc[r] \in Statements
      /\ pc' = [pc EXCEPT ![r] = "aborted"]
      /\ frame' = [frame EXCEPT ![r] = f]
      /\ users' = users /\ sessions' = sessions
  <2>1. frame' = [frame EXCEPT ![r].ent = NoEntities, ![r].base = NoEntities]
    BY DEF Abort
  <2>2. frame' = [frame EXCEPT ![r] = f]
    BY <2>1 DEF Shape, TypeOK
  <2>3. QED
    BY <2>2 DEF Abort
<1>2. /\ f.targets = frame[r].targets /\ f.path = frame[r].path
      /\ f.token = frame[r].token /\ f.pw = frame[r].pw
      /\ f.revokes = frame[r].revokes
  BY SameFrame DEF Frame
<1> HIDE DEF f
<1>3. frame'[r] = f /\ \A x \in Requests \ {r} : frame'[x] = frame[x]
  BY <1>1 DEF Shape, TypeOK
<1>4. Moved(r, "aborted") /\ KeepsCall(r)
  BY <1>1, <1>2, <1>3 DEF Moved, KeepsCall
<1>5. pc'[r] = "aborted"
  BY <1>4, MovedPc
<1>6. SessionsHold'
  BY <1>5 DEF SessionsHold, NothingAborted
<1>7. "aborted" \in Outcomes /\ "aborted" \notin Statements \cup {"audit", "denied"}
  BY DEF Statements, Outcomes
<1>8. QED
  BY <1>1, <1>4, <1>6, <1>7, SessionsSame, CalmApart

LEMMA AuditApart ==
  ASSUME Shape, Apart, ApartIInv, NEW r \in Requests, Audit(r)
  PROVE  ApartIInv'
<1>1. PICK st : /\ pc' = [pc EXCEPT ![r] = st]
                /\ st \in {"audit", AfterAudit(r)}
  BY DEF Audit
<1>2. /\ pc[r] = "audit" /\ frame' = frame
      /\ users' = users /\ sessions' = sessions
  BY DEF Audit
<1>3. /\ AfterAudit(r) \in {"issue", "denied", "done"}
      /\ frame[r].path = "login" => AfterAudit(r) = "issue"
      /\ frame[r].path = "loginDenied" => AfterAudit(r) = "denied"
      /\ frame[r].path = "refresh" => AfterAudit(r) = "done"
  BY DEF AfterAudit
<1>4. Moved(r, st) /\ KeepsCall(r) /\ pc'[r] = st
  BY <1>1, <1>2, SameFrameMoves
<1>5. pc[r] \in Statements /\ st \in Statements \cup Outcomes
  BY <1>1, <1>2, <1>3 DEF Statements, Outcomes
<1>6. StillHolds(r)
  BY <1>5, Alone
<1>7. ASSUME st \in Statements
      PROVE  StillHolds(r)'
  <2>1. st \in {"audit", "issue"}
    BY <1>1, <1>3, <1>7 DEF Statements
  <2>2. frame[r].path = "login" => LoginHolds(r)'
    BY <1>2, <1>6 DEF StillHolds, LoginHolds
  <2>3. frame[r].path = "refresh" => st = "audit"
    BY <1>1, <1>3, <2>1
  <2>4. frame[r].path = "loginDenied" => st = "audit"
    BY <1>1, <1>3, <2>1
  <2>5. QED
    BY <1>2, <1>4, <2>1, <2>2, <2>3, <2>4 DEF StillHolds
<1>8. QED
  BY <1>2, <1>4, <1>5, <1>7, SessionsSame, CalmApart
-----------------------------------------------------------------------------
(* Revocations *)

LEMMA RevokingKeeps ==
  ASSUME Shape, NEW r \in Requests, NEW S \in SUBSET Issued, NEW st,
         Revoking(r, S, st)
  PROVE  /\ SessionsKept /\ users' = users /\ frame' = frame
         /\ Moved(r, st) /\ KeepsCall(r) /\ pc'[r] = st
         /\ \A s \in S : ~Live(s)'
<1>1. /\ sessions' = [s \in Requests |-> IF s \in S THEN Revoked(sessions[s])
                                                    ELSE sessions[s]]
      /\ pc' = [pc EXCEPT ![r] = st] /\ users' = users /\ frame' = frame
  BY DEF Revoking
<1>2. /\ Issued' = Issued
      /\ \A s \in Issued : /\ sessions'[s].user = sessions[s].user
                           /\ sessions'[s].root = sessions[s].root
                           /\ s \in S => sessions'[s].isRevoked
                           /\ s \notin S => sessions'[s] = sessions[s]
  BY <1>1, RevokingSessions DEF Shape
<1>3. \A s \in Issued : Live(s)' => Live(s)
  BY <1>2 DEF Live
<1>4. \A s \in S : ~Live(s)'
  BY <1>2 DEF Live
<1>5. QED
  BY <1>1, <1>2, <1>3, <1>4, SameFrameMoves DEF SessionsKept, SessionsNamed

LEMMA ClaimWonApart ==
  ASSUME Shape, Apart, ApartIInv, NEW r \in Requests, ClaimWon(r)
  PROVE  ApartIInv'
<1> DEFINE t == frame[r].token
<1>1. /\ t \in Issued /\ frame[r].path = "refresh" /\ Live(t) /\ pc[r] = "claim"
      /\ Revoking(r, {t}, "issue")
  BY ClaimWonRevokes
<1>2. /\ SessionsKept /\ users' = users /\ frame' = frame
      /\ Moved(r, "issue") /\ KeepsCall(r) /\ pc'[r] = "issue"
  BY <1>1, RevokingKeeps
<1>3. "claim" \in Statements /\ "issue" \in Statements
  BY DEF Statements
<1>4. StillHolds(r) /\ \A u \in frame[r].targets : ~Pending(u)
  BY <1>1, <1>3, Alone
<1>5. /\ frame[r].targets = {sessions[t].user}
      /\ users[sessions[t].user].status = "ACTIVE"
      /\ ~users[sessions[t].user].isDeleted
  BY <1>1, <1>4 DEF StillHolds, RefreshHolds
<1>6. NothingAborted' => NothingAborted
  BY <1>1, <1>2, MovedPc DEF NothingAborted
<1>7. NothingAborted =>
        frame[sessions[t].root].pw = users[sessions[t].user].passwordHash
  BY <1>1, <1>4, <1>5 DEF ApartIInv, SessionsHold
<1>8. sessions'[t].user = sessions[t].user /\ sessions'[t].root = sessions[t].root
  BY <1>1, <1>2 DEF SessionsKept, SessionsNamed
<1>9. RefreshHolds(r)'
  BY <1>2, <1>5, <1>6, <1>7, <1>8 DEF RefreshHolds
<1>10. StillHolds(r)'
  BY <1>1, <1>2, <1>9 DEF StillHolds
<1>11. QED
  BY <1>1, <1>2, <1>3, <1>10, CalmApart

\* The frame of a request that revokes and then logs.
LEMMA RevokedHolds ==
  ASSUME NEW r \in Requests, StillHolds(r), users' = users, frame' = frame,
         pc'[r] = "audit"
  PROVE  StillHolds(r)'
<1>1. frame[r].path = "login" => LoginHolds(r)'
  BY DEF StillHolds, LoginHolds
<1>2. QED
  BY <1>1 DEF StillHolds

LEMMA RevokeOneApart ==
  ASSUME Shape, Apart, ApartIInv, NEW r \in Requests, RevokeOne(r)
  PROVE  ApartIInv'
<1>1. /\ frame[r].token \in Issued /\ pc[r] = "revokeOne"
      /\ Revoking(r, {frame[r].token}, "audit")
  BY RevokeOneRevokes
<1>2. /\ SessionsKept /\ users' = users /\ frame' = frame
      /\ Moved(r, "audit") /\ KeepsCall(r) /\ pc'[r] = "audit"
  BY <1>1, RevokingKeeps
<1>3. "revokeOne" \in Statements /\ "audit" \in Statements
  BY DEF Statements
<1>4. StillHolds(r)
  BY <1>1, <1>3, Alone
<1>5. StillHolds(r)'
  BY <1>2, <1>4, RevokedHolds
<1>6. frame[r].path # "loginDenied"
  BY <1>1, <1>4 DEF StillHolds
<1>7. QED
  BY <1>1, <1>2, <1>3, <1>5, <1>6, CalmApart

\* What was stale is revoked: the accounts this request has saved lose every
\* session, and no other account waits for that.
LEMMA RevokeAllApart ==
  ASSUME Shape, Apart, ApartIInv, NEW r \in Requests, RevokeAll(r)
  PROVE  ApartIInv'
<1> DEFINE S == RevocationScope(r)
<1>1. /\ S \in SUBSET Issued /\ pc[r] = "revokeAll" /\ Revoking(r, S, "audit")
  BY RevokeAllRevokes
<1>2. /\ SessionsKept /\ users' = users /\ frame' = frame
      /\ Moved(r, "audit") /\ KeepsCall(r) /\ pc'[r] = "audit"
      /\ \A s \in S : ~Live(s)'
  BY <1>1, RevokingKeeps
<1>3. "revokeAll" \in Statements /\ "audit" \in Statements
  BY DEF Statements
<1>4. StillHolds(r)
  BY <1>1, <1>3, Alone
<1>5. StillHolds(r)'
  BY <1>2, <1>4, RevokedHolds
<1>6. frame[r].path # "loginDenied"
  BY <1>1, <1>4 DEF StillHolds
<1>7. SessionsHold'
  <2> SUFFICES ASSUME NothingAborted', NEW s \in Issued', Live(s)',
                      ~Pending(sessions[s].user)'
               PROVE  LET row == users'[sessions'[s].user] IN
                      /\ frame'[sessions'[s].root].pw = row.passwordHash
                      /\ NoUpdate' => row.status \notin Barred /\ ~row.isDeleted
    BY DEF SessionsHold
  <2>1. /\ s \in Issued /\ Live(s) /\ sessions'[s].user = sessions[s].user
        /\ sessions'[s].root = sessions[s].root /\ s \notin S
    BY <1>2 DEF SessionsKept, SessionsNamed
  <2>2. s \in Requests /\ sessions[s].isActive
    BY <2>1, IssuedRow DEF Shape, Live
  <2>3. sessions[s].user \notin frame[r].targets
    BY <2>1, <2>2 DEF RevocationScope
  <2>4. ~Pending(sessions[s].user)
    <3>1. \A x \in Requests \ {r} : pc'[x] = pc[x]
      BY <1>2, MovedPc
    <3>2. QED
      BY <1>2, <2>1, <2>3, <3>1 DEF Pending
  <2>5. NothingAborted /\ (NoUpdate' => NoUpdate)
    <3>1. NothingAborted
      BY <1>1, <1>2, MovedPc DEF NothingAborted
    <3>2. NoUpdate' => NoUpdate
      BY <1>2 DEF NoUpdate
    <3>3. QED
      BY <3>1, <3>2
  <2>6. LET row == users[sessions[s].user] IN
          /\ frame[sessions[s].root].pw = row.passwordHash
          /\ NoUpdate => row.status \notin Barred /\ ~row.isDeleted
    BY <2>1, <2>4, <2>5 DEF ApartIInv, SessionsHold
  <2>7. QED
    BY <1>2, <2>1, <2>5, <2>6
<1>8. QED
  BY <1>1, <1>2, <1>3, <1>5, <1>6, <1>7, CalmApart

-----------------------------------------------------------------------------
(* The new session *)

LEMMA IssueApart ==
  ASSUME Shape, Apart, ApartIInv, NEW r \in Requests, Issue(r)
  PROVE  ApartIInv'
<1> DEFINE t == frame[r].token
<1>1. /\ pc[r] = "issue" /\ r \notin Issued /\ Issued' = Issued \cup {r}
      /\ pc' = [pc EXCEPT ![r] = "done"]
      /\ users' = users /\ frame' = frame
      /\ \A s \in Requests : s # r => sessions'[s] = sessions[s]
      /\ sessions'[r].user \in frame[r].targets
      /\ frame[r].path \in {"login", "refresh"}
      /\ frame[r].path = "login" => sessions'[r].root = r
      /\ frame[r].path = "refresh" =>
           t \in Issued /\ sessions'[r].root = sessions[t].root
  BY IssueInserts
<1>2. Moved(r, "done") /\ KeepsCall(r) /\ pc'[r] = "done"
  BY <1>1, SameFrameMoves
<1>3. /\ "issue" \in Statements /\ "done" \in Outcomes /\ "done" \notin Statements
  BY DEF Statements, Outcomes
<1>4. StillHolds(r)
  BY <1>1, <1>3, Alone
<1>5. /\ IdleFrames'
      /\ \A x \in InFlight' : StillHolds(x)'
  <2>1. SessionsNamed
    BY <1>1, IssuedRow DEF Shape, SessionsNamed
  <2>2. QED
    BY <1>1, <1>2, <1>3, <2>1, MovedHolds
<1>6. \A x \in Requests \ {r} : pc'[x] = pc[x]
  BY <1>2, MovedPc
<1>7. \A s \in Issued : /\ s \in Requests \ {r} /\ sessions'[s] = sessions[s]
                        /\ sessions[s].root \in Requests
                        /\ pc[sessions[s].root] = "done"
  BY <1>1, IssuedRow DEF Shape, ApartIInv, RootsDone
<1>8. RootsDone'
  <2>1. pc'[sessions'[r].root] = "done"
    BY <1>1, <1>2, <1>6, <1>7
  <2>2. \A s \in Issued : pc'[sessions'[s].root] = "done"
    BY <1>1, <1>6, <1>7
  <2>3. QED
    BY <1>1, <2>1, <2>2 DEF RootsDone
<1>9. NothingAborted' => NothingAborted
  BY <1>1, <1>6 DEF NothingAborted
<1>10. SessionsHold'
  <2>1. ASSUME NothingAborted, NEW s \in Issued, Live(s)',
               ~Pending(sessions[s].user)'
        PROVE  LET row == users'[sessions'[s].user] IN
               /\ frame'[sessions'[s].root].pw = row.passwordHash
               /\ NoUpdate' => row.status \notin Barred /\ ~row.isDeleted
    <3>1. Live(s)
      BY <1>7, <2>1 DEF Live
    <3>2. NoUpdate' => NoUpdate
      BY <1>1 DEF NoUpdate
    <3>3. ~Pending(sessions[s].user)
      BY <1>1, <1>6, <1>7, <2>1 DEF Pending
    <3>4. LET row == users[sessions[s].user] IN
            /\ frame[sessions[s].root].pw = row.passwordHash
            /\ NoUpdate => row.status \notin Barred /\ ~row.isDeleted
      BY <2>1, <3>1, <3>3 DEF ApartIInv, SessionsHold
    <3>5. QED
      BY <1>1, <1>7, <3>2, <3>4
  <2>2. ASSUME NothingAborted
        PROVE  LET row == users'[sessions'[r].user] IN
               /\ frame'[sessions'[r].root].pw = row.passwordHash
               /\ row.status \notin Barred /\ ~row.isDeleted
    <3>1. "ACTIVE" \notin Barred
      BY DEF Barred
    <3>2. CASE frame[r].path = "login"
      BY <1>1, <1>4, <3>1, <3>2 DEF StillHolds, LoginHolds
    <3>3. CASE frame[r].path = "refresh"
      BY <1>1, <1>4, <2>2, <3>1, <3>3 DEF StillHolds, RefreshHolds
    <3>4. QED
      BY <1>1, <3>2, <3>3
  <2>3. QED
    BY <1>1, <1>9, <2>1, <2>2 DEF SessionsHold
<1>11. \A u : /\ Uncleared(u)' => Uncleared(u)
              /\ Counted(u)' \subseteq Counted(u)
  BY <1>1, <1>2, CountedKept DEF KeepsCall
<1>12. CountsHold'
  BY <1>1, <1>11, CountsKept
<1>13. QED
  BY <1>5, <1>8, <1>10, <1>12 DEF ApartIInv
-----------------------------------------------------------------------------
(* The first statement *)

LEMMA StartApart ==
  ASSUME Shape, ApartIInv, NEW r \in Requests, Starts(r)
  PROVE  ApartIInv'
<1>1. PICK st \in Opening, c \in Frame :
        /\ CallHolds(st, c)
        /\ pc' = [pc EXCEPT ![r] = st]
        /\ frame' = [frame EXCEPT ![r] = c]
  BY DEF Starts
<1>2. pc[r] = "idle" /\ users' = users /\ sessions' = sessions
  BY DEF Starts
<1>3. frame[r].path = "none" /\ frame[r].targets = {}
  BY <1>2 DEF ApartIInv, IdleFrames, NoCall, Call
<1>4. Moved(r, st) /\ frame'[r] = c /\ pc'[r] = st
  BY <1>1 DEF Moved, Shape, TypeOK
<1>5. /\ st \in Statements \cup Outcomes
      /\ st \notin {"write", "issue", "denied", "aborted"}
      /\ "reload" \in Statements
  BY DEF Opening, Statements, Outcomes
<1>6. EntityHolds(c)' = EntityHolds(c)
  BY <1>2 DEF EntityHolds
<1>7. StillHolds(r)'
  <2>1. st = "reload" => EntityHolds(frame[r])'
    BY <1>1, <1>2, <1>4 DEF CallHolds, EntityHolds
  <2>2. c.path = "login" => LoginHolds(r)'
    BY <1>1, <1>2, <1>4 DEF CallHolds, LoginHolds
  <2>3. c.path = "loginDenied" => st = "reload"
    BY <1>1 DEF CallHolds
  <2>4. st = "claim" /\ c.path = "refresh" => RefreshHolds(r)'
    BY <1>1, <1>2, <1>4 DEF CallHolds, RefreshHolds
  <2>5. QED
    BY <1>4, <1>5, <2>1, <2>2, <2>3, <2>4 DEF StillHolds
<1>8. SessionsKept /\ SessionsNamed
  BY <1>2, SessionsSame DEF SessionsKept
<1>9. /\ IdleFrames'
      /\ \A x \in InFlight' : StillHolds(x)'
  BY <1>2, <1>4, <1>5, <1>7, <1>8, MovedHolds
<1>10. RootsDone'
  BY <1>2, <1>4, <1>8, RootsKept
<1>11. \A x \in Requests \ {r} : pc'[x] = pc[x] /\ frame'[x] = frame[x]
  BY <1>4, MovedPc
<1>12. NoUpdate' => NoUpdate
  BY <1>3, <1>11 DEF NoUpdate
<1>13. SessionsHold'
  BY <1>2, <1>4, <1>8, <1>12, SessionsStillHold
<1>14. \A u : /\ Uncleared(u)' => Uncleared(u)
              /\ Counted(u)' \subseteq Counted(u)
  <2>1. c.path = "loginDenied" => st \notin {"audit", "denied"}
    BY <1>1 DEF CallHolds
  <2>2. QED
    BY <1>3, <1>4, <1>11, <2>1 DEF Uncleared, Counted
<1>15. CountsHold'
  BY <1>2, <1>14, CountsKept
<1>16. QED
  BY <1>9, <1>10, <1>13, <1>15 DEF ApartIInv

-----------------------------------------------------------------------------
(* Saving accounts *)

\* What a save does when nobody else has written since it read the rows: every
\* account becomes the entity.
Saves(r, st) ==
  /\ pc[r] = "write" /\ Moved(r, st) /\ KeepsCall(r)
  /\ st = AfterWrite(r) /\ sessions' = sessions
  /\ \A u \in Users : u \notin frame[r].targets => users'[u] = users[u]
  /\ \A u \in frame[r].targets :
       LET new == users'[u]
           ent == frame[r].ent[u]
       IN  /\ u \in Users
           /\ new.status = ent.status /\ new.isDeleted = ent.isDeleted
           /\ new.passwordHash = ent.passwordHash
           /\ new.failedLoginAttempts = ent.failedLoginAttempts
           /\ new.accountLockedUntil = ent.accountLockedUntil

LEMMA WriteSaves ==
  ASSUME Shape, Apart, ApartIInv, NEW r \in Requests, Write(r)
  PROVE  Saves(r, AfterWrite(r))
<1> DEFINE f == [frame[r] EXCEPT !.ent = NoEntities, !.base = NoEntities]
           st == AfterWrite(r)
<1>1. /\ pc[r] = "write" /\ sessions' = sessions
      /\ pc' = [pc EXCEPT ![r] = st]
      /\ frame' = [frame EXCEPT ![r] = f]
      /\ users' = [u \in Users |->
                    IF u \in frame[r].targets
                    THEN Merge(users[u], frame[r].base[u], frame[r].ent[u])
                    ELSE users[u]]
  <2>1. frame' = [frame EXCEPT ![r].ent = NoEntities, ![r].base = NoEntities]
    BY DEF Write
  <2>2. frame' = [frame EXCEPT ![r] = f]
    BY <2>1 DEF Shape, TypeOK
  <2>3. QED
    BY <2>2 DEF Write
<1>2. /\ f.targets = frame[r].targets /\ f.path = frame[r].path
      /\ f.token = frame[r].token /\ f.pw = frame[r].pw
      /\ f.revokes = frame[r].revokes
  BY SameFrame DEF Frame
<1> HIDE DEF f, st
<1>3. frame'[r] = f /\ \A x \in Requests \ {r} : frame'[x] = frame[x]
  BY <1>1 DEF Shape, TypeOK
<1>4. Moved(r, st) /\ KeepsCall(r)
  BY <1>1, <1>2, <1>3 DEF Moved, KeepsCall
<1>5. frame[r].targets \in SUBSET Users
  BY SameFrame DEF Frame
<1>6. \A u \in frame[r].targets : frame[r].base[u] = users[u]
  BY <1>1, Alone DEF StillHolds, Statements
<1>7. \A u \in frame[r].targets :
        frame[r].ent[u] \in AccountRow /\ users[u] \in AccountRow
  BY <1>1, <1>5, SameFrame DEF FrameFits, Shape, TypeOK
<1>8. \A u \in frame[r].targets :
        users'[u] = Merge(users[u], users[u], frame[r].ent[u])
  BY <1>1, <1>5, <1>6
<1>9. \A u \in frame[r].targets :
        LET new == users'[u]
            ent == frame[r].ent[u]
        IN  /\ u \in Users
            /\ new.status = ent.status /\ new.isDeleted = ent.isDeleted
            /\ new.passwordHash = ent.passwordHash
            /\ new.failedLoginAttempts = ent.failedLoginAttempts
            /\ new.accountLockedUntil = ent.accountLockedUntil
  BY <1>5, <1>7, <1>8, MergeFresh
<1>10. \A u \in Users : u \notin frame[r].targets => users'[u] = users[u]
  BY <1>1
<1>11. QED
  BY <1>1, <1>4, <1>9, <1>10 DEF Saves, st

\* A save that makes sessions stale is followed by their revocation.
LEMMA SavedSessionsHold ==
  ASSUME Shape, Apart, ApartIInv, NEW r \in Requests, NEW st, Saves(r, st)
  PROVE  SessionsHold'
<1>1. /\ pc[r] = "write" /\ Moved(r, st) /\ KeepsCall(r) /\ sessions' = sessions
      /\ frame[r].revokes => st = "revokeAll"
  BY DEF Saves, AfterWrite
<1>2. StillHolds(r)
  BY <1>1, Alone DEF Statements
<1>3. EntityHolds(frame[r])
  BY <1>1, <1>2 DEF StillHolds
<1>4. /\ pc'[r] = st
      /\ \A x \in Requests \ {r} : pc'[x] = pc[x] /\ frame'[x] = frame[x]
  BY <1>1, MovedPc
<1>5. NothingAborted' => NothingAborted
  BY <1>1, <1>4 DEF NothingAborted
<1>6. /\ NoUpdate' => NoUpdate
      /\ NoUpdate' => frame[r].path # "update"
  BY <1>1, <1>4 DEF NoUpdate, KeepsCall
<1>7. \A x \in Requests : frame'[x].pw = frame[x].pw
  BY <1>1, <1>4 DEF KeepsCall
<1> SUFFICES ASSUME NothingAborted', NEW s \in Issued', Live(s)',
                    ~Pending(sessions[s].user)'
             PROVE  LET row == users'[sessions[s].user] IN
                    /\ frame'[sessions[s].root].pw = row.passwordHash
                    /\ NoUpdate' => row.status \notin Barred /\ ~row.isDeleted
  BY <1>1 DEF SessionsHold
<1> DEFINE u == sessions[s].user
<1>8. s \in Issued /\ Live(s)
  BY <1>1 DEF Issued, Live
<1>9. u \in Users /\ sessions[s].root \in Requests
  BY <1>8, IssuedRow DEF Shape
<1>10. /\ frame[sessions[s].root].pw = users[u].passwordHash
       /\ NoUpdate => users[u].status \notin Barred /\ ~users[u].isDeleted
  <2>1. ~Pending(u)
    BY <1>1, <1>4 DEF Pending
  <2>2. QED
    BY <1>5, <1>8, <2>1 DEF ApartIInv, SessionsHold
<1>11. CASE u \notin frame[r].targets
  BY <1>6, <1>7, <1>9, <1>10, <1>11 DEF Saves
<1>12. CASE u \in frame[r].targets
  <2>1. ~frame[r].revokes
    BY <1>1, <1>4, <1>12 DEF Pending, KeepsCall
  <2>2. /\ users'[u].passwordHash = users[u].passwordHash
        /\ frame[r].path # "update" =>
             /\ users'[u].status \in Barred => users'[u].status = users[u].status
             /\ users'[u].isDeleted = users[u].isDeleted
    BY <1>3, <1>12, <2>1 DEF EntityHolds, Saves
  <2>3. QED
    BY <1>6, <1>7, <1>9, <1>10, <2>2
<1>13. QED
  BY <1>11, <1>12

\* A failed login that is saved is counted, and the count reaches the limit
\* with a lock; only the clearing handlers take either back.
LEMMA SavedCountsHold ==
  ASSUME Shape, Apart, ApartIInv, NEW r \in Requests, NEW st, Saves(r, st)
  PROVE  CountsHold'
<1>1. /\ pc[r] = "write" /\ Moved(r, st) /\ KeepsCall(r)
      /\ frame'[r].path = frame[r].path /\ frame'[r].targets = frame[r].targets
  BY DEF Saves, KeepsCall
<1>2. EntityHolds(frame[r])
  BY <1>1, Alone DEF StillHolds, Statements
<1>3. /\ pc'[r] = st
      /\ \A x \in Requests \ {r} : pc'[x] = pc[x] /\ frame'[x] = frame[x]
  BY <1>1, MovedPc
<1> SUFFICES ASSUME NEW u \in Users, Uncleared(u)'
             PROVE  /\ IsFiniteSet(Counted(u)')
                    /\ Cardinality(Counted(u)') <= users'[u].failedLoginAttempts
                    /\ users'[u].failedLoginAttempts >= MaxFailedAttempts =>
                         users'[u].accountLockedUntil > 0
  BY DEF CountsHold
<1>4. Uncleared(u)
  BY <1>1, <1>3 DEF Uncleared
<1>5. /\ IsFiniteSet(Counted(u))
      /\ Cardinality(Counted(u)) <= users[u].failedLoginAttempts
      /\ users[u].failedLoginAttempts >= MaxFailedAttempts =>
           users[u].accountLockedUntil > 0
  BY <1>4 DEF ApartIInv, CountsHold
<1>6. users[u].failedLoginAttempts \in Nat
  BY DEF Shape, TypeOK, AccountRow
<1> DEFINE S == Counted(u)
           T == Counted(u)'
           n == users[u].failedLoginAttempts
<1>7. IsFiniteSet(S) /\ Cardinality(S) <= n /\ n \in Nat
  BY <1>5, <1>6
<1>8. CASE u \in frame[r].targets /\ frame[r].path = "loginDenied"
  <2>1. /\ users'[u].failedLoginAttempts = n + 1
        /\ users'[u].failedLoginAttempts >= MaxFailedAttempts =>
             users'[u].accountLockedUntil > 0
    BY <1>2, <1>8 DEF EntityHolds, Saves
  <2>2. T \subseteq S \cup {r}
    BY <1>3 DEF Counted
  <2>3. IsFiniteSet(T) /\ Cardinality(T) <= n + 1
    <3> HIDE DEF S, T, n
    <3>1. IsFiniteSet(S \cup {r}) /\ Cardinality(S \cup {r}) <= n + 1
      BY <1>7, OneMoreBounded
    <3>2. n + 1 \in Nat
      BY <1>7
    <3>3. QED
      BY <2>2, <3>1, <3>2, PartBounded
  <2>4. QED
    BY <2>1, <2>3
<1>9. CASE u \notin frame[r].targets \/ frame[r].path # "loginDenied"
  <2>1. /\ users'[u].failedLoginAttempts = n
        /\ users'[u].accountLockedUntil = users[u].accountLockedUntil
    <3>1. CASE u \notin frame[r].targets
      BY <3>1 DEF Saves
    <3>2. CASE u \in frame[r].targets /\ frame[r].path # "loginDenied"
      <4>1. frame[r].path \notin Clearing \cup {"loginDenied"}
        BY <1>4, <3>2 DEF Uncleared
      <4>2. QED
        BY <1>2, <3>2, <4>1 DEF EntityHolds, Saves
    <3>3. QED
      BY <1>9, <3>1, <3>2
  <2>2. T \subseteq S
    BY <1>1, <1>3, <1>9 DEF Counted
  <2>3. IsFiniteSet(T) /\ Cardinality(T) <= n
    <3> HIDE DEF S, T, n
    <3>1. QED
      BY <1>7, <2>2, PartBounded
  <2>4. QED
    BY <1>5, <2>1, <2>3
<1>10. QED
  BY <1>8, <1>9

LEMMA WriteApart ==
  ASSUME Shape, Apart, ApartIInv, NEW r \in Requests, Write(r)
  PROVE  ApartIInv'
<1> DEFINE st == AfterWrite(r)
<1>1. Saves(r, st)
  BY WriteSaves
<1>2. /\ pc[r] = "write" /\ Moved(r, st) /\ KeepsCall(r) /\ sessions' = sessions
  BY <1>1 DEF Saves
<1>3. /\ frame[r].revokes => st = "revokeAll"
      /\ ~frame[r].revokes => st = "audit"
      /\ st \in {"revokeAll", "audit"}
  BY DEF AfterWrite
<1> HIDE DEF st
<1>4. pc[r] \in Statements /\ st \in Statements
  BY <1>2, <1>3 DEF Statements
<1>5. pc'[r] = st
  BY <1>2, MovedPc
<1>6. StillHolds(r) /\ EntityHolds(frame[r])
  BY <1>2, <1>4, Alone DEF StillHolds
<1>7. frame[r].path \in {"login", "loginDenied"} => st = "audit"
  BY <1>3, <1>6 DEF EntityHolds
<1>8. frame[r].path = "login" => LoginHolds(r)'
  <2> SUFFICES ASSUME frame[r].path = "login", NEW u \in frame[r].targets
               PROVE  /\ frame[r].pw = users'[u].passwordHash
                      /\ users'[u].status = "ACTIVE" /\ ~users'[u].isDeleted
    BY <1>2 DEF LoginHolds, KeepsCall
  <2>1. /\ users'[u].passwordHash = users[u].passwordHash
        /\ users'[u].status = users[u].status
        /\ users'[u].isDeleted = users[u].isDeleted
    BY <1>1, <1>6 DEF EntityHolds, Saves
  <2>2. QED
    BY <1>6, <2>1 DEF StillHolds, LoginHolds
<1>9. frame'[r].path = frame[r].path
  BY <1>2 DEF KeepsCall
<1>10. StillHolds(r)'
  BY <1>3, <1>5, <1>7, <1>8, <1>9 DEF StillHolds
<1>11. /\ IdleFrames'
       /\ \A x \in InFlight' : StillHolds(x)'
  <2>1. SessionsNamed
    BY <1>2, SessionsSame DEF SessionsKept
  <2>2. \A x \in InFlight \ {r} : frame[x].targets \cap frame[r].targets = {}
    BY <1>2, <1>4, Alone
  <2>3. \A x \in InFlight : frame[x].targets \in SUBSET Users
    BY SameFrame DEF InFlight, Frame
  <2>4. \A x \in InFlight \ {r} : \A u \in frame[x].targets : users'[u] = users[u]
    BY <1>1, <2>2, <2>3 DEF Saves
  <2>5. QED
    BY <1>2, <1>4, <1>10, <2>1, <2>4, MovedHolds
<1>12. RootsDone'
  BY <1>2, SessionsSame, RootsKept
<1>13. SessionsHold' /\ CountsHold'
  BY <1>1, SavedSessionsHold, SavedCountsHold
<1>14. QED
  BY <1>11, <1>12, <1>13 DEF ApartIInv

-----------------------------------------------------------------------------
(* The invariant and the promises *)

\* The clock ticks, or nothing happens.
LEMMA StillApart ==
  ASSUME ApartIInv, UNCHANGED <<users, sessions, pc, frame>>
  PROVE  ApartIInv'
<1>1. /\ users' = users /\ sessions' = sessions /\ pc' = pc /\ frame' = frame
  OBVIOUS
<1>2. InFlight' = InFlight /\ Issued' = Issued
  BY <1>1 DEF InFlight, Issued
<1>3. IdleFrames' /\ RootsDone'
  BY <1>1, <1>2 DEF ApartIInv, IdleFrames, RootsDone
<1>4. ASSUME NEW r \in InFlight
      PROVE  StillHolds(r)'
  <2>1. StillHolds(r)
    BY DEF ApartIInv
  <2>2. EntityHolds(frame[r]) => EntityHolds(frame[r])'
    BY <1>1 DEF EntityHolds
  <2>3. LoginHolds(r) => LoginHolds(r)'
    BY <1>1 DEF LoginHolds
  <2>4. RefreshHolds(r) => RefreshHolds(r)'
    BY <1>1 DEF RefreshHolds, NothingAborted
  <2>5. QED
    BY <1>1, <2>1, <2>2, <2>3, <2>4 DEF StillHolds
<1>5. SessionsHold'
  BY <1>1, <1>2
     DEF ApartIInv, SessionsHold, NothingAborted, NoUpdate, Pending, Live
<1>6. \A u : Counted(u)' = Counted(u) /\ Uncleared(u)' = Uncleared(u)
  BY <1>1 DEF Counted, Uncleared
<1>7. CountsHold'
  BY <1>1, <1>6 DEF ApartIInv, CountsHold
<1>8. QED
  BY <1>2, <1>3, <1>4, <1>5, <1>7 DEF ApartIInv

LEMMA ApartStep ==
  ASSUME Shape, Apart, ApartIInv, [Next]_vars
  PROVE  ApartIInv'
<1>1. TypeOK
  BY DEF Shape
<1>2. QED
  BY <1>1, StepCases, StartApart, ReloadApart, WriteApart, ClaimWonApart,
     ClaimLostApart, RevokeOneApart, RevokeAllApart, AuditApart, IssueApart,
     AbortApart, StillApart

LEMMA InitApart ==
  ASSUME Init
  PROVE  ApartIInv
<1>1. /\ \A r \in Requests : pc[r] = "idle" /\ frame[r] = NoCall
      /\ \A s \in Requests : sessions[s] = NoSession
  BY DEF Init
<1>2. Issued = {} /\ InFlight = {}
  BY <1>1 DEF Issued, InFlight, Statements
<1>3. NoCall.path = "none" /\ NoCall.targets = {}
  BY DEF NoCall, Call
<1>4. IdleFrames /\ RootsDone /\ SessionsHold
  BY <1>1, <1>2 DEF IdleFrames, RootsDone, SessionsHold
<1>5. CountsHold
  <2> SUFFICES ASSUME NEW u \in Users
               PROVE  /\ IsFiniteSet(Counted(u))
                      /\ Cardinality(Counted(u)) <= users[u].failedLoginAttempts
                      /\ ~(users[u].failedLoginAttempts >= MaxFailedAttempts)
    BY DEF CountsHold
  <2>1. Counted(u) = {}
    BY <1>1, <1>3 DEF Counted
  <2>2. users[u].failedLoginAttempts = 0
    BY DEF Init
  <2>3. IsFiniteSet(Counted(u)) /\ Cardinality(Counted(u)) = 0
    BY <2>1, FS_EmptySet
  <2>4. QED
    BY <2>2, <2>3, BoundsAssumption
<1>6. QED
  BY <1>2, <1>4, <1>5 DEF ApartIInv

\* As long as requests stay apart, a request that is under way finds its
\* accounts as it read them, whatever it makes stale is about to be revoked, and
\* every denied login is counted.
THEOREM ApartInvariance == Spec /\ []Apart => []ApartIInv
<1>1. Init => ApartIInv
  BY InitApart
<1>2. IInv => Shape
  BY DEF IInv, Shape
<1>3. Shape /\ Apart /\ ApartIInv /\ [Next]_vars => ApartIInv'
  BY ApartStep
<1>4. QED
  BY <1>1, <1>2, <1>3, Invariance, PTL DEF Spec

\* change-password and reset-password end every session opened with the old
\* password, as long as requests on one account do not overlap and none is cut
\* short: when all is quiet, a live session goes back to a login with today's
\* password.
THEOREM SessionsKnowThePassword == Spec /\ []Apart => []SessionsMatchPassword
<1>1. ApartIInv => SessionsMatchPassword
  <2> SUFFICES ASSUME ApartIInv, Quiet, NothingAborted, NEW s \in Issued, Live(s)
               PROVE  frame[sessions[s].root].pw
                        = users[sessions[s].user].passwordHash
    BY DEF SessionsMatchPassword
  <2>1. ~Pending(sessions[s].user)
    BY DEF Quiet, InFlight, Pending, Statements
  <2>2. QED
    BY <2>1 DEF ApartIInv, SessionsHold
<1>2. QED
  BY <1>1, ApartInvariance, PTL

\* delete, updateStatus and bulkUpdateStatus leave no live session behind on an
\* account they delete, lock or deactivate, as long as requests on one account
\* do not overlap, none is cut short and nobody uses update, which revokes
\* nothing.
THEOREM DeactivationEndsSessions == Spec /\ []Apart => []DeactivatedHaveNoSessions
<1>1. ApartIInv => DeactivatedHaveNoSessions
  <2> SUFFICES ASSUME ApartIInv, Quiet, NothingAborted, NoUpdate,
                      NEW s \in Issued, Live(s)
               PROVE  LET row == users[sessions[s].user] IN
                      row.status \notin Barred /\ ~row.isDeleted
    BY DEF DeactivatedHaveNoSessions, NoUpdate, Barred
  <2>1. ~Pending(sessions[s].user)
    BY DEF Quiet, InFlight, Pending, Statements
  <2>2. QED
    BY <2>1 DEF ApartIInv, SessionsHold
<1>2. QED
  BY <1>1, ApartInvariance, PTL

\* login locks the account at the MaxFailedAttempts-th denied login, as long as
\* requests on one account do not overlap: each denial that was answered is in
\* the count.
THEOREM DenialsLock == Spec /\ []Apart => []FailedLoginsLock
<1>1. TypeOK /\ ApartIInv => FailedLoginsLock
  <2> SUFFICES ASSUME TypeOK, ApartIInv, NEW u \in Users,
                      Cardinality(Denials(u)) >= MaxFailedAttempts,
                      Uncleared(u)
               PROVE  users[u].accountLockedUntil > 0
    BY DEF FailedLoginsLock, Uncleared, Clearing
  <2> DEFINE n == users[u].failedLoginAttempts
  <2>1. /\ IsFiniteSet(Counted(u)) /\ Cardinality(Counted(u)) <= n
        /\ n >= MaxFailedAttempts => users[u].accountLockedUntil > 0
    BY DEF ApartIInv, CountsHold
  <2>2. n \in Nat
    BY DEF TypeOK, AccountRow
  <2>3. Denials(u) \subseteq Counted(u)
    BY DEF Denials, Counted
  <2> HIDE DEF n
  <2>4. IsFiniteSet(Denials(u)) /\ Cardinality(Denials(u)) <= n
    BY <2>1, <2>2, <2>3, PartBounded
  <2>5. Cardinality(Denials(u)) \in Nat /\ MaxFailedAttempts \in Nat
    BY <2>4, FS_CardinalityType, BoundsAssumption
  <2>6. QED
    BY <2>1, <2>2, <2>4, <2>5
<1>2. QED
  BY <1>1, TypeCorrect, ApartInvariance, PTL
\* An account's password only changes when a request to change or to reset it
\* saves, as long as requests on one account do not overlap: the stale password
\* that another handler's save puts back needs a second request.
THEOREM PasswordsAreSet == Spec /\ []Apart => PasswordChangeSticks
<1> DEFINE Sticks == \A u \in Users :
             users'[u].passwordHash # users[u].passwordHash =>
               \E r \in Requests :
                 /\ pc[r] = "write" /\ pc'[r] # "write"
                 /\ frame[r].path \in Setting
<1>1. ASSUME Shape, Apart, ApartIInv, [Next]_vars
      PROVE  Sticks
  <2>1. ASSUME users' = users
        PROVE  Sticks
    BY <2>1
  <2>2. ASSUME NEW r \in Requests, Write(r)
        PROVE  Sticks
    <3>1. Saves(r, AfterWrite(r))
      BY <1>1, <2>2, WriteSaves
    <3>2. pc[r] = "write" /\ pc'[r] # "write"
      BY <1>1, <3>1, MovedPc DEF Saves, AfterWrite
    <3>3. EntityHolds(frame[r])
      BY <1>1, <3>2, Alone DEF StillHolds, Statements
    <3>4. \A u \in Users : users'[u].passwordHash # users[u].passwordHash =>
            frame[r].path \in Setting
      BY <3>1, <3>3 DEF Saves, EntityHolds
    <3>5. QED
      BY <3>2, <3>4
  <2>3. users' = users \/ \E r \in Requests : Write(r)
    BY <1>1, StepCases
       DEF Shape, Starts, Reload, ClaimWon, ClaimLost, RevokeOne, RevokeAll,
           Audit, Issue, Abort
  <2>4. QED
    BY <2>1, <2>2, <2>3
<1>2. IInv => Shape
  BY DEF IInv, Shape
<1>3. Sticks = (\A u \in Users :
         users'[u].passwordHash # users[u].passwordHash =>
           \E r \in Requests :
             /\ pc[r] = "write" /\ pc'[r] # "write"
             /\ frame[r].path \in {"changePassword", "resetPassword"})
  BY DEF Setting
<1> HIDE DEF Sticks
<1>4. IInv /\ Apart /\ ApartIInv /\ [Next]_vars => [\A u \in Users :
         users'[u].passwordHash # users[u].passwordHash =>
           \E r \in Requests :
             /\ pc[r] = "write" /\ pc'[r] # "write"
             /\ frame[r].path \in {"changePassword", "resetPassword"}]_vars
  BY <1>1, <1>2, <1>3
<1>5. QED
  BY <1>4, Invariance, ApartInvariance, PTL DEF Spec, PasswordChangeSticks
-----------------------------------------------------------------------------
(* One request at a time *)

AtMostOne == \A q, r \in InFlight : q = r

LEMMA AtMostOneStep ==
  ASSUME MaxInFlight = 1, Shape, AtMostOne, [Next]_vars
  PROVE  AtMostOne'
<1>1. ASSUME NEW r \in Requests, Starts(r)
      PROVE  AtMostOne'
  <2>1. ASSUME NEW q \in InFlight
        PROVE  FALSE
    <3>1. InFlight = {q}
      BY DEF AtMostOne
    <3>2. Cardinality(InFlight) = 1
      BY <3>1, FS_Singleton
    <3>3. QED
      BY <1>1, <3>2 DEF Starts
  <2>2. \A x \in Requests \ {r} : pc'[x] = pc[x]
    BY <1>1 DEF Starts, Shape, TypeOK
  <2>3. QED
    BY <2>1, <2>2 DEF AtMostOne, InFlight
<1>2. ASSUME NEW r \in Requests,
             \/ Reload(r) \/ Write(r) \/ ClaimWon(r) \/ ClaimLost(r)
             \/ RevokeOne(r) \/ RevokeAll(r) \/ Audit(r) \/ Issue(r) \/ Abort(r)
      PROVE  AtMostOne'
  <2>1. r \in InFlight
    BY <1>2 DEF Reload, Write, ClaimWon, ClaimLost, RevokeOne, RevokeAll, Audit,
                Issue, Abort, InFlight, Statements
  <2>2. \E st : pc' = [pc EXCEPT ![r] = st]
    BY <1>2 DEF Reload, Write, ClaimWon, ClaimLost, RevokeOne, RevokeAll, Audit,
                Issue, Abort
  <2>3. \A x \in Requests \ {r} : pc'[x] = pc[x]
    BY <2>2 DEF Shape, TypeOK
  <2>4. InFlight' \subseteq InFlight
    BY <2>1, <2>3 DEF InFlight
  <2>5. QED
    BY <2>4 DEF AtMostOne
<1>3. ASSUME pc' = pc
      PROVE  AtMostOne'
  BY <1>3 DEF AtMostOne, InFlight
<1>4. TypeOK
  BY DEF Shape
<1>5. QED
  BY <1>1, <1>2, <1>3, <1>4, StepCases

\* A service that answers one request at a time keeps requests apart, so that
\* all of the above is true of it.
THEOREM OneByOneIsApart ==
  ASSUME MaxInFlight = 1
  PROVE  Spec => []Apart
<1>1. Init => AtMostOne
  BY DEF Init, AtMostOne, InFlight, Statements
<1>2. Shape /\ AtMostOne /\ [Next]_vars => AtMostOne'
  BY AtMostOneStep
<1>3. IInv => Shape
  BY DEF IInv, Shape
<1>4. AtMostOne => Apart
  BY DEF AtMostOne, Apart
<1>5. QED
  BY <1>1, <1>2, <1>3, <1>4, Invariance, PTL DEF Spec
=============================================================================
