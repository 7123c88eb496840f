------------------------------ MODULE Accounts ------------------------------
(***************************************************************************)
(* Tenants and the accounts in them: create, update and delete of          *)
(* src/src/users/users.service.ts, register of                             *)
(* src/src/auth/auth.service.ts, and src/src/tenants/tenants.service.ts.   *)
(*                                                                         *)
(* An action is one SQL statement and the code that runs on its answer; a  *)
(* request is used once, and the account or tenant that request r creates  *)
(* is named r.  A name is a value as the column holds it; of an email the  *)
(* model keeps the word and whether its letters are all lower-case ones,   *)
(* for some checks compare it as it is and some in lower case.             *)
(***************************************************************************)
EXTENDS Naturals, FiniteSets

CONSTANTS
  Tenants,      \* the tenants at the start
  Users,        \* the accounts at the start
  Usernames,    \* usernames
  Words,        \* emails in lower case
  Codes,        \* tenant codes
  Limits,       \* the numbers of accounts that a tenant may be limited to
  ApiRoles,     \* the roles that a request may ask for
  Requests,     \* the HTTP calls of a behaviour
  None,         \* no row, no value, no tenant, no limit, no role
  MaxInFlight,  \* bound: requests between their first and last statement
  Handlers      \* bound: the handlers this instance calls

UserHandlers == {"createUser", "updateUser", "deleteUser", "register"}

TenantHandlers == {"createTenant", "updateTenant", "deleteTenant"}

TenantIds == Tenants \cup Requests

UserIds == Users \cup Requests

ASSUME AccountsIdsAssumption ==
  /\ IsFiniteSet(Users)
  /\ Tenants \cap Requests = {} /\ Users \cap Requests = {}
  /\ TenantIds \cap Codes = {}
ASSUME AccountsBoundsAssumption ==
  /\ MaxInFlight \in Nat \ {0} /\ Limits \subseteq Nat \ {0}
  /\ ApiRoles \subseteq {"ADMIN", "MANAGER", "USER"}
  /\ Handlers \subseteq UserHandlers \cup TenantHandlers

VARIABLES
  tenants,     \* core.tenants: id -> row or None
  users,       \* core.users: id -> row or None
  userRoles,   \* core.user_roles: <<account, platform role>> -> Presence
  pc,          \* the statement a request runs next, or how it ended
  frame,       \* the handler's local variables
  registered,  \* history: the accounts that register inserted
  peak,        \* history: the highest limit each tenant has had, None for none
  overlapped   \* history: two requests have been under way at a time

history == <<registered, peak, overlapped>>
vars == <<tenants, users, userRoles, pc, frame, history>>

Emails == Words \X {"lower", "mixed"}

Lower(email) == <<email[1], "lower">>

PlatformRoles == {"SUPER_ADMIN", "TENANT_ADMIN", "BRANCH_MANAGER", "STANDARD_USER"}

Presence == {"none", "live", "deleted"}

Tenant ==
  [code : Codes, limit : Limits \cup {None}, isDeleted : BOOLEAN]

User ==
  [tenant : TenantIds, username : Usernames, email : Emails, isDeleted : BOOLEAN]

\* The entity of a new account, before its tenant is found.
Draft ==
  [tenant : {None}, username : Usernames, email : Emails, isDeleted : {FALSE}]

ASSUME AccountsNoneAssumption ==
  /\ None \notin TenantIds \cup UserIds \cup Codes \cup {"USER"} \cup ApiRoles
  /\ None \notin Limits \cup Tenant \cup User \cup Draft

Statements ==
  {"email", "tenant", "seats", "insertUser", "reload", "write", "role",
   "audit", "insertTenant"}

\* refused: one of the service's own checks threw; conflict: the database
\* refused the row and the client sees a 500; aborted: a statement failed or
\* the process died.
Outcomes == {"done", "refused", "conflict", "aborted"}

\* scope is the tenant to which the creator of an account is confined; target
\* the account or tenant of the URL, or the one to create; asked the tenant that
\* the body asks for, by id or by code; role the role it asks for; ent the
\* entity that will be saved, base the row re-read, limit the limit of the tenant
\* as it was found.
Frame ==
  [path : UserHandlers \cup TenantHandlers \cup {"none"},
   scope : TenantIds \cup {None}, target : TenantIds \cup UserIds \cup {None},
   asked : TenantIds \cup Codes \cup {None}, role : ApiRoles \cup {"USER", None},
   ent : User \cup Draft \cup Tenant \cup {None},
   base : User \cup Tenant \cup {None},
   limit : Limits \cup {None}]

NoCall ==
  [path |-> "none", scope |-> None, target |-> None, asked |-> None,
   role |-> None, ent |-> None, base |-> None, limit |-> None]

InFlight == {r \in Requests : pc[r] \in Statements}

StoredTenants == {t \in TenantIds : tenants[t] # None}

LiveTenants == {t \in StoredTenants : ~tenants[t].isDeleted}

StoredUsers == {u \in UserIds : users[u] # None}

LiveUsers == {u \in StoredUsers : ~users[u].isDeleted}

UsersOf(t) == {u \in LiveUsers : users[u].tenant = t}

\* tenantScope of the controllers: a platform administrator is not confined.
InScope(tenant, scope) == scope \in {None, tenant}

-----------------------------------------------------------------------------
(* Mutants: one plausible bug each, for the properties at the end *)

NobodyHolds(e) == {}

OneSeatMore(t, limit) ==
  limit = None \/ Cardinality(UsersOf(t)) <= limit

DeletedTenantsToo(t, call) ==
  /\ t \in StoredTenants
  /\ IF call.path = "register" THEN tenants[t].code = call.asked
     ELSE call.asked = t /\ InScope(t, call.scope)

CodeUnchecked(c) == TRUE

RoleForgotten(r) == IF frame[r].path = "createUser" THEN "audit" ELSE "done"

-----------------------------------------------------------------------------
(* The checks, and the constraints of the database *)

\* UsersService.findUser
FoundUser(u, scope) == u \in LiveUsers /\ InScope(users[u].tenant, scope)

\* ensureUsernameAvailable: the live accounts of all the tenants.
UsernameAvailable(n) == \A u \in LiveUsers : users[u].username # n

\* What ensureEmailAvailable may find; an account's own email is no obstacle.
EmailHolders(e) == {u \in LiveUsers : users[u].email = e}

\* The code check of TenantsService.create looks at live tenants only.
CodeAvailable(c) == \A t \in LiveTenants : tenants[t].code # c

\* tenant_id is NOT NULL, though the entity says that it may be; UNIQUE
\* (tenant_id, username) and UNIQUE (tenant_id, email) count deleted accounts.
StorableUser(u, row) ==
  /\ row.tenant # None
  /\ \A v \in StoredUsers \ {u} :
       users[v].tenant = row.tenant =>
         users[v].username # row.username /\ users[v].email # row.email

\* UNIQUE (tenant_code)
UniqueTenant(t, row) ==
  \A s \in StoredTenants \ {t} : tenants[s].code # row.code

\* resolveTenant: the tenant that is asked for, which for a caller confined to
\* one has to be that one.  register takes the tenant with the code.
Eligible(t, call) ==
  /\ t \in LiveTenants
  /\ IF call.path = "register" THEN tenants[t].code = call.asked
     ELSE call.asked = t /\ InScope(t, call.scope)

\* ensureMaxUsers, with the limit that was read with the tenant.
SeatFree(t, limit) == limit = None \/ Cardinality(UsersOf(t)) < limit

\* toDumpRoleCode
RoleCode(role, hasTenant) ==
  CASE role = "ADMIN" -> IF hasTenant THEN "TENANT_ADMIN" ELSE "SUPER_ADMIN"
    [] role = "MANAGER" -> "BRANCH_MANAGER"
    [] OTHER -> "STANDARD_USER"

\* TypeORM's save: the columns in which the entity differs from the row that
\* save re-read are written.
MergeUser(row, base, ent) ==
  [row EXCEPT
     !.email = IF ent.email = base.email THEN @ ELSE ent.email,
     !.isDeleted = IF ent.isDeleted = base.isDeleted THEN @ ELSE ent.isDeleted]

MergeTenant(row, base, ent) ==
  [row EXCEPT
     !.code = IF ent.code = base.code THEN @ ELSE ent.code,
     !.limit = IF ent.limit = base.limit THEN @ ELSE ent.limit,
     !.isDeleted = IF ent.isDeleted = base.isDeleted THEN @ ELSE ent.isDeleted]

Higher(a, b) == IF None \in {a, b} THEN None ELSE IF a > b THEN a ELSE b

-----------------------------------------------------------------------------
(* First statements *)

Begin(r, handler, statement, call) ==
  /\ handler \in Handlers
  /\ pc' = [pc EXCEPT ![r] = statement]
  /\ frame' = [frame EXCEPT ![r] =
                 IF statement \in Outcomes THEN NoCall ELSE call]
  /\ overlapped' = (overlapped \/ InFlight # {})
  /\ UNCHANGED <<tenants, users, userRoles, registered, peak>>

Call(handler, target, ent) ==
  [NoCall EXCEPT !.path = handler, !.target = target, !.ent = ent]

NewUser(n, e) ==
  [tenant |-> None, username |-> n, email |-> e, isDeleted |-> FALSE]

\* The email arrives in any spelling and is stored in lower case; a request
\* without a tenant asks for its caller's, and one without a role for that of a
\* user.
CreateUser(r, scope, t, n, w, role) ==
  Begin(r, "createUser", IF UsernameAvailable(n) THEN "email" ELSE "refused",
        [Call("createUser", r, NewUser(n, <<w, "lower">>)) EXCEPT
           !.scope = scope, !.asked = IF t = None THEN scope ELSE t,
           !.role = IF role = None THEN "USER" ELSE role])

\* The email is stored as it arrives, and nothing limits how many register.
Register(r, c, n, e) ==
  Begin(r, "register", IF UsernameAvailable(n) THEN "email" ELSE "refused",
        [Call("register", r, NewUser(n, e)) EXCEPT !.asked = c])

UserNotFound(r, handler, scope, u) ==
  /\ ~FoundUser(u, scope)
  /\ Begin(r, handler, "refused", NoCall)

\* Mutant: the tenant of the body is copied with the other fields, and the
\* body has none.
UpdateMovesUser(r, scope, u, w, role) ==
  /\ FoundUser(u, scope)
  /\ Begin(r, "updateUser", "email",
           Call("updateUser", u, NewUser(users[u].username, <<w, "lower">>)))

\* The email is looked up only if it is another one in lower case.
UpdateUser(r, scope, u, w, role) ==
  LET e == <<w, "lower">> IN
  /\ FoundUser(u, scope)
  /\ Begin(r, "updateUser",
           IF e = Lower(users[u].email) THEN "reload" ELSE "email",
           [Call("updateUser", u, [users[u] EXCEPT !.email = e]) EXCEPT
              !.role = role])

\* What it does to the sessions is in AuthSessions.
DeleteUser(r, scope, u) ==
  /\ FoundUser(u, scope)
  /\ Begin(r, "deleteUser", "reload",
           Call("deleteUser", u, [users[u] EXCEPT !.isDeleted = TRUE]))

CreateTenant(r, c, limit) ==
  Begin(r, "createTenant",
        IF CodeAvailable(c) THEN "insertTenant" ELSE "refused",
        Call("createTenant", r,
             [code |-> c, limit |-> limit, isDeleted |-> FALSE]))

TenantNotFound(r, handler, t) ==
  /\ t \notin (IF handler = "deleteTenant" THEN StoredTenants ELSE LiveTenants)
  /\ Begin(r, handler, "refused", NoCall)

\* update, and updateStatus, which leaves code and limit as they were read.
UpdateTenant(r, t, c, limit) ==
  /\ t \in LiveTenants
  /\ Begin(r, "updateTenant", "reload",
           Call("updateTenant", t,
                [tenants[t] EXCEPT !.code = c, !.limit = limit]))

DeleteTenant(r, t) ==
  /\ t \in StoredTenants
  /\ Begin(r, "deleteTenant", "reload",
           Call("deleteTenant", t,
                [tenants[t] EXCEPT !.isDeleted = TRUE]))

-----------------------------------------------------------------------------
(* The statements that follow *)

Goto(r, statement) ==
  /\ pc' = [pc EXCEPT ![r] = statement]
  /\ frame' = [frame EXCEPT ![r] = IF statement \in Outcomes THEN NoCall ELSE @]

\* Once the row of an account is saved, all that matters is whose role is due.
GotoSaved(r, statement) ==
  /\ pc' = [pc EXCEPT ![r] = statement]
  /\ frame' = [frame EXCEPT ![r] =
                 IF statement \in Outcomes THEN NoCall
                 ELSE [Call(@.path, @.target, None) EXCEPT !.role = frame[r].role]]

\* A check: the handler goes on to the next statement or throws.
Check(r, statement, holds, next) ==
  /\ pc[r] = statement
  /\ Goto(r, IF holds THEN next ELSE "refused")
  /\ UNCHANGED <<tenants, users, userRoles, history>>

\* The query answers with one of the holders; it may be the account itself.
CheckEmail(r) ==
  LET holders == EmailHolders(frame[r].ent.email) IN
  /\ pc[r] = "email"
  /\ \E found \in IF holders = {} THEN {None} ELSE holders :
       Check(r, "email", found \in {None, frame[r].target},
             CASE frame[r].path = "updateUser" -> "reload"
               [] frame[r].path = "register" /\ frame[r].asked = None ->
                    "insertUser"
               [] OTHER -> "tenant")

FindTenant(r) ==
  LET found == {t \in TenantIds : Eligible(t, frame[r])} IN
  /\ pc[r] = "tenant"
  /\ IF found = {} THEN Goto(r, "refused")
     ELSE \E t \in found :
            /\ frame' = [frame EXCEPT ![r].ent.tenant = t, ![r].asked = None,
                                      ![r].limit = tenants[t].limit]
            /\ pc' = [pc EXCEPT ![r] = IF frame[r].path = "register"
                                       THEN "insertUser" ELSE "seats"]
  /\ UNCHANGED <<tenants, users, userRoles, history>>

CheckSeats(r) ==
  /\ pc[r] = "seats"
  /\ pc' = [pc EXCEPT ![r] =
              IF SeatFree(frame[r].ent.tenant, frame[r].limit)
              THEN "insertUser" ELSE "refused"]
  /\ frame' = [frame EXCEPT ![r] =
                 IF pc'[r] = "refused" THEN NoCall ELSE [@ EXCEPT !.limit = None]]
  /\ UNCHANGED <<tenants, users, userRoles, history>>

AfterInsert(r) == IF frame[r].path = "createUser" THEN "role" ELSE "done"

InsertUser(r) ==
  /\ pc[r] = "insertUser"
  /\ IF StorableUser(r, frame[r].ent)
     THEN /\ users' = [users EXCEPT ![r] = frame[r].ent]
          /\ registered' = IF frame[r].path = "register"
                           THEN registered \cup {r} ELSE registered
          /\ GotoSaved(r, AfterInsert(r))
     ELSE UNCHANGED <<users, registered>> /\ Goto(r, "conflict")
  /\ UNCHANGED <<tenants, userRoles, peak, overlapped>>

InsertTenant(r) ==
  LET row == frame[r].ent IN
  /\ pc[r] = "insertTenant"
  /\ IF UniqueTenant(r, row)
     THEN /\ tenants' = [tenants EXCEPT ![r] = row]
          /\ peak' = [peak EXCEPT ![r] = Higher(@, row.limit)]
          /\ Goto(r, "done")
     ELSE UNCHANGED <<tenants, peak>> /\ Goto(r, "conflict")
  /\ UNCHANGED <<users, userRoles, registered, overlapped>>

Reload(r) ==
  /\ pc[r] = "reload"
  /\ pc' = [pc EXCEPT ![r] = "write"]
  /\ frame' = [frame EXCEPT ![r].base =
                 IF frame[r].path \in UserHandlers THEN users[frame[r].target]
                 ELSE tenants[frame[r].target]]
  /\ UNCHANGED <<tenants, users, userRoles, history>>

WriteUser(r) ==
  LET u == frame[r].target
      row == MergeUser(users[u], frame[r].base, frame[r].ent)
  IN
  /\ pc[r] = "write" /\ frame[r].path \in UserHandlers
  /\ IF StorableUser(u, row)
     THEN /\ users' = [users EXCEPT ![u] = row]
          /\ GotoSaved(r, IF frame[r].role = None THEN "audit" ELSE "role")
     ELSE UNCHANGED users /\ Goto(r, "conflict")
  /\ UNCHANGED <<tenants, userRoles, history>>

WriteTenant(r) ==
  LET t == frame[r].target
      row == MergeTenant(tenants[t], frame[r].base, frame[r].ent)
  IN
  /\ pc[r] = "write" /\ frame[r].path \in TenantHandlers
  /\ IF UniqueTenant(t, row)
     THEN /\ tenants' = [tenants EXCEPT ![t] = row]
          /\ peak' = [peak EXCEPT ![t] = Higher(@, row.limit)]
          /\ Goto(r, "done")
     ELSE UNCHANGED <<tenants, peak>> /\ Goto(r, "conflict")
  /\ UNCHANGED <<users, userRoles, registered, overlapped>>

\* assignRole: a row that is there, revoked or not, is left as it is.
Assigned(presence) == IF presence = "none" THEN "live" ELSE presence

RoleOf(r) ==
  <<frame[r].target, RoleCode(frame[r].role, users[frame[r].target].tenant # None)>>

AssignRole(r) ==
  /\ pc[r] = "role"
  /\ userRoles' = [userRoles EXCEPT ![RoleOf(r)] = Assigned(@)]
  /\ Goto(r, "audit")
  /\ UNCHANGED <<tenants, users, history>>

Audit(r) ==
  /\ pc[r] = "audit"
  /\ Goto(r, "done")
  /\ UNCHANGED <<tenants, users, userRoles, history>>

\* A statement fails or the process dies: what was committed stays.
Abort(r) ==
  /\ pc[r] \in Statements
  /\ Goto(r, "aborted")
  /\ UNCHANGED <<tenants, users, userRoles, history>>

-----------------------------------------------------------------------------
(* The specification *)

\* The behaviours start from live tenants within their limits, and accounts,
\* deleted or not, whose administrator's role was revoked.  An account's
\* names are as createUser or register left them; no two live ones share one.
Init ==
  /\ \E seed \in [Tenants -> {row \in Tenant : ~row.isDeleted}] :
       tenants = [t \in TenantIds |-> IF t \in Tenants THEN seed[t] ELSE None]
  /\ \A s, t \in Tenants : tenants[s].code = tenants[t].code => s = t
  /\ \E seed \in [Users -> {row \in User : row.tenant \in Tenants}] :
       users = [u \in UserIds |-> IF u \in Users THEN seed[u] ELSE None]
  /\ \A u, v \in LiveUsers :
       users[u].username = users[v].username \/ users[u].email = users[v].email
         => u = v
  /\ \A u \in Users : StorableUser(u, users[u])
  /\ \A t \in Tenants :
       tenants[t].limit # None => Cardinality(UsersOf(t)) <= tenants[t].limit
  /\ userRoles = [pair \in UserIds \X PlatformRoles |->
                    IF pair[1] \in Users /\ pair[2] = RoleCode("ADMIN", TRUE)
                    THEN "deleted" ELSE "none"]
  /\ pc = [r \in Requests |-> "idle"]
  /\ frame = [r \in Requests |-> NoCall]
  /\ registered = {}
  /\ peak = [t \in TenantIds |-> IF t \in Tenants THEN tenants[t].limit ELSE 0]
  /\ overlapped = FALSE

UserCall(r) ==
  \E scope \in Tenants \cup {None} :
    \/ \E t \in StoredTenants \cup {None}, n \in Usernames, w \in Words,
          role \in ApiRoles \cup {None} : CreateUser(r, scope, t, n, w, role)
    \/ \E u \in UserIds, handler \in {"updateUser", "deleteUser"} :
         UserNotFound(r, handler, scope, u)
    \/ \E u \in UserIds, w \in Words, role \in ApiRoles \cup {None} :
         UpdateUser(r, scope, u, w, role)
    \/ \E u \in UserIds : DeleteUser(r, scope, u)

TenantCall(r) ==
  \/ \E c \in Codes, limit \in Limits : CreateTenant(r, c, limit)
  \/ \E t \in TenantIds, handler \in {"updateTenant", "deleteTenant"} :
       TenantNotFound(r, handler, t)
  \/ \E t \in TenantIds, c \in Codes, limit \in Limits \cup {None} :
       /\ limit = None => t \in StoredTenants /\ tenants[t].limit = None
       /\ UpdateTenant(r, t, c, limit)
  \/ \E t \in TenantIds : DeleteTenant(r, t)

Request(r) ==
  /\ pc[r] = "idle"
  /\ Cardinality(InFlight) < MaxInFlight
  /\ \/ UserCall(r)
     \/ \E c \in Codes \cup {None}, n \in Usernames, e \in Emails :
          Register(r, c, n, e)
     \/ TenantCall(r)

Step(r) ==
  \/ CheckEmail(r) \/ FindTenant(r) \/ CheckSeats(r) \/ InsertUser(r)
  \/ InsertTenant(r) \/ Reload(r) \/ WriteUser(r) \/ WriteTenant(r)
  \/ AssignRole(r) \/ Audit(r)

Next == \E r \in Requests : Request(r) \/ Step(r) \/ Abort(r)

Spec == Init /\ [][Next]_vars

-----------------------------------------------------------------------------
(* Properties *)

\* Every variable has its type, an account keeps a tenant that exists, and what
\* is about to be saved is a row of the table it was read from.
TypeOK ==
  /\ tenants \in [TenantIds -> Tenant \cup {None}]
  /\ users \in [UserIds -> User \cup {None}]
  /\ userRoles \in [UserIds \X PlatformRoles -> Presence]
  /\ pc \in [Requests -> {"idle"} \cup Statements \cup Outcomes]
  /\ frame \in [Requests -> Frame]
  /\ registered \subseteq Requests
  /\ peak \in [TenantIds -> {0} \cup Limits \cup {None}]
  /\ overlapped \in BOOLEAN
  /\ \A u \in StoredUsers : users[u].tenant \in StoredTenants
  /\ \A u \in UserIds, x \in PlatformRoles :
       userRoles[<<u, x>>] # "none" => u \in StoredUsers
  /\ \A r \in Requests : pc[r] \in {"reload", "write"} =>
       IF frame[r].path \in UserHandlers
       THEN /\ frame[r].target \in StoredUsers
            /\ frame[r].ent.tenant = users[frame[r].target].tenant
       ELSE frame[r].target \in StoredTenants

\* How many requests can pass one check before any of them writes, less one.
Excess == IF overlapped THEN MaxInFlight - 1 ELSE 0

\* 'Tenant has reached the maximum of ... users': leaving out those who
\* registered themselves, a tenant has no more live accounts than the highest
\* limit it had; requests that overlap pass it by one each, the last excepted.
SeatsBounded ==
  \A t \in StoredTenants :
    peak[t] # None => Cardinality(UsersOf(t) \ registered) <= peak[t] + Excess

DistinctNames ==
  ~overlapped' =>
    \A u, v \in LiveUsers' : u # v =>
      /\ users'[u].username # users'[v].username
      /\ users'[u].email = users'[v].email =>
           /\ {u, v} \subseteq LiveUsers
           /\ Lower(users[u].email) = Lower(users[v].email)

\* One by one, two live accounts never come to share a username, whatever
\* their tenants, nor an email, unless they already had the same one in two
\* spellings: an update that only lowers the case of an email does not look
\* whether it is taken.
NamesStayDistinct == [][DistinctNames]_vars

UnseenByChecks(r) ==
  LET path == frame[r].path
      ent == frame[r].ent
  IN
  /\ path \in UserHandlers =>
       \/ path = "register" /\ ent.tenant = None
       \/ \E u \in StoredUsers \ {frame[r].target} :
            /\ users[u].tenant = ent.tenant
            /\ \/ users[u].isDeleted
               \/ /\ path = "updateUser"
                  /\ Lower(users[frame[r].target].email) = users[u].email
  /\ path = "createTenant" =>
       \E t \in StoredTenants \ LiveTenants : tenants[t].code = ent.code
  /\ path \in {"updateTenant", "deleteTenant"} =>
       ent.code # tenants[frame[r].target].code

ConflictsHaveCause ==
  \A r \in Requests :
    pc[r] # pc'[r] /\ pc'[r] = "conflict" /\ ~overlapped => UnseenByChecks(r)

\* One by one, the database refuses a row only where the checks look away: at
\* who registers without a tenant, at the names of the tenant's deleted
\* accounts, at an email in two spellings, at the code of a deleted tenant or,
\* on update, of any.
ConflictsExplained == [][ConflictsHaveCause]_vars

RoleReported ==
  \A r \in Requests :
    pc[r] = "audit" /\ pc'[r] = "done" /\ frame[r].role # None
    => userRoles[RoleOf(r)] # "none"

\* Whatever overlaps or fails, when a creation or an update that asks for a
\* role is audited, that role is stored for the account, or was revoked.
ReportedRoleIsStored == [][RoleReported]_vars

NothingRestored ==
  ~overlapped' =>
    /\ LiveUsers' \cap StoredUsers \subseteq LiveUsers
    /\ LiveTenants' \cap StoredTenants \subseteq LiveTenants
    /\ \A r \in StoredUsers' \ StoredUsers :
         /\ users'[r].tenant \in LiveTenants
         /\ InScope(users'[r].tenant, frame[r].scope)

\* One by one, what is deleted stays deleted, and an account enters a live
\* tenant only, its creator's if the creator is confined to one.
DeletedIsFinal == [][NothingRestored]_vars

-----------------------------------------------------------------------------
(* The inductive invariant *)

Drafting == {"email", "tenant", "seats", "insertUser"}

Saving == {"email", "reload", "write"}

\* The statements of each handler.
StatementsOf(path) ==
  CASE path = "createUser" -> Drafting \cup {"role", "audit"}
    [] path = "register" -> Drafting \ {"seats"}
    [] path = "updateUser" -> Saving \cup {"role", "audit"}
    [] path = "deleteUser" -> {"reload", "write", "audit"}
    [] path = "createTenant" -> {"insertTenant"}
    [] OTHER -> {"reload", "write"}

Covers(high, limit) == high # None => limit # None /\ limit <= high

\* Whatever overlaps, a creation has no row yet, the other handlers have the row
\* they name, and a role that is due has a row once it is assigned.
DraftFits(r) ==
  LET f == frame[r] IN
  /\ f.target = r /\ users[r] = None
  /\ f.ent \in User \cup Draft /\ ~f.ent.isDeleted
  /\ f.path = "register" => f.scope = None
  /\ pc[r] \in {"email", "tenant"} => f.ent \in Draft
  /\ f.ent \in User => f.ent.tenant \in StoredTenants
  /\ pc[r] \in {"seats", "insertUser"} /\ f.path = "createUser" => f.ent \in User
  /\ pc[r] = "seats" => Covers(peak[f.ent.tenant], f.limit)

AccountFits(r) ==
  LET f == frame[r] IN
  /\ f.ent \in User
  /\ f.target \in StoredUsers /\ f.ent.tenant = users[f.target].tenant
  /\ f.ent.isDeleted <=> f.path = "deleteUser"
  /\ f.path = "deleteUser" => f.role = None
  /\ f.path = "updateUser" => f.ent.email = Lower(f.ent.email)
  /\ pc[r] = "write" => f.base \in User

TenantFits(r) ==
  LET f == frame[r] IN
  /\ f.ent \in Tenant
  /\ f.path = "createTenant" => f.target = r /\ tenants[r] = None
  /\ f.path # "createTenant" => f.target \in StoredTenants
  /\ f.ent.isDeleted <=> f.path = "deleteTenant"
  /\ pc[r] = "write" => f.base \in Tenant

SavedFits(r) ==
  /\ frame[r].target \in StoredUsers
  /\ pc[r] = "audit" /\ frame[r].role # None => userRoles[RoleOf(r)] # "none"

FrameFits(r) ==
  LET path == frame[r].path IN
  /\ pc[r] = "idle" => users[r] = None /\ tenants[r] = None
  /\ pc[r] \in Statements => pc[r] \in StatementsOf(path) /\ path # "none"
  /\ pc[r] \in Drafting /\ path \in {"createUser", "register"} => DraftFits(r)
  /\ pc[r] \in Saving /\ path \in {"updateUser", "deleteUser"} => AccountFits(r)
  /\ pc[r] \in Statements /\ path \in TenantHandlers => TenantFits(r)
  /\ pc[r] \in {"role", "audit"} => SavedFits(r)

FramesFit == \A r \in Requests : FrameFits(r)

\* What the database itself sees to.
RowsUnique ==
  /\ \A s, t \in StoredTenants : tenants[s].code = tenants[t].code => s = t
  /\ \A u \in StoredUsers : StorableUser(u, users[u])

InFlightBounded == IsFiniteSet(InFlight) /\ Cardinality(InFlight) <= 1 + Excess

\* A request that may still add account u to the live ones of tenant t, or bring
\* it back, but for one that registers.
MayAdd(r, u, t) ==
  /\ \/ pc[r] = "insertUser" /\ frame[r].path = "createUser"
     \/ pc[r] \in Saving /\ frame[r].path = "updateUser"
  /\ frame[r].target = u /\ frame[r].ent.tenant = t

PotentialUsers(t) ==
  (UsersOf(t) \cup {u \in UserIds : \E r \in Requests : MayAdd(r, u, t)})
    \ registered

SeatsPotential ==
  /\ IsFiniteSet(StoredUsers)
  /\ \A t \in StoredTenants : Covers(peak[t], tenants[t].limit)
  /\ \A t \in TenantIds : peak[t] # None =>
       /\ IsFiniteSet(PotentialUsers(t))
       /\ Cardinality(PotentialUsers(t)) <= peak[t] + Excess

\* What a request has checked or read still holds as long as no other has been
\* under way beside it.
DraftHolds(r) ==
  LET f == frame[r] IN
  /\ UsernameAvailable(f.ent.username)
  /\ pc[r] # "email" => EmailHolders(f.ent.email) = {}
  /\ f.ent.tenant # None =>
       f.ent.tenant \in LiveTenants /\ InScope(f.ent.tenant, f.scope)

AccountHolds(r) ==
  LET f == frame[r]
      u == frame[r].target
  IN
  /\ ~users[u].isDeleted
  /\ f.path = "deleteUser" => f.ent.email = users[u].email
  /\ f.path = "updateUser" =>
       IF pc[r] = "email" THEN f.ent.email # users[u].email
       ELSE \/ f.ent.email = Lower(users[u].email)
            \/ EmailHolders(f.ent.email) = {}
  /\ pc[r] = "write" => f.base = users[u]

TenantHolds(r) ==
  LET f == frame[r] IN
  /\ f.path = "createTenant" => CodeAvailable(f.ent.code)
  /\ f.path = "updateTenant" => ~tenants[f.target].isDeleted
  /\ pc[r] = "write" => f.base = tenants[f.target]

CheckedHolds(r) ==
  LET path == frame[r].path IN
  /\ pc[r] \in Drafting /\ path \in {"createUser", "register"} => DraftHolds(r)
  /\ pc[r] \in Saving /\ path \in {"updateUser", "deleteUser"} => AccountHolds(r)
  /\ path \in TenantHandlers => TenantHolds(r)

AloneHolds ==
  ~overlapped =>
    /\ \A r \in InFlight : CheckedHolds(r)
    /\ \A u, v \in LiveUsers : users[u].username = users[v].username => u = v

\* The strengthening from which the safety of the accounts is proved.
IInv ==
  /\ TypeOK
  /\ FramesFit
  /\ RowsUnique
  /\ InFlightBounded
  /\ SeatsPotential
  /\ AloneHolds
=============================================================================
