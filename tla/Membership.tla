----------------------------- MODULE Membership -----------------------------
(***************************************************************************)
(* Groups, their members and roles, the roles of users, and the access     *)
(* that follows: src/src/groups/groups.service.ts, the role assignments of *)
(* src/src/users/users.service.ts and                                      *)
(* src/src/auth/effective-access.query.ts.                                 *)
(*                                                                         *)
(* As in AuthSessions an action is one SQL statement and the code that     *)
(* runs on its answer, and a request is used once; the group that request  *)
(* r creates is named r.  A request carries the tenant to which its caller *)
(* is confined, or None for a platform administrator.                      *)
(***************************************************************************)
EXTENDS Naturals, FiniteSets

CONSTANTS
  Tenants,      \* the tenants, none of them deleted
  Groups,       \* the groups at the start
  Users,        \* the accounts
  Roles,        \* the roles, none of them a system role
  Codes,        \* group codes, trimmed and in upper case
  Requests,     \* the HTTP calls of a behaviour
  None,         \* no row, no value, no tenant
  MaxInFlight,  \* bound: requests between their first and last statement
  Handlers      \* bound: the handlers this instance calls

GroupHandlers == {"createGroup", "updateGroup", "deleteGroup"}

\* Handlers that add or take away a row of a join table.
Additions == {"addMember", "assignGroupRole", "assignUserRole"}

Removals == {"removeMember", "revokeGroupRole", "revokeUserRole"}

AllHandlers ==
  GroupHandlers \cup Additions \cup Removals
    \cup {"updateRole", "deleteRole", "deleteUser"}

GroupIds == Groups \cup Requests

Status == {"ACTIVE", "INACTIVE"}

Group ==
  [tenant : Tenants, code : Codes, status : Status, isDeleted : BOOLEAN]

User == [tenant : Tenants, isDeleted : BOOLEAN]

Role ==
  [tenant : Tenants \cup {None}, status : Status, isDeleted : BOOLEAN]

ASSUME MembershipNoneAssumption ==
  None \notin Tenants \cup GroupIds \cup Users \cup Roles \cup Group \cup Role
ASSUME MembershipIdsAssumption ==
  /\ Groups \cap Requests = {} /\ GroupIds \cap Users = {}
  /\ GroupIds \cap Roles = {} /\ Users \cap Roles = {}
ASSUME MembershipBoundsAssumption ==
  MaxInFlight \in Nat \ {0} /\ Handlers \subseteq AllHandlers

VARIABLES
  groups,     \* core.groups: id -> row or None
  users,      \* core.users: id -> row
  roles,      \* core.roles: id -> row
  links,      \* core.group_members, group_roles, user_roles: pair -> Presence
  audit,      \* core.audit_logs: what was done to what
  pc,         \* the statement a request runs next, or how it ended
  frame,      \* the handler's local variables
  overlapped  \* history: two requests have been under way at a time

tables == <<groups, users, roles, links>>
vars == <<tables, audit, pc, frame, overlapped>>

MemberPairs == GroupIds \X Users

GroupRolePairs == GroupIds \X Roles

UserRolePairs == Users \X Roles

Links == MemberPairs \cup GroupRolePairs \cup UserRolePairs

Presence == {"none", "live", "deleted"}

Statements ==
  {"code", "insertGroup", "reload", "write", "dropMembers", "dropRoles",
   "user", "role", "link", "insertLink", "saveLink", "saveUser", "audit"}

\* refused: one of the service's own checks threw; conflict: the database
\* refused the row and the client sees a 500; aborted: a statement failed or
\* the process died.
Outcomes == {"done", "refused", "conflict", "aborted"}

\* target is the group, user or role of the URL, link the row to add or take
\* away; ent is the entity that will be saved and base the row re-read.
Frame ==
  [path : AllHandlers \cup {"none"}, scope : Tenants \cup {None},
   target : GroupIds \cup Users \cup Roles \cup {None},
   link : Links \cup {None}, ent : Group \cup Role \cup {None},
   base : Group \cup Role \cup {None}]

NoCall ==
  [path |-> "none", scope |-> None, target |-> None, link |-> None,
   ent |-> None, base |-> None]

InFlight == {r \in Requests : pc[r] \in Statements}

StoredGroups == {g \in GroupIds : groups[g] # None}

LiveLinks == {l \in Links : links[l] = "live"}

LinksOf(g) == {l \in LiveLinks : l[1] = g}

-----------------------------------------------------------------------------
(* Mutants: one plausible bug each, for the properties at the end *)

AnyTenantsRole(x, t) == ~roles[x].isDeleted /\ roles[x].status = "ACTIVE"

ForgetRoles(r) == "audit"

LiveCodesOnly(t, c) ==
  \A g \in StoredGroups :
    ~groups[g].isDeleted => <<groups[g].tenant, groups[g].code>> # <<t, c>>

ScopeIgnored(g, scope) == g \in StoredGroups /\ ~groups[g].isDeleted

-----------------------------------------------------------------------------
(* The checks *)

InScope(tenant, scope) == scope \in {None, tenant}

\* GroupsService.findGroup
FoundGroup(g, scope) ==
  /\ g \in StoredGroups
  /\ ~groups[g].isDeleted
  /\ InScope(groups[g].tenant, scope)

\* UsersService.findUser
FoundUser(u, scope) ==
  ~users[u].isDeleted /\ InScope(users[u].tenant, scope)

\* RolesService.findRole and assertMutable: a tenant's administrator sees
\* global roles but may not change them.
MutableRole(x, scope) ==
  ~roles[x].isDeleted /\ InScope(roles[x].tenant, scope)

\* ensureCodeAvailable looks at the deleted groups too.
CodeAvailable(t, c) ==
  \A g \in StoredGroups : <<groups[g].tenant, groups[g].code>> # <<t, c>>

\* UNIQUE (tenant_id, group_code)
UniqueGroup(t, c) ==
  \A g \in StoredGroups : <<groups[g].tenant, groups[g].code>> # <<t, c>>

\* findAssignableRole, for a group or a user of tenant t.
AssignableRole(x, t) ==
  /\ ~roles[x].isDeleted /\ roles[x].status = "ACTIVE"
  /\ roles[x].tenant \in {None, t}

\* TypeORM's save: the columns in which the entity differs from the row that
\* save re-read are written.
Merge(row, base, ent) ==
  [row EXCEPT
     !.status = IF ent.status = base.status THEN @ ELSE ent.status,
     !.isDeleted = IF ent.isDeleted = base.isDeleted THEN @ ELSE ent.isDeleted]

-----------------------------------------------------------------------------
(* First statements *)

Begin(r, handler, statement, call) ==
  /\ handler \in Handlers
  /\ pc' = [pc EXCEPT ![r] = statement]
  /\ frame' = [frame EXCEPT ![r] =
                 IF statement \in Outcomes THEN NoCall ELSE call]
  /\ overlapped' = (overlapped \/ InFlight # {})
  /\ UNCHANGED <<tables, audit>>

Call(handler, scope, target) ==
  [NoCall EXCEPT !.path = handler, !.scope = scope, !.target = target]

\* resolveTenant: the caller's tenant has to be the one asked for.
CreateGroup(r, scope, t, c, status) ==
  Begin(r, "createGroup", IF InScope(t, scope) THEN "code" ELSE "refused",
        [Call("createGroup", scope, r) EXCEPT
           !.ent = [tenant |-> t, code |-> c, status |-> status,
                    isDeleted |-> FALSE]])

GroupNotFound(r, handler, scope, g) ==
  /\ ~FoundGroup(g, scope)
  /\ Begin(r, handler, "refused", NoCall)

\* Mutant: the request's tenant is copied with its other fields.
UpdateMovesGroup(r, scope, g, t, status) ==
  /\ FoundGroup(g, scope)
  /\ Begin(r, "updateGroup", "reload",
           [Call("updateGroup", scope, g) EXCEPT
              !.ent = [groups[g] EXCEPT !.status = status, !.tenant = t]])

\* A group cannot be moved to tenant t if it belongs to another; an update
\* without a status leaves the one that was read.
UpdateGroup(r, scope, g, t, status) ==
  /\ FoundGroup(g, scope)
  /\ Begin(r, "updateGroup",
           IF t = groups[g].tenant THEN "reload" ELSE "refused",
           [Call("updateGroup", scope, g) EXCEPT
              !.ent = [groups[g] EXCEPT !.status = status]])

DeleteGroup(r, scope, g) ==
  /\ FoundGroup(g, scope)
  /\ Begin(r, "deleteGroup", "reload",
           [Call("deleteGroup", scope, g) EXCEPT
              !.ent = [groups[g] EXCEPT !.isDeleted = TRUE]])

\* addMember and removeMember
ChangeMember(r, handler, scope, g, u) ==
  /\ handler \in {"addMember", "removeMember"}
  /\ Begin(r, handler,
           IF ~FoundGroup(g, scope) THEN "refused"
           ELSE IF handler = "addMember" THEN "user" ELSE "link",
           [Call(handler, scope, g) EXCEPT !.link = <<g, u>>])

\* assignRole and revokeRole of the groups
ChangeGroupRole(r, handler, scope, g, x) ==
  /\ handler \in {"assignGroupRole", "revokeGroupRole"}
  /\ Begin(r, handler,
           IF ~FoundGroup(g, scope) THEN "refused"
           ELSE IF handler = "assignGroupRole" THEN "role" ELSE "link",
           [Call(handler, scope, g) EXCEPT !.link = <<g, x>>])

\* assignUserRole and revokeUserRole
ChangeUserRole(r, handler, scope, u, x) ==
  /\ handler \in {"assignUserRole", "revokeUserRole"}
  /\ Begin(r, handler,
           IF ~FoundUser(u, scope) THEN "refused"
           ELSE IF handler = "assignUserRole" THEN "role" ELSE "link",
           [Call(handler, scope, u) EXCEPT !.link = <<u, x>>])

\* RolesService.update: without a status, the role becomes active.
UpdateRole(r, scope, x, status) ==
  Begin(r, "updateRole", IF MutableRole(x, scope) THEN "reload" ELSE "refused",
        [Call("updateRole", scope, x) EXCEPT
           !.ent = [roles[x] EXCEPT !.status = status]])

DeleteRole(r, scope, x) ==
  Begin(r, "deleteRole", IF MutableRole(x, scope) THEN "reload" ELSE "refused",
        [Call("deleteRole", scope, x) EXCEPT
           !.ent = [roles[x] EXCEPT !.isDeleted = TRUE]])

\* UsersService.delete; its sessions are AuthSessions' business.
DeleteUser(r, scope, u) ==
  Begin(r, "deleteUser", IF FoundUser(u, scope) THEN "saveUser" ELSE "refused",
        Call("deleteUser", scope, u))

-----------------------------------------------------------------------------
(* The statements that follow *)

Goto(r, statement) ==
  /\ pc' = [pc EXCEPT ![r] = statement]
  /\ frame' = [frame EXCEPT ![r] = IF statement \in Outcomes THEN NoCall ELSE @]

\* A check: the handler goes on to the next statement or throws.
Check(r, statement, holds, next) ==
  /\ pc[r] = statement
  /\ Goto(r, IF holds THEN next ELSE "refused")
  /\ UNCHANGED <<tables, audit, overlapped>>

\* Mutant: a creation brings a deleted group with its code back, as additions
\* do with the rows of the join tables.
CreationRevives(r) ==
  LET same == {g \in StoredGroups :
                 /\ groups[g].tenant = frame[r].ent.tenant
                 /\ groups[g].code = frame[r].ent.code}
  IN
  /\ pc[r] = "code"
  /\ groups' = [g \in GroupIds |->
                  IF g \in same THEN [groups[g] EXCEPT !.isDeleted = FALSE]
                  ELSE groups[g]]
  /\ Goto(r, IF same = {} THEN "insertGroup" ELSE "audit")
  /\ UNCHANGED <<users, roles, links, audit, overlapped>>

CheckCode(r) ==
  Check(r, "code", CodeAvailable(frame[r].ent.tenant, frame[r].ent.code),
        "insertGroup")

\* addMember: the account exists and is the group's tenant's.
CheckUser(r) ==
  LET u == frame[r].link[2] IN
  Check(r, "user",
        ~users[u].isDeleted /\ users[u].tenant = groups[frame[r].target].tenant,
        "link")

\* The tenant of the group or user that is given the role.
TargetTenant(r) ==
  IF frame[r].path = "assignGroupRole" THEN groups[frame[r].target].tenant
  ELSE users[frame[r].target].tenant

CheckRole(r) ==
  Check(r, "role", AssignableRole(frame[r].link[2], TargetTenant(r)), "link")

\* The row of the join table, deleted or not, decides between an INSERT, a
\* revival, a removal and a refusal.
FindLink(r) ==
  /\ pc[r] = "link"
  /\ Goto(r, CASE frame[r].path \in Additions ->
                    (CASE links[frame[r].link] = "none" -> "insertLink"
                       [] links[frame[r].link] = "deleted" -> "saveLink"
                       [] OTHER -> "refused")
               [] OTHER -> IF links[frame[r].link] = "live" THEN "saveLink"
                           ELSE "refused")
  /\ UNCHANGED <<tables, audit, overlapped>>

InsertGroup(r) ==
  LET new == frame[r].ent IN
  /\ pc[r] = "insertGroup"
  /\ IF UniqueGroup(new.tenant, new.code)
     THEN groups' = [groups EXCEPT ![r] = new] /\ Goto(r, "audit")
     ELSE UNCHANGED groups /\ Goto(r, "conflict")
  /\ UNCHANGED <<users, roles, links, audit, overlapped>>

Reload(r) ==
  LET target == frame[r].target IN
  /\ pc[r] = "reload"
  /\ pc' = [pc EXCEPT ![r] = "write"]
  /\ frame' = [frame EXCEPT ![r].base =
                 IF target \in GroupIds THEN groups[target] ELSE roles[target]]
  /\ UNCHANGED <<tables, audit, overlapped>>

Write(r) ==
  LET target == frame[r].target
      saved(row) == Merge(row, frame[r].base, frame[r].ent)
  IN
  /\ pc[r] = "write"
  /\ IF target \in GroupIds
     THEN /\ groups' = [groups EXCEPT ![target] = saved(@)]
          /\ UNCHANGED roles
     ELSE /\ roles' = [roles EXCEPT ![target] = saved(@)]
          /\ UNCHANGED groups
  /\ Goto(r, IF frame[r].path = "deleteGroup" THEN "dropMembers" ELSE "audit")
  /\ UNCHANGED <<users, links, audit, overlapped>>

\* One UPDATE of all the group's live rows in one table.
Drop(r, pairs) ==
  links' = [l \in Links |->
              IF l \in LinksOf(frame[r].target) \cap pairs THEN "deleted"
              ELSE links[l]]

AfterMembers(r) == "dropRoles"

DropMembers(r) ==
  /\ pc[r] = "dropMembers"
  /\ Drop(r, MemberPairs)
  /\ Goto(r, AfterMembers(r))
  /\ UNCHANGED <<groups, users, roles, audit, overlapped>>

DropRoles(r) ==
  /\ pc[r] = "dropRoles"
  /\ Drop(r, GroupRolePairs)
  /\ Goto(r, "audit")
  /\ UNCHANGED <<groups, users, roles, audit, overlapped>>

\* UNIQUE on the pair decides again.
InsertLink(r) ==
  /\ pc[r] = "insertLink"
  /\ IF links[frame[r].link] = "none"
     THEN /\ links' = [links EXCEPT ![frame[r].link] = "live"]
          /\ Goto(r, "audit")
     ELSE UNCHANGED links /\ Goto(r, "conflict")
  /\ UNCHANGED <<groups, users, roles, audit, overlapped>>

\* save of a row that differs in is_deleted at most: its two halves amount to
\* one write.
SaveLink(r) ==
  /\ pc[r] = "saveLink"
  /\ links' = [links EXCEPT ![frame[r].link] =
                 IF frame[r].path \in Additions THEN "live" ELSE "deleted"]
  /\ Goto(r, "audit")
  /\ UNCHANGED <<groups, users, roles, audit, overlapped>>

SaveUser(r) ==
  /\ pc[r] = "saveUser"
  /\ users' = [users EXCEPT ![frame[r].target].isDeleted = TRUE]
  /\ Goto(r, "audit")
  /\ UNCHANGED <<groups, roles, links, audit, overlapped>>

\* The action a handler logs, for the group, role or user of the URL.
Action ==
  [handler \in AllHandlers |->
     CASE handler = "createGroup" -> "CREATE"
       [] handler \in {"updateGroup", "updateRole", "addMember", "removeMember"} ->
            "UPDATE"
       [] handler \in {"deleteGroup", "deleteRole", "deleteUser"} -> "DELETE"
       [] handler \in {"assignGroupRole", "assignUserRole"} -> "ASSIGN_ROLE"
       [] OTHER -> "REVOKE_ROLE"]

Audit(r) ==
  /\ pc[r] = "audit"
  /\ audit' = audit \cup {<<Action[frame[r].path], frame[r].target>>}
  /\ Goto(r, "done")
  /\ UNCHANGED <<tables, overlapped>>

\* A statement fails or the process dies: what was committed stays.
Abort(r) ==
  /\ pc[r] \in Statements
  /\ Goto(r, "aborted")
  /\ UNCHANGED <<tables, audit, overlapped>>

-----------------------------------------------------------------------------
(* Who may do what *)

\* ACTIVE_ROLE_SOURCES_SQL: the roles behind the claims of a token and the
\* listing of effective permissions.
ActiveRoles(u) ==
  {x \in Roles :
     /\ ~roles[x].isDeleted /\ roles[x].status = "ACTIVE"
     /\ \/ links[<<u, x>>] = "live"
        \/ \E g \in StoredGroups :
             /\ links[<<g, u>>] = "live" /\ links[<<g, x>>] = "live"
             /\ ~groups[g].isDeleted /\ groups[g].status = "ACTIVE"}

-----------------------------------------------------------------------------
(* The specification *)

\* The rows that link l joins are of one tenant, a global role apart.
SameTenant(l) ==
  /\ l \in MemberPairs => users[l[2]].tenant = groups[l[1]].tenant
  /\ l \in GroupRolePairs => roles[l[2]].tenant \in {None, groups[l[1]].tenant}
  /\ l \in UserRolePairs => roles[l[2]].tenant \in {None, users[l[1]].tenant}

\* The behaviours start from any active groups and roles and any accounts, none
\* deleted, and any live or deleted links that the handlers would have made.
Init ==
  /\ \E seed \in [Groups -> {row \in Group :
                              row.status = "ACTIVE" /\ ~row.isDeleted}] :
       groups = [g \in GroupIds |-> IF g \in Groups THEN seed[g] ELSE None]
  /\ \A g, h \in Groups :
       groups[g].tenant = groups[h].tenant /\ groups[g].code = groups[h].code
         => g = h
  /\ users \in [Users -> {row \in User : ~row.isDeleted}]
  /\ roles \in [Roles -> {row \in Role :
                          row.status = "ACTIVE" /\ ~row.isDeleted}]
  /\ \E kept \in [{l \in Links : l[1] \notin Requests} -> Presence] :
       /\ \A l \in DOMAIN kept : kept[l] # "none" => SameTenant(l)
       /\ links = [l \in Links |-> IF l \in DOMAIN kept THEN kept[l] ELSE "none"]
  /\ audit = {}
  /\ pc = [r \in Requests |-> "idle"]
  /\ frame = [r \in Requests |-> NoCall]
  /\ overlapped = FALSE

GroupCall(r, scope) ==
  \/ \E t \in Tenants, c \in Codes, status \in Status :
       CreateGroup(r, scope, t, c, status)
  \/ \E g \in GroupIds, handler \in GroupHandlers \ {"createGroup"} :
       GroupNotFound(r, handler, scope, g)
  \/ \E g \in GroupIds, t \in Tenants, status \in Status :
       UpdateGroup(r, scope, g, t, status)
  \/ \E g \in GroupIds : DeleteGroup(r, scope, g)

AssignmentCall(r, scope) ==
  \E handler \in Additions \cup Removals :
    \/ \E g \in GroupIds, u \in Users : ChangeMember(r, handler, scope, g, u)
    \/ \E g \in GroupIds, x \in Roles : ChangeGroupRole(r, handler, scope, g, x)
    \/ \E u \in Users, x \in Roles : ChangeUserRole(r, handler, scope, u, x)

OtherCall(r, scope) ==
  \/ \E x \in Roles, status \in Status : UpdateRole(r, scope, x, status)
  \/ \E x \in Roles : DeleteRole(r, scope, x)
  \/ \E u \in Users : DeleteUser(r, scope, u)

Request(r) ==
  /\ pc[r] = "idle"
  /\ Cardinality(InFlight) < MaxInFlight
  /\ \E scope \in Tenants \cup {None} :
       GroupCall(r, scope) \/ AssignmentCall(r, scope) \/ OtherCall(r, scope)

Step(r) ==
  \/ CheckCode(r) \/ CheckUser(r) \/ CheckRole(r) \/ FindLink(r)
  \/ InsertGroup(r) \/ Reload(r) \/ Write(r) \/ DropMembers(r) \/ DropRoles(r)
  \/ InsertLink(r) \/ SaveLink(r) \/ SaveUser(r) \/ Audit(r)

Next == \E r \in Requests : Request(r) \/ Step(r) \/ Abort(r)

Spec == Init /\ [][Next]_vars

-----------------------------------------------------------------------------
(* Properties *)

\* Every variable has its type, and a group or role about to be saved still
\* has the tenant of the row that save will find under its id.
TypeOK ==
  /\ groups \in [GroupIds -> Group \cup {None}]
  /\ users \in [Users -> User]
  /\ roles \in [Roles -> Role]
  /\ links \in [Links -> Presence]
  /\ audit \subseteq {Action[h] : h \in AllHandlers} \X (GroupIds \cup Users \cup Roles)
  /\ pc \in [Requests -> {"idle"} \cup Statements \cup Outcomes]
  /\ frame \in [Requests -> Frame]
  /\ overlapped \in BOOLEAN
  /\ \A r \in Requests : pc[r] \in {"reload", "write"} =>
       LET target == frame[r].target
           row == IF target \in GroupIds THEN groups[target] ELSE roles[target]
       IN  row # None /\ row.tenant = frame[r].ent.tenant

\* 'Cannot add a user from another tenant', 'Cannot assign a role from another
\* tenant': no interleaving joins rows of two tenants, in a row that is
\* deleted either, as it may be revived; so what a user may do never comes
\* from another tenant.
TenantIsolation ==
  /\ \A l \in Links : links[l] # "none" => SameTenant(l)
  /\ \A u \in Users : \A x \in ActiveRoles(u) :
       roles[x].tenant \in {None, users[u].tenant}

\* Whatever overlaps, a request of a tenant's administrator changes groups,
\* roles, accounts and links of that tenant only.
ScopedChangesOwnTenant ==
  [][\A r \in Requests :
       pc[r] # pc'[r] /\ frame[r].scope # None =>
         /\ \A g \in GroupIds : groups[g] # groups'[g] =>
              groups'[g].tenant = frame[r].scope
         /\ \A x \in Roles : roles[x] # roles'[x] =>
              roles[x].tenant = frame[r].scope
         /\ \A u \in Users : users[u] # users'[u] =>
              users[u].tenant = frame[r].scope
         /\ \A l \in Links : links[l] # links'[l] =>
              frame[r].scope = IF l[1] \in Users THEN users[l[1]].tenant
                               ELSE groups[l[1]].tenant]_vars

\* One by one, what the audit trail reports as deleted stays deleted, and a
\* group it reports has nobody and nothing left in it.
AuditedDeletionIsComplete ==
  ~overlapped =>
    /\ \A g \in StoredGroups : <<"DELETE", g>> \in audit =>
         groups[g].isDeleted /\ LinksOf(g) = {}
    /\ \A x \in Roles : <<"DELETE", x>> \in audit => roles[x].isDeleted
    /\ \A u \in Users : <<"DELETE", u>> \in audit => users[u].isDeleted

\* What may let user u act in role x: a link that is added, or the activation of
\* the role or of a group u is in.
CauseOfAccess(u, x) ==
  \/ \E l \in LiveLinks' \ LiveLinks : u \in {l[1], l[2]} \/ x = l[2]
  \/ roles[x].status = "INACTIVE"
  \/ \E g \in StoredGroups : /\ groups[g].status = "INACTIVE"
                             /\ links[<<g, u>>] = "live"
                             /\ ~groups[g].isDeleted

AccessHasCause ==
  ~overlapped =>
    \A u \in Users : \A x \in ActiveRoles(u)' \ ActiveRoles(u) :
      CauseOfAccess(u, x)

\* One by one, an account gains a role only in a step that adds one of its
\* links or activates the group or the role; the links that a group's
\* deletion left behind when it was cut short give nothing again.
AccessGrowsWhenAsked == [][AccessHasCause]_vars

\* One by one, the handlers' checks cover the constraints of the database, so
\* that no call ends in a 500 for a duplicate, of a deleted group's code or a
\* row that was taken away either.
DuplicatesAreRefused ==
  ~overlapped => \A r \in Requests : pc[r] # "conflict"

-----------------------------------------------------------------------------
(* The inductive invariant *)

OnGroup ==
  {"updateGroup", "deleteGroup", "addMember", "removeMember",
   "assignGroupRole", "revokeGroupRole"}

OnRole == {"updateRole", "deleteRole"}

OnUser == {"deleteUser", "assignUserRole", "revokeUserRole"}

Saving == {"updateGroup", "deleteGroup", "updateRole", "deleteRole"}

\* The statements a handler goes through.
StatementsOf(path) ==
  CASE path = "createGroup" -> {"code", "insertGroup", "audit"}
    [] path = "deleteGroup" ->
         {"reload", "write", "dropMembers", "dropRoles", "audit"}
    [] path \in Saving \ {"deleteGroup"} -> {"reload", "write", "audit"}
    [] path = "addMember" -> {"user", "link", "insertLink", "saveLink", "audit"}
    [] path \in Additions \ {"addMember"} ->
         {"role", "link", "insertLink", "saveLink", "audit"}
    [] path \in Removals -> {"link", "saveLink", "audit"}
    [] path = "deleteUser" -> {"saveUser", "audit"}
    [] OTHER -> {}

PairsOf(path) ==
  CASE path \in {"addMember", "removeMember"} -> MemberPairs
    [] path \in {"assignGroupRole", "revokeGroupRole"} -> GroupRolePairs
    [] OTHER -> UserRolePairs

\* The row a request works on exists and is within the caller's scope.
TargetFits(r) ==
  LET f == frame[r] IN
  /\ f.path = "createGroup" =>
       /\ f.target = r
       /\ f.ent \in Group /\ ~f.ent.isDeleted /\ InScope(f.ent.tenant, f.scope)
       /\ pc[r] # "audit" => groups[r] = None
  /\ f.path \in OnGroup =>
       f.target \in StoredGroups /\ InScope(groups[f.target].tenant, f.scope)
  /\ f.path \in OnRole =>
       f.target \in Roles /\ InScope(roles[f.target].tenant, f.scope)
  /\ f.path \in OnUser =>
       f.target \in Users /\ InScope(users[f.target].tenant, f.scope)

\* What a request is going to save belongs to that row.
EntityFits(r) ==
  LET f == frame[r] IN
  /\ f.path \in Saving \cap OnGroup =>
       /\ f.ent \in Group /\ f.ent.tenant = groups[f.target].tenant
       /\ pc[r] = "write" => f.base \in Group
  /\ f.path \in OnRole =>
       /\ f.ent \in Role /\ f.ent.tenant = roles[f.target].tenant
       /\ pc[r] = "write" => f.base \in Role
  /\ f.path \in Saving =>
       (f.ent.isDeleted <=> f.path \in {"deleteGroup", "deleteRole"})

\* So does the link, which joins rows of one tenant once that was checked.
LinkFits(r) ==
  LET f == frame[r] IN
  f.path \in Additions \cup Removals =>
    /\ f.link \in PairsOf(f.path) /\ f.link[1] = f.target
    /\ f.path \in Additions /\ pc[r] \in {"link", "insertLink", "saveLink"} =>
         SameTenant(f.link)
    /\ pc[r] = "saveLink" => links[f.link] # "none"

FrameFits(r) ==
  /\ frame[r].path \in AllHandlers
  /\ pc[r] \in StatementsOf(frame[r].path)
  /\ TargetFits(r) /\ EntityFits(r) /\ LinkFits(r)

FramesFit ==
  \A r \in Requests :
    /\ r \in InFlight => FrameFits(r)
    /\ pc[r] = "idle" => groups[r] = None

\* A row of a join table joins rows that exist and are of one tenant.
LinksFit ==
  \A l \in Links : links[l] # "none" =>
    l[1] \in StoredGroups \cup Users /\ SameTenant(l)

AuditFits == \A g \in GroupIds : <<"DELETE", g>> \in audit => g \in StoredGroups

OneByOne == ~overlapped => \A a, b \in InFlight : a = b

\* What a request has checked, read or done still holds as long as no other has
\* been under way beside it.
CheckedHolds(r) ==
  LET f == frame[r] IN
  /\ pc[r] = "insertGroup" => CodeAvailable(f.ent.tenant, f.ent.code)
  /\ f.path \in OnGroup /\ pc[r] \notin {"dropMembers", "dropRoles", "audit"} =>
       ~groups[f.target].isDeleted
  /\ f.path \in OnRole /\ pc[r] # "audit" => ~roles[f.target].isDeleted
  /\ pc[r] = "write" =>
       f.base = IF f.path \in OnRole THEN roles[f.target] ELSE groups[f.target]
  /\ pc[r] = "insertLink" => links[f.link] = "none"
  /\ pc[r] = "dropMembers" => groups[f.target].isDeleted
  /\ pc[r] = "dropRoles" =>
       groups[f.target].isDeleted /\ LinksOf(f.target) \cap MemberPairs = {}
  /\ pc[r] = "audit" =>
       /\ f.path = "deleteGroup" =>
            groups[f.target].isDeleted /\ LinksOf(f.target) = {}
       /\ f.path = "deleteRole" => roles[f.target].isDeleted
       /\ f.path = "deleteUser" => users[f.target].isDeleted

AloneHolds == ~overlapped => \A r \in InFlight : CheckedHolds(r)

\* The strengthening from which the safety of the memberships is proved.
IInv ==
  /\ TypeOK
  /\ FramesFit
  /\ LinksFit
  /\ AuditFits
  /\ OneByOne
  /\ AloneHolds
  /\ AuditedDeletionIsComplete
  /\ DuplicatesAreRefused
=============================================================================
