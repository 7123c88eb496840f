-------------------------- MODULE PermissionCatalog --------------------------
(***************************************************************************)
(* Modules, the permissions they contain, roles and the permissions they   *)
(* are granted: src/src/modules/modules.service.ts,                        *)
(* src/src/permissions/permissions.service.ts and                          *)
(* src/src/roles/roles.service.ts.                                         *)
(*                                                                         *)
(* As in AuthSessions an action is one SQL statement and the code that     *)
(* runs on its answer, and a request is used once; the permission or role  *)
(* that request r creates is named r.  A module is named by its code, which *)
(* UNIQUE keeps for one row and no handler changes.                        *)
(***************************************************************************)
EXTENDS Naturals, FiniteSets

CONSTANTS
  Modules,          \* module codes
  SystemModules,    \* those of system modules, which exist from the start
  SystemRoles,      \* seeded roles that the API must not change
  CustomRoles,      \* other roles that exist at the start
  SeedPermissions,  \* permissions that may exist at the start
  Codes,            \* permission and role codes
  Operations,       \* PermissionOperation
  Tenants,          \* the tenants, none of them deleted
  Requests,         \* the HTTP calls of a behaviour
  None,             \* no row; the tenant of a global role
  MaxInFlight,      \* bound: requests between their first and last statement
  Handlers          \* bound: the handlers this instance calls

AllHandlers ==
  {"createModule", "updateModule", "deleteModule",
   "createPermission", "updatePermission", "deletePermission",
   "createRole", "updateRole", "deleteRole",
   "grant", "revoke", "batchGrant", "batchRevoke"}

PermissionIds == SeedPermissions \cup Requests
RoleIds == SystemRoles \cup CustomRoles \cup Requests

ASSUME CatalogIdsAssumption ==
  /\ SystemModules \subseteq Modules
  /\ SystemRoles \cap (CustomRoles \cup Requests) = {}
  /\ SeedPermissions \cap Requests = {} /\ CustomRoles \cap Requests = {}
ASSUME CatalogBoundsAssumption ==
  MaxInFlight \in Nat \ {0} /\ Handlers \subseteq AllHandlers

VARIABLES
  modules,      \* core.modules: code -> Presence
  permissions,  \* core.permissions: id -> row or None
  roles,        \* core.roles: id -> row or None
  grants,       \* core.role_permissions: <<role, permission>> -> Presence
  audit,        \* core.audit_logs: the requests that have logged what they did
  pc,           \* the statement a request runs next, or how it ended
  frame,        \* the handler's local variables
  overlapped    \* history: two requests have been under way at a time

tables == <<modules, permissions, roles, grants>>
vars == <<tables, audit, pc, frame, overlapped>>

\* A row that has no other column of interest than is_deleted.
Presence == {"none", "live", "deleted"}

Permission ==
  [code : Codes, module : Modules, operation : Operations,
   isDeleted : BOOLEAN]

Role == [tenant : Tenants \cup {None}, code : Codes, isDeleted : BOOLEAN]

\* An entity read without its module has None there.
Entity ==
  [code : Codes, module : Modules \cup {None}, operation : Operations,
   isDeleted : BOOLEAN]

ASSUME CatalogNoneAssumption ==
  /\ None \notin Modules \cup PermissionIds \cup RoleIds \cup Tenants
  /\ None \notin Permission \cup Role \cup Entity

Statements ==
  {"requireModule", "code", "operation", "insertPermission", "roleCount",
   "reload", "write", "insertModule", "saveModule", "children",
   "insertRole", "saveRole", "permission", "existing", "insertGrant",
   "grants", "saveGrants", "audit"}

\* refused: one of the service's own checks threw; conflict: the database
\* refused the row and the client sees a 500; aborted: a statement failed or
\* the process died.
Outcomes == {"done", "refused", "conflict", "aborted"}

\* target is the module, permission or role of the URL, perms the permissions
\* of the body still to do, pairs the grants about to be saved, role a new
\* role, ent the permissions that will be saved and base those rows re-read.
Frame ==
  [path : AllHandlers \cup {"none"},
   target : Modules \cup PermissionIds \cup RoleIds \cup {None},
   perms : SUBSET PermissionIds, pairs : SUBSET (RoleIds \X PermissionIds),
   role : Role \cup {None}, ent : [PermissionIds -> Entity \cup {None}],
   base : [PermissionIds -> Permission \cup {None}]]

NoEntities == [p \in PermissionIds |-> None]

NoCall ==
  [path |-> "none", target |-> None, perms |-> {}, pairs |-> {},
   role |-> None, ent |-> NoEntities, base |-> NoEntities]

InFlight == {r \in Requests : pc[r] \in Statements}

StoredPermissions == {p \in PermissionIds : permissions[p] # None}

LivePermissions == {p \in StoredPermissions : ~permissions[p].isDeleted}

StoredRoles == {x \in RoleIds : roles[x] # None}

LiveRoles == {x \in StoredRoles : ~roles[x].isDeleted}

LiveGrants == {g \in RoleIds \X PermissionIds : grants[g] = "live"}

-----------------------------------------------------------------------------
(* Mutants: one plausible bug each, for the properties at the end *)

AnyRole(x) == x \in LiveRoles

CascadeForgotten(children) == "saveModule"

HeldOrNot(r) == {frame[r].target} \X frame[r].perms

GrantsIgnored(p) == TRUE

LiveRoleCodesOnly(t, c) ==
  \A x \in LiveRoles : <<roles[x].tenant, roles[x].code>> # <<t, c>>

DeletedModulesToo(m) == m \notin SystemModules /\ modules[m] # "none"

-----------------------------------------------------------------------------
(* The checks *)

\* ModulesService.findModule and assertMutable
MutableModule(m) == m \notin SystemModules /\ modules[m] = "live"

\* PermissionsService.findPermission
FoundPermission(p) ==
  p \in LivePermissions /\ modules[permissions[p].module] = "live"

\* RolesService.findRole and assertMutable
MutableRole(x) == x \in LiveRoles /\ x \notin SystemRoles

\* The availability checks see deleted rows too; p is the permission being
\* updated, or the request that creates one.
CodeAvailable(c, p) ==
  \A q \in StoredPermissions \ {p} : permissions[q].code # c

OperationAvailable(m, o, p) ==
  \A q \in StoredPermissions \ {p} :
    <<permissions[q].module, permissions[q].operation>> # <<m, o>>

RoleCodeAvailable(t, c) ==
  \A x \in StoredRoles : <<roles[x].tenant, roles[x].code>> # <<t, c>>

\* No role holds the permission.
Unassigned(p) == \A x \in RoleIds : grants[<<x, p>>] # "live"

\* UNIQUE (module_id, operation)
UniqueOperations(rows) ==
  \A p, q \in PermissionIds :
    /\ rows[p] # None /\ rows[q] # None
    /\ rows[p].module = rows[q].module
    /\ rows[p].operation = rows[q].operation
    => p = q

\* UNIQUE (tenant_id, role_code) does not compare NULL tenants.
UniqueRole(t, c) == t # None => RoleCodeAvailable(t, c)

\* TypeORM's save: the columns in which the entity differs from the row that
\* save re-read are written; a module that was not read is not.
Merge(row, base, ent) ==
  LET pick(mine, read, stored) == IF mine = read THEN stored ELSE mine
  IN  [code      |-> pick(ent.code, base.code, row.code),
       module    |-> IF ent.module = None THEN row.module
                     ELSE pick(ent.module, base.module, row.module),
       operation |-> pick(ent.operation, base.operation, row.operation),
       isDeleted |-> pick(ent.isDeleted, base.isDeleted, row.isDeleted)]

-----------------------------------------------------------------------------
(* First statements *)

Begin(r, handler, statement, call) ==
  /\ handler \in Handlers
  /\ pc' = [pc EXCEPT ![r] = statement]
  /\ frame' = [frame EXCEPT ![r] =
                 IF statement \in Outcomes THEN NoCall ELSE call]
  /\ overlapped' = (overlapped \/ InFlight # {})
  /\ UNCHANGED <<tables, audit>>

BeginOn(r, handler, statement, target) ==
  Begin(r, handler, statement,
        [NoCall EXCEPT !.path = handler, !.target = target])

CreateModule(r, m) ==
  BeginOn(r, "createModule",
          IF modules[m] = "none" THEN "insertModule" ELSE "refused", m)

\* update does not change the code; a module's status takes part in no check.
UpdateModule(r, m) ==
  BeginOn(r, "updateModule",
          IF MutableModule(m) THEN "saveModule" ELSE "refused", m)

DeleteModule(r, m) ==
  BeginOn(r, "deleteModule",
          IF MutableModule(m) THEN "children" ELSE "refused", m)

\* requireModule is the first statement of a creation.
CreatePermission(r, c, m, o) ==
  Begin(r, "createPermission",
        IF modules[m] = "live" THEN "code" ELSE "refused",
        [NoCall EXCEPT !.path = "createPermission", !.target = r,
           !.ent[r] = [code |-> c, module |-> m, operation |-> o,
                       isDeleted |-> FALSE]])

UpdatePermission(r, p, c, m, o) ==
  /\ FoundPermission(p)
  /\ Begin(r, "updatePermission", "requireModule",
           [NoCall EXCEPT !.path = "updatePermission", !.target = p,
              !.ent[p] = [code |-> c, module |-> m, operation |-> o,
                          isDeleted |-> FALSE]])

DeletePermission(r, p) ==
  /\ FoundPermission(p)
  /\ Begin(r, "deletePermission", "roleCount",
           [NoCall EXCEPT !.path = "deletePermission", !.target = p,
              !.ent[p] = [permissions[p] EXCEPT !.isDeleted = TRUE]])

PermissionNotFound(r, handler, p) ==
  /\ handler \in {"updatePermission", "deletePermission"}
  /\ ~FoundPermission(p)
  /\ BeginOn(r, handler, "refused", p)

CreateRole(r, t, c) ==
  Begin(r, "createRole",
        IF RoleCodeAvailable(t, c) THEN "insertRole" ELSE "refused",
        [NoCall EXCEPT !.path = "createRole", !.target = r,
           !.role = [tenant |-> t, code |-> c, isDeleted |-> FALSE]])

UpdateRole(r, x) ==
  BeginOn(r, "updateRole",
          IF MutableRole(x) THEN "saveRole" ELSE "refused", x)

DeleteRole(r, x) ==
  BeginOn(r, "deleteRole",
          IF MutableRole(x) THEN "saveRole" ELSE "refused", x)

\* grantPermission and batchPermissions: the latter takes several permissions,
\* in the order of the request, which may be any.
ChangeGrants(r, handler, x, ps) ==
  /\ handler \in {"grant", "revoke", "batchGrant", "batchRevoke"}
  /\ handler \in {"grant", "revoke"} => Cardinality(ps) = 1
  /\ Begin(r, handler,
           IF ~MutableRole(x) THEN "refused"
           ELSE IF handler \in {"grant", "batchGrant"} THEN "permission"
           ELSE "grants",
           [NoCall EXCEPT !.path = handler, !.target = x, !.perms = ps])

-----------------------------------------------------------------------------
(* The statements that follow *)

\* On to the next statement with these local variables, or out.
GotoWith(r, statement, locals) ==
  /\ pc' = [pc EXCEPT ![r] = statement]
  /\ frame' = [frame EXCEPT ![r] =
                 IF statement \in Outcomes THEN NoCall ELSE locals]

Goto(r, statement) == GotoWith(r, statement, frame[r])

\* A check: the handler goes on to the next statement or throws.
Check(r, statement, holds, next) ==
  /\ pc[r] = statement
  /\ Goto(r, IF holds THEN next ELSE "refused")
  /\ UNCHANGED <<tables, audit, overlapped>>

Wanted(r) == frame[r].ent[frame[r].target]

RequireModule(r) ==
  Check(r, "requireModule", modules[Wanted(r).module] = "live", "code")

CheckCode(r) ==
  Check(r, "code", CodeAvailable(Wanted(r).code, frame[r].target),
        "operation")

CheckOperation(r) ==
  Check(r, "operation",
        OperationAvailable(Wanted(r).module, Wanted(r).operation,
                           frame[r].target),
        IF frame[r].path = "createPermission" THEN "insertPermission"
        ELSE "reload")

CheckRoleCount(r) ==
  Check(r, "roleCount", Unassigned(frame[r].target), "reload")

InsertPermission(r) ==
  LET rows == [permissions EXCEPT ![r] = frame[r].ent[r]] IN
  /\ pc[r] = "insertPermission"
  /\ IF UniqueOperations(rows)
     THEN permissions' = rows /\ Goto(r, "audit")
     ELSE UNCHANGED permissions /\ Goto(r, "conflict")
  /\ UNCHANGED <<modules, roles, grants, audit, overlapped>>

Reload(r) ==
  /\ pc[r] = "reload"
  /\ GotoWith(r, "write",
       [frame[r] EXCEPT !.base =
          [p \in PermissionIds |->
             IF frame[r].ent[p] = None THEN None ELSE permissions[p]]])
  /\ UNCHANGED <<tables, audit, overlapped>>

\* All the permissions of one save in one transaction.
Write(r) ==
  LET rows == [p \in PermissionIds |->
                 IF frame[r].ent[p] = None THEN permissions[p]
                 ELSE Merge(permissions[p], frame[r].base[p],
                            frame[r].ent[p])]
  IN
  /\ pc[r] = "write"
  /\ IF UniqueOperations(rows)
     THEN /\ permissions' = rows
          /\ Goto(r, IF frame[r].path = "deleteModule" THEN "saveModule"
                     ELSE "audit")
     ELSE UNCHANGED permissions /\ Goto(r, "conflict")
  /\ UNCHANGED <<modules, roles, grants, audit, overlapped>>

InsertModule(r) ==
  /\ pc[r] = "insertModule"
  /\ IF modules[frame[r].target] = "none"
     THEN /\ modules' = [modules EXCEPT ![frame[r].target] = "live"]
          /\ Goto(r, "audit")
     ELSE UNCHANGED modules /\ Goto(r, "conflict")
  /\ UNCHANGED <<permissions, roles, grants, audit, overlapped>>

\* save of an entity that differs from the row in is_deleted at most: its two
\* halves amount to one write.  An update that read a live module saves it as
\* live.
SaveModule(r) ==
  /\ pc[r] = "saveModule"
  /\ modules' = [modules EXCEPT ![frame[r].target] =
                   IF frame[r].path = "deleteModule" THEN "deleted" ELSE "live"]
  /\ Goto(r, "audit")
  /\ UNCHANGED <<permissions, roles, grants, audit, overlapped>>

InsertRole(r) ==
  LET new == frame[r].role IN
  /\ pc[r] = "insertRole"
  /\ IF UniqueRole(new.tenant, new.code)
     THEN roles' = [roles EXCEPT ![r] = new] /\ Goto(r, "audit")
     ELSE UNCHANGED roles /\ Goto(r, "conflict")
  /\ UNCHANGED <<modules, permissions, grants, audit, overlapped>>

SaveRole(r) ==
  /\ pc[r] = "saveRole"
  /\ roles' = [roles EXCEPT ![frame[r].target].isDeleted =
                 (frame[r].path = "deleteRole")]
  /\ Goto(r, "audit")
  /\ UNCHANGED <<modules, permissions, grants, audit, overlapped>>

AfterChildren(children) == IF children = {} THEN "saveModule" ELSE "grants"

\* deleteModule: the module's permissions, read without their module.
FindChildren(r) ==
  LET children ==
        {p \in LivePermissions : permissions[p].module = frame[r].target}
  IN
  /\ pc[r] = "children"
  /\ GotoWith(r, AfterChildren(children),
       [frame[r] EXCEPT
          !.perms = children,
          !.ent = [p \in PermissionIds |->
                     IF p \in children
                     THEN [permissions[p] EXCEPT !.isDeleted = TRUE,
                                                 !.module = None]
                     ELSE None]])
  /\ UNCHANGED <<tables, audit, overlapped>>

\* The grants to delete: of the role in the URL, or of any role when a module
\* goes.
Held(r) ==
  {g \in LiveGrants : /\ g[2] \in frame[r].perms
                      /\ \/ frame[r].path = "deleteModule"
                         \/ g[1] = frame[r].target}

FindGrants(r) ==
  LET otherwise == CASE frame[r].path = "deleteModule" -> "reload"
                     [] frame[r].path = "revoke" -> "refused"
                     [] OTHER -> "audit"
  IN
  /\ pc[r] = "grants"
  /\ GotoWith(r, IF Held(r) = {} THEN otherwise ELSE "saveGrants",
              [frame[r] EXCEPT !.pairs = Held(r)])
  /\ UNCHANGED <<tables, audit, overlapped>>

\* RolesService.findPermission, for the next permission to grant.
FindPermission(r) ==
  /\ pc[r] = "permission"
  /\ \E p \in frame[r].perms :
       GotoWith(r, IF p \in LivePermissions THEN "existing" ELSE "refused",
                [frame[r] EXCEPT !.perms = @ \ {p},
                                 !.pairs = {<<frame[r].target, p>>}])
  /\ UNCHANGED <<tables, audit, overlapped>>

\* What follows the save of grants.
AfterGrants(r) ==
  CASE frame[r].path = "deleteModule" -> "reload"
    [] frame[r].path \in {"grant", "batchGrant"} /\ frame[r].perms # {} ->
         "permission"
    [] OTHER -> "audit"

\* upsertGrant: leave a live row, revive a deleted one, insert a missing one.
FindExisting(r) ==
  /\ pc[r] = "existing"
  /\ \E g \in frame[r].pairs :
       Goto(r, CASE grants[g] = "live" -> AfterGrants(r)
                 [] grants[g] = "deleted" -> "saveGrants"
                 [] OTHER -> "insertGrant")
  /\ UNCHANGED <<tables, audit, overlapped>>

InsertGrant(r) ==
  /\ pc[r] = "insertGrant"
  /\ \E g \in frame[r].pairs :
       IF grants[g] = "none"
       THEN grants' = [grants EXCEPT ![g] = "live"] /\ Goto(r, AfterGrants(r))
       ELSE UNCHANGED grants /\ Goto(r, "conflict")
  /\ UNCHANGED <<modules, permissions, roles, audit, overlapped>>

\* One write again: only is_deleted differs.
SaveGrants(r) ==
  /\ pc[r] = "saveGrants"
  /\ grants' = [g \in RoleIds \X PermissionIds |->
                  IF g \in frame[r].pairs
                  THEN IF frame[r].path \in {"grant", "batchGrant"}
                       THEN "live" ELSE "deleted"
                  ELSE grants[g]]
  /\ Goto(r, AfterGrants(r))
  /\ UNCHANGED <<modules, permissions, roles, audit, overlapped>>

Audit(r) ==
  /\ pc[r] = "audit"
  /\ audit' = audit \cup {r}
  /\ Goto(r, "done")
  /\ UNCHANGED <<tables, overlapped>>

\* A statement fails or the process dies: what was committed stays.
Abort(r) ==
  /\ pc[r] \in Statements
  /\ Goto(r, "aborted")
  /\ UNCHANGED <<tables, audit, overlapped>>

-----------------------------------------------------------------------------
(* The specification *)

\* The behaviours start from any catalogue without deleted rows: the rules
\* that the handlers check hold in it, as they do in what the seeds insert.
Init ==
  /\ modules \in [Modules -> {"none", "live"}]
  /\ \A m \in SystemModules : modules[m] = "live"
  /\ \E seed \in [SeedPermissions ->
                    {row \in Permission : ~row.isDeleted} \cup {None}] :
       permissions = [p \in PermissionIds |->
                        IF p \in SeedPermissions THEN seed[p] ELSE None]
  /\ \A p \in LivePermissions :
       /\ modules[permissions[p].module] = "live"
       /\ CodeAvailable(permissions[p].code, p)
  /\ UniqueOperations(permissions)
  /\ \E seed \in [SystemRoles \cup CustomRoles ->
                    {row \in Role : ~row.isDeleted}] :
       roles = [x \in RoleIds |-> IF x \in DOMAIN seed THEN seed[x] ELSE None]
  /\ \A x \in SystemRoles : roles[x].tenant = None
  /\ \A x, y \in StoredRoles :
       roles[x].tenant = roles[y].tenant /\ roles[x].code = roles[y].code
         => x = y
  /\ \E held \in SUBSET (StoredRoles \X LivePermissions) :
       grants = [g \in RoleIds \X PermissionIds |->
                   IF g \in held THEN "live" ELSE "none"]
  /\ audit = {}
  /\ pc = [r \in Requests |-> "idle"]
  /\ frame = [r \in Requests |-> NoCall]
  /\ overlapped = FALSE

ModuleCall(r) ==
  \E m \in Modules : CreateModule(r, m) \/ UpdateModule(r, m) \/ DeleteModule(r, m)

PermissionCall(r) ==
  \/ \E c \in Codes, m \in Modules, o \in Operations :
       \/ CreatePermission(r, c, m, o)
       \/ \E p \in PermissionIds : UpdatePermission(r, p, c, m, o)
  \/ \E p \in PermissionIds : DeletePermission(r, p)
  \/ \E p \in PermissionIds, handler \in AllHandlers :
       PermissionNotFound(r, handler, p)

RoleCall(r) ==
  \/ \E t \in Tenants \cup {None}, c \in Codes : CreateRole(r, t, c)
  \/ \E x \in RoleIds : UpdateRole(r, x) \/ DeleteRole(r, x)
  \/ \E x \in RoleIds, ps \in SUBSET PermissionIds \ {{}},
        handler \in AllHandlers : ChangeGrants(r, handler, x, ps)

Request(r) ==
  /\ pc[r] = "idle"
  /\ Cardinality(InFlight) < MaxInFlight
  /\ ModuleCall(r) \/ PermissionCall(r) \/ RoleCall(r)

Step(r) ==
  \/ RequireModule(r) \/ CheckCode(r) \/ CheckOperation(r)
  \/ CheckRoleCount(r) \/ InsertPermission(r) \/ Reload(r) \/ Write(r)
  \/ InsertModule(r) \/ SaveModule(r) \/ InsertRole(r) \/ SaveRole(r)
  \/ FindChildren(r) \/ FindGrants(r) \/ FindPermission(r)
  \/ FindExisting(r) \/ InsertGrant(r) \/ SaveGrants(r) \/ Audit(r)

Next == \E r \in Requests : Request(r) \/ Step(r) \/ Abort(r)

Spec == Init /\ [][Next]_vars

-----------------------------------------------------------------------------
(* What a user with role x is given *)

\* AuthService.resolvePermissions, for the claims of a token.
TokenPermissions(x) ==
  {permissions[p].code : p \in {q \in LivePermissions :
     x \in LiveRoles /\ grants[<<x, q>>] = "live"}}

\* UsersService.listEffectivePermissions, for the administrator.
ListedPermissions(x) ==
  {permissions[p].code : p \in {q \in LivePermissions :
     /\ x \in LiveRoles /\ grants[<<x, q>>] = "live"
     /\ modules[permissions[q].module] = "live"}}

-----------------------------------------------------------------------------
(* Properties *)

\* Every variable has its type; the rows about to be saved and the grants
\* about to be changed are rows that exist.
TypeOK ==
  /\ modules \in [Modules -> Presence]
  /\ permissions \in [PermissionIds -> Permission \cup {None}]
  /\ roles \in [RoleIds -> Role \cup {None}]
  /\ grants \in [RoleIds \X PermissionIds -> Presence]
  /\ audit \subseteq Requests
  /\ pc \in [Requests -> {"idle"} \cup Statements \cup Outcomes]
  /\ frame \in [Requests -> Frame]
  /\ overlapped \in BOOLEAN
  /\ \A r \in Requests :
       /\ pc[r] \in {"reload", "write"} =>
            {p \in PermissionIds : frame[r].ent[p] # None}
              \subseteq StoredPermissions
       /\ pc[r] = "saveGrants" =>
            \A g \in frame[r].pairs : grants[g] # "none"

GrantsAsked ==
  \A g \in LiveGrants' \ LiveGrants :
    /\ g[1] \notin SystemRoles
    /\ \E r \in Requests :
         /\ frame[r].path \in {"grant", "batchGrant"}
         /\ frame[r].target = g[1] /\ g \in frame[r].pairs
         /\ pc[r] \in {"insertGrant", "saveGrants"}

\* Whatever overlaps and wherever requests die, a grant only becomes live in
\* a request that asked for it, and never on a system role.
GrantsAreAskedFor == [][GrantsAsked]_vars

\* "Used by login JWT claims and the admin effective-permissions listing"
\* (effective-access.query.ts): the token and the listing give a role the same
\* permissions, although only the listing looks at the modules; also in the
\* middle of a cascade and after one that was cut short.
TokenMatchesListing ==
  ~overlapped =>
    \A x \in RoleIds : TokenPermissions(x) = ListedPermissions(x)

\* A permission in use is not deleted, and a module goes after its grants and
\* permissions: no grant of a deleted permission is left behind, even by a
\* cascade that was cut short.
NoDanglingGrants ==
  ~overlapped => \A g \in LiveGrants : g[2] \in LivePermissions

\* 'Permission code already exists' (permissions.service.ts): a code, which is
\* what an access check goes by, names one permission.
CodeNamesOnePermission ==
  \A p, q \in StoredPermissions :
    permissions[p].code = permissions[q].code => p = q

\* One by one, the handlers' checks cover the constraints of the database, so
\* that no call ends in a 500 for a duplicate; and the codes that have no
\* constraint are as unique as those that have one.
DuplicatesAreRefused ==
  ~overlapped =>
    /\ \A r \in Requests : pc[r] # "conflict"
    /\ CodeNamesOnePermission
    /\ \A x, y \in StoredRoles :
         roles[x].tenant = roles[y].tenant /\ roles[x].code = roles[y].code
           => x = y

NothingRevived ==
  ~overlapped =>
    /\ \A m \in Modules : modules[m] = "deleted" => modules'[m] = "deleted"
    /\ \A p \in StoredPermissions :
         permissions[p].isDeleted => permissions'[p].isDeleted
    /\ \A x \in StoredRoles : roles[x].isDeleted => roles'[x].isDeleted

\* One by one, what was deleted stays deleted: only a grant is ever revived.
DeletedForGood == [][NothingRevived]_vars

-----------------------------------------------------------------------------
(* The inductive invariant *)

PermissionHandlers == {"createPermission", "updatePermission", "deletePermission"}

Granting == {"grant", "batchGrant"}

Checking == {"requireModule", "code", "operation", "insertPermission"}

\* The statements of each handler.
StatementsOf(path) ==
  CASE path = "createModule" -> {"insertModule", "audit"}
    [] path = "updateModule" -> {"saveModule", "audit"}
    [] path = "deleteModule" ->
         {"children", "grants", "saveGrants", "reload", "write", "saveModule",
          "audit"}
    [] path = "createPermission" -> (Checking \ {"requireModule"}) \cup {"audit"}
    [] path = "updatePermission" ->
         (Checking \ {"insertPermission"}) \cup {"reload", "write", "audit"}
    [] path = "deletePermission" -> {"roleCount", "reload", "write", "audit"}
    [] path = "createRole" -> {"insertRole", "audit"}
    [] path \in {"updateRole", "deleteRole"} -> {"saveRole", "audit"}
    [] path \in Granting ->
         {"permission", "existing", "insertGrant", "saveGrants", "audit"}
    [] OTHER -> {"grants", "saveGrants", "audit"}

\* Whatever overlaps, a creation has no row yet, the other handlers have the
\* rows they name, and a grant is of the role of the URL, not a system role.
PermissionFits(r) ==
  LET f == frame[r] IN
  /\ f.target \in PermissionIds /\ Wanted(r) \in Permission
  /\ \A p \in PermissionIds \ {f.target} : f.ent[p] = None
  /\ Wanted(r).isDeleted <=> f.path = "deletePermission"
  /\ f.path = "createPermission" => f.target = r /\ permissions[r] = None
  /\ f.path # "createPermission" => f.target \in StoredPermissions

CascadeFits(r) ==
  \A p \in PermissionIds :
    /\ frame[r].ent[p] # None <=> p \in frame[r].perms
    /\ p \in frame[r].perms =>
         /\ p \in StoredPermissions
         /\ frame[r].ent[p].module = None /\ frame[r].ent[p].isDeleted

RoleFits(r) ==
  LET f == frame[r] IN
  /\ f.path = "createRole" =>
       f.role \in Role /\ ~f.role.isDeleted /\ roles[r] = None
  /\ f.path # "createRole" => f.target \in StoredRoles

GrantFits(r) ==
  LET f == frame[r] IN
  /\ f.target \in RoleIds \ SystemRoles
  /\ pc[r] # "permission" =>
       \E p \in PermissionIds : f.pairs = {<<f.target, p>>}

FrameFits(r) ==
  LET path == frame[r].path IN
  /\ pc[r] = "idle" => permissions[r] = None /\ roles[r] = None
  /\ pc[r] \in Statements => path # "none" /\ pc[r] \in StatementsOf(path)
  /\ pc[r] \in {"insertModule", "children", "saveModule"} =>
       frame[r].target \in Modules
  /\ pc[r] # "audit" /\ path \in PermissionHandlers => PermissionFits(r)
  /\ path = "deleteModule" => frame[r].target \in Modules
  /\ path = "deleteModule" /\ pc[r] \in {"grants", "saveGrants", "reload", "write"}
       => CascadeFits(r)
  /\ pc[r] \in {"insertRole", "saveRole"} => RoleFits(r)
  /\ pc[r] # "audit" /\ path \in Granting => GrantFits(r)
  /\ pc[r] = "write" =>
       \A p \in PermissionIds :
         frame[r].ent[p] # None => frame[r].base[p] \in Permission
  /\ pc[r] = "saveGrants" => \A g \in frame[r].pairs : grants[g] # "none"

FramesFit == \A r \in Requests : FrameFits(r)

Children(m) == {p \in LivePermissions : permissions[p].module = m}

\* What a request has checked or read still holds as long as no other has been
\* under way beside it.
ModuleHolds(r) ==
  LET m == frame[r].target IN
  /\ pc[r] = "insertModule" => modules[m] = "none"
  /\ pc[r] = "saveModule" =>
       IF frame[r].path = "updateModule" THEN modules[m] = "live"
       ELSE Children(m) = {}

CascadeHolds(r) ==
  LET f == frame[r] IN
  /\ f.perms = Children(f.target)
  /\ \A p \in f.perms : f.ent[p].code = permissions[p].code
                        /\ f.ent[p].operation = permissions[p].operation
  /\ pc[r] = "saveGrants" => {g \in LiveGrants : g[2] \in f.perms} \subseteq f.pairs
  /\ pc[r] \in {"reload", "write"} => \A p \in f.perms : Unassigned(p)

PermissionHolds(r) ==
  LET f == frame[r]
      ent == Wanted(r)
      p == frame[r].target
  IN
  /\ f.path # "createPermission" => p \in LivePermissions
  /\ f.path = "deletePermission" =>
       /\ <<ent.code, ent.module, ent.operation>>
            = <<permissions[p].code, permissions[p].module, permissions[p].operation>>
       /\ pc[r] # "roleCount" => Unassigned(p)
  /\ f.path # "deletePermission" =>
       /\ pc[r] # "requireModule" => modules[ent.module] = "live"
       /\ pc[r] \notin {"requireModule", "code"} => CodeAvailable(ent.code, p)
       /\ pc[r] \notin {"requireModule", "code", "operation"} =>
            OperationAvailable(ent.module, ent.operation, p)

RoleHolds(r) ==
  LET f == frame[r] IN
  /\ pc[r] = "insertRole" => RoleCodeAvailable(f.role.tenant, f.role.code)
  /\ pc[r] = "saveRole" /\ f.path = "updateRole" => f.target \in LiveRoles

GrantHolds(r) ==
  \A g \in frame[r].pairs :
    /\ pc[r] # "permission" => g[2] \in LivePermissions
    /\ pc[r] = "insertGrant" => grants[g] = "none"

CheckedHolds(r) ==
  LET path == frame[r].path IN
  /\ ModuleHolds(r)
  /\ path = "deleteModule" /\ pc[r] \in {"grants", "saveGrants", "reload", "write"}
       => CascadeHolds(r)
  /\ pc[r] # "audit" /\ path \in PermissionHandlers => PermissionHolds(r)
  /\ RoleHolds(r)
  /\ pc[r] # "audit" /\ path \in Granting => GrantHolds(r)
  /\ pc[r] = "write" =>
       \A p \in PermissionIds :
         frame[r].ent[p] # None => frame[r].base[p] = permissions[p]

\* A live permission is in a live module.
ModulesLive == \A p \in LivePermissions : modules[permissions[p].module] = "live"

NothingDangles == \A g \in LiveGrants : g[2] \in LivePermissions

RoleCodesDistinct ==
  \A x, y \in StoredRoles :
    roles[x].tenant = roles[y].tenant /\ roles[x].code = roles[y].code => x = y

NoConflict == \A r \in Requests : pc[r] # "conflict"

AloneHolds ==
  ~overlapped =>
    /\ \A q, r \in InFlight : q = r
    /\ \A r \in InFlight : CheckedHolds(r)
    /\ ModulesLive
    /\ NothingDangles
    /\ CodeNamesOnePermission
    /\ RoleCodesDistinct
    /\ NoConflict

\* The strengthening from which the safety of the catalogue is proved.
IInv ==
  /\ TypeOK
  /\ FramesFit
  /\ UniqueOperations(permissions)
  /\ AloneHolds
=============================================================================
