----------------------- MODULE PermissionCatalogProofs -----------------------
(***************************************************************************)
(* Theorems about PermissionCatalog, for every set of modules, permissions *)
(* roles, tenants and requests.                                            *)
(*                                                                         *)
(* The argument: whatever overlaps, the frame of a request fits the        *)
(* statement that comes next, and nothing is ever taken out of a table.    *)
(* One by one, what a request has checked or read holds until it is done;  *)
(* so the checks of the handlers, and the order in which a cascade deletes *)
(* grants, permissions and module, keep the catalogue consistent.          *)
(***************************************************************************)
EXTENDS PermissionCatalog, TLAPS

-----------------------------------------------------------------------------
(* Rows and frames *)

LEMMA NoneIsNoRow ==
  /\ None \notin Permission /\ None \notin Role /\ None \notin Entity
  /\ None \notin Modules
BY CatalogNoneAssumption

LEMMA RowFields ==
  /\ \A row \in Permission :
       /\ row.code \in Codes /\ row.module \in Modules
       /\ row.operation \in Operations /\ row.isDeleted \in BOOLEAN
  /\ \A row \in Role :
       /\ row.tenant \in Tenants \cup {None} /\ row.code \in Codes
       /\ row.isDeleted \in BOOLEAN
  /\ Permission \subseteq Entity
BY DEF Permission, Role, Entity

LEMMA NoCallType ==
  /\ NoCall \in Frame /\ NoCall.path = "none" /\ NoCall.target = None
  /\ NoCall.perms = {} /\ NoCall.pairs = {} /\ NoCall.role = None
  /\ NoCall.ent = NoEntities /\ NoCall.base = NoEntities
BY DEF NoCall, Frame, NoEntities

LEMMA StatementSets ==
  /\ "idle" \notin Statements /\ "idle" \notin Outcomes
  /\ Statements \cap Outcomes = {}
  /\ "audit" \in Statements
  /\ {"refused", "conflict", "aborted", "done"} \subseteq Outcomes
BY DEF Statements, Outcomes

\* The type invariant without the part that FramesFit implies.
Types ==
  /\ modules \in [Modules -> Presence]
  /\ permissions \in [PermissionIds -> Permission \cup {None}]
  /\ roles \in [RoleIds -> Role \cup {None}]
  /\ grants \in [RoleIds \X PermissionIds -> Presence]
  /\ audit \subseteq Requests
  /\ pc \in [Requests -> {"idle"} \cup Statements \cup Outcomes]
  /\ frame \in [Requests -> Frame]
  /\ overlapped \in BOOLEAN

LEMMA StatementLists ==
  /\ {"insertModule", "audit"} \subseteq StatementsOf("createModule")
  /\ {"saveModule", "audit"} \subseteq StatementsOf("updateModule")
  /\ {"children", "grants", "saveGrants", "reload", "write", "saveModule", "audit"}
       \subseteq StatementsOf("deleteModule")
  /\ {"code", "operation", "insertPermission", "audit"}
       \subseteq StatementsOf("createPermission")
  /\ {"requireModule", "code", "operation", "reload", "write", "audit"}
       \subseteq StatementsOf("updatePermission")
  /\ {"roleCount", "reload", "write", "audit"} \subseteq StatementsOf("deletePermission")
  /\ {"insertRole", "audit"} \subseteq StatementsOf("createRole")
  /\ \A path \in {"updateRole", "deleteRole"} :
       {"saveRole", "audit"} \subseteq StatementsOf(path)
  /\ \A path \in Granting :
       {"permission", "existing", "insertGrant", "saveGrants", "audit"}
         \subseteq StatementsOf(path)
  /\ \A path \in {"revoke", "batchRevoke"} :
       {"grants", "saveGrants", "audit"} \subseteq StatementsOf(path)
BY DEF StatementsOf, Checking, Granting

\* Which handlers a statement belongs to.
LEMMA PathsOf ==
  ASSUME Types, NEW r \in Requests, FrameFits(r), pc[r] \in Statements
  PROVE  LET path == frame[r].path IN
         /\ path \in AllHandlers
         /\ pc[r] \in {"insertModule"} => path = "createModule"
         /\ pc[r] = "saveModule" => path \in {"updateModule", "deleteModule"}
         /\ pc[r] = "children" => path = "deleteModule"
         /\ pc[r] = "requireModule" => path = "updatePermission"
         /\ pc[r] \in {"code", "operation"} =>
              path \in {"createPermission", "updatePermission"}
         /\ pc[r] = "insertPermission" => path = "createPermission"
         /\ pc[r] = "roleCount" => path = "deletePermission"
         /\ pc[r] \in {"reload", "write"} =>
              path \in {"updatePermission", "deletePermission", "deleteModule"}
         /\ pc[r] = "insertRole" => path = "createRole"
         /\ pc[r] = "saveRole" => path \in {"updateRole", "deleteRole"}
         /\ pc[r] \in {"permission", "existing", "insertGrant"} => path \in Granting
         /\ pc[r] = "grants" => path \in {"revoke", "batchRevoke", "deleteModule"}
         /\ pc[r] = "saveGrants" =>
              path \in Granting \cup {"revoke", "batchRevoke", "deleteModule"}
<1> DEFINE path == frame[r].path
<1>1. path \in AllHandlers /\ pc[r] \in StatementsOf(path)
  BY DEF FrameFits, Types, Frame
<1>2. path \in {"createModule", "updateModule", "createPermission", "updatePermission",
                "deletePermission", "createRole", "updateRole", "deleteRole",
                "deleteModule", "grant", "revoke", "batchGrant", "batchRevoke"}
  BY <1>1 DEF AllHandlers
<1>3. CASE path \in {"createModule", "updateModule", "deleteModule"}
  BY <1>1, <1>3 DEF StatementsOf
<1>4. CASE path \in PermissionHandlers
  BY <1>1, <1>4 DEF StatementsOf, PermissionHandlers, Checking
<1>5. CASE path \in {"createRole", "updateRole", "deleteRole"}
  BY <1>1, <1>5 DEF StatementsOf
<1>6. CASE path \in Granting
  BY <1>1, <1>6 DEF StatementsOf, Granting
<1>7. CASE path \in {"revoke", "batchRevoke"}
  BY <1>1, <1>7 DEF StatementsOf, Granting
<1>8. QED
  BY <1>2, <1>3, <1>4, <1>5, <1>6, <1>7 DEF PermissionHandlers, Granting

\* The rows that a request is about to save are rows that exist.
LEMMA SavedRows ==
  ASSUME Types, NEW r \in Requests, FrameFits(r), pc[r] \in {"reload", "write"},
         NEW p \in PermissionIds, frame[r].ent[p] # None
  PROVE  /\ p \in StoredPermissions /\ permissions[p] \in Permission
         /\ frame[r].ent[p] \in Entity
<1>1. pc[r] \in Statements
  BY DEF Statements
<1>2. frame[r].path \in {"updatePermission", "deletePermission", "deleteModule"}
  BY <1>1, PathsOf
<1>3. p \in StoredPermissions
  <2>1. CASE frame[r].path = "deleteModule"
    BY <2>1 DEF FrameFits, CascadeFits
  <2>2. CASE frame[r].path \in {"updatePermission", "deletePermission"}
    BY <2>2 DEF FrameFits, PermissionFits, PermissionHandlers
  <2>3. QED
    BY <1>2, <2>1, <2>2
<1>4. QED
  BY <1>3 DEF StoredPermissions, Types, Frame

LEMMA TypeOKTypes == TypeOK => Types
BY DEF Types, TypeOK

LEMMA TypesFit == Types /\ FramesFit => TypeOK
<1> SUFFICES ASSUME Types, FramesFit
             PROVE  TypeOK
  OBVIOUS
<1>1. ASSUME NEW r \in Requests, pc[r] \in {"reload", "write"}
      PROVE  {p \in PermissionIds : frame[r].ent[p] # None} \subseteq StoredPermissions
  BY <1>1, SavedRows DEF FramesFit
<1>2. ASSUME NEW r \in Requests, pc[r] = "saveGrants"
      PROVE  \A g \in frame[r].pairs : grants[g] # "none"
  BY <1>2 DEF FramesFit, FrameFits
<1>3. QED
  BY <1>1, <1>2 DEF Types, TypeOK

\* save merges into a row; what was read afresh leaves what the entity says.
LEMMA Merged ==
  ASSUME NEW row \in Permission, NEW base \in Permission, NEW ent \in Entity
  PROVE  LET m == Merge(row, base, ent) IN
         /\ m \in Permission
         /\ base = row =>
              /\ m.code = ent.code /\ m.operation = ent.operation
              /\ m.module = IF ent.module = None THEN row.module ELSE ent.module
              /\ m.isDeleted = ent.isDeleted
BY DEF Merge, Permission, Entity
-----------------------------------------------------------------------------
(* How calls begin *)

Opening ==
  {"insertModule", "saveModule", "children", "code", "requireModule",
   "roleCount", "insertRole", "saveRole", "permission", "grants", "refused"}

ModuleOpening(st, c) ==
  /\ c.target \in Modules
  /\ \/ st = "insertModule" /\ c.path = "createModule" /\ modules[c.target] = "none"
     \/ st = "saveModule" /\ c.path = "updateModule" /\ modules[c.target] = "live"
     \/ st = "children" /\ c.path = "deleteModule"

\* The entity of the one permission that the request creates or changes.
OneEntity(c) ==
  /\ c.target \in PermissionIds /\ c.ent[c.target] \in Permission
  /\ \A p \in PermissionIds \ {c.target} : c.ent[p] = None

PermissionOpening(r, st, c) ==
  /\ OneEntity(c)
  /\ \/ /\ st = "code" /\ c.path = "createPermission" /\ c.target = r
        /\ ~c.ent[c.target].isDeleted /\ modules[c.ent[c.target].module] = "live"
     \/ /\ st = "requireModule" /\ c.path = "updatePermission"
        /\ c.target \in LivePermissions /\ ~c.ent[c.target].isDeleted
     \/ /\ st = "roleCount" /\ c.path = "deletePermission"
        /\ c.target \in LivePermissions /\ c.ent[c.target].isDeleted
        /\ c.ent[c.target].code = permissions[c.target].code
        /\ c.ent[c.target].module = permissions[c.target].module
        /\ c.ent[c.target].operation = permissions[c.target].operation

RoleOpening(st, c) ==
  \/ /\ st = "insertRole" /\ c.path = "createRole"
     /\ c.role \in Role /\ ~c.role.isDeleted
     /\ RoleCodeAvailable(c.role.tenant, c.role.code)
  \/ /\ st = "saveRole" /\ c.path \in {"updateRole", "deleteRole"}
     /\ c.target \in LiveRoles

GrantOpening(st, c) ==
  /\ c.target \in RoleIds \ SystemRoles /\ c.pairs = {}
  /\ \/ st = "permission" /\ c.path \in Granting
     \/ st = "grants" /\ c.path \in {"revoke", "batchRevoke"}

\* What the first statement of a handler leaves in the frame of request r.
WellFormed(r, st, c) ==
  \/ st = "refused"
  \/ ModuleOpening(st, c) \/ PermissionOpening(r, st, c)
  \/ RoleOpening(st, c) \/ GrantOpening(st, c)

\* A step that begins request r.
Begins(r) ==
  /\ pc[r] = "idle"
  /\ \E st \in Opening, c \in Frame :
       WellFormed(r, st, c) /\ GotoWith(r, st, c)
  /\ overlapped' = (overlapped \/ InFlight # {})
  /\ UNCHANGED <<tables, audit>>

LEMMA BeginBegins ==
  ASSUME NEW r \in Requests, NEW h, NEW st \in Opening, NEW c,
         pc[r] = "idle", st # "refused" => c \in Frame /\ WellFormed(r, st, c),
         Begin(r, h, st, c)
  PROVE  Begins(r)
<1> DEFINE f == IF st \in Outcomes THEN NoCall ELSE c
<1>1. st \in Outcomes <=> st = "refused"
  BY DEF Opening, Outcomes
<1>2. f \in Frame /\ WellFormed(r, st, f)
  BY <1>1, NoCallType DEF WellFormed
<1>3. GotoWith(r, st, f)
  BY DEF Begin, GotoWith
<1>4. QED
  BY <1>2, <1>3 DEF Begin, Begins

\* A call that names its target alone.
LEMMA TargetFrame ==
  ASSUME NEW h \in AllHandlers, NEW t \in Modules \cup PermissionIds \cup RoleIds
  PROVE  LET c == [NoCall EXCEPT !.path = h, !.target = t] IN
         /\ c \in Frame /\ c.path = h /\ c.target = t /\ c.pairs = {}
BY DEF NoCall, Frame, NoEntities

\* A call about one permission, with the entity to save.
EntityCall(h, p, e) == [NoCall EXCEPT !.path = h, !.target = p, !.ent[p] = e]

LEMMA EntityFrame ==
  ASSUME NEW h \in AllHandlers, NEW p \in PermissionIds, NEW e \in Permission,
         NEW c, c = EntityCall(h, p, e)
  PROVE  /\ c \in Frame /\ c.path = h /\ OneEntity(c) /\ c.ent[c.target] = e
         /\ c.target = p
<1> DEFINE new == [NoEntities EXCEPT ![p] = e]
<1>1. c = [NoCall EXCEPT !.path = h, !.target = p, !.ent = new]
  BY NoCallType DEF EntityCall
<1>2. /\ new \in [PermissionIds -> Entity \cup {None}] /\ new[p] = e
      /\ \A q \in PermissionIds \ {p} : new[q] = None
  BY RowFields DEF NoEntities
<1> HIDE DEF new
<1>3. c = [path |-> h, target |-> p, perms |-> {}, pairs |-> {}, role |-> None,
           ent |-> new, base |-> NoEntities]
  BY <1>1 DEF NoCall
<1>4. NoEntities \in [PermissionIds -> Permission \cup {None}]
  BY DEF NoEntities
<1>5. c \in Frame
  BY <1>2, <1>3, <1>4 DEF Frame
<1>6. c.path = h /\ c.target = p /\ c.ent = new
  BY <1>3
<1>7. QED
  BY <1>2, <1>5, <1>6 DEF OneEntity

LEMMA RoleFrame ==
  ASSUME NEW r \in Requests, NEW new \in Role
  PROVE  LET c == [NoCall EXCEPT !.path = "createRole", !.target = r, !.role = new]
         IN  c \in Frame /\ c.path = "createRole" /\ c.role = new
BY DEF NoCall, Frame, NoEntities, AllHandlers, RoleIds

LEMMA GrantFrame ==
  ASSUME NEW h \in AllHandlers, NEW x \in RoleIds, NEW ps \in SUBSET PermissionIds
  PROVE  LET c == [NoCall EXCEPT !.path = h, !.target = x, !.perms = ps] IN
         /\ c \in Frame /\ c.path = h /\ c.target = x /\ c.pairs = {}
BY DEF NoCall, Frame, NoEntities
LEMMA ModuleCallBegins ==
  ASSUME NEW r \in Requests, pc[r] = "idle", ModuleCall(r)
  PROVE  Begins(r)
<1>1. PICK m \in Modules :
        CreateModule(r, m) \/ UpdateModule(r, m) \/ DeleteModule(r, m)
  BY DEF ModuleCall
<1>2. ASSUME NEW h \in AllHandlers, NEW st \in Opening, BeginOn(r, h, st, m),
             \A c : c.target = m /\ c.path = h =>
                      st = "refused" \/ ModuleOpening(st, c)
      PROVE  Begins(r)
  <2> DEFINE c == [NoCall EXCEPT !.path = h, !.target = m]
  <2>1. Begin(r, h, st, c)
    BY <1>2 DEF BeginOn
  <2>2. c \in Frame /\ c.path = h /\ c.target = m
    BY TargetFrame
  <2> HIDE DEF c
  <2>3. st # "refused" => WellFormed(r, st, c)
    BY <1>2, <2>2 DEF WellFormed
  <2>4. QED
    BY <1>2, <2>1, <2>2, <2>3, BeginBegins
<1>3. CASE CreateModule(r, m)
  <2> DEFINE st == IF modules[m] = "none" THEN "insertModule" ELSE "refused"
  <2>1. BeginOn(r, "createModule", st, m)
    BY <1>3 DEF CreateModule
  <2>2. "createModule" \in AllHandlers /\ st \in Opening
    BY DEF AllHandlers, Opening
  <2>3. \A c : c.target = m /\ c.path = "createModule" =>
                 st = "refused" \/ ModuleOpening(st, c)
    BY DEF ModuleOpening
  <2> HIDE DEF st
  <2>4. QED
    BY <1>2, <2>1, <2>2, <2>3
<1>4. CASE UpdateModule(r, m)
  <2> DEFINE st == IF MutableModule(m) THEN "saveModule" ELSE "refused"
  <2>1. BeginOn(r, "updateModule", st, m)
    BY <1>4 DEF UpdateModule
  <2>2. "updateModule" \in AllHandlers /\ st \in Opening
    BY DEF AllHandlers, Opening
  <2>3. \A c : c.target = m /\ c.path = "updateModule" =>
                 st = "refused" \/ ModuleOpening(st, c)
    BY DEF ModuleOpening, MutableModule
  <2> HIDE DEF st
  <2>4. QED
    BY <1>2, <2>1, <2>2, <2>3
<1>5. CASE DeleteModule(r, m)
  <2> DEFINE st == IF MutableModule(m) THEN "children" ELSE "refused"
  <2>1. BeginOn(r, "deleteModule", st, m)
    BY <1>5 DEF DeleteModule
  <2>2. "deleteModule" \in AllHandlers /\ st \in Opening
    BY DEF AllHandlers, Opening
  <2>3. \A c : c.target = m /\ c.path = "deleteModule" =>
                 st = "refused" \/ ModuleOpening(st, c)
    BY DEF ModuleOpening
  <2> HIDE DEF st
  <2>4. QED
    BY <1>2, <2>1, <2>2, <2>3
<1>6. QED
  BY <1>1, <1>3, <1>4, <1>5

\* A permission that was found is live.
LEMMA FoundIsLive ==
  ASSUME Types, NEW p \in PermissionIds, FoundPermission(p)
  PROVE  p \in LivePermissions /\ permissions[p] \in Permission
BY DEF FoundPermission, LivePermissions, StoredPermissions, Types

LEMMA PermissionEntity ==
  ASSUME NEW c \in Codes, NEW m \in Modules, NEW o \in Operations
  PROVE  LET e == [code |-> c, module |-> m, operation |-> o, isDeleted |-> FALSE]
         IN  e \in Permission /\ ~e.isDeleted /\ e.module = m
BY DEF Permission

LEMMA PermissionCallBegins ==
  ASSUME Types, NEW r \in Requests, pc[r] = "idle", PermissionCall(r)
  PROVE  Begins(r)
<1>1. PermissionHandlers \subseteq AllHandlers /\ Requests \subseteq PermissionIds
  BY DEF PermissionHandlers, AllHandlers, PermissionIds
<1>2. ASSUME NEW h \in PermissionHandlers, NEW st \in Opening,
             NEW p \in PermissionIds, NEW e \in Permission,
             Begin(r, h, st, [NoCall EXCEPT !.path = h, !.target = p, !.ent[p] = e]),
             \A c : c.target = p /\ c.path = h /\ c.ent[c.target] = e /\ OneEntity(c) =>
                      st = "refused" \/ PermissionOpening(r, st, c)
      PROVE  Begins(r)
  <2> DEFINE c == EntityCall(h, p, e)
  <2>1. Begin(r, h, st, c)
    BY <1>2 DEF EntityCall
  <2>2. c \in Frame /\ c.path = h /\ c.target = p /\ c.ent[c.target] = e /\ OneEntity(c)
    <3>1. h \in AllHandlers
      BY <1>1
    <3>2. QED
      BY <3>1, EntityFrame
  <2> HIDE DEF c
  <2>3. st # "refused" => WellFormed(r, st, c)
    BY <1>2, <2>2 DEF WellFormed
  <2>4. QED
    BY <2>1, <2>2, <2>3, BeginBegins
<1>3. ASSUME NEW c \in Codes, NEW m \in Modules, NEW o \in Operations,
             CreatePermission(r, c, m, o)
      PROVE  Begins(r)
  <2> DEFINE e == [code |-> c, module |-> m, operation |-> o, isDeleted |-> FALSE]
             st == IF modules[m] = "live" THEN "code" ELSE "refused"
  <2>1. Begin(r, "createPermission", st,
              [NoCall EXCEPT !.path = "createPermission", !.target = r, !.ent[r] = e])
    BY <1>3 DEF CreatePermission
  <2>2. e \in Permission /\ ~e.isDeleted /\ e.module = m
    BY PermissionEntity
  <2> HIDE DEF e
  <2>3. st \in Opening /\ "createPermission" \in PermissionHandlers
    BY DEF Opening, PermissionHandlers
  <2>4. \A d : d.target = r /\ d.path = "createPermission" /\ d.ent[d.target] = e
                 /\ OneEntity(d) => st = "refused" \/ PermissionOpening(r, st, d)
    BY <2>2 DEF PermissionOpening
  <2> HIDE DEF st
  <2>5. QED
    BY <1>1, <1>2, <2>1, <2>2, <2>3, <2>4
<1>4. ASSUME NEW c \in Codes, NEW m \in Modules, NEW o \in Operations,
             NEW p \in PermissionIds, UpdatePermission(r, p, c, m, o)
      PROVE  Begins(r)
  <2> DEFINE e == [code |-> c, module |-> m, operation |-> o, isDeleted |-> FALSE]
  <2>1. /\ FoundPermission(p)
        /\ Begin(r, "updatePermission", "requireModule",
              [NoCall EXCEPT !.path = "updatePermission", !.target = p, !.ent[p] = e])
    BY <1>4 DEF UpdatePermission
  <2>2. e \in Permission /\ ~e.isDeleted
    BY PermissionEntity
  <2> HIDE DEF e
  <2>3. "requireModule" \in Opening /\ "updatePermission" \in PermissionHandlers
    BY DEF Opening, PermissionHandlers
  <2>4. \A d : d.target = p /\ d.path = "updatePermission" /\ d.ent[d.target] = e
                 /\ OneEntity(d) => PermissionOpening(r, "requireModule", d)
    BY <2>1, <2>2, FoundIsLive DEF PermissionOpening
  <2>5. QED
    BY <1>2, <2>1, <2>2, <2>3, <2>4
<1>5. ASSUME NEW p \in PermissionIds, DeletePermission(r, p)
      PROVE  Begins(r)
  <2> DEFINE e == [permissions[p] EXCEPT !.isDeleted = TRUE]
  <2>1. /\ FoundPermission(p)
        /\ Begin(r, "deletePermission", "roleCount",
              [NoCall EXCEPT !.path = "deletePermission", !.target = p, !.ent[p] = e])
    BY <1>5 DEF DeletePermission
  <2>2. p \in LivePermissions /\ permissions[p] \in Permission
    BY <2>1, FoundIsLive
  <2>3. /\ e \in Permission /\ e.isDeleted /\ e.code = permissions[p].code
        /\ e.module = permissions[p].module /\ e.operation = permissions[p].operation
    BY <2>2 DEF Permission
  <2> HIDE DEF e
  <2>4. "roleCount" \in Opening /\ "deletePermission" \in PermissionHandlers
    BY DEF Opening, PermissionHandlers
  <2>5. \A d : d.target = p /\ d.path = "deletePermission" /\ d.ent[d.target] = e
                 /\ OneEntity(d) => PermissionOpening(r, "roleCount", d)
    BY <2>2, <2>3 DEF PermissionOpening
  <2>6. QED
    BY <1>2, <2>1, <2>3, <2>4, <2>5
<1>6. ASSUME NEW p \in PermissionIds, NEW h \in AllHandlers, PermissionNotFound(r, h, p)
      PROVE  Begins(r)
  <2>1. "refused" \in Opening
    BY DEF Opening
  <2>2. QED
    BY <1>6, <2>1, BeginBegins DEF PermissionNotFound, BeginOn
<1>7. QED
  BY <1>3, <1>4, <1>5, <1>6 DEF PermissionCall

LEMMA RoleCallBegins ==
  ASSUME Types, NEW r \in Requests, pc[r] = "idle", RoleCall(r)
  PROVE  Begins(r)
<1>1. ASSUME NEW t \in Tenants \cup {None}, NEW c \in Codes, CreateRole(r, t, c)
      PROVE  Begins(r)
  <2> DEFINE new == [tenant |-> t, code |-> c, isDeleted |-> FALSE]
             st == IF RoleCodeAvailable(t, c) THEN "insertRole" ELSE "refused"
             d == [NoCall EXCEPT !.path = "createRole", !.target = r, !.role = new]
  <2>1. Begin(r, "createRole", st, d)
    BY <1>1 DEF CreateRole
  <2>2. new \in Role /\ ~new.isDeleted /\ new.tenant = t /\ new.code = c
    BY DEF Role
  <2> HIDE DEF new
  <2>3. d \in Frame /\ d.path = "createRole" /\ d.role = new
    BY <2>2, RoleFrame
  <2> HIDE DEF d
  <2>4. st \in Opening
    BY DEF Opening
  <2>5. st # "refused" => WellFormed(r, st, d)
    BY <2>2, <2>3 DEF WellFormed, RoleOpening
  <2> HIDE DEF st
  <2>6. QED
    BY <2>1, <2>3, <2>4, <2>5, BeginBegins
<1>2. ASSUME NEW x \in RoleIds, NEW h, h = "updateRole" \/ h = "deleteRole",
             BeginOn(r, h, IF MutableRole(x) THEN "saveRole" ELSE "refused", x)
      PROVE  Begins(r)
  <2> DEFINE st == IF MutableRole(x) THEN "saveRole" ELSE "refused"
             d == [NoCall EXCEPT !.path = h, !.target = x]
  <2>1. Begin(r, h, st, d)
    BY <1>2 DEF BeginOn
  <2>2. d \in Frame /\ d.path = h /\ d.target = x
    <3>1. h \in AllHandlers
      BY <1>2 DEF AllHandlers
    <3>2. QED
      BY <3>1, TargetFrame
  <2> HIDE DEF d
  <2>3. st \in Opening
    BY DEF Opening
  <2>4. st # "refused" => WellFormed(r, st, d)
    BY <1>2, <2>2 DEF WellFormed, RoleOpening, MutableRole
  <2> HIDE DEF st
  <2>5. QED
    BY <2>1, <2>2, <2>3, <2>4, BeginBegins
<1>3. ASSUME NEW x \in RoleIds, NEW ps \in SUBSET PermissionIds,
             NEW h \in AllHandlers, ChangeGrants(r, h, x, ps)
      PROVE  Begins(r)
  <2> DEFINE st == IF ~MutableRole(x) THEN "refused"
                   ELSE IF h \in {"grant", "batchGrant"} THEN "permission"
                   ELSE "grants"
             d == [NoCall EXCEPT !.path = h, !.target = x, !.perms = ps]
  <2>1. h \in {"grant", "revoke", "batchGrant", "batchRevoke"} /\ Begin(r, h, st, d)
    BY <1>3 DEF ChangeGrants
  <2>2. d \in Frame /\ d.path = h /\ d.target = x /\ d.pairs = {}
    BY GrantFrame
  <2> HIDE DEF d
  <2>3. st \in Opening
    BY DEF Opening
  <2>4. st # "refused" => WellFormed(r, st, d)
    BY <2>1, <2>2 DEF WellFormed, GrantOpening, MutableRole, Granting
  <2> HIDE DEF st
  <2>5. QED
    BY <2>1, <2>2, <2>3, <2>4, BeginBegins
<1>4. ASSUME NEW x \in RoleIds, UpdateRole(r, x) \/ DeleteRole(r, x)
      PROVE  Begins(r)
  BY <1>2, <1>4 DEF UpdateRole, DeleteRole
<1>5. QED
  <2>1. CASE \E t \in Tenants \cup {None}, c \in Codes : CreateRole(r, t, c)
    BY <1>1, <2>1
  <2>2. CASE \E x \in RoleIds : UpdateRole(r, x) \/ DeleteRole(r, x)
    BY <1>4, <2>2
  <2>3. CASE \E x \in RoleIds, ps \in SUBSET PermissionIds \ {{}},
                h \in AllHandlers : ChangeGrants(r, h, x, ps)
    BY <1>3, <2>3
  <2>4. QED
    BY <2>1, <2>2, <2>3 DEF RoleCall

LEMMA RequestBegins ==
  ASSUME Types, NEW r \in Requests, Request(r)
  PROVE  Begins(r)
BY ModuleCallBegins, PermissionCallBegins, RoleCallBegins DEF Request
\* The statements after the first, which the proofs below go through.
Statement(r) == Step(r) \/ Abort(r)

LEMMA NextCases ==
  ASSUME Types, [Next]_vars
  PROVE  \/ \E r \in Requests : Begins(r) \/ Statement(r)
         \/ UNCHANGED vars
BY RequestBegins DEF Next, Statement

-----------------------------------------------------------------------------
(* Types and frames *)

\* The types of everything but the requests' own variables.
Tables ==
  /\ modules \in [Modules -> Presence]
  /\ permissions \in [PermissionIds -> Permission \cup {None}]
  /\ roles \in [RoleIds -> Role \cup {None}]
  /\ grants \in [RoleIds \X PermissionIds -> Presence]
  /\ audit \subseteq Requests
  /\ overlapped \in BOOLEAN

RowsUnique == UniqueOperations(permissions)

Shape == Types /\ FramesFit /\ RowsUnique

\* No row goes, and only request r may have added one.
Kept(r) ==
  /\ \A x \in Requests \ {r} : /\ permissions[x] = None => permissions'[x] = None
                               /\ roles[x] = None => roles'[x] = None
  /\ \A p \in StoredPermissions : p \in StoredPermissions'
  /\ \A x \in StoredRoles : x \in StoredRoles'
  /\ \A g \in RoleIds \X PermissionIds : grants[g] # "none" => grants'[g] # "none"

LEMMA EndedFits ==
  ASSUME NEW r \in Requests, Types, pc' = [pc EXCEPT ![r] = pc'[r]],
         frame' = [frame EXCEPT ![r] = NoCall], pc'[r] \in Outcomes
  PROVE  FrameFits(r)'
<1>1. frame'[r].path = "none"
  BY NoCallType DEF Types
<1>2. "none" \notin PermissionHandlers /\ "none" \notin Granting
  BY DEF PermissionHandlers, Granting
<1>3. pc'[r] \notin Statements /\ pc'[r] # "idle"
  BY StatementSets
<1>4. {"insertModule", "children", "saveModule", "insertRole", "saveRole", "write",
       "saveGrants"} \subseteq Statements
  BY DEF Statements
<1>5. QED
  BY <1>1, <1>2, <1>3, <1>4 DEF FrameFits

LEMMA OthersFit ==
  ASSUME Types, NEW r \in Requests, NEW x \in Requests \ {r}, FrameFits(x),
         Kept(r), pc'[x] = pc[x], frame'[x] = frame[x]
  PROVE  FrameFits(x)'
<1> DEFINE f == frame[x]
<1>1. f \in Frame
  BY DEF Types
<1>2. PermissionFits(x) => PermissionFits(x)'
  BY DEF PermissionFits, Wanted, Kept
<1>3. CascadeFits(x) => CascadeFits(x)'
  BY DEF CascadeFits, Kept
<1>4. RoleFits(x) => RoleFits(x)'
  BY DEF RoleFits, Kept
<1>5. GrantFits(x) => GrantFits(x)'
  BY DEF GrantFits
<1>6. (\A g \in f.pairs : grants[g] # "none") => \A g \in f.pairs : grants'[g] # "none"
  BY <1>1 DEF Kept, Frame
<1>7. pc[x] = "idle" => permissions'[x] = None /\ roles'[x] = None
  BY DEF FrameFits, Kept
<1>8. QED
  BY <1>2, <1>3, <1>4, <1>5, <1>6, <1>7 DEF FrameFits

\* What GotoWith leaves in the variables of request r.
LEMMA GotoFrame ==
  ASSUME Types, NEW r \in Requests, NEW st, NEW f \in Frame, GotoWith(r, st, f)
  PROVE  /\ pc' = [pc EXCEPT ![r] = st] /\ pc'[r] = st
         /\ st \in Outcomes => frame' = [frame EXCEPT ![r] = NoCall]
         /\ st \notin Outcomes => frame' = [frame EXCEPT ![r] = f] /\ frame'[r] = f
         /\ frame' \in [Requests -> Frame]
         /\ \A x \in Requests \ {r} : pc'[x] = pc[x] /\ frame'[x] = frame[x]
BY NoCallType DEF GotoWith, Types

\* A statement of request r keeps the shape of everything when it keeps the rows
\* and leaves r a frame that fits its next statement.
LEMMA StepShape ==
  ASSUME Shape, NEW r \in Requests, Tables', RowsUnique', Kept(r),
         NEW st \in Statements \cup Outcomes, NEW f \in Frame, GotoWith(r, st, f),
         pc'[r] = st /\ frame'[r] = f /\ st \in Statements => FrameFits(r)'
  PROVE  Shape'
<1>1. /\ pc' = [pc EXCEPT ![r] = st] /\ pc'[r] = st
      /\ st \in Outcomes => frame' = [frame EXCEPT ![r] = NoCall]
      /\ st \notin Outcomes => frame' = [frame EXCEPT ![r] = f] /\ frame'[r] = f
      /\ frame' \in [Requests -> Frame]
      /\ \A x \in Requests \ {r} : pc'[x] = pc[x] /\ frame'[x] = frame[x]
  BY GotoFrame DEF Shape
<1>2. Types'
  BY <1>1 DEF Shape, Types, Tables
<1>3. FrameFits(r)'
  <2>1. CASE st \in Outcomes
    BY <1>1, <2>1, EndedFits DEF Shape
  <2>2. CASE st \in Statements
    BY <1>1, <2>2, StatementSets
  <2>3. QED
    BY <2>1, <2>2
<1>4. ASSUME NEW x \in Requests \ {r}
      PROVE  FrameFits(x)'
  BY <1>1, OthersFit DEF Shape, FramesFit
<1>5. QED
  BY <1>2, <1>3, <1>4 DEF Shape, FramesFit

LEMMA SameTables ==
  ASSUME Shape, NEW r \in Requests, UNCHANGED tables, audit' \subseteq Requests,
         overlapped' \in BOOLEAN
  PROVE  /\ Tables' /\ RowsUnique' /\ Kept(r)
         /\ StoredPermissions' = StoredPermissions /\ StoredRoles' = StoredRoles
<1>1. StoredPermissions' = StoredPermissions /\ StoredRoles' = StoredRoles
  BY DEF StoredPermissions, StoredRoles, tables
<1>2. Tables'
  BY DEF Shape, Types, Tables, tables
<1>3. RowsUnique'
  BY DEF Shape, RowsUnique, UniqueOperations, tables
<1>4. Kept(r)
  BY <1>1 DEF Kept, tables
<1>5. QED
  BY <1>1, <1>2, <1>3, <1>4

\* A statement that leaves the tables alone.
LEMMA QuietShape ==
  ASSUME Shape, NEW r \in Requests, UNCHANGED tables, audit' \subseteq Requests,
         overlapped' \in BOOLEAN,
         NEW st \in Statements \cup Outcomes, NEW f \in Frame, GotoWith(r, st, f),
         (/\ pc'[r] = st /\ frame'[r] = f /\ st \in Statements /\ st \notin Outcomes
          /\ StoredPermissions' = StoredPermissions /\ StoredRoles' = StoredRoles)
            => FrameFits(r)'
  PROVE  Shape'
BY SameTables, StepShape, StatementSets

LEMMA BeginsShape ==
  ASSUME Shape, NEW r \in Requests, Begins(r)
  PROVE  Shape'
<1>1. PICK st \in Opening, c \in Frame : WellFormed(r, st, c) /\ GotoWith(r, st, c)
  BY DEF Begins
<1>2. permissions[r] = None /\ roles[r] = None
  BY DEF Begins, Shape, FramesFit, FrameFits
<1>3. st \in Statements \cup Outcomes
  BY DEF Opening, Statements, Outcomes
<1>4. /\ UNCHANGED tables /\ audit' \subseteq Requests /\ overlapped' \in BOOLEAN
  BY DEF Begins, Shape, Types
<1>5. UNCHANGED <<modules, permissions, roles, grants>>
  BY <1>4 DEF tables
<1>6. ASSUME pc'[r] = st, frame'[r] = c, st \in Statements, st \notin Outcomes,
             StoredPermissions' = StoredPermissions, StoredRoles' = StoredRoles
      PROVE  FrameFits(r)'
  <2>1. st # "refused" /\ st # "idle"
    BY <1>6, StatementSets
  <2>2. CASE ModuleOpening(st, c)
    <3>1. /\ c.path \in {"createModule", "updateModule", "deleteModule"}
          /\ st \in {"insertModule", "saveModule", "children"}
          /\ c.target \in Modules
      BY <2>2 DEF ModuleOpening
    <3>2. st \in StatementsOf(c.path)
      BY <2>2, StatementLists DEF ModuleOpening
    <3>3. QED
      BY <1>6, <3>1, <3>2 DEF FrameFits, PermissionHandlers, Granting
  <2>3. CASE PermissionOpening(r, st, c)
    <3>1. /\ c.path \in PermissionHandlers
          /\ st \in {"code", "requireModule", "roleCount"}
      BY <2>3 DEF PermissionOpening, PermissionHandlers
    <3>2. st \in StatementsOf(c.path)
      BY <2>3, StatementLists DEF PermissionOpening
    <3>3. PermissionFits(r)'
      BY <1>2, <1>5, <1>6, <2>3
         DEF PermissionOpening, OneEntity, PermissionFits, Wanted, LivePermissions
    <3>4. QED
      BY <1>6, <3>1, <3>2, <3>3 DEF FrameFits, PermissionHandlers, Granting
  <2>4. CASE RoleOpening(st, c)
    <3>1. /\ c.path \in {"createRole", "updateRole", "deleteRole"}
          /\ st \in {"insertRole", "saveRole"}
      BY <2>4 DEF RoleOpening
    <3>2. st \in StatementsOf(c.path)
      BY <2>4, StatementLists DEF RoleOpening
    <3>3. RoleFits(r)'
      BY <1>2, <1>5, <1>6, <2>4 DEF RoleOpening, RoleFits, LiveRoles
    <3>4. QED
      BY <1>6, <3>1, <3>2, <3>3 DEF FrameFits, PermissionHandlers, Granting
  <2>5. CASE GrantOpening(st, c)
    <3>1. /\ c.path \in {"grant", "batchGrant", "revoke", "batchRevoke"}
          /\ st \in {"permission", "grants"}
      BY <2>5 DEF GrantOpening, Granting
    <3>2. st \in StatementsOf(c.path)
      BY <2>5, StatementLists DEF GrantOpening
    <3>3. c.path \in Granting => GrantFits(r)'
      BY <1>6, <2>5 DEF GrantOpening, GrantFits, Granting
    <3>4. QED
      BY <1>6, <3>1, <3>2, <3>3 DEF FrameFits, PermissionHandlers
  <2>6. QED
    BY <1>1, <2>1, <2>2, <2>3, <2>4, <2>5 DEF WellFormed
<1>7. QED
  BY <1>1, <1>3, <1>4, <1>6, QuietShape
\* The local variables of a request, and what they fit.
LEMMA OwnFrame ==
  ASSUME Shape, NEW r \in Requests, pc[r] \in Statements
  PROVE  /\ frame[r] \in Frame /\ FrameFits(r) /\ Types
         /\ frame[r].path \in AllHandlers
BY PathsOf DEF Shape, Types, FramesFit

\* When the frame is kept there is little to check for a request about to audit.
LEMMA AuditFits ==
  ASSUME NEW r \in Requests, NEW f \in Frame, FrameFits(r), pc'[r] = "audit",
         frame'[r].path = frame[r].path, frame'[r].target = frame[r].target,
         frame[r].path \in AllHandlers
  PROVE  FrameFits(r)'
<1> DEFINE path == frame[r].path
<1>1. path \in {"createModule", "updateModule", "createPermission", "updatePermission",
                "deletePermission", "createRole", "updateRole", "deleteRole",
                "deleteModule", "grant", "revoke", "batchGrant", "batchRevoke"}
  BY DEF AllHandlers
<1>2. "audit" \in StatementsOf(path)
  BY <1>1, StatementLists DEF Granting
<1>3. path # "none"
  BY <1>1
<1>4. path = "deleteModule" => frame[r].target \in Modules
  BY DEF FrameFits
<1>5. QED
  BY <1>2, <1>3, <1>4 DEF FrameFits

\* Where the checks of the permissions' handlers lead.
CheckTo(r, st) ==
  \/ pc[r] = "requireModule" /\ st = "code" /\ modules[Wanted(r).module] = "live"
  \/ /\ pc[r] = "code" /\ st = "operation"
     /\ CodeAvailable(Wanted(r).code, frame[r].target)
  \/ /\ pc[r] = "operation"
     /\ st = IF frame[r].path = "createPermission" THEN "insertPermission"
             ELSE "reload"
     /\ OperationAvailable(Wanted(r).module, Wanted(r).operation, frame[r].target)
  \/ pc[r] = "roleCount" /\ st = "reload" /\ Unassigned(frame[r].target)
  \/ /\ pc[r] \in {"requireModule", "code", "operation", "roleCount"}
     /\ st = "refused"

LEMMA CheckSteps ==
  ASSUME NEW r,
         RequireModule(r) \/ CheckCode(r) \/ CheckOperation(r) \/ CheckRoleCount(r)
  PROVE  \E st \in {"code", "operation", "insertPermission", "reload", "refused"} :
           /\ Goto(r, st) /\ UNCHANGED <<tables, audit, overlapped>>
           /\ CheckTo(r, st)
<1>1. CASE RequireModule(r)
  <2>1. /\ pc[r] = "requireModule" /\ UNCHANGED <<tables, audit, overlapped>>
        /\ \/ modules[Wanted(r).module] = "live" /\ Goto(r, "code")
           \/ Goto(r, "refused")
    BY <1>1 DEF RequireModule, Check
  <2>2. QED
    BY <2>1 DEF CheckTo
<1>2. CASE CheckCode(r)
  <2> DEFINE holds == CodeAvailable(Wanted(r).code, frame[r].target)
  <2>1. /\ pc[r] = "code" /\ UNCHANGED <<tables, audit, overlapped>>
        /\ \/ holds /\ Goto(r, "operation")
           \/ Goto(r, "refused")
    BY <1>2 DEF CheckCode, Check
  <2>2. QED
    BY <2>1 DEF CheckTo
<1>3. CASE CheckOperation(r)
  <2> DEFINE next == IF frame[r].path = "createPermission" THEN "insertPermission"
                     ELSE "reload"
             holds == OperationAvailable(Wanted(r).module, Wanted(r).operation,
                                         frame[r].target)
  <2>1. /\ pc[r] = "operation" /\ UNCHANGED <<tables, audit, overlapped>>
        /\ \/ holds /\ Goto(r, next)
           \/ Goto(r, "refused")
    BY <1>3 DEF CheckOperation, Check
  <2>2. next \in {"insertPermission", "reload"}
    OBVIOUS
  <2>3. QED
    BY <2>1, <2>2 DEF CheckTo
<1>4. CASE CheckRoleCount(r)
  <2>1. /\ pc[r] = "roleCount" /\ UNCHANGED <<tables, audit, overlapped>>
        /\ \/ Unassigned(frame[r].target) /\ Goto(r, "reload")
           \/ Goto(r, "refused")
    BY <1>4 DEF CheckRoleCount, Check
  <2>2. QED
    BY <2>1 DEF CheckTo
<1>5. QED
  BY <1>1, <1>2, <1>3, <1>4

\* The checks of the permissions' handlers.
LEMMA CheckShape ==
  ASSUME Shape, NEW r \in Requests,
         RequireModule(r) \/ CheckCode(r) \/ CheckOperation(r) \/ CheckRoleCount(r)
  PROVE  Shape'
<1> DEFINE path == frame[r].path
<1>1. PICK st \in {"code", "operation", "insertPermission", "reload", "refused"} :
        /\ Goto(r, st) /\ UNCHANGED <<tables, audit, overlapped>>
        /\ CheckTo(r, st)
  BY CheckSteps
<1>2. /\ pc[r] \in {"requireModule", "code", "operation", "roleCount"}
      /\ pc[r] \in Statements /\ st \in Statements \cup Outcomes
  BY <1>1 DEF CheckTo, Statements, Outcomes
<1>3. /\ frame[r] \in Frame /\ FrameFits(r) /\ Types
      /\ path \in PermissionHandlers
  BY <1>2, OwnFrame, PathsOf DEF PermissionHandlers
<1>4. /\ pc[r] = "requireModule" => path = "updatePermission"
      /\ pc[r] \in {"code", "operation"} =>
           path \in {"createPermission", "updatePermission"}
      /\ pc[r] = "roleCount" => path = "deletePermission"
  BY <1>2, <1>3, PathsOf
<1>5. PermissionFits(r)
  BY <1>2, <1>3 DEF FrameFits
<1>6. UNCHANGED <<modules, permissions, roles, grants>>
  BY <1>1 DEF tables
<1>7. ASSUME pc'[r] = st, frame'[r] = frame[r], st \in Statements, st \notin Outcomes,
             StoredPermissions' = StoredPermissions, StoredRoles' = StoredRoles
      PROVE  FrameFits(r)'
  <2>1. st # "refused"
    BY <1>7 DEF Outcomes
  <2>2. st \in StatementsOf(path)
    BY <1>1, <1>4, <2>1, StatementLists DEF CheckTo
  <2>3. PermissionFits(r)'
    BY <1>5, <1>6, <1>7 DEF PermissionFits, Wanted
  <2>4. path \notin Granting /\ path # "none" /\ path # "deleteModule"
    BY <1>3 DEF PermissionHandlers, Granting
  <2>5. QED
    BY <1>1, <1>7, <2>2, <2>3, <2>4 DEF FrameFits
<1>8. GotoWith(r, st, frame[r])
  BY <1>1 DEF Goto
<1>9. audit' \subseteq Requests /\ overlapped' \in BOOLEAN /\ UNCHANGED tables
  BY <1>1, <1>3 DEF Types
<1>10. QED
  BY <1>2, <1>3, <1>7, <1>8, <1>9, QuietShape

\* A statement with which the handler ends.
LEMMA EndingShape ==
  ASSUME Shape, NEW r \in Requests, Audit(r) \/ Abort(r)
  PROVE  Shape'
<1>1. PICK st \in {"done", "aborted"} :
        /\ GotoWith(r, st, frame[r]) /\ UNCHANGED <<tables, overlapped>>
        /\ audit' \subseteq audit \cup {r}
  BY DEF Audit, Abort, Goto
<1>2. frame[r] \in Frame /\ st \in Outcomes /\ st \notin Statements
  BY <1>1 DEF Shape, Types, Outcomes, Statements
<1>3. audit' \subseteq Requests /\ overlapped' \in BOOLEAN /\ UNCHANGED tables
  BY <1>1 DEF Shape, Types
<1>4. QED
  BY <1>1, <1>2, <1>3, QuietShape

\* What save re-reads, for each row it is going to write.
LEMMA ReloadStep ==
  ASSUME Shape, NEW r \in Requests, Reload(r)
  PROVE  \E f \in Frame :
           /\ GotoWith(r, "write", f) /\ UNCHANGED <<tables, audit, overlapped>>
           /\ f.path = frame[r].path /\ f.target = frame[r].target
           /\ f.perms = frame[r].perms /\ f.ent = frame[r].ent
           /\ \A p \in PermissionIds :
                frame[r].ent[p] # None =>
                  /\ f.base[p] = permissions[p] /\ f.base[p] \in Permission
<1> DEFINE b == [p \in PermissionIds |->
                   IF frame[r].ent[p] = None THEN None ELSE permissions[p]]
           f == [frame[r] EXCEPT !.base = b]
<1>1. pc[r] = "reload" /\ GotoWith(r, "write", f) /\ UNCHANGED <<tables, audit, overlapped>>
  BY DEF Reload
<1>2. frame[r] \in Frame /\ FrameFits(r) /\ Types
  BY <1>1, OwnFrame DEF Statements
<1>3. b \in [PermissionIds -> Permission \cup {None}]
  BY <1>2 DEF Types
<1>4. \A p \in PermissionIds :
        frame[r].ent[p] # None => b[p] = permissions[p] /\ b[p] \in Permission
  BY <1>1, <1>2, SavedRows
<1> HIDE DEF b
<1>5. f \in Frame /\ f.base = b
  BY <1>2, <1>3 DEF Frame
<1>6. /\ f.path = frame[r].path /\ f.target = frame[r].target
      /\ f.perms = frame[r].perms /\ f.ent = frame[r].ent
  BY <1>2 DEF Frame
<1> HIDE DEF f
<1>7. QED
  BY <1>1, <1>4, <1>5, <1>6

LEMMA ReloadShape ==
  ASSUME Shape, NEW r \in Requests, Reload(r)
  PROVE  Shape'
<1>1. PICK f \in Frame :
           /\ GotoWith(r, "write", f) /\ UNCHANGED <<tables, audit, overlapped>>
           /\ f.path = frame[r].path /\ f.target = frame[r].target
           /\ f.perms = frame[r].perms /\ f.ent = frame[r].ent
           /\ \A p \in PermissionIds :
                frame[r].ent[p] # None =>
                  /\ f.base[p] = permissions[p] /\ f.base[p] \in Permission
  BY ReloadStep
<1>2. pc[r] = "reload" /\ pc[r] \in Statements
  BY DEF Reload, Statements
<1>3. /\ frame[r] \in Frame /\ FrameFits(r) /\ Types
      /\ frame[r].path \in {"updatePermission", "deletePermission", "deleteModule"}
  BY <1>2, OwnFrame, PathsOf
<1>4. UNCHANGED <<modules, permissions, roles, grants>>
  BY <1>1 DEF tables
<1>5. ASSUME pc'[r] = "write", frame'[r] = f,
             StoredPermissions' = StoredPermissions, StoredRoles' = StoredRoles
      PROVE  FrameFits(r)'
  <2>1. "write" \in StatementsOf(f.path)
    BY <1>1, <1>3, StatementLists
  <2>2. CASE f.path = "deleteModule"
    <3>1. CascadeFits(r)'
      BY <1>1, <1>2, <1>3, <1>4, <1>5, <2>2 DEF FrameFits, CascadeFits
    <3>2. f.target \in Modules
      BY <1>1, <1>3, <2>2 DEF FrameFits
    <3>3. QED
      BY <1>1, <1>5, <2>1, <2>2, <3>1, <3>2 DEF FrameFits, PermissionHandlers, Granting
  <2>3. CASE f.path \in {"updatePermission", "deletePermission"}
    <3>1. f.path \in PermissionHandlers
      BY <2>3 DEF PermissionHandlers
    <3>2. PermissionFits(r)
      BY <1>1, <1>2, <1>3, <3>1 DEF FrameFits
    <3>3. PermissionFits(r)'
      BY <1>1, <1>4, <1>5, <3>2 DEF PermissionFits, Wanted
    <3>4. QED
      BY <1>1, <1>5, <2>1, <2>3, <3>3 DEF FrameFits, Granting
  <2>4. QED
    BY <1>1, <1>3, <2>2, <2>3
<1>6. audit' \subseteq Requests /\ overlapped' \in BOOLEAN /\ UNCHANGED tables
  BY <1>1, <1>3 DEF Types
<1>7. "write" \in Statements
  BY DEF Statements
<1>8. QED
  BY <1>1, <1>5, <1>6, <1>7, QuietShape
\* The permissions of a module that goes, to be saved as deleted.
LEMMA FindChildrenStep ==
  ASSUME Shape, NEW r \in Requests, FindChildren(r)
  PROVE  /\ pc[r] = "children" /\ UNCHANGED <<tables, audit, overlapped>>
         /\ \E f \in Frame :
              /\ GotoWith(r, IF f.perms = {} THEN "saveModule" ELSE "grants", f)
              /\ f.path = frame[r].path /\ f.target = frame[r].target
              /\ f.perms = Children(frame[r].target)
              /\ \A p \in PermissionIds :
                   /\ f.ent[p] # None <=> p \in f.perms
                   /\ p \in f.perms =>
                        /\ f.ent[p].module = None /\ f.ent[p].isDeleted
                        /\ f.ent[p].code = permissions[p].code
                        /\ f.ent[p].operation = permissions[p].operation
<1> DEFINE kids == Children(frame[r].target)
           e == [p \in PermissionIds |->
                   IF p \in kids
                   THEN [permissions[p] EXCEPT !.isDeleted = TRUE, !.module = None]
                   ELSE None]
           f == [frame[r] EXCEPT !.perms = kids, !.ent = e]
<1>1. /\ pc[r] = "children" /\ UNCHANGED <<tables, audit, overlapped>>
      /\ GotoWith(r, IF kids = {} THEN "saveModule" ELSE "grants", f)
  BY DEF FindChildren, AfterChildren, Children
<1>2. frame[r] \in Frame /\ Types
  BY <1>1, OwnFrame DEF Statements
<1>3. kids \subseteq PermissionIds
  BY DEF Children, LivePermissions, StoredPermissions
<1>4. ASSUME NEW p \in kids
      PROVE  /\ e[p] \in Entity /\ e[p] # None
             /\ e[p].module = None /\ e[p].isDeleted
             /\ e[p].code = permissions[p].code
             /\ e[p].operation = permissions[p].operation
  <2>1. p \in PermissionIds /\ permissions[p] \in Permission
    BY <1>2 DEF Children, LivePermissions, StoredPermissions, Types
  <2> DEFINE row == permissions[p]
             gone == [row EXCEPT !.isDeleted = TRUE]
             new == [gone EXCEPT !.module = None]
  <2>2. /\ gone \in Permission /\ gone.isDeleted
        /\ gone.code = row.code /\ gone.operation = row.operation
    BY <2>1 DEF Permission
  <2>3. e[p] = new
    BY <2>1
  <2> HIDE DEF gone, e, kids
  <2>4. /\ new \in Entity /\ new.module = None /\ new.isDeleted
        /\ new.code = row.code /\ new.operation = row.operation
    BY <2>2 DEF Permission, Entity
  <2> HIDE DEF new
  <2>5. QED
    BY <2>3, <2>4, NoneIsNoRow
<1>5. \A p \in PermissionIds \ kids : e[p] = None
  OBVIOUS
<1>6. e \in [PermissionIds -> Entity \cup {None}]
  BY <1>4
<1> HIDE DEF e, kids
<1>7. f \in Frame /\ f.perms = kids /\ f.ent = e
  <2> DEFINE g == [frame[r] EXCEPT !.perms = kids]
  <2>1. g \in Frame /\ g.perms = kids
    BY <1>2, <1>3 DEF Frame
  <2>2. f = [g EXCEPT !.ent = e]
    OBVIOUS
  <2> HIDE DEF g, f
  <2>3. QED
    BY <1>6, <2>1, <2>2 DEF Frame
<1>8. f.path = frame[r].path /\ f.target = frame[r].target
  BY <1>2 DEF Frame
<1> HIDE DEF f
<1>9. \A p \in PermissionIds :
        /\ f.ent[p] # None <=> p \in f.perms
        /\ p \in f.perms =>
             /\ f.ent[p].module = None /\ f.ent[p].isDeleted
             /\ f.ent[p].code = permissions[p].code
             /\ f.ent[p].operation = permissions[p].operation
  BY <1>4, <1>5, <1>7
<1>10. QED
  BY <1>1, <1>7, <1>8, <1>9 DEF kids

LEMMA FindChildrenShape ==
  ASSUME Shape, NEW r \in Requests, FindChildren(r)
  PROVE  Shape'
<1>1. pc[r] = "children" /\ UNCHANGED <<tables, audit, overlapped>>
  BY FindChildrenStep
<1>2. PICK f \in Frame :
        /\ GotoWith(r, IF f.perms = {} THEN "saveModule" ELSE "grants", f)
        /\ f.path = frame[r].path /\ f.target = frame[r].target
        /\ f.perms = Children(frame[r].target)
        /\ \A p \in PermissionIds :
             /\ f.ent[p] # None <=> p \in f.perms
             /\ p \in f.perms => f.ent[p].module = None /\ f.ent[p].isDeleted
  BY FindChildrenStep
<1>3. /\ FrameFits(r) /\ Types /\ frame[r].path = "deleteModule"
      /\ frame[r].target \in Modules
  <2>1. pc[r] \in Statements
    BY <1>1 DEF Statements
  <2>2. QED
    BY <1>1, <2>1, OwnFrame, PathsOf DEF FrameFits
<1>4. PICK st \in {"saveModule", "grants"} : GotoWith(r, st, f)
  BY <1>2
<1>5. ASSUME pc'[r] = st, frame'[r] = f,
             StoredPermissions' = StoredPermissions, StoredRoles' = StoredRoles
      PROVE  FrameFits(r)'
  <2>1. st \in StatementsOf(f.path)
    BY <1>2, <1>3, StatementLists
  <2>2. f.perms \subseteq StoredPermissions
    BY <1>2 DEF Children, LivePermissions
  <2>3. CascadeFits(r)'
    BY <1>2, <1>5, <2>2 DEF CascadeFits
  <2>4. QED
    BY <1>2, <1>3, <1>5, <2>1, <2>3 DEF FrameFits, PermissionHandlers, Granting
<1>6. audit' \subseteq Requests /\ overlapped' \in BOOLEAN /\ UNCHANGED tables
  BY <1>1, <1>3 DEF Types
<1>7. st \in Statements
  BY DEF Statements
<1>8. QED
  BY <1>4, <1>5, <1>6, <1>7, QuietShape

LEMMA FindGrantsStep ==
  ASSUME Shape, NEW r \in Requests, FindGrants(r)
  PROVE  /\ pc[r] = "grants" /\ UNCHANGED <<tables, audit, overlapped>>
         /\ frame[r].path \in {"revoke", "batchRevoke", "deleteModule"}
         /\ \E f \in Frame, st \in {"saveGrants", "reload", "refused", "audit"} :
              /\ GotoWith(r, st, f)
              /\ f.path = frame[r].path /\ f.target = frame[r].target
              /\ f.perms = frame[r].perms /\ f.ent = frame[r].ent
              /\ f.pairs = Held(r)
              /\ st = "saveGrants" <=> Held(r) # {}
              /\ st = "reload" => f.path = "deleteModule"
              /\ f.path = "deleteModule" => st \in {"saveGrants", "reload"}
<1> DEFINE otherwise == CASE frame[r].path = "deleteModule" -> "reload"
                          [] frame[r].path = "revoke" -> "refused"
                          [] OTHER -> "audit"
           st == IF Held(r) = {} THEN otherwise ELSE "saveGrants"
           f == [frame[r] EXCEPT !.pairs = Held(r)]
<1>1. /\ pc[r] = "grants" /\ UNCHANGED <<tables, audit, overlapped>>
      /\ GotoWith(r, st, f)
  BY DEF FindGrants
<1>2. /\ frame[r] \in Frame
      /\ frame[r].path \in {"revoke", "batchRevoke", "deleteModule"}
  BY <1>1, OwnFrame, PathsOf DEF Statements
<1>3. Held(r) \subseteq RoleIds \X PermissionIds
  BY DEF Held, LiveGrants
<1>4. /\ f \in Frame /\ f.pairs = Held(r) /\ f.path = frame[r].path
      /\ f.target = frame[r].target /\ f.perms = frame[r].perms
      /\ f.ent = frame[r].ent
  BY <1>2, <1>3 DEF Frame
<1>5. /\ otherwise \in {"reload", "refused", "audit"}
      /\ otherwise = "reload" <=> frame[r].path = "deleteModule"
  BY <1>2
<1> HIDE DEF otherwise, f
<1>6. QED
  BY <1>1, <1>2, <1>4, <1>5

LEMMA FindGrantsShape ==
  ASSUME Shape, NEW r \in Requests, FindGrants(r)
  PROVE  Shape'
<1>1. /\ pc[r] = "grants" /\ UNCHANGED <<tables, audit, overlapped>>
      /\ frame[r].path \in {"revoke", "batchRevoke", "deleteModule"}
  BY FindGrantsStep
<1>2. PICK f \in Frame, st \in {"saveGrants", "reload", "refused", "audit"} :
        /\ GotoWith(r, st, f)
        /\ f.path = frame[r].path /\ f.target = frame[r].target
        /\ f.perms = frame[r].perms /\ f.ent = frame[r].ent
        /\ f.pairs = Held(r)
        /\ st = "reload" => f.path = "deleteModule"
  BY FindGrantsStep
<1>3. /\ pc[r] \in Statements /\ st \in Statements \cup Outcomes
      /\ "refused" \in Outcomes
  BY <1>1 DEF Statements, Outcomes
<1>4. FrameFits(r) /\ Types /\ frame[r] \in Frame /\ frame[r].path \in AllHandlers
  BY <1>3, OwnFrame
<1>5. UNCHANGED <<modules, permissions, roles, grants>>
  BY <1>1 DEF tables
<1>6. ASSUME pc'[r] = st, frame'[r] = f, st \notin Outcomes,
             StoredPermissions' = StoredPermissions, StoredRoles' = StoredRoles
      PROVE  FrameFits(r)'
  <2>1. CASE st = "audit"
    BY <1>2, <1>4, <1>6, <2>1, AuditFits
  <2>2. CASE st \in {"saveGrants", "reload"}
    <3>1. st \in StatementsOf(f.path)
      BY <1>1, <1>2, <2>2, StatementLists
    <3>2. f.path = "deleteModule" => CascadeFits(r)' /\ f.target \in Modules
      BY <1>1, <1>2, <1>4, <1>5, <1>6 DEF FrameFits, CascadeFits
    <3>3. \A g \in f.pairs : grants'[g] # "none"
      BY <1>2, <1>5 DEF Held, LiveGrants
    <3>4. QED
      BY <1>1, <1>2, <1>6, <2>2, <3>1, <3>2, <3>3
         DEF FrameFits, PermissionHandlers, Granting
  <2>3. QED
    BY <1>3, <1>6, <2>1, <2>2
<1>7. audit' \subseteq Requests /\ overlapped' \in BOOLEAN /\ UNCHANGED tables
  BY <1>1, <1>4 DEF Types
<1>8. QED
  BY <1>2, <1>3, <1>6, <1>7, QuietShape
\* A request that grants fits its next statement.
LEMMA GrantNextFits ==
  ASSUME NEW r \in Requests, NEW f \in Frame, f.path \in Granting,
         f.target \in RoleIds \ SystemRoles, frame'[r] = f,
         pc'[r] \in {"permission", "existing", "insertGrant", "saveGrants", "audit"},
         pc'[r] \in {"existing", "insertGrant", "saveGrants"} =>
           \E p \in PermissionIds : f.pairs = {<<f.target, p>>},
         pc'[r] = "saveGrants" => \A g \in f.pairs : grants'[g] # "none"
  PROVE  FrameFits(r)'
<1>1. pc'[r] \in StatementsOf(f.path)
  BY StatementLists
<1>2. f.path # "none" /\ f.path # "deleteModule" /\ f.path \notin PermissionHandlers
  BY DEF Granting, PermissionHandlers
<1>3. pc'[r] # "audit" => GrantFits(r)'
  BY DEF GrantFits
<1>4. QED
  BY <1>1, <1>2, <1>3 DEF FrameFits

\* What a request that grants is about.
LEMMA GrantingFrame ==
  ASSUME Shape, NEW r \in Requests, pc[r] \in {"permission", "existing", "insertGrant"}
  PROVE  /\ frame[r] \in Frame /\ frame[r].path \in Granting /\ Types
         /\ frame[r].target \in RoleIds \ SystemRoles /\ FrameFits(r)
         /\ pc[r] # "permission" =>
              \E p \in PermissionIds : frame[r].pairs = {<<frame[r].target, p>>}
<1>1. pc[r] \in Statements
  BY DEF Statements
<1>2. frame[r] \in Frame /\ FrameFits(r) /\ Types /\ frame[r].path \in Granting
  BY <1>1, OwnFrame, PathsOf
<1>3. GrantFits(r)
  BY <1>2 DEF FrameFits
<1>4. QED
  BY <1>2, <1>3 DEF GrantFits

LEMMA AfterGrantsIn ==
  ASSUME NEW r
  PROVE  /\ AfterGrants(r) \in {"reload", "permission", "audit"}
         /\ frame[r].path \in Granting => AfterGrants(r) \in {"permission", "audit"}
         /\ frame[r].path = "deleteModule" => AfterGrants(r) = "reload"
         /\ frame[r].path \in {"revoke", "batchRevoke"} => AfterGrants(r) = "audit"
<1>1. frame[r].path \in Granting => frame[r].path # "deleteModule"
  BY DEF Granting
<1>2. CASE frame[r].path = "deleteModule"
  BY <1>1, <1>2 DEF AfterGrants
<1>3. CASE frame[r].path # "deleteModule"
  BY <1>3 DEF AfterGrants, Granting
<1>4. QED
  BY <1>2, <1>3

LEMMA FindPermissionStep ==
  ASSUME Shape, NEW r \in Requests, FindPermission(r)
  PROVE  /\ pc[r] = "permission" /\ UNCHANGED <<tables, audit, overlapped>>
         /\ \E f \in Frame, st \in {"existing", "refused"}, p \in PermissionIds :
              /\ GotoWith(r, st, f)
              /\ f.path = frame[r].path /\ f.target = frame[r].target
              /\ f.pairs = {<<f.target, p>>}
              /\ st = "existing" => p \in LivePermissions
<1>1. pc[r] = "permission" /\ UNCHANGED <<tables, audit, overlapped>>
  BY DEF FindPermission
<1>2. PICK p \in frame[r].perms :
        GotoWith(r, IF p \in LivePermissions THEN "existing" ELSE "refused",
                 [frame[r] EXCEPT !.perms = @ \ {p},
                                  !.pairs = {<<frame[r].target, p>>}])
  BY DEF FindPermission
<1>3. frame[r] \in Frame /\ frame[r].target \in RoleIds
  BY <1>1, GrantingFrame
<1>4. p \in PermissionIds
  BY <1>3 DEF Frame
<1> DEFINE ps == frame[r].perms \ {p}
           gs == {<<frame[r].target, p>>}
           d == [frame[r] EXCEPT !.perms = ps]
           f == [d EXCEPT !.pairs = gs]
<1>5. ps \in SUBSET PermissionIds /\ gs \in SUBSET (RoleIds \X PermissionIds)
  BY <1>3, <1>4 DEF Frame
<1>6. [frame[r] EXCEPT !.perms = @ \ {p}, !.pairs = {<<frame[r].target, p>>}] = f
  OBVIOUS
<1> HIDE DEF ps
<1>7. d \in Frame /\ d.path = frame[r].path /\ d.target = frame[r].target
  BY <1>3, <1>5 DEF Frame
<1> HIDE DEF d, gs
<1>8. /\ f \in Frame /\ f.path = frame[r].path /\ f.target = frame[r].target
      /\ f.pairs = gs
  BY <1>5, <1>7 DEF Frame
<1> HIDE DEF f
<1>9. f.pairs = {<<f.target, p>>}
  BY <1>8 DEF gs
<1>10. QED
  BY <1>1, <1>2, <1>4, <1>6, <1>8, <1>9

LEMMA FindPermissionShape ==
  ASSUME Shape, NEW r \in Requests, FindPermission(r)
  PROVE  Shape'
<1>1. pc[r] = "permission" /\ UNCHANGED <<tables, audit, overlapped>>
  BY FindPermissionStep
<1>2. PICK f \in Frame, st \in {"existing", "refused"}, p \in PermissionIds :
        /\ GotoWith(r, st, f)
        /\ f.path = frame[r].path /\ f.target = frame[r].target
        /\ f.pairs = {<<f.target, p>>}
  BY FindPermissionStep
<1>3. Types /\ frame[r].path \in Granting /\ frame[r].target \in RoleIds \ SystemRoles
  BY <1>1, GrantingFrame
<1>4. st \in Statements \cup Outcomes /\ "refused" \in Outcomes
  BY DEF Statements, Outcomes
<1>5. ASSUME pc'[r] = st, frame'[r] = f, st \notin Outcomes
      PROVE  FrameFits(r)'
  BY <1>2, <1>3, <1>4, <1>5, GrantNextFits
<1>6. audit' \subseteq Requests /\ overlapped' \in BOOLEAN /\ UNCHANGED tables
  BY <1>1, <1>3 DEF Types
<1>7. QED
  BY <1>2, <1>4, <1>5, <1>6, QuietShape

LEMMA FindExistingStep ==
  ASSUME Shape, NEW r \in Requests, FindExisting(r)
  PROVE  /\ pc[r] = "existing" /\ UNCHANGED <<tables, audit, overlapped>>
         /\ \E st \in {"permission", "audit", "saveGrants", "insertGrant"} :
              /\ Goto(r, st)
              /\ \A g \in frame[r].pairs :
                   /\ st = "insertGrant" => grants[g] = "none"
                   /\ st = "saveGrants" => grants[g] = "deleted"
<1>1. pc[r] = "existing" /\ UNCHANGED <<tables, audit, overlapped>>
  BY DEF FindExisting
<1>2. PICK g \in frame[r].pairs :
        Goto(r, CASE grants[g] = "live" -> AfterGrants(r)
                  [] grants[g] = "deleted" -> "saveGrants"
                  [] OTHER -> "insertGrant")
  BY DEF FindExisting
<1>3. /\ frame[r].path \in Granting /\ Types
      /\ \E p \in PermissionIds : frame[r].pairs = {<<frame[r].target, p>>}
      /\ frame[r].target \in RoleIds
  BY <1>1, GrantingFrame
<1>4. frame[r].pairs = {g} /\ grants[g] \in Presence
  BY <1>2, <1>3 DEF Types
<1>5. AfterGrants(r) \in {"permission", "audit"}
  BY <1>3, AfterGrantsIn
<1>6. CASE grants[g] = "live"
  <2>1. Goto(r, AfterGrants(r))
    BY <1>2, <1>6
  <2>2. QED
    BY <1>1, <1>5, <2>1
<1>7. CASE grants[g] = "deleted"
  <2>1. Goto(r, "saveGrants")
    BY <1>2, <1>7
  <2>2. QED
    BY <1>1, <1>4, <1>7, <2>1
<1>8. CASE grants[g] = "none"
  <2>1. Goto(r, "insertGrant")
    BY <1>2, <1>8
  <2>2. QED
    BY <1>1, <1>4, <1>8, <2>1
<1>9. QED
  BY <1>4, <1>6, <1>7, <1>8 DEF Presence

LEMMA FindExistingShape ==
  ASSUME Shape, NEW r \in Requests, FindExisting(r)
  PROVE  Shape'
<1>1. pc[r] = "existing" /\ UNCHANGED <<tables, audit, overlapped>>
  BY FindExistingStep
<1>2. PICK st \in {"permission", "audit", "saveGrants", "insertGrant"} :
        /\ Goto(r, st)
        /\ \A g \in frame[r].pairs : st = "saveGrants" => grants[g] = "deleted"
  BY FindExistingStep
<1>3. /\ frame[r] \in Frame /\ frame[r].path \in Granting /\ Types
      /\ frame[r].target \in RoleIds \ SystemRoles
      /\ \E p \in PermissionIds : frame[r].pairs = {<<frame[r].target, p>>}
  BY <1>1, GrantingFrame
<1>4. st \in Statements \cup Outcomes
  BY DEF Statements
<1>5. ASSUME pc'[r] = st, frame'[r] = frame[r]
      PROVE  FrameFits(r)'
  <2>1. grants' = grants
    BY <1>1 DEF tables
  <2>2. st = "saveGrants" => \A g \in frame[r].pairs : grants'[g] # "none"
    BY <1>2, <2>1
  <2>3. QED
    BY <1>3, <1>5, <2>2, GrantNextFits
<1>6. audit' \subseteq Requests /\ overlapped' \in BOOLEAN /\ UNCHANGED tables
  BY <1>1, <1>3 DEF Types
<1>7. GotoWith(r, st, frame[r])
  BY <1>2 DEF Goto
<1>8. QED
  BY <1>3, <1>4, <1>5, <1>6, <1>7, QuietShape
\* Statements that write grants.
LEMMA GrantsWritten ==
  ASSUME Shape, NEW r \in Requests,
         UNCHANGED <<modules, permissions, roles, audit, overlapped>>,
         grants' \in [RoleIds \X PermissionIds -> Presence],
         \A g \in RoleIds \X PermissionIds : grants[g] # "none" => grants'[g] # "none"
  PROVE  Tables' /\ RowsUnique' /\ Kept(r)
<1>1. StoredPermissions' = StoredPermissions /\ StoredRoles' = StoredRoles
  BY DEF StoredPermissions, StoredRoles
<1>2. Tables'
  BY DEF Shape, Types, Tables
<1>3. RowsUnique'
  BY DEF Shape, RowsUnique, UniqueOperations
<1>4. Kept(r)
  BY <1>1 DEF Kept
<1>5. QED
  BY <1>2, <1>3, <1>4

LEMMA InsertGrantStep ==
  ASSUME Shape, NEW r \in Requests, InsertGrant(r)
  PROVE  /\ pc[r] = "insertGrant"
         /\ UNCHANGED <<modules, permissions, roles, audit, overlapped>>
         /\ grants' \in [RoleIds \X PermissionIds -> Presence]
         /\ \E g \in RoleIds \X PermissionIds :
              /\ frame[r].pairs = {g} /\ g[1] = frame[r].target
              /\ \/ /\ grants[g] = "none" /\ grants' = [grants EXCEPT ![g] = "live"]
                    /\ Goto(r, AfterGrants(r))
                 \/ grants[g] # "none" /\ grants' = grants /\ Goto(r, "conflict")
<1>1. /\ pc[r] = "insertGrant"
      /\ UNCHANGED <<modules, permissions, roles, audit, overlapped>>
  BY DEF InsertGrant
<1>2. PICK g \in frame[r].pairs :
        IF grants[g] = "none"
        THEN grants' = [grants EXCEPT ![g] = "live"] /\ Goto(r, AfterGrants(r))
        ELSE UNCHANGED grants /\ Goto(r, "conflict")
  BY DEF InsertGrant
<1>3. /\ Types /\ frame[r].target \in RoleIds
      /\ \E p \in PermissionIds : frame[r].pairs = {<<frame[r].target, p>>}
  BY <1>1, GrantingFrame
<1>4. /\ g \in RoleIds \X PermissionIds /\ frame[r].pairs = {g}
      /\ g[1] = frame[r].target
  BY <1>2, <1>3
<1>5. grants' \in [RoleIds \X PermissionIds -> Presence]
  BY <1>2, <1>3, <1>4 DEF Types, Presence
<1>6. QED
  BY <1>1, <1>2, <1>4, <1>5

LEMMA InsertGrantShape ==
  ASSUME Shape, NEW r \in Requests, InsertGrant(r)
  PROVE  Shape'
<1>1. /\ pc[r] = "insertGrant"
      /\ UNCHANGED <<modules, permissions, roles, audit, overlapped>>
      /\ grants' \in [RoleIds \X PermissionIds -> Presence]
  BY InsertGrantStep
<1>2. PICK g \in RoleIds \X PermissionIds :
         \/ /\ grants[g] = "none" /\ grants' = [grants EXCEPT ![g] = "live"]
            /\ Goto(r, AfterGrants(r))
         \/ grants[g] # "none" /\ grants' = grants /\ Goto(r, "conflict")
  BY InsertGrantStep
<1>3. /\ frame[r] \in Frame /\ frame[r].path \in Granting /\ Types
      /\ frame[r].target \in RoleIds \ SystemRoles
      /\ AfterGrants(r) \in {"permission", "audit"}
  BY <1>1, GrantingFrame, AfterGrantsIn
<1>4. PICK st \in {"permission", "audit", "conflict"} : GotoWith(r, st, frame[r])
  BY <1>2, <1>3 DEF Goto
<1>5. st \in Statements \cup Outcomes /\ "conflict" \notin Statements
  BY DEF Statements, Outcomes
<1>6. \A h \in RoleIds \X PermissionIds : grants[h] # "none" => grants'[h] # "none"
  BY <1>2, <1>3 DEF Types
<1>7. Tables' /\ RowsUnique' /\ Kept(r)
  BY <1>1, <1>6, GrantsWritten
<1>8. ASSUME pc'[r] = st, frame'[r] = frame[r], st \in Statements
      PROVE  FrameFits(r)'
  BY <1>3, <1>5, <1>8, GrantNextFits
<1>9. QED
  BY <1>3, <1>4, <1>5, <1>7, <1>8, StepShape

LEMMA SaveGrantsStep ==
  ASSUME Shape, NEW r \in Requests, SaveGrants(r)
  PROVE  /\ pc[r] = "saveGrants" /\ Goto(r, AfterGrants(r))
         /\ UNCHANGED <<modules, permissions, roles, audit, overlapped>>
         /\ grants' \in [RoleIds \X PermissionIds -> Presence]
         /\ \A g \in RoleIds \X PermissionIds :
              grants'[g] = IF g \in frame[r].pairs
                           THEN IF frame[r].path \in Granting THEN "live" ELSE "deleted"
                           ELSE grants[g]
         /\ frame[r] \in Frame /\ FrameFits(r) /\ Types
         /\ frame[r].path \in Granting \cup {"revoke", "batchRevoke", "deleteModule"}
         /\ frame[r].path \in Granting => GrantFits(r)
<1>1. /\ pc[r] = "saveGrants" /\ Goto(r, AfterGrants(r))
      /\ UNCHANGED <<modules, permissions, roles, audit, overlapped>>
      /\ grants' = [g \in RoleIds \X PermissionIds |->
                      IF g \in frame[r].pairs
                      THEN IF frame[r].path \in Granting THEN "live" ELSE "deleted"
                      ELSE grants[g]]
  BY DEF SaveGrants, Granting
<1>2. /\ frame[r] \in Frame /\ FrameFits(r) /\ Types
      /\ frame[r].path \in Granting \cup {"revoke", "batchRevoke", "deleteModule"}
  BY <1>1, OwnFrame, PathsOf DEF Statements
<1>3. grants' \in [RoleIds \X PermissionIds -> Presence]
  BY <1>1, <1>2 DEF Types, Presence
<1>4. frame[r].path \in Granting => GrantFits(r)
  BY <1>1, <1>2 DEF FrameFits
<1>5. QED
  BY <1>1, <1>2, <1>3, <1>4

LEMMA SaveGrantsShape ==
  ASSUME Shape, NEW r \in Requests, SaveGrants(r)
  PROVE  Shape'
<1> DEFINE path == frame[r].path
           st == AfterGrants(r)
<1>1. /\ pc[r] = "saveGrants" /\ Goto(r, st)
      /\ UNCHANGED <<modules, permissions, roles, audit, overlapped>>
      /\ grants' \in [RoleIds \X PermissionIds -> Presence]
      /\ \A g \in RoleIds \X PermissionIds :
           grants'[g] = IF g \in frame[r].pairs
                        THEN IF path \in Granting THEN "live" ELSE "deleted"
                        ELSE grants[g]
      /\ frame[r] \in Frame /\ FrameFits(r) /\ Types
      /\ path \in Granting \cup {"revoke", "batchRevoke", "deleteModule"}
      /\ path \in Granting => GrantFits(r)
  BY SaveGrantsStep
<1>2. /\ st \in {"reload", "permission", "audit"}
      /\ path \in Granting => st \in {"permission", "audit"}
      /\ path = "deleteModule" => st = "reload"
      /\ path \in {"revoke", "batchRevoke"} => st = "audit"
  BY AfterGrantsIn
<1>3. \A g \in RoleIds \X PermissionIds : grants[g] # "none" => grants'[g] # "none"
  BY <1>1
<1>4. Tables' /\ RowsUnique' /\ Kept(r)
  BY <1>1, <1>3, GrantsWritten
<1>5. GotoWith(r, st, frame[r])
  BY <1>1 DEF Goto
<1> HIDE DEF st
<1>6. st \in Statements
  BY <1>2 DEF Statements
<1>7. ASSUME pc'[r] = st, frame'[r] = frame[r]
      PROVE  FrameFits(r)'
  <2>1. CASE path \in Granting
    BY <1>1, <1>2, <1>7, <2>1, GrantNextFits DEF GrantFits
  <2>2. CASE path \in {"revoke", "batchRevoke"}
    BY <1>1, <1>2, <1>7, <2>2, AuditFits DEF AllHandlers
  <2>3. CASE path = "deleteModule"
    <3>1. "reload" \in StatementsOf(path)
      BY <2>3, StatementLists
    <3>2. CascadeFits(r)' /\ frame[r].target \in Modules
      BY <1>1, <1>7, <2>3 DEF FrameFits, CascadeFits, StoredPermissions
    <3>3. QED
      BY <1>2, <1>7, <2>3, <3>1, <3>2 DEF FrameFits, PermissionHandlers, Granting
  <2>4. QED
    BY <1>1, <2>1, <2>2, <2>3
<1>8. QED
  BY <1>1, <1>4, <1>5, <1>6, <1>7, StepShape

\* Statements that write modules.
LEMMA ModulesWritten ==
  ASSUME Shape, NEW r \in Requests,
         UNCHANGED <<permissions, roles, grants, audit, overlapped>>,
         modules' \in [Modules -> Presence]
  PROVE  Tables' /\ RowsUnique' /\ Kept(r)
<1>1. StoredPermissions' = StoredPermissions /\ StoredRoles' = StoredRoles
  BY DEF StoredPermissions, StoredRoles
<1>2. Tables'
  BY DEF Shape, Types, Tables
<1>3. RowsUnique'
  BY DEF Shape, RowsUnique, UniqueOperations
<1>4. Kept(r)
  BY <1>1 DEF Kept
<1>5. QED
  BY <1>2, <1>3, <1>4

LEMMA ModuleStep ==
  ASSUME Shape, NEW r \in Requests, InsertModule(r) \/ SaveModule(r)
  PROVE  /\ UNCHANGED <<permissions, roles, grants, audit, overlapped>>
         /\ modules' \in [Modules -> Presence]
         /\ frame[r] \in Frame /\ FrameFits(r) /\ Types
         /\ frame[r].path \in AllHandlers /\ frame[r].target \in Modules
         /\ \/ /\ pc[r] = "insertModule" /\ frame[r].path = "createModule"
               /\ modules[frame[r].target] = "none"
               /\ modules' = [modules EXCEPT ![frame[r].target] = "live"]
               /\ Goto(r, "audit")
            \/ /\ pc[r] = "insertModule" /\ modules[frame[r].target] # "none"
               /\ modules' = modules /\ Goto(r, "conflict")
            \/ /\ pc[r] = "saveModule" /\ frame[r].path = "updateModule"
               /\ modules' = [modules EXCEPT ![frame[r].target] = "live"]
               /\ Goto(r, "audit")
            \/ /\ pc[r] = "saveModule" /\ frame[r].path = "deleteModule"
               /\ modules' = [modules EXCEPT ![frame[r].target] = "deleted"]
               /\ Goto(r, "audit")
<1>1. /\ pc[r] \in {"insertModule", "saveModule"} /\ pc[r] \in Statements
      /\ UNCHANGED <<permissions, roles, grants, audit, overlapped>>
  BY DEF InsertModule, SaveModule, Statements
<1>2. /\ frame[r] \in Frame /\ FrameFits(r) /\ Types
      /\ frame[r].path \in AllHandlers /\ frame[r].target \in Modules
      /\ pc[r] = "insertModule" => frame[r].path = "createModule"
      /\ pc[r] = "saveModule" => frame[r].path \in {"updateModule", "deleteModule"}
  BY <1>1, OwnFrame, PathsOf DEF FrameFits
<1>3. CASE InsertModule(r)
  BY <1>1, <1>2, <1>3 DEF InsertModule, Types, Presence
<1>4. CASE SaveModule(r)
  BY <1>1, <1>2, <1>4 DEF SaveModule, Types, Presence
<1>5. QED
  BY <1>3, <1>4

LEMMA ModuleShape ==
  ASSUME Shape, NEW r \in Requests, InsertModule(r) \/ SaveModule(r)
  PROVE  Shape'
<1>1. /\ UNCHANGED <<permissions, roles, grants, audit, overlapped>>
      /\ modules' \in [Modules -> Presence]
      /\ frame[r] \in Frame /\ FrameFits(r) /\ Types
      /\ frame[r].path \in AllHandlers
  BY ModuleStep
<1>2. Goto(r, "audit") \/ Goto(r, "conflict")
  BY ModuleStep
<1>3. PICK st \in {"audit", "conflict"} : GotoWith(r, st, frame[r])
  BY <1>2 DEF Goto
<1>4. Tables' /\ RowsUnique' /\ Kept(r)
  BY <1>1, ModulesWritten
<1>5. st \in Statements \cup Outcomes /\ "conflict" \notin Statements
  BY DEF Statements, Outcomes
<1>6. ASSUME pc'[r] = st, frame'[r] = frame[r], st \in Statements
      PROVE  FrameFits(r)'
  BY <1>1, <1>5, <1>6, AuditFits
<1>7. QED
  BY <1>1, <1>3, <1>4, <1>5, <1>6, StepShape
\* Statements that write roles.
LEMMA RolesWritten ==
  ASSUME Shape, NEW r \in Requests,
         UNCHANGED <<modules, permissions, grants, audit, overlapped>>,
         roles' \in [RoleIds -> Role \cup {None}],
         \A x \in Requests \ {r} : roles[x] = None => roles'[x] = None,
         \A x \in StoredRoles : roles'[x] # None
  PROVE  Tables' /\ RowsUnique' /\ Kept(r)
<1>1. /\ StoredPermissions' = StoredPermissions
      /\ \A x \in StoredRoles : x \in StoredRoles'
  BY DEF StoredPermissions, StoredRoles
<1>2. Tables'
  BY DEF Shape, Types, Tables
<1>3. RowsUnique'
  BY DEF Shape, RowsUnique, UniqueOperations
<1>4. Kept(r)
  BY <1>1 DEF Kept
<1>5. QED
  BY <1>2, <1>3, <1>4

LEMMA InsertRoleStep ==
  ASSUME Shape, NEW r \in Requests, InsertRole(r)
  PROVE  /\ pc[r] = "insertRole" /\ frame[r].path = "createRole"
         /\ UNCHANGED <<modules, permissions, grants, audit, overlapped>>
         /\ frame[r] \in Frame /\ FrameFits(r) /\ Types
         /\ frame[r].role \in Role /\ ~frame[r].role.isDeleted
         /\ roles[r] = None /\ r \in RoleIds
         /\ \/ /\ roles' = [roles EXCEPT ![r] = frame[r].role] /\ Goto(r, "audit")
            \/ /\ ~UniqueRole(frame[r].role.tenant, frame[r].role.code)
               /\ roles' = roles /\ Goto(r, "conflict")
<1>1. /\ pc[r] = "insertRole" /\ pc[r] \in Statements
      /\ UNCHANGED <<modules, permissions, grants, audit, overlapped>>
      /\ \/ /\ roles' = [roles EXCEPT ![r] = frame[r].role] /\ Goto(r, "audit")
         \/ /\ ~UniqueRole(frame[r].role.tenant, frame[r].role.code)
            /\ roles' = roles /\ Goto(r, "conflict")
  BY DEF InsertRole, Statements
<1>2. frame[r] \in Frame /\ FrameFits(r) /\ Types /\ frame[r].path = "createRole"
  BY <1>1, OwnFrame, PathsOf
<1>3. RoleFits(r)
  BY <1>1, <1>2 DEF FrameFits
<1>4. QED
  BY <1>1, <1>2, <1>3 DEF RoleFits, RoleIds

LEMMA SaveRoleStep ==
  ASSUME Shape, NEW r \in Requests, SaveRole(r)
  PROVE  /\ pc[r] = "saveRole" /\ frame[r].path \in {"updateRole", "deleteRole"}
         /\ UNCHANGED <<modules, permissions, grants, audit, overlapped>>
         /\ frame[r] \in Frame /\ FrameFits(r) /\ Types /\ Goto(r, "audit")
         /\ frame[r].target \in StoredRoles
         /\ \E row \in Role :
              /\ roles' = [roles EXCEPT ![frame[r].target] = row]
              /\ row.tenant = roles[frame[r].target].tenant
              /\ row.code = roles[frame[r].target].code
              /\ row.isDeleted <=> frame[r].path = "deleteRole"
<1> DEFINE x == frame[r].target
           row == [roles[x] EXCEPT !.isDeleted = (frame[r].path = "deleteRole")]
<1>1. /\ pc[r] = "saveRole" /\ pc[r] \in Statements /\ Goto(r, "audit")
      /\ UNCHANGED <<modules, permissions, grants, audit, overlapped>>
      /\ roles' = [roles EXCEPT ![x] = row]
  BY DEF SaveRole, Statements
<1>2. /\ frame[r] \in Frame /\ FrameFits(r) /\ Types
      /\ frame[r].path \in {"updateRole", "deleteRole"}
  BY <1>1, OwnFrame, PathsOf
<1>3. x \in StoredRoles
  BY <1>1, <1>2 DEF FrameFits, RoleFits
<1>4. roles[x] \in Role
  BY <1>2, <1>3 DEF StoredRoles, Types
<1> DEFINE b == frame[r].path = "deleteRole"
<1>5. b \in BOOLEAN
  OBVIOUS
<1> HIDE DEF b
<1>6. /\ [roles[x] EXCEPT !.isDeleted = b] \in Role
      /\ [roles[x] EXCEPT !.isDeleted = b].tenant = roles[x].tenant
      /\ [roles[x] EXCEPT !.isDeleted = b].code = roles[x].code
      /\ [roles[x] EXCEPT !.isDeleted = b].isDeleted = b
  BY <1>4, <1>5 DEF Role
<1>7. row = [roles[x] EXCEPT !.isDeleted = b]
  BY DEF b
<1> HIDE DEF row
<1>8. row.isDeleted <=> frame[r].path = "deleteRole"
  BY <1>6, <1>7 DEF b
<1>9. QED
  BY <1>1, <1>2, <1>3, <1>6, <1>7, <1>8

LEMMA RoleShape ==
  ASSUME Shape, NEW r \in Requests, InsertRole(r) \/ SaveRole(r)
  PROVE  Shape'
<1>1. /\ UNCHANGED <<modules, permissions, grants, audit, overlapped>>
      /\ frame[r] \in Frame /\ FrameFits(r) /\ Types
      /\ frame[r].path \in AllHandlers
      /\ Goto(r, "audit") \/ Goto(r, "conflict")
      /\ roles' \in [RoleIds -> Role \cup {None}]
      /\ \A x \in Requests \ {r} : roles[x] = None => roles'[x] = None
      /\ \A x \in StoredRoles : roles'[x] # None
  <2>1. CASE InsertRole(r)
    <3>1. /\ UNCHANGED <<modules, permissions, grants, audit, overlapped>>
          /\ frame[r] \in Frame /\ FrameFits(r) /\ Types
          /\ frame[r].path = "createRole"
      BY <2>1, InsertRoleStep
    <3>2. /\ Goto(r, "audit") \/ Goto(r, "conflict")
          /\ roles' = roles \/ roles' = [roles EXCEPT ![r] = frame[r].role]
          /\ r \in RoleIds /\ frame[r].role \in Role
      BY <2>1, InsertRoleStep
    <3>3. frame[r].path \in AllHandlers
      BY <3>1 DEF AllHandlers
    <3>4. roles' \in [RoleIds -> Role \cup {None}]
      BY <3>1, <3>2 DEF Types
    <3>5. /\ \A x \in Requests \ {r} : roles[x] = None => roles'[x] = None
          /\ \A x \in StoredRoles : roles'[x] # None
      BY <3>1, <3>2, NoneIsNoRow DEF Types, StoredRoles, RoleIds
    <3>6. QED
      BY <3>1, <3>2, <3>3, <3>4, <3>5
  <2>2. CASE SaveRole(r)
    <3>1. /\ UNCHANGED <<modules, permissions, grants, audit, overlapped>>
          /\ frame[r] \in Frame /\ FrameFits(r) /\ Types /\ Goto(r, "audit")
          /\ frame[r].path \in {"updateRole", "deleteRole"}
          /\ frame[r].target \in StoredRoles
      BY <2>2, SaveRoleStep
    <3>2. PICK row \in Role : roles' = [roles EXCEPT ![frame[r].target] = row]
      BY <2>2, SaveRoleStep
    <3>3. frame[r].path \in AllHandlers
      BY <3>1 DEF AllHandlers
    <3>4. roles' \in [RoleIds -> Role \cup {None}]
      BY <3>1, <3>2 DEF Types
    <3>5. /\ \A x \in Requests \ {r} : roles[x] = None => roles'[x] = None
          /\ \A x \in StoredRoles : roles'[x] # None
      BY <3>1, <3>2, NoneIsNoRow DEF Types, StoredRoles, RoleIds
    <3>6. QED
      BY <3>1, <3>3, <3>4, <3>5
  <2>3. QED
    BY <2>1, <2>2
<1>2. PICK st \in {"audit", "conflict"} : GotoWith(r, st, frame[r])
  BY <1>1 DEF Goto
<1>3. Tables' /\ RowsUnique' /\ Kept(r)
  BY <1>1, RolesWritten
<1>4. st \in Statements \cup Outcomes /\ "conflict" \notin Statements
  BY DEF Statements, Outcomes
<1>5. ASSUME pc'[r] = st, frame'[r] = frame[r], st \in Statements
      PROVE  FrameFits(r)'
  BY <1>1, <1>4, <1>5, AuditFits
<1>6. QED
  BY <1>1, <1>2, <1>3, <1>4, <1>5, StepShape

\* Statements that write permissions.
LEMMA PermissionsWritten ==
  ASSUME Shape, NEW r \in Requests,
         UNCHANGED <<modules, roles, grants, audit, overlapped>>,
         permissions' \in [PermissionIds -> Permission \cup {None}],
         UniqueOperations(permissions'),
         \A x \in Requests \ {r} : permissions[x] = None => permissions'[x] = None,
         \A x \in StoredPermissions : permissions'[x] # None
  PROVE  Tables' /\ RowsUnique' /\ Kept(r)
<1>1. /\ StoredRoles' = StoredRoles
      /\ \A x \in StoredPermissions : x \in StoredPermissions'
  BY DEF StoredPermissions, StoredRoles
<1>2. Tables'
  BY DEF Shape, Types, Tables
<1>3. RowsUnique'
  BY DEF RowsUnique, UniqueOperations
<1>4. Kept(r)
  BY <1>1 DEF Kept
<1>5. QED
  BY <1>2, <1>3, <1>4

LEMMA InsertPermissionStep ==
  ASSUME Shape, NEW r \in Requests, InsertPermission(r)
  PROVE  /\ pc[r] = "insertPermission" /\ frame[r].path = "createPermission"
         /\ UNCHANGED <<modules, roles, grants, audit, overlapped>>
         /\ frame[r] \in Frame /\ FrameFits(r) /\ Types
         /\ frame[r].target = r /\ Wanted(r) \in Permission /\ ~Wanted(r).isDeleted
         /\ permissions[r] = None /\ r \in PermissionIds
         /\ LET rows == [permissions EXCEPT ![r] = Wanted(r)] IN
            \/ permissions' = rows /\ UniqueOperations(rows) /\ Goto(r, "audit")
            \/ permissions' = permissions /\ ~UniqueOperations(rows)
               /\ Goto(r, "conflict")
<1>1. /\ pc[r] = "insertPermission" /\ pc[r] \in Statements
      /\ UNCHANGED <<modules, roles, grants, audit, overlapped>>
  BY DEF InsertPermission, Statements
<1>2. /\ frame[r] \in Frame /\ FrameFits(r) /\ Types
      /\ frame[r].path = "createPermission" /\ frame[r].path \in PermissionHandlers
  BY <1>1, OwnFrame, PathsOf DEF PermissionHandlers
<1>3. PermissionFits(r)
  BY <1>1, <1>2 DEF FrameFits
<1>4. /\ frame[r].target = r /\ Wanted(r) \in Permission /\ ~Wanted(r).isDeleted
      /\ permissions[r] = None /\ r \in PermissionIds
  BY <1>2, <1>3 DEF PermissionFits, PermissionIds
<1>5. Wanted(r) = frame[r].ent[r]
  BY <1>4 DEF Wanted
<1>6. LET rows == [permissions EXCEPT ![r] = Wanted(r)] IN
            \/ permissions' = rows /\ UniqueOperations(rows) /\ Goto(r, "audit")
            \/ permissions' = permissions /\ ~UniqueOperations(rows)
               /\ Goto(r, "conflict")
  BY <1>5 DEF InsertPermission
<1>7. QED
  BY <1>1, <1>2, <1>4, <1>6

\* What save makes of the rows, all of one request.
Rows(r) == [p \in PermissionIds |->
              IF frame[r].ent[p] = None THEN permissions[p]
              ELSE Merge(permissions[p], frame[r].base[p], frame[r].ent[p])]

LEMMA RowsType ==
  ASSUME Shape, NEW r \in Requests, pc[r] = "write"
  PROVE  /\ Rows(r) \in [PermissionIds -> Permission \cup {None}]
         /\ \A p \in PermissionIds :
              /\ permissions[p] = None <=> Rows(r)[p] = None
              /\ frame[r].ent[p] = None => Rows(r)[p] = permissions[p]
              /\ frame[r].ent[p] # None =>
                   /\ permissions[p] \in Permission /\ frame[r].ent[p] \in Entity
                   /\ frame[r].base[p] \in Permission
                   /\ Rows(r)[p] = Merge(permissions[p], frame[r].base[p],
                                         frame[r].ent[p])
<1>1. Types /\ FrameFits(r) /\ frame[r] \in Frame
  BY OwnFrame DEF Statements
<1>2. ASSUME NEW p \in PermissionIds, frame[r].ent[p] # None
      PROVE  /\ p \in StoredPermissions
             /\ permissions[p] \in Permission /\ frame[r].ent[p] \in Entity
             /\ frame[r].base[p] \in Permission
             /\ Rows(r)[p] = Merge(permissions[p], frame[r].base[p], frame[r].ent[p])
             /\ Rows(r)[p] \in Permission
  <2>1. /\ p \in StoredPermissions
        /\ permissions[p] \in Permission /\ frame[r].ent[p] \in Entity
    BY <1>1, <1>2, SavedRows
  <2>2. frame[r].base[p] \in Permission
    BY <1>1, <1>2 DEF FrameFits
  <2>3. Rows(r)[p] = Merge(permissions[p], frame[r].base[p], frame[r].ent[p])
    BY <1>2 DEF Rows
  <2>4. QED
    BY <2>1, <2>2, <2>3, Merged
<1>3. ASSUME NEW p \in PermissionIds, frame[r].ent[p] = None
      PROVE  Rows(r)[p] = permissions[p] /\ permissions[p] \in Permission \cup {None}
  BY <1>1, <1>3 DEF Rows, Types
<1>4. Rows(r) \in [PermissionIds -> Permission \cup {None}]
  BY <1>2, <1>3 DEF Rows
<1>5. QED
  BY <1>2, <1>3, <1>4, NoneIsNoRow DEF StoredPermissions

LEMMA WriteStep ==
  ASSUME Shape, NEW r \in Requests, Write(r)
  PROVE  /\ pc[r] = "write"
         /\ UNCHANGED <<modules, roles, grants, audit, overlapped>>
         /\ frame[r] \in Frame /\ FrameFits(r) /\ Types
         /\ frame[r].path \in {"updatePermission", "deletePermission", "deleteModule"}
         /\ \/ /\ permissions' = Rows(r) /\ UniqueOperations(Rows(r))
               /\ Goto(r, IF frame[r].path = "deleteModule" THEN "saveModule"
                          ELSE "audit")
            \/ /\ permissions' = permissions /\ ~UniqueOperations(Rows(r))
               /\ Goto(r, "conflict")
<1>1. /\ pc[r] = "write" /\ pc[r] \in Statements
      /\ UNCHANGED <<modules, roles, grants, audit, overlapped>>
      /\ \/ /\ permissions' = Rows(r) /\ UniqueOperations(Rows(r))
            /\ Goto(r, IF frame[r].path = "deleteModule" THEN "saveModule"
                       ELSE "audit")
         \/ /\ permissions' = permissions /\ ~UniqueOperations(Rows(r))
            /\ Goto(r, "conflict")
  BY DEF Write, Rows, Statements
<1>2. QED
  BY <1>1, OwnFrame, PathsOf
LEMMA InsertPermissionShape ==
  ASSUME Shape, NEW r \in Requests, InsertPermission(r)
  PROVE  Shape'
<1> DEFINE rows == [permissions EXCEPT ![r] = Wanted(r)]
<1>1. /\ UNCHANGED <<modules, roles, grants, audit, overlapped>>
      /\ frame[r] \in Frame /\ FrameFits(r) /\ Types
      /\ frame[r].path = "createPermission" /\ Wanted(r) \in Permission
      /\ r \in PermissionIds
      /\ \/ permissions' = rows /\ UniqueOperations(rows) /\ Goto(r, "audit")
         \/ permissions' = permissions /\ Goto(r, "conflict")
  BY InsertPermissionStep
<1>2. PICK st \in {"audit", "conflict"} : GotoWith(r, st, frame[r])
  BY <1>1 DEF Goto
<1>3. UniqueOperations(permissions')
  BY <1>1 DEF Shape, RowsUnique
<1>4. /\ permissions' \in [PermissionIds -> Permission \cup {None}]
      /\ \A x \in Requests \ {r} : permissions[x] = None => permissions'[x] = None
      /\ \A x \in StoredPermissions : permissions'[x] # None
  <2>1. permissions \in [PermissionIds -> Permission \cup {None}]
    BY <1>1 DEF Types
  <2>2. QED
    BY <1>1, <2>1, NoneIsNoRow DEF StoredPermissions, PermissionIds
<1>5. Tables' /\ RowsUnique' /\ Kept(r)
  BY <1>1, <1>3, <1>4, PermissionsWritten
<1>6. st \in Statements \cup Outcomes /\ "conflict" \notin Statements
  BY DEF Statements, Outcomes
<1>7. ASSUME pc'[r] = st, frame'[r] = frame[r], st \in Statements
      PROVE  FrameFits(r)'
  BY <1>1, <1>6, <1>7, AuditFits DEF AllHandlers
<1>8. QED
  BY <1>1, <1>2, <1>5, <1>6, <1>7, StepShape

LEMMA WriteShape ==
  ASSUME Shape, NEW r \in Requests, Write(r)
  PROVE  Shape'
<1> DEFINE path == frame[r].path
<1>1. /\ pc[r] = "write"
      /\ UNCHANGED <<modules, roles, grants, audit, overlapped>>
      /\ frame[r] \in Frame /\ FrameFits(r) /\ Types
      /\ path \in {"updatePermission", "deletePermission", "deleteModule"}
  BY WriteStep
<1>2. \/ /\ permissions' = Rows(r) /\ UniqueOperations(Rows(r))
         /\ Goto(r, IF path = "deleteModule" THEN "saveModule" ELSE "audit")
      \/ permissions' = permissions /\ Goto(r, "conflict")
  BY WriteStep
<1>3. PICK st \in {"audit", "conflict", "saveModule"} :
        GotoWith(r, st, frame[r]) /\ (st = "saveModule" => path = "deleteModule")
  BY <1>2 DEF Goto
<1>4. UniqueOperations(permissions')
  BY <1>2 DEF Shape, RowsUnique
<1>5. permissions \in [PermissionIds -> Permission \cup {None}]
  BY <1>1 DEF Types
<1>6. /\ permissions' \in [PermissionIds -> Permission \cup {None}]
      /\ \A p \in PermissionIds : permissions[p] = None <=> permissions'[p] = None
  BY <1>1, <1>2, <1>5, RowsType
<1>7. /\ \A x \in Requests \ {r} : permissions[x] = None => permissions'[x] = None
      /\ \A x \in StoredPermissions : permissions'[x] # None
  BY <1>6 DEF StoredPermissions, PermissionIds
<1>8. Tables' /\ RowsUnique' /\ Kept(r)
  BY <1>1, <1>4, <1>6, <1>7, PermissionsWritten
<1>9. st \in Statements \cup Outcomes /\ "conflict" \notin Statements
  BY DEF Statements, Outcomes
<1>10. ASSUME pc'[r] = st, frame'[r] = frame[r], st \in Statements
       PROVE  FrameFits(r)'
  <2>1. CASE st = "audit"
    BY <1>1, <1>10, <2>1, AuditFits DEF AllHandlers
  <2>2. CASE st = "saveModule"
    <3>1. path = "deleteModule" /\ "saveModule" \in StatementsOf("deleteModule")
      BY <1>3, <2>2, StatementLists
    <3>2. frame[r].target \in Modules
      BY <1>1, <3>1 DEF FrameFits
    <3>3. QED
      BY <1>10, <2>2, <3>1, <3>2 DEF FrameFits, PermissionHandlers, Granting
  <2>3. QED
    BY <1>9, <1>10, <2>1, <2>2
<1>11. QED
  BY <1>1, <1>3, <1>8, <1>9, <1>10, StepShape

LEMMA StutterShape ==
  ASSUME Shape, UNCHANGED vars
  PROVE  Shape'
<1>1. /\ UNCHANGED <<modules, permissions, roles, grants>>
      /\ UNCHANGED <<audit, pc, frame, overlapped>>
      /\ StoredPermissions' = StoredPermissions /\ StoredRoles' = StoredRoles
  BY DEF vars, tables, StoredPermissions, StoredRoles
<1>2. Types' /\ RowsUnique'
  BY <1>1 DEF Shape, Types, RowsUnique, UniqueOperations
<1>3. ASSUME NEW x \in Requests
      PROVE  FrameFits(x)'
  <2>1. FrameFits(x)
    BY DEF Shape, FramesFit
  <2>2. /\ PermissionFits(x) => PermissionFits(x)'
        /\ CascadeFits(x) => CascadeFits(x)'
        /\ RoleFits(x) => RoleFits(x)'
        /\ GrantFits(x) => GrantFits(x)'
    BY <1>1 DEF PermissionFits, CascadeFits, RoleFits, GrantFits, Wanted
  <2>3. QED
    BY <1>1, <2>1, <2>2 DEF FrameFits
<1>4. QED
  BY <1>2, <1>3 DEF Shape, FramesFit

LEMMA StatementShape ==
  ASSUME Shape, NEW r \in Requests, Statement(r)
  PROVE  Shape'
BY CheckShape, EndingShape, ReloadShape, FindChildrenShape, FindGrantsShape,
   FindPermissionShape, FindExistingShape, InsertGrantShape, SaveGrantsShape,
   ModuleShape, RoleShape, InsertPermissionShape, WriteShape DEF Statement, Step

LEMMA ShapeStep ==
  ASSUME Shape, [Next]_vars
  PROVE  Shape'
BY NextCases, BeginsShape, StatementShape, StutterShape DEF Shape
-----------------------------------------------------------------------------
(* One request at a time *)

Consistent ==
  ModulesLive /\ NothingDangles /\ CodeNamesOnePermission /\ RoleCodesDistinct

LEMMA SameConsistent ==
  ASSUME UNCHANGED tables, Consistent
  PROVE  /\ Consistent'
         /\ LivePermissions' = LivePermissions /\ LiveRoles' = LiveRoles
         /\ LiveGrants' = LiveGrants
         /\ StoredPermissions' = StoredPermissions /\ StoredRoles' = StoredRoles
<1>1. UNCHANGED <<modules, permissions, roles, grants>>
  BY DEF tables
<1>2. /\ StoredPermissions' = StoredPermissions /\ StoredRoles' = StoredRoles
  BY <1>1 DEF StoredPermissions, StoredRoles
<1>3. /\ LivePermissions' = LivePermissions /\ LiveRoles' = LiveRoles
      /\ LiveGrants' = LiveGrants
  BY <1>1, <1>2 DEF LivePermissions, LiveRoles, LiveGrants
<1>4. Consistent'
  BY <1>1, <1>2, <1>3 DEF Consistent, ModulesLive, NothingDangles,
     CodeNamesOnePermission, RoleCodesDistinct
<1>5. QED
  BY <1>2, <1>3, <1>4

\* What a statement of the only request has to keep.
LEMMA StepAlone ==
  ASSUME Shape, AloneHolds, NEW r \in Requests, pc[r] \in Statements,
         overlapped' = overlapped,
         NEW st \in Statements \cup Outcomes, NEW f \in Frame, GotoWith(r, st, f),
         ~overlapped /\ CheckedHolds(r) /\ Consistent =>
           /\ Consistent' /\ st # "conflict"
           /\ pc'[r] = st /\ frame'[r] = f /\ st \in Statements => CheckedHolds(r)'
  PROVE  AloneHolds'
<1> SUFFICES ASSUME ~overlapped'
             PROVE  /\ \A q, x \in InFlight' : q = x
                    /\ \A x \in InFlight' : CheckedHolds(x)'
                    /\ Consistent' /\ NoConflict'
  BY DEF AloneHolds, Consistent
<1>1. /\ pc'[r] = st /\ (st \in Statements => frame'[r] = f)
      /\ \A x \in Requests \ {r} : pc'[x] = pc[x]
  BY GotoFrame, StatementSets DEF Shape
<1>2. /\ \A q, x \in InFlight : q = x
      /\ NoConflict /\ CheckedHolds(r) /\ Consistent /\ r \in InFlight
  BY DEF AloneHolds, Consistent, InFlight
<1>3. InFlight' \subseteq {r}
  BY <1>1, <1>2 DEF InFlight
<1>4. Consistent' /\ st # "conflict" /\ (st \in Statements => CheckedHolds(r)')
  BY <1>1, <1>2
<1>5. NoConflict'
  BY <1>1, <1>2, <1>4 DEF NoConflict
<1>6. \A x \in InFlight' : CheckedHolds(x)'
  BY <1>1, <1>3, <1>4 DEF InFlight
<1>7. QED
  BY <1>3, <1>4, <1>5, <1>6

LEMMA AuditHolds ==
  ASSUME NEW r, pc'[r] = "audit"
  PROVE  CheckedHolds(r)'
BY DEF CheckedHolds, ModuleHolds, RoleHolds

\* A statement that leaves the tables alone.
LEMMA QuietAlone ==
  ASSUME Shape, AloneHolds, NEW r \in Requests, pc[r] \in Statements,
         UNCHANGED tables, overlapped' = overlapped,
         NEW st \in (Statements \cup Outcomes) \ {"conflict"}, NEW f \in Frame,
         GotoWith(r, st, f),
         (/\ CheckedHolds(r) /\ Consistent /\ st \in Statements
          /\ pc'[r] = st /\ frame'[r] = f
          /\ LivePermissions' = LivePermissions /\ LiveRoles' = LiveRoles
          /\ LiveGrants' = LiveGrants /\ StoredPermissions' = StoredPermissions
          /\ StoredRoles' = StoredRoles)
            => CheckedHolds(r)'
  PROVE  AloneHolds'
BY SameConsistent, StepAlone

LEMMA BeginsAlone ==
  ASSUME Shape, AloneHolds, NEW r \in Requests, Begins(r)
  PROVE  AloneHolds'
<1> SUFFICES ASSUME ~overlapped'
             PROVE  /\ \A q, x \in InFlight' : q = x
                    /\ \A x \in InFlight' : CheckedHolds(x)'
                    /\ Consistent' /\ NoConflict'
  BY DEF AloneHolds, Consistent
<1>1. PICK st \in Opening, c \in Frame : WellFormed(r, st, c) /\ GotoWith(r, st, c)
  BY DEF Begins
<1>2. /\ pc'[r] = st /\ (st \in Statements => frame'[r] = c)
      /\ \A x \in Requests \ {r} : pc'[x] = pc[x]
  BY <1>1, GotoFrame, StatementSets DEF Shape
<1>3. /\ ~overlapped /\ InFlight = {} /\ UNCHANGED tables
  BY DEF Begins
<1>4. InFlight' \subseteq {r}
  BY <1>2, <1>3 DEF InFlight
<1>5. Consistent /\ NoConflict
  BY <1>3 DEF AloneHolds, Consistent
<1>6. /\ Consistent' /\ LivePermissions' = LivePermissions
      /\ LiveRoles' = LiveRoles /\ StoredRoles' = StoredRoles
  BY <1>3, <1>5, SameConsistent
<1>7. NoConflict'
  BY <1>2, <1>5 DEF NoConflict, Opening
<1>8. UNCHANGED <<modules, permissions, roles, grants>>
  BY <1>3 DEF tables
<1>9. ASSUME r \in InFlight'
      PROVE  CheckedHolds(r)'
  <2>1. st # "refused" /\ frame'[r] = c
    BY <1>2, <1>9, StatementSets DEF InFlight
  <2>2. CASE ModuleOpening(st, c)
    <3>1. /\ c.path \in {"createModule", "updateModule", "deleteModule"}
          /\ st \in {"insertModule", "saveModule", "children"}
      BY <2>2 DEF ModuleOpening
    <3>2. ModuleHolds(r)'
      BY <1>2, <1>8, <2>1, <2>2 DEF ModuleOpening, ModuleHolds
    <3>3. QED
      BY <1>2, <2>1, <3>1, <3>2 DEF CheckedHolds, RoleHolds, PermissionHandlers, Granting
  <2>3. CASE PermissionOpening(r, st, c)
    <3>1. /\ c.path \in PermissionHandlers /\ c.path # "deleteModule"
          /\ c.path \notin Granting
          /\ st \in {"code", "requireModule", "roleCount"}
      BY <2>3 DEF PermissionOpening, PermissionHandlers, Granting
    <3>2. PermissionHolds(r)'
      BY <1>2, <1>6, <1>8, <2>1, <2>3
         DEF PermissionOpening, OneEntity, PermissionHolds, Wanted
    <3>3. QED
      BY <1>2, <2>1, <3>1, <3>2 DEF CheckedHolds, RoleHolds, ModuleHolds
  <2>4. CASE RoleOpening(st, c)
    <3>1. /\ c.path \in {"createRole", "updateRole", "deleteRole"}
          /\ st \in {"insertRole", "saveRole"}
      BY <2>4 DEF RoleOpening
    <3>2. RoleHolds(r)'
      BY <1>2, <1>6, <1>8, <2>1, <2>4 DEF RoleOpening, RoleHolds, RoleCodeAvailable
    <3>3. QED
      BY <1>2, <2>1, <3>1, <3>2
         DEF CheckedHolds, ModuleHolds, PermissionHandlers, Granting
  <2>5. CASE GrantOpening(st, c)
    <3>1. /\ c.path \in {"grant", "batchGrant", "revoke", "batchRevoke"}
          /\ st \in {"permission", "grants"} /\ c.pairs = {}
      BY <2>5 DEF GrantOpening, Granting
    <3>2. GrantHolds(r)'
      BY <2>1, <3>1 DEF GrantHolds
    <3>3. QED
      BY <1>2, <2>1, <3>1, <3>2
         DEF CheckedHolds, ModuleHolds, RoleHolds, PermissionHandlers
  <2>6. QED
    BY <1>1, <2>1, <2>2, <2>3, <2>4, <2>5 DEF WellFormed
<1>10. QED
  BY <1>4, <1>6, <1>7, <1>9
LEMMA CheckAlone ==
  ASSUME Shape, AloneHolds, NEW r \in Requests,
         RequireModule(r) \/ CheckCode(r) \/ CheckOperation(r) \/ CheckRoleCount(r)
  PROVE  AloneHolds'
<1> DEFINE path == frame[r].path
<1>1. PICK st \in {"code", "operation", "insertPermission", "reload", "refused"} :
        /\ Goto(r, st) /\ UNCHANGED <<tables, audit, overlapped>>
        /\ CheckTo(r, st)
  BY CheckSteps
<1>2. /\ pc[r] \in {"requireModule", "code", "operation", "roleCount"}
      /\ pc[r] \in Statements
      /\ st \in (Statements \cup Outcomes) \ {"conflict"}
  BY <1>1 DEF CheckTo, Statements, Outcomes
<1>3. /\ frame[r] \in Frame /\ path \in PermissionHandlers
      /\ pc[r] = "requireModule" => path = "updatePermission"
      /\ pc[r] \in {"code", "operation"} =>
           path \in {"createPermission", "updatePermission"}
      /\ pc[r] = "roleCount" => path = "deletePermission"
  BY <1>2, OwnFrame, PathsOf DEF PermissionHandlers
<1>4. UNCHANGED <<modules, permissions, roles, grants>>
  BY <1>1 DEF tables
<1>5. GotoWith(r, st, frame[r])
  BY <1>1 DEF Goto
<1>6. ASSUME CheckedHolds(r), st \in Statements, pc'[r] = st, frame'[r] = frame[r],
             LivePermissions' = LivePermissions,
             StoredPermissions' = StoredPermissions
      PROVE  CheckedHolds(r)'
  <2>1. st # "refused"
    BY <1>6 DEF Statements
  <2>2. PermissionHolds(r)
    BY <1>2, <1>3, <1>6 DEF CheckedHolds
  <2>3. Wanted(r)' = Wanted(r)
    BY <1>6 DEF Wanted
  <2>5. CASE path = "deletePermission"
    <3>1. PermissionHolds(r)'
      BY <1>1, <1>3, <1>4, <1>6, <2>1, <2>2, <2>3, <2>5
         DEF CheckTo, PermissionHolds, Unassigned
    <3>2. path \notin Granting
      BY <2>5 DEF Granting
    <3>3. QED
      BY <1>1, <1>6, <2>1, <2>5, <3>1, <3>2 DEF CheckedHolds, ModuleHolds, RoleHolds
  <2>6. CASE path \in {"createPermission", "updatePermission"}
    <3>1. CodeAvailable(Wanted(r).code, frame[r].target)
            => CodeAvailable(Wanted(r).code, frame[r].target)'
      BY <1>4, <1>6, <2>3 DEF CodeAvailable
    <3>2. OperationAvailable(Wanted(r).module, Wanted(r).operation, frame[r].target)
            => OperationAvailable(Wanted(r).module, Wanted(r).operation,
                                  frame[r].target)'
      BY <1>4, <1>6, <2>3 DEF OperationAvailable
    <3>3. PermissionHolds(r)'
      BY <1>1, <1>3, <1>4, <1>6, <2>1, <2>2, <2>3, <2>6, <3>1, <3>2
         DEF CheckTo, PermissionHolds
    <3>4. path \notin Granting
      BY <2>6 DEF Granting
    <3>5. QED
      BY <1>1, <1>6, <2>1, <2>6, <3>3, <3>4 DEF CheckedHolds, ModuleHolds, RoleHolds
  <2>7. QED
    BY <1>2, <1>3, <2>5, <2>6
<1>7. QED
  BY <1>1, <1>2, <1>3, <1>5, <1>6, QuietAlone

LEMMA EndingAlone ==
  ASSUME Shape, AloneHolds, NEW r \in Requests, Audit(r) \/ Abort(r)
  PROVE  AloneHolds'
<1>1. PICK st \in {"done", "aborted"} :
        GotoWith(r, st, frame[r]) /\ UNCHANGED <<tables, overlapped>>
  BY DEF Audit, Abort, Goto
<1>2. /\ pc[r] \in Statements /\ frame[r] \in Frame
      /\ st \in (Statements \cup Outcomes) \ {"conflict"} /\ st \notin Statements
  BY <1>1 DEF Audit, Abort, Shape, Types, Outcomes, Statements
<1>3. QED
  BY <1>1, <1>2, QuietAlone

LEMMA ReloadAlone ==
  ASSUME Shape, AloneHolds, NEW r \in Requests, Reload(r)
  PROVE  AloneHolds'
<1>1. PICK f \in Frame :
           /\ GotoWith(r, "write", f) /\ UNCHANGED <<tables, audit, overlapped>>
           /\ f.path = frame[r].path /\ f.target = frame[r].target
           /\ f.perms = frame[r].perms /\ f.ent = frame[r].ent
           /\ \A p \in PermissionIds :
                frame[r].ent[p] # None =>
                  /\ f.base[p] = permissions[p] /\ f.base[p] \in Permission
  BY ReloadStep
<1>2. /\ pc[r] = "reload" /\ pc[r] \in Statements
      /\ "write" \in (Statements \cup Outcomes) \ {"conflict"}
  BY DEF Reload, Statements
<1>3. frame[r].path \in {"updatePermission", "deletePermission", "deleteModule"}
  BY <1>2, OwnFrame, PathsOf
<1>4. UNCHANGED <<modules, permissions, roles, grants>>
  BY <1>1 DEF tables
<1>5. ASSUME CheckedHolds(r), pc'[r] = "write", frame'[r] = f,
             LivePermissions' = LivePermissions,
             StoredPermissions' = StoredPermissions
      PROVE  CheckedHolds(r)'
  <2>1. ModuleHolds(r)' /\ RoleHolds(r)'
    BY <1>5 DEF ModuleHolds, RoleHolds
  <2>2. \A p \in PermissionIds : f.ent[p] # None => f.base[p] = permissions'[p]
    BY <1>1, <1>4
  <2>3. CASE f.path = "deleteModule"
    <3>1. CascadeHolds(r)
      BY <1>1, <1>2, <1>5, <2>3 DEF CheckedHolds
    <3>2. CascadeHolds(r)'
      BY <1>1, <1>2, <1>4, <1>5, <3>1
         DEF CascadeHolds, Children, Unassigned
    <3>3. QED
      BY <1>5, <2>1, <2>2, <2>3, <3>2 DEF CheckedHolds, PermissionHandlers, Granting
  <2>4. CASE f.path \in {"updatePermission", "deletePermission"}
    <3>1. f.path \in PermissionHandlers /\ f.path \notin Granting
      BY <2>4 DEF PermissionHandlers, Granting
    <3>2. PermissionHolds(r)
      BY <1>1, <1>2, <1>5, <3>1 DEF CheckedHolds
    <3>3. PermissionHolds(r)'
      BY <1>1, <1>2, <1>4, <1>5, <3>2
         DEF PermissionHolds, Wanted, CodeAvailable, OperationAvailable, Unassigned
    <3>4. QED
      BY <1>5, <2>1, <2>2, <2>4, <3>1, <3>3 DEF CheckedHolds
  <2>5. QED
    BY <1>1, <1>3, <2>3, <2>4
<1>6. QED
  BY <1>1, <1>2, <1>5, QuietAlone

LEMMA FindChildrenAlone ==
  ASSUME Shape, AloneHolds, NEW r \in Requests, FindChildren(r)
  PROVE  AloneHolds'
<1>1. pc[r] = "children" /\ UNCHANGED <<tables, audit, overlapped>>
  BY FindChildrenStep
<1>2. PICK f \in Frame :
        /\ GotoWith(r, IF f.perms = {} THEN "saveModule" ELSE "grants", f)
        /\ f.path = frame[r].path /\ f.target = frame[r].target
        /\ f.perms = Children(frame[r].target)
        /\ \A p \in PermissionIds :
             /\ f.ent[p] # None <=> p \in f.perms
             /\ p \in f.perms =>
                  /\ f.ent[p].code = permissions[p].code
                  /\ f.ent[p].operation = permissions[p].operation
  BY FindChildrenStep
<1>3. pc[r] \in Statements
  BY <1>1 DEF Statements
<1>4. frame[r].path = "deleteModule"
  BY <1>1, <1>3, OwnFrame, PathsOf
<1>5. PICK st \in {"saveModule", "grants"} :
        GotoWith(r, st, f) /\ (st = "saveModule" => f.perms = {})
  BY <1>2
<1>6. UNCHANGED <<modules, permissions, roles, grants>>
  BY <1>1 DEF tables
<1>7. st \in (Statements \cup Outcomes) \ {"conflict"}
  BY DEF Statements
<1>8. ASSUME pc'[r] = st, frame'[r] = f, LivePermissions' = LivePermissions
      PROVE  CheckedHolds(r)'
  <2>2. f.perms \subseteq PermissionIds
    BY DEF Frame
  <2>3. CASE st = "saveModule"
    <3>2. ModuleHolds(r)'
      BY <1>2, <1>4, <1>6, <1>8, <2>3, <1>5 DEF ModuleHolds, Children
    <3>3. QED
      BY <1>2, <1>4, <1>8, <2>3, <3>2
         DEF CheckedHolds, RoleHolds, PermissionHandlers, Granting
  <2>4. CASE st = "grants"
    <3>1. CascadeHolds(r)'
      BY <1>2, <1>6, <1>8, <2>2, <2>4 DEF CascadeHolds, Children
    <3>2. QED
      BY <1>2, <1>4, <1>8, <2>4, <3>1
         DEF CheckedHolds, ModuleHolds, RoleHolds, PermissionHandlers, Granting
  <2>5. QED
    BY <2>3, <2>4
<1>9. QED
  BY <1>1, <1>3, <1>5, <1>7, <1>8, QuietAlone

LEMMA FindGrantsAlone ==
  ASSUME Shape, AloneHolds, NEW r \in Requests, FindGrants(r)
  PROVE  AloneHolds'
<1>1. /\ pc[r] = "grants" /\ UNCHANGED <<tables, audit, overlapped>>
      /\ frame[r].path \in {"revoke", "batchRevoke", "deleteModule"}
  BY FindGrantsStep
<1>2. PICK f \in Frame, st \in {"saveGrants", "reload", "refused", "audit"} :
        /\ GotoWith(r, st, f)
        /\ f.path = frame[r].path /\ f.target = frame[r].target
        /\ f.perms = frame[r].perms /\ f.ent = frame[r].ent
        /\ f.pairs = Held(r)
        /\ st = "saveGrants" <=> Held(r) # {}
        /\ st = "reload" => f.path = "deleteModule"
        /\ f.path = "deleteModule" => st \in {"saveGrants", "reload"}
  BY FindGrantsStep
<1>3. pc[r] \in Statements /\ st \in (Statements \cup Outcomes) \ {"conflict"}
  BY <1>1 DEF Statements, Outcomes
<1>4. frame[r] \in Frame
  BY <1>3, OwnFrame
<1>5. UNCHANGED <<modules, permissions, roles, grants>>
  BY <1>1 DEF tables
<1>6. ASSUME CheckedHolds(r), pc'[r] = st, frame'[r] = f, st \in Statements,
             LivePermissions' = LivePermissions, LiveGrants' = LiveGrants
      PROVE  CheckedHolds(r)'
  <2>1. CASE st = "audit"
    BY <1>6, <2>1, AuditHolds
  <2>2. CASE st \in {"saveGrants", "reload"} /\ f.path # "deleteModule"
    BY <1>1, <1>2, <1>6, <2>2
       DEF CheckedHolds, ModuleHolds, RoleHolds, PermissionHandlers, Granting
  <2>3. CASE st \in {"saveGrants", "reload"} /\ f.path = "deleteModule"
    <3>1. CascadeHolds(r)
      BY <1>1, <1>2, <1>6, <2>3 DEF CheckedHolds
    <3>2. Held(r) = {g \in LiveGrants : g[2] \in f.perms}
      BY <1>2, <2>3 DEF Held
    <3>3. st = "reload" => \A p \in f.perms : Unassigned(p)
      <4> SUFFICES ASSUME st = "reload", NEW p \in f.perms, NEW x \in RoleIds,
                          grants[<<x, p>>] = "live"
                   PROVE  FALSE
        BY DEF Unassigned
      <4>1. <<x, p>> \in Held(r)
        BY <1>4, <3>2 DEF LiveGrants, Frame
      <4>2. QED
        BY <1>2, <4>1
    <3>4. CascadeHolds(r)'
      BY <1>2, <1>5, <1>6, <2>3, <3>1, <3>2, <3>3 DEF CascadeHolds, Children, Unassigned
    <3>5. QED
      BY <1>6, <2>3, <3>4
         DEF CheckedHolds, ModuleHolds, RoleHolds, PermissionHandlers, Granting
  <2>4. QED
    BY <1>6, <2>1, <2>2, <2>3 DEF Statements
<1>7. QED
  BY <1>1, <1>2, <1>3, <1>6, QuietAlone
LEMMA FindPermissionAlone ==
  ASSUME Shape, AloneHolds, NEW r \in Requests, FindPermission(r)
  PROVE  AloneHolds'
<1>1. pc[r] = "permission" /\ UNCHANGED <<tables, audit, overlapped>>
  BY FindPermissionStep
<1>2. PICK f \in Frame, st \in {"existing", "refused"}, p \in PermissionIds :
        /\ GotoWith(r, st, f)
        /\ f.path = frame[r].path /\ f.target = frame[r].target
        /\ f.pairs = {<<f.target, p>>}
        /\ st = "existing" => p \in LivePermissions
  BY FindPermissionStep
<1>3. /\ pc[r] \in Statements /\ st \in (Statements \cup Outcomes) \ {"conflict"}
      /\ frame[r].path \in Granting
  BY <1>1, GrantingFrame DEF Statements, Outcomes
<1>4. ASSUME pc'[r] = st, frame'[r] = f, st \in Statements,
             LivePermissions' = LivePermissions
      PROVE  CheckedHolds(r)'
  <2>1. st = "existing"
    BY <1>4 DEF Statements
  <2>2. GrantHolds(r)'
    BY <1>2, <1>4, <2>1 DEF GrantHolds
  <2>3. QED
    BY <1>2, <1>3, <1>4, <2>1, <2>2
       DEF CheckedHolds, ModuleHolds, RoleHolds, PermissionHandlers, Granting
<1>5. QED
  BY <1>1, <1>2, <1>3, <1>4, QuietAlone

LEMMA FindExistingAlone ==
  ASSUME Shape, AloneHolds, NEW r \in Requests, FindExisting(r)
  PROVE  AloneHolds'
<1>1. pc[r] = "existing" /\ UNCHANGED <<tables, audit, overlapped>>
  BY FindExistingStep
<1>2. PICK st \in {"permission", "audit", "saveGrants", "insertGrant"} :
        /\ Goto(r, st)
        /\ \A g \in frame[r].pairs : st = "insertGrant" => grants[g] = "none"
  BY FindExistingStep
<1>3. /\ pc[r] \in Statements /\ st \in (Statements \cup Outcomes) \ {"conflict"}
      /\ frame[r].path \in Granting /\ frame[r] \in Frame
  BY <1>1, GrantingFrame DEF Statements
<1>4. GotoWith(r, st, frame[r])
  BY <1>2 DEF Goto
<1>5. grants' = grants
  BY <1>1 DEF tables
<1>6. ASSUME CheckedHolds(r), pc'[r] = st, frame'[r] = frame[r],
             LivePermissions' = LivePermissions
      PROVE  CheckedHolds(r)'
  <2>1. GrantHolds(r)
    BY <1>1, <1>3, <1>6 DEF CheckedHolds
  <2>2. GrantHolds(r)'
    BY <1>1, <1>2, <1>5, <1>6, <2>1 DEF GrantHolds
  <2>3. QED
    BY <1>3, <1>6, <2>2
       DEF CheckedHolds, ModuleHolds, RoleHolds, PermissionHandlers, Granting
<1>7. QED
  BY <1>1, <1>3, <1>4, <1>6, QuietAlone

\* Grants change: the rest of the catalogue is as consistent as it was.
LEMMA GrantsConsistent ==
  ASSUME Consistent, UNCHANGED <<modules, permissions, roles>>,
         \A g \in LiveGrants' : g \in LiveGrants \/ g[2] \in LivePermissions
  PROVE  /\ Consistent' /\ LivePermissions' = LivePermissions
         /\ LiveRoles' = LiveRoles
<1>1. /\ StoredPermissions' = StoredPermissions /\ StoredRoles' = StoredRoles
      /\ LivePermissions' = LivePermissions /\ LiveRoles' = LiveRoles
  BY DEF StoredPermissions, StoredRoles, LivePermissions, LiveRoles
<1>2. QED
  BY <1>1 DEF Consistent, ModulesLive, NothingDangles, CodeNamesOnePermission,
     RoleCodesDistinct

LEMMA InsertGrantAlone ==
  ASSUME Shape, AloneHolds, NEW r \in Requests, InsertGrant(r)
  PROVE  AloneHolds'
<1>1. /\ pc[r] = "insertGrant"
      /\ UNCHANGED <<modules, permissions, roles, audit, overlapped>>
  BY InsertGrantStep
<1>2. PICK g \in RoleIds \X PermissionIds :
         /\ frame[r].pairs = {g}
         /\ \/ /\ grants[g] = "none" /\ grants' = [grants EXCEPT ![g] = "live"]
               /\ Goto(r, AfterGrants(r))
            \/ grants[g] # "none" /\ grants' = grants /\ Goto(r, "conflict")
  BY InsertGrantStep
<1>3. /\ pc[r] \in Statements /\ Types
      /\ frame[r].path \in Granting /\ frame[r] \in Frame
      /\ AfterGrants(r) \in {"permission", "audit"}
  BY <1>1, GrantingFrame, AfterGrantsIn DEF Statements
<1>4. PICK st \in {"permission", "audit", "conflict"} :
        GotoWith(r, st, frame[r]) /\ (st = "conflict" => grants[g] # "none")
  BY <1>2, <1>3 DEF Goto
<1>5. st \in Statements \cup Outcomes
  BY DEF Statements, Outcomes
<1>6. ASSUME CheckedHolds(r), Consistent
      PROVE  /\ Consistent' /\ st # "conflict"
             /\ pc'[r] = st /\ frame'[r] = frame[r] => CheckedHolds(r)'
  <2>1. g[2] \in LivePermissions /\ grants[g] = "none"
    BY <1>1, <1>2, <1>3, <1>6 DEF CheckedHolds, GrantHolds
  <2>2. \A h \in LiveGrants' : h \in LiveGrants \/ h[2] \in LivePermissions
    BY <1>2, <1>3, <2>1 DEF LiveGrants, Types
  <2>3. Consistent'
    BY <1>1, <1>6, <2>2, GrantsConsistent
  <2>4. ASSUME pc'[r] = st, frame'[r] = frame[r], st = "permission"
        PROVE  CheckedHolds(r)'
    BY <1>3, <2>4
       DEF CheckedHolds, ModuleHolds, RoleHolds, GrantHolds, PermissionHandlers, Granting
  <2>5. QED
    BY <1>4, <2>1, <2>3, <2>4, AuditHolds
<1>7. QED
  BY <1>1, <1>3, <1>4, <1>5, <1>6, StepAlone

LEMMA SaveGrantsAlone ==
  ASSUME Shape, AloneHolds, NEW r \in Requests, SaveGrants(r)
  PROVE  AloneHolds'
<1> DEFINE path == frame[r].path
           st == AfterGrants(r)
<1>1. /\ pc[r] = "saveGrants" /\ Goto(r, st)
      /\ UNCHANGED <<modules, permissions, roles, audit, overlapped>>
      /\ \A g \in RoleIds \X PermissionIds :
           grants'[g] = IF g \in frame[r].pairs
                        THEN IF path \in Granting THEN "live" ELSE "deleted"
                        ELSE grants[g]
      /\ frame[r] \in Frame
      /\ path \in Granting \cup {"revoke", "batchRevoke", "deleteModule"}
  BY SaveGrantsStep
<1>2. /\ st \in {"reload", "permission", "audit"}
      /\ path \in Granting => st \in {"permission", "audit"}
      /\ path = "deleteModule" => st = "reload"
      /\ path \in {"revoke", "batchRevoke"} => st = "audit"
  BY AfterGrantsIn
<1>3. GotoWith(r, st, frame[r])
  BY <1>1 DEF Goto
<1> HIDE DEF st
<1>4. pc[r] \in Statements /\ st \in Statements \cup Outcomes /\ st # "conflict"
  BY <1>1, <1>2 DEF Statements
<1>5. ASSUME CheckedHolds(r), Consistent
      PROVE  /\ Consistent'
             /\ pc'[r] = st /\ frame'[r] = frame[r] => CheckedHolds(r)'
  <2>1. ASSUME NEW g \in LiveGrants'
        PROVE  g \in LiveGrants \/ g[2] \in LivePermissions
    <3>1. g \in RoleIds \X PermissionIds /\ grants'[g] = "live"
      BY <2>1 DEF LiveGrants
    <3>2. CASE g \in frame[r].pairs
      <4>1. path \in Granting
        BY <1>1, <3>1, <3>2
      <4>2. GrantHolds(r)
        BY <1>1, <1>5, <4>1 DEF CheckedHolds
      <4>3. QED
        BY <1>1, <3>2, <4>2 DEF GrantHolds
    <3>3. CASE g \notin frame[r].pairs
      BY <1>1, <3>1, <3>3 DEF LiveGrants
    <3>4. QED
      BY <3>2, <3>3
  <2>2. Consistent' /\ LivePermissions' = LivePermissions
    BY <1>1, <1>5, <2>1, GrantsConsistent
  <2>3. ASSUME pc'[r] = st, frame'[r] = frame[r]
        PROVE  CheckedHolds(r)'
    <3>1. CASE st = "audit"
      BY <2>3, <3>1, AuditHolds
    <3>2. CASE st = "permission"
      <4>1. path \in Granting
        BY <1>1, <1>2, <3>2
      <4>2. QED
        BY <2>3, <3>2, <4>1
           DEF CheckedHolds, ModuleHolds, RoleHolds, GrantHolds, PermissionHandlers,
               Granting
    <3>3. CASE st = "reload"
      <4>1. path = "deleteModule"
        BY <1>1, <1>2, <3>3
      <4>2. CascadeHolds(r) /\ path \notin Granting
        BY <1>1, <1>5, <4>1 DEF CheckedHolds, Granting
      <4>3. ASSUME NEW p \in frame[r].perms, NEW x \in RoleIds
            PROVE  grants'[<<x, p>>] # "live"
        <5>1. <<x, p>> \in RoleIds \X PermissionIds
          BY <1>1 DEF Frame
        <5>2. grants[<<x, p>>] = "live" => <<x, p>> \in frame[r].pairs
          BY <1>1, <4>2, <5>1 DEF CascadeHolds, LiveGrants
        <5>3. QED
          BY <1>1, <4>2, <5>1, <5>2
      <4>4. CascadeHolds(r)'
        BY <1>1, <2>2, <2>3, <3>3, <4>2, <4>3 DEF CascadeHolds, Children, Unassigned
      <4>5. QED
        BY <2>3, <3>3, <4>1, <4>4
           DEF CheckedHolds, ModuleHolds, RoleHolds, PermissionHandlers, Granting
    <3>4. QED
      BY <1>2, <3>1, <3>2, <3>3
  <2>4. QED
    BY <2>2, <2>3
<1>6. QED
  BY <1>1, <1>3, <1>4, <1>5, StepAlone
LEMMA ModuleAlone ==
  ASSUME Shape, AloneHolds, NEW r \in Requests, InsertModule(r) \/ SaveModule(r)
  PROVE  AloneHolds'
<1> DEFINE m == frame[r].target
<1>1. /\ UNCHANGED <<permissions, roles, grants, audit, overlapped>>
      /\ frame[r] \in Frame /\ Types /\ m \in Modules
  BY ModuleStep
<1>2. \/ /\ pc[r] = "insertModule" /\ modules[m] = "none"
         /\ modules' = [modules EXCEPT ![m] = "live"] /\ Goto(r, "audit")
      \/ /\ pc[r] = "insertModule" /\ modules[m] # "none"
         /\ modules' = modules /\ Goto(r, "conflict")
      \/ /\ pc[r] = "saveModule" /\ frame[r].path = "updateModule"
         /\ modules' = [modules EXCEPT ![m] = "live"] /\ Goto(r, "audit")
      \/ /\ pc[r] = "saveModule" /\ frame[r].path = "deleteModule"
         /\ modules' = [modules EXCEPT ![m] = "deleted"] /\ Goto(r, "audit")
  BY ModuleStep
<1>3. PICK st \in {"audit", "conflict"} :
        /\ GotoWith(r, st, frame[r])
        /\ st = "conflict" => pc[r] = "insertModule" /\ modules[m] # "none"
  BY <1>2 DEF Goto
<1>4. pc[r] \in Statements /\ st \in Statements \cup Outcomes
  BY <1>2 DEF Statements, Outcomes
<1>5. ASSUME CheckedHolds(r), Consistent
      PROVE  Consistent' /\ st # "conflict"
  <2>1. ModuleHolds(r)
    BY <1>5 DEF CheckedHolds
  <2>2. st # "conflict"
    BY <1>3, <2>1 DEF ModuleHolds
  <2>3. /\ StoredPermissions' = StoredPermissions /\ StoredRoles' = StoredRoles
        /\ LivePermissions' = LivePermissions /\ LiveGrants' = LiveGrants
    BY <1>1 DEF StoredPermissions, StoredRoles, LivePermissions, LiveGrants
  <2>4. ASSUME NEW p \in LivePermissions
        PROVE  modules'[permissions[p].module] = "live"
    <3>1. /\ modules[permissions[p].module] = "live"
          /\ permissions[p].module \in Modules
      BY <1>1, <1>5, RowFields
         DEF Consistent, ModulesLive, LivePermissions, StoredPermissions, Types
    <3>2. CASE modules' = [modules EXCEPT ![m] = "live"] \/ modules' = modules
      BY <1>1, <3>1, <3>2 DEF Types
    <3>3. CASE /\ pc[r] = "saveModule" /\ frame[r].path = "deleteModule"
               /\ modules' = [modules EXCEPT ![m] = "deleted"]
      <4>1. Children(m) = {}
        BY <2>1, <3>3 DEF ModuleHolds
      <4>2. permissions[p].module # m
        BY <4>1 DEF Children
      <4>3. QED
        BY <1>1, <3>1, <3>3, <4>2 DEF Types
    <3>4. QED
      BY <1>2, <3>2, <3>3
  <2>5. Consistent'
    BY <1>1, <1>5, <2>3, <2>4 DEF Consistent, ModulesLive, NothingDangles,
       CodeNamesOnePermission, RoleCodesDistinct
  <2>6. QED
    BY <2>2, <2>5
<1>6. pc'[r] = st /\ st # "conflict" => CheckedHolds(r)'
  BY <1>3, AuditHolds
<1>7. QED
  BY <1>1, <1>3, <1>4, <1>5, <1>6, StepAlone

\* Roles change, and no two that are stored have the same tenant and code.
LEMMA RolesConsistent ==
  ASSUME Consistent, UNCHANGED <<modules, permissions, grants>>, RoleCodesDistinct'
  PROVE  Consistent'
<1>1. /\ StoredPermissions' = StoredPermissions
      /\ LivePermissions' = LivePermissions /\ LiveGrants' = LiveGrants
  BY DEF StoredPermissions, LivePermissions, LiveGrants
<1>2. QED
  BY <1>1 DEF Consistent, ModulesLive, NothingDangles, CodeNamesOnePermission

LEMMA InsertRoleAlone ==
  ASSUME Shape, AloneHolds, NEW r \in Requests, InsertRole(r)
  PROVE  AloneHolds'
<1> DEFINE new == frame[r].role
<1>1. /\ pc[r] = "insertRole"
      /\ UNCHANGED <<modules, permissions, grants, audit, overlapped>>
      /\ frame[r] \in Frame /\ Types /\ new \in Role /\ r \in RoleIds
  BY InsertRoleStep
<1>2. \/ roles' = [roles EXCEPT ![r] = new] /\ Goto(r, "audit")
      \/ /\ ~UniqueRole(new.tenant, new.code)
         /\ roles' = roles /\ Goto(r, "conflict")
  BY InsertRoleStep
<1>3. PICK st \in {"audit", "conflict"} :
        /\ GotoWith(r, st, frame[r])
        /\ st = "conflict" => ~UniqueRole(new.tenant, new.code)
  BY <1>2 DEF Goto
<1>4. pc[r] \in Statements /\ st \in Statements \cup Outcomes
  BY <1>1 DEF Statements, Outcomes
<1>5. ASSUME CheckedHolds(r), Consistent
      PROVE  Consistent' /\ st # "conflict"
  <2>1. RoleCodeAvailable(new.tenant, new.code)
    BY <1>1, <1>5 DEF CheckedHolds, RoleHolds
  <2>2. roles' = [roles EXCEPT ![r] = new] /\ st # "conflict"
    BY <1>2, <1>3, <2>1 DEF UniqueRole
  <2>3. ASSUME NEW x \in StoredRoles', NEW y \in StoredRoles',
               roles'[x].tenant = roles'[y].tenant, roles'[x].code = roles'[y].code
        PROVE  x = y
    <3>1. roles \in [RoleIds -> Role \cup {None}] /\ x \in RoleIds /\ y \in RoleIds
      BY <1>1 DEF Types, StoredRoles
    <3>2. /\ roles'[r] = new
          /\ \A z \in RoleIds \ {r} : roles'[z] = roles[z]
      BY <1>1, <2>2, <3>1
    <3>3. /\ x # r => x \in StoredRoles /\ roles'[x] = roles[x]
          /\ y # r => y \in StoredRoles /\ roles'[y] = roles[y]
      BY <3>1, <3>2 DEF StoredRoles
    <3>4. CASE x = r /\ y # r
      BY <2>1, <2>3, <3>2, <3>3, <3>4 DEF RoleCodeAvailable
    <3>5. CASE x # r /\ y = r
      BY <2>1, <2>3, <3>2, <3>3, <3>5 DEF RoleCodeAvailable
    <3>6. CASE x # r /\ y # r
      BY <1>5, <2>3, <3>3, <3>6 DEF Consistent, RoleCodesDistinct
    <3>7. QED
      BY <3>4, <3>5, <3>6
  <2>4. RoleCodesDistinct'
    BY <2>3 DEF RoleCodesDistinct
  <2>5. QED
    BY <1>1, <1>5, <2>2, <2>4, RolesConsistent
<1>6. pc'[r] = st /\ st # "conflict" => CheckedHolds(r)'
  BY <1>3, AuditHolds
<1>7. QED
  BY <1>1, <1>3, <1>4, <1>5, <1>6, StepAlone

LEMMA SaveRoleAlone ==
  ASSUME Shape, AloneHolds, NEW r \in Requests, SaveRole(r)
  PROVE  AloneHolds'
<1> DEFINE t == frame[r].target
<1>1. /\ pc[r] = "saveRole"
      /\ UNCHANGED <<modules, permissions, grants, audit, overlapped>>
      /\ frame[r] \in Frame /\ Types /\ Goto(r, "audit") /\ t \in StoredRoles
  BY SaveRoleStep
<1>2. PICK row \in Role :
        /\ roles' = [roles EXCEPT ![t] = row]
        /\ row.tenant = roles[t].tenant /\ row.code = roles[t].code
  BY SaveRoleStep
<1>3. GotoWith(r, "audit", frame[r])
  BY <1>1 DEF Goto
<1>4. pc[r] \in Statements /\ "audit" \in Statements \cup Outcomes
  BY <1>1 DEF Statements
<1>5. \A x \in RoleIds :
        /\ x \in StoredRoles' <=> x \in StoredRoles
        /\ roles[x] # None => roles'[x].tenant = roles[x].tenant
                              /\ roles'[x].code = roles[x].code
  BY <1>1, <1>2, NoneIsNoRow DEF Types, StoredRoles
<1>6. RoleCodesDistinct => RoleCodesDistinct'
  BY <1>5 DEF RoleCodesDistinct, StoredRoles
<1>7. Consistent => Consistent'
  BY <1>1, <1>6, RolesConsistent DEF Consistent
<1>8. pc'[r] = "audit" => CheckedHolds(r)'
  BY AuditHolds
<1>9. QED
  BY <1>1, <1>3, <1>4, <1>7, <1>8, StepAlone
\* Permissions change, the rest does not.
LEMMA PermissionsConsistent ==
  ASSUME Types, Consistent, UNCHANGED <<modules, roles, grants>>,
         \A p \in LivePermissions' : modules[permissions'[p].module] = "live",
         \A g \in LiveGrants : g[2] \in LivePermissions',
         CodeNamesOnePermission'
  PROVE  Consistent'
<1>1. LiveGrants' = LiveGrants /\ StoredRoles' = StoredRoles
  BY DEF LiveGrants, StoredRoles
<1>2. RoleCodesDistinct'
  BY <1>1 DEF Consistent, RoleCodesDistinct
<1>3. ModulesLive' /\ NothingDangles'
  BY <1>1 DEF ModulesLive, NothingDangles
<1>4. QED
  BY <1>2, <1>3 DEF Consistent

\* The checks of a creation or an update cover UNIQUE (module_id, operation).
LEMMA AvailableIsUnique ==
  ASSUME Types, RowsUnique, NEW p \in PermissionIds, NEW row \in Permission,
         NEW rows, rows = [permissions EXCEPT ![p] = row],
         OperationAvailable(row.module, row.operation, p)
  PROVE  UniqueOperations(rows)
<1>1. permissions \in [PermissionIds -> Permission \cup {None}]
  BY DEF Types
<1>2. rows[p] = row /\ \A q \in PermissionIds \ {p} : rows[q] = permissions[q]
  BY <1>1
<1>3. SUFFICES ASSUME NEW x \in PermissionIds, NEW y \in PermissionIds,
                      rows[x] # None, rows[y] # None,
                      rows[x].module = rows[y].module,
                      rows[x].operation = rows[y].operation
               PROVE  x = y
  BY DEF UniqueOperations
<1>4. CASE x = p /\ y # p
  BY <1>2, <1>3, <1>4 DEF OperationAvailable, StoredPermissions
<1>5. CASE x # p /\ y = p
  BY <1>2, <1>3, <1>5 DEF OperationAvailable, StoredPermissions
<1>6. CASE x # p /\ y # p
  BY <1>2, <1>3, <1>6 DEF RowsUnique, UniqueOperations
<1>7. QED
  BY <1>4, <1>5, <1>6

\* A live row whose code was available is written into a live module.
LEMMA RowWritten ==
  ASSUME Types, Consistent, UNCHANGED <<modules, roles, grants>>,
         NEW p \in PermissionIds, NEW row \in Permission,
         permissions' = [permissions EXCEPT ![p] = row],
         ~row.isDeleted, modules[row.module] = "live", CodeAvailable(row.code, p)
  PROVE  Consistent'
<1>1. permissions \in [PermissionIds -> Permission \cup {None}]
  BY DEF Types
<1>2. /\ permissions'[p] = row /\ row # None
      /\ \A q \in PermissionIds \ {p} : permissions'[q] = permissions[q]
  BY <1>1, NoneIsNoRow
<1>3. /\ \A q \in PermissionIds \ {p} :
           /\ q \in StoredPermissions' <=> q \in StoredPermissions
           /\ q \in LivePermissions' <=> q \in LivePermissions
      /\ p \in LivePermissions'
      /\ LivePermissions' \subseteq PermissionIds
      /\ StoredPermissions' \subseteq PermissionIds
  BY <1>2 DEF StoredPermissions, LivePermissions
<1>4. ASSUME NEW q \in LivePermissions'
      PROVE  modules[permissions'[q].module] = "live"
  BY <1>2, <1>3 DEF Consistent, ModulesLive
<1>5. ASSUME NEW g \in LiveGrants
      PROVE  g[2] \in LivePermissions'
  <2>1. g[2] \in LivePermissions /\ g[2] \in PermissionIds
    BY DEF Consistent, NothingDangles, LiveGrants
  <2>2. QED
    BY <1>3, <2>1
<1>6. ASSUME NEW x \in StoredPermissions', NEW y \in StoredPermissions',
             permissions'[x].code = permissions'[y].code
      PROVE  x = y
  <2>1. CASE x = p /\ y # p
    BY <1>2, <1>3, <1>6, <2>1 DEF CodeAvailable
  <2>2. CASE x # p /\ y = p
    BY <1>2, <1>3, <1>6, <2>2 DEF CodeAvailable
  <2>3. CASE x # p /\ y # p
    BY <1>2, <1>3, <1>6, <2>3 DEF Consistent, CodeNamesOnePermission
  <2>4. QED
    BY <2>1, <2>2, <2>3
<1>7. CodeNamesOnePermission'
  BY <1>6 DEF CodeNamesOnePermission
<1>8. QED
  BY <1>4, <1>5, <1>7, PermissionsConsistent

LEMMA InsertPermissionAlone ==
  ASSUME Shape, AloneHolds, NEW r \in Requests, InsertPermission(r)
  PROVE  AloneHolds'
<1> DEFINE row == Wanted(r)
           rows == [permissions EXCEPT ![r] = Wanted(r)]
<1>1. /\ pc[r] = "insertPermission" /\ frame[r].path = "createPermission"
      /\ UNCHANGED <<modules, roles, grants, audit, overlapped>>
      /\ frame[r] \in Frame /\ Types /\ frame[r].target = r
      /\ row \in Permission /\ ~row.isDeleted
      /\ permissions[r] = None /\ r \in PermissionIds
  BY InsertPermissionStep
<1>2. \/ permissions' = rows /\ UniqueOperations(rows) /\ Goto(r, "audit")
      \/ permissions' = permissions /\ ~UniqueOperations(rows) /\ Goto(r, "conflict")
  BY InsertPermissionStep
<1>3. PICK st \in {"audit", "conflict"} :
        /\ GotoWith(r, st, frame[r])
        /\ st = "conflict" => ~UniqueOperations(rows)
        /\ st = "audit" => permissions' = rows
  BY <1>2 DEF Goto
<1>4. pc[r] \in Statements /\ st \in Statements \cup Outcomes
  BY <1>1 DEF Statements, Outcomes
<1>5. ASSUME CheckedHolds(r), Consistent
      PROVE  Consistent' /\ st # "conflict"
  <2>1. PermissionHolds(r)
    BY <1>1, <1>5 DEF CheckedHolds, PermissionHandlers
  <2>2. /\ modules[row.module] = "live" /\ CodeAvailable(row.code, r)
        /\ OperationAvailable(row.module, row.operation, r)
    BY <1>1, <2>1 DEF PermissionHolds
  <2>3. UniqueOperations(rows)
    BY <1>1, <2>2, AvailableIsUnique DEF Shape
  <2>4. permissions' = rows /\ st # "conflict"
    BY <1>3, <2>3
  <2>5. QED
    BY <1>1, <1>5, <2>2, <2>4, RowWritten
<1>6. pc'[r] = st /\ st # "conflict" => CheckedHolds(r)'
  BY <1>3, AuditHolds
<1>7. QED
  BY <1>1, <1>3, <1>4, <1>5, <1>6, StepAlone
\* The rows of the permissions in gone are deleted and otherwise keep their columns.
Deleting(rows, gone) ==
  /\ gone \subseteq StoredPermissions
  /\ \A p \in PermissionIds \ gone : rows[p] = permissions[p]
  /\ \A p \in gone :
       /\ rows[p] # None /\ rows[p].isDeleted
       /\ rows[p].code = permissions[p].code
       /\ rows[p].module = permissions[p].module
       /\ rows[p].operation = permissions[p].operation

LEMMA DeletingIsUnique ==
  ASSUME RowsUnique, NEW rows, NEW gone, Deleting(rows, gone)
  PROVE  UniqueOperations(rows)
<1>1. ASSUME NEW p \in PermissionIds, rows[p] # None
      PROVE  /\ permissions[p] # None
             /\ rows[p].module = permissions[p].module
             /\ rows[p].operation = permissions[p].operation
  BY <1>1 DEF Deleting, StoredPermissions
<1>2. QED
  BY <1>1 DEF RowsUnique, UniqueOperations

LEMMA RowsDeleted ==
  ASSUME Types, Consistent, UNCHANGED <<modules, roles, grants>>,
         NEW gone, Deleting(permissions', gone), \A p \in gone : Unassigned(p)
  PROVE  Consistent' /\ LivePermissions' = LivePermissions \ gone
<1>1. ASSUME NEW p \in PermissionIds
      PROVE  /\ p \in StoredPermissions' <=> p \in StoredPermissions
             /\ p \in StoredPermissions =>
                  /\ permissions'[p].code = permissions[p].code
                  /\ permissions'[p].module = permissions[p].module
             /\ p \in LivePermissions' <=> p \in LivePermissions \ gone
  <2>1. CASE p \in gone
    BY <2>1 DEF Deleting, StoredPermissions, LivePermissions
  <2>2. CASE p \notin gone
    BY <2>2 DEF Deleting, StoredPermissions, LivePermissions
  <2>3. QED
    BY <2>1, <2>2
<1>2. /\ StoredPermissions \subseteq PermissionIds
      /\ StoredPermissions' \subseteq PermissionIds
      /\ LivePermissions \subseteq StoredPermissions
      /\ LivePermissions' \subseteq StoredPermissions'
  BY DEF StoredPermissions, LivePermissions
<1>3. LivePermissions' = LivePermissions \ gone
  BY <1>1, <1>2
<1>4. ASSUME NEW p \in LivePermissions'
      PROVE  modules[permissions'[p].module] = "live"
  BY <1>1, <1>2, <1>3 DEF Consistent, ModulesLive
<1>5. ASSUME NEW g \in LiveGrants
      PROVE  g[2] \in LivePermissions'
  <2>1. /\ g[2] \in LivePermissions /\ g \in RoleIds \X PermissionIds
        /\ grants[g] = "live"
    BY DEF Consistent, NothingDangles, LiveGrants
  <2>2. g = <<g[1], g[2]>> /\ g[1] \in RoleIds
    BY <2>1
  <2>3. g[2] \notin gone
    BY <2>1, <2>2 DEF Unassigned
  <2>4. QED
    BY <1>3, <2>1, <2>3
<1>6. CodeNamesOnePermission'
  BY <1>1, <1>2 DEF Consistent, CodeNamesOnePermission
<1>7. QED
  BY <1>3, <1>4, <1>5, <1>6, PermissionsConsistent

\* Alone, a save finds the rows as it has read them afresh.
LEMMA SavedAsRead ==
  ASSUME Shape, NEW r \in Requests, pc[r] = "write", CheckedHolds(r),
         NEW p \in PermissionIds, frame[r].ent[p] # None
  PROVE  LET row == Rows(r)[p]
             ent == frame[r].ent[p]
         IN
         /\ row \in Permission /\ row # None
         /\ row.code = ent.code /\ row.operation = ent.operation
         /\ row.isDeleted = ent.isDeleted
         /\ row.module = IF ent.module = None THEN permissions[p].module ELSE ent.module
<1>1. /\ permissions[p] \in Permission /\ frame[r].ent[p] \in Entity
      /\ frame[r].base[p] \in Permission
      /\ Rows(r)[p] = Merge(permissions[p], frame[r].base[p], frame[r].ent[p])
  BY RowsType
<1>2. frame[r].base[p] = permissions[p]
  BY DEF CheckedHolds
<1> DEFINE ent == frame[r].ent[p]
           merged == Merge(permissions[p], frame[r].base[p], ent)
<1>3. /\ merged \in Permission
      /\ merged.code = ent.code /\ merged.operation = ent.operation
      /\ merged.module = IF ent.module = None THEN permissions[p].module ELSE ent.module
      /\ merged.isDeleted = ent.isDeleted
  BY <1>1, <1>2, Merged
<1>4. Rows(r)[p] = merged /\ merged # None
  BY <1>1, <1>3, NoneIsNoRow
<1> HIDE DEF merged
<1>5. QED
  BY <1>3, <1>4

\* What the save of an update, a deletion or a cascade amounts to, alone.
LEMMA SaveAlone ==
  ASSUME Shape, NEW r \in Requests, pc[r] = "write", CheckedHolds(r), Consistent
  PROVE  LET f == frame[r] IN
         /\ f.path = "updatePermission" =>
              \E row \in Permission :
                /\ Rows(r) = [permissions EXCEPT ![f.target] = row]
                /\ f.target \in LivePermissions
                /\ ~row.isDeleted /\ modules[row.module] = "live"
                /\ CodeAvailable(row.code, f.target)
                /\ OperationAvailable(row.module, row.operation, f.target)
         /\ f.path = "deletePermission" =>
              Deleting(Rows(r), {f.target}) /\ Unassigned(f.target)
         /\ f.path = "deleteModule" =>
              /\ Deleting(Rows(r), f.perms) /\ f.perms = Children(f.target)
              /\ \A p \in f.perms : Unassigned(p)
<1> DEFINE p == frame[r].target
           path == frame[r].path
<1>1. /\ FrameFits(r) /\ Types
      /\ Rows(r) \in [PermissionIds -> Permission \cup {None}]
      /\ \A q \in PermissionIds : frame[r].ent[q] = None => Rows(r)[q] = permissions[q]
  BY RowsType, OwnFrame DEF Statements
<1>2. permissions \in [PermissionIds -> Permission \cup {None}]
  BY <1>1 DEF Types
<1>3. ASSUME path \in {"updatePermission", "deletePermission"}
      PROVE  /\ PermissionFits(r) /\ PermissionHolds(r)
             /\ p \in LivePermissions /\ p \in PermissionIds
             /\ frame[r].ent[p] \in Permission /\ frame[r].ent[p] # None
             /\ frame[r].ent[p].module # None
             /\ \A q \in PermissionIds \ {p} : Rows(r)[q] = permissions[q]
  <2>1. PermissionFits(r)
    BY <1>1, <1>3 DEF FrameFits, PermissionHandlers
  <2>2. PermissionHolds(r)
    BY <1>3 DEF CheckedHolds, PermissionHandlers
  <2>3. p \in LivePermissions
    BY <1>3, <2>2 DEF PermissionHolds
  <2>4. /\ p \in PermissionIds /\ frame[r].ent[p] \in Permission
        /\ \A q \in PermissionIds \ {p} : frame[r].ent[q] = None
    BY <2>1 DEF PermissionFits, Wanted
  <2>5. QED
    BY <1>1, <2>1, <2>2, <2>3, <2>4, NoneIsNoRow, RowFields
<1>4. ASSUME path = "updatePermission"
      PROVE  \E row \in Permission :
                /\ Rows(r) = [permissions EXCEPT ![p] = row]
                /\ p \in LivePermissions
                /\ ~row.isDeleted /\ modules[row.module] = "live"
                /\ CodeAvailable(row.code, p)
                /\ OperationAvailable(row.module, row.operation, p)
  <2> DEFINE row == Rows(r)[p]
             ent == frame[r].ent[p]
  <2>1. /\ row \in Permission /\ row.code = ent.code /\ row.operation = ent.operation
        /\ row.isDeleted = ent.isDeleted /\ row.module = ent.module
    BY <1>3, <1>4, SavedAsRead
  <2>2. ~ent.isDeleted
    BY <1>3, <1>4 DEF PermissionFits, Wanted
  <2>3. /\ modules[ent.module] = "live" /\ CodeAvailable(ent.code, p)
        /\ OperationAvailable(ent.module, ent.operation, p)
    BY <1>3, <1>4 DEF PermissionHolds, Wanted
  <2>4. Rows(r) = [permissions EXCEPT ![p] = row]
    BY <1>1, <1>2, <1>3, <1>4
  <2> HIDE DEF row
  <2>5. QED
    BY <1>3, <1>4, <2>1, <2>2, <2>3, <2>4
<1>5. ASSUME path = "deletePermission"
      PROVE  Deleting(Rows(r), {p}) /\ Unassigned(p)
  <2> DEFINE row == Rows(r)[p]
             ent == frame[r].ent[p]
  <2>1. /\ row # None /\ row.code = ent.code /\ row.operation = ent.operation
        /\ row.isDeleted = ent.isDeleted /\ row.module = ent.module
    BY <1>3, <1>5, SavedAsRead
  <2>2. ent.isDeleted
    BY <1>3, <1>5 DEF PermissionFits, Wanted
  <2>3. /\ ent.code = permissions[p].code /\ ent.module = permissions[p].module
        /\ ent.operation = permissions[p].operation /\ Unassigned(p)
    BY <1>3, <1>5 DEF PermissionHolds, Wanted
  <2>4. {p} \subseteq StoredPermissions
    BY <1>3, <1>5 DEF LivePermissions
  <2>5. QED
    BY <1>3, <1>5, <2>1, <2>2, <2>3, <2>4 DEF Deleting
<1>6. ASSUME path = "deleteModule"
      PROVE  /\ Deleting(Rows(r), frame[r].perms) /\ frame[r].perms = Children(p)
             /\ \A q \in frame[r].perms : Unassigned(q)
  <2>1. CascadeFits(r) /\ CascadeHolds(r)
    BY <1>1, <1>6 DEF FrameFits, CheckedHolds
  <2>2. /\ frame[r].perms = Children(p)
        /\ \A q \in frame[r].perms : Unassigned(q)
    BY <2>1 DEF CascadeHolds
  <2>3. frame[r].perms \subseteq StoredPermissions /\ StoredPermissions \subseteq PermissionIds
    BY <2>2 DEF Children, LivePermissions, StoredPermissions
  <2>4. ASSUME NEW q \in frame[r].perms
        PROVE  /\ Rows(r)[q] # None /\ Rows(r)[q].isDeleted
               /\ Rows(r)[q].code = permissions[q].code
               /\ Rows(r)[q].module = permissions[q].module
               /\ Rows(r)[q].operation = permissions[q].operation
    <3>1. /\ q \in PermissionIds /\ frame[r].ent[q] # None
          /\ frame[r].ent[q].module = None /\ frame[r].ent[q].isDeleted
      BY <2>1, <2>3 DEF CascadeFits
    <3>2. /\ frame[r].ent[q].code = permissions[q].code
          /\ frame[r].ent[q].operation = permissions[q].operation
      BY <2>1 DEF CascadeHolds
    <3>3. QED
      BY <3>1, <3>2, SavedAsRead
  <2>5. \A q \in PermissionIds \ frame[r].perms : Rows(r)[q] = permissions[q]
    BY <1>1, <2>1 DEF CascadeFits
  <2>6. QED
    BY <2>2, <2>3, <2>4, <2>5 DEF Deleting
<1>7. QED
  BY <1>4, <1>5, <1>6
LEMMA WriteAlone ==
  ASSUME Shape, AloneHolds, NEW r \in Requests, Write(r)
  PROVE  AloneHolds'
<1> DEFINE path == frame[r].path
           t == frame[r].target
<1>1. /\ pc[r] = "write"
      /\ UNCHANGED <<modules, roles, grants, audit, overlapped>>
      /\ frame[r] \in Frame /\ Types /\ RowsUnique
      /\ path \in {"updatePermission", "deletePermission", "deleteModule"}
  BY WriteStep DEF Shape
<1>2. \/ /\ permissions' = Rows(r)
         /\ Goto(r, IF path = "deleteModule" THEN "saveModule" ELSE "audit")
      \/ ~UniqueOperations(Rows(r)) /\ Goto(r, "conflict")
  BY WriteStep
<1>3. PICK st \in {"audit", "saveModule", "conflict"} :
        /\ GotoWith(r, st, frame[r])
        /\ st = "conflict" => ~UniqueOperations(Rows(r))
        /\ st # "conflict" => permissions' = Rows(r)
        /\ st = "saveModule" => path = "deleteModule"
  BY <1>2 DEF Goto
<1>4. pc[r] \in Statements /\ st \in Statements \cup Outcomes
  BY <1>1 DEF Statements, Outcomes
<1>5. ASSUME CheckedHolds(r), Consistent
      PROVE  /\ Consistent' /\ st # "conflict"
             /\ path = "deleteModule" => Children(t)' = {}
  <2>1. CASE path = "updatePermission"
    <3>1. PICK row \in Permission :
             /\ Rows(r) = [permissions EXCEPT ![t] = row]
             /\ t \in LivePermissions
             /\ ~row.isDeleted /\ modules[row.module] = "live"
             /\ CodeAvailable(row.code, t)
             /\ OperationAvailable(row.module, row.operation, t)
      BY <1>1, <1>5, <2>1, SaveAlone
    <3>2. t \in PermissionIds
      BY <3>1 DEF LivePermissions, StoredPermissions
    <3>3. UniqueOperations(Rows(r))
      BY <1>1, <3>1, <3>2, AvailableIsUnique
    <3>4. permissions' = Rows(r) /\ st # "conflict"
      BY <1>3, <3>3
    <3>5. Consistent'
      BY <1>1, <1>5, <3>1, <3>2, <3>4, RowWritten
    <3>6. QED
      BY <2>1, <3>4, <3>5
  <2>2. CASE path = "deletePermission"
    <3>1. Deleting(Rows(r), {t}) /\ Unassigned(t)
      BY <1>1, <1>5, <2>2, SaveAlone
    <3>2. UniqueOperations(Rows(r))
      BY <1>1, <3>1, DeletingIsUnique
    <3>3. permissions' = Rows(r) /\ st # "conflict"
      BY <1>3, <3>2
    <3>4. Deleting(permissions', {t})
      BY <3>1, <3>3
    <3>5. Consistent'
      BY <1>1, <1>5, <3>1, <3>4, RowsDeleted
    <3>6. QED
      BY <2>2, <3>3, <3>5
  <2>3. CASE path = "deleteModule"
    <3> DEFINE gone == frame[r].perms
    <3>1. /\ Deleting(Rows(r), gone) /\ gone = Children(t)
          /\ \A p \in gone : Unassigned(p)
      BY <1>1, <1>5, <2>3, SaveAlone
    <3>2. UniqueOperations(Rows(r))
      BY <1>1, <3>1, DeletingIsUnique
    <3>3. permissions' = Rows(r) /\ st # "conflict"
      BY <1>3, <3>2
    <3>4. Deleting(permissions', gone)
      BY <3>1, <3>3
    <3>5. Consistent' /\ LivePermissions' = LivePermissions \ gone
      BY <1>1, <1>5, <3>1, <3>4, RowsDeleted
    <3>6. LivePermissions \subseteq PermissionIds
      BY DEF LivePermissions, StoredPermissions
    <3>7. frame'[r] = frame[r]
      BY <1>1, <1>3, <1>4, <3>3, GotoFrame DEF Statements, Outcomes
    <3>8. \A p \in LivePermissions' : permissions'[p].module # t
      BY <3>1, <3>4, <3>5, <3>6 DEF Deleting, Children
    <3>9. Children(t)' = {}
      BY <3>7, <3>8 DEF Children
    <3>10. QED
      BY <3>3, <3>5, <3>9
  <2>4. QED
    BY <1>1, <2>1, <2>2, <2>3
<1>6. ASSUME CheckedHolds(r), Consistent, pc'[r] = st, frame'[r] = frame[r],
             st \in Statements
      PROVE  CheckedHolds(r)'
  <2>1. CASE st = "audit"
    BY <1>6, <2>1, AuditHolds
  <2>2. CASE st = "saveModule"
    <3>1. path = "deleteModule" /\ Children(t)' = {}
      BY <1>3, <1>5, <1>6, <2>2
    <3>2. ModuleHolds(r)'
      BY <1>6, <2>2, <3>1 DEF ModuleHolds
    <3>3. path \notin PermissionHandlers \cup Granting
      BY <3>1 DEF PermissionHandlers, Granting
    <3>4. QED
      BY <1>6, <2>2, <3>1, <3>2, <3>3 DEF CheckedHolds, RoleHolds
  <2>3. QED
    BY <1>3, <1>6, <2>1, <2>2 DEF Statements
<1>7. QED
  BY <1>1, <1>3, <1>4, <1>5, <1>6, StepAlone

LEMMA StatementAlone ==
  ASSUME Shape, AloneHolds, NEW r \in Requests, Statement(r)
  PROVE  AloneHolds'
BY CheckAlone, EndingAlone, ReloadAlone, FindChildrenAlone, FindGrantsAlone,
   FindPermissionAlone, FindExistingAlone, InsertGrantAlone, SaveGrantsAlone,
   ModuleAlone, InsertRoleAlone, SaveRoleAlone, InsertPermissionAlone, WriteAlone
   DEF Statement, Step
LEMMA StutterAlone ==
  ASSUME AloneHolds, UNCHANGED vars
  PROVE  AloneHolds'
<1>1. /\ UNCHANGED tables /\ UNCHANGED <<modules, permissions, roles, grants>>
      /\ UNCHANGED <<pc, frame, overlapped>>
  BY DEF vars, tables
<1> SUFFICES ASSUME ~overlapped'
             PROVE  /\ \A q, x \in InFlight' : q = x
                    /\ \A x \in InFlight' : CheckedHolds(x)'
                    /\ Consistent' /\ NoConflict'
  BY DEF AloneHolds, Consistent
<1>2. /\ \A q, x \in InFlight : q = x
      /\ \A x \in InFlight : CheckedHolds(x)
      /\ Consistent /\ NoConflict
  BY <1>1 DEF AloneHolds, Consistent
<1>3. /\ Consistent' /\ LivePermissions' = LivePermissions /\ LiveRoles' = LiveRoles
      /\ LiveGrants' = LiveGrants
      /\ StoredPermissions' = StoredPermissions /\ StoredRoles' = StoredRoles
  BY <1>1, <1>2, SameConsistent
<1>4. InFlight' = InFlight /\ NoConflict'
  BY <1>1, <1>2 DEF InFlight, NoConflict
<1>5. ASSUME NEW x \in Requests, CheckedHolds(x)
      PROVE  CheckedHolds(x)'
  <2>1. /\ ModuleHolds(x) => ModuleHolds(x)'
        /\ CascadeHolds(x) => CascadeHolds(x)'
    BY <1>1, <1>3 DEF ModuleHolds, CascadeHolds, Children, Unassigned
  <2>2. PermissionHolds(x) => PermissionHolds(x)'
    BY <1>1, <1>3 DEF PermissionHolds, Wanted, Unassigned, CodeAvailable,
       OperationAvailable
  <2>3. RoleHolds(x) => RoleHolds(x)'
    BY <1>1, <1>3 DEF RoleHolds, RoleCodeAvailable
  <2>4. GrantHolds(x) => GrantHolds(x)'
    BY <1>1, <1>3 DEF GrantHolds
  <2>5. QED
    BY <1>1, <1>5, <2>1, <2>2, <2>3, <2>4 DEF CheckedHolds
<1>6. InFlight \subseteq Requests
  BY DEF InFlight
<1>7. QED
  BY <1>2, <1>3, <1>4, <1>5, <1>6

-----------------------------------------------------------------------------
(* The invariant *)

\* The invariant without what its other parts imply.
Kernel == Shape /\ AloneHolds

LEMMA KernelIInv == Kernel <=> IInv
<1>1. TypeOK => Types
  BY TypeOKTypes
<1>2. Types /\ FramesFit => TypeOK
  BY TypesFit
<1>3. QED
  BY <1>1, <1>2 DEF Kernel, Shape, RowsUnique, IInv

LEMMA NextKernel ==
  ASSUME Kernel, [Next]_vars
  PROVE  Kernel'
<1>1. Shape /\ AloneHolds /\ Types
  BY DEF Kernel, Shape
<1>2. Shape'
  BY <1>1, ShapeStep
<1>3. AloneHolds'
  BY <1>1, NextCases, BeginsAlone, StatementAlone, StutterAlone
<1>4. QED
  BY <1>2, <1>3 DEF Kernel

LEMMA InitKernel ==
  ASSUME Init
  PROVE  Kernel
<1>1. PICK seed \in [SeedPermissions ->
                       {row \in Permission : ~row.isDeleted} \cup {None}] :
        permissions = [p \in PermissionIds |->
                         IF p \in SeedPermissions THEN seed[p] ELSE None]
  BY DEF Init
<1>2. PICK rows \in [SystemRoles \cup CustomRoles ->
                       {row \in Role : ~row.isDeleted}] :
        roles = [x \in RoleIds |-> IF x \in DOMAIN rows THEN rows[x] ELSE None]
  BY DEF Init
<1>3. PICK held \in SUBSET (StoredRoles \X LivePermissions) :
        grants = [g \in RoleIds \X PermissionIds |->
                    IF g \in held THEN "live" ELSE "none"]
  BY DEF Init
<1>4. /\ SeedPermissions \subseteq PermissionIds /\ Requests \subseteq PermissionIds
      /\ Requests \subseteq RoleIds /\ SeedPermissions \cap Requests = {}
      /\ (SystemRoles \cup CustomRoles) \cap Requests = {}
  BY CatalogIdsAssumption DEF PermissionIds, RoleIds
<1>5. /\ permissions \in [PermissionIds -> Permission \cup {None}]
      /\ \A r \in Requests : permissions[r] = None
  BY <1>1, <1>4
<1>6. /\ roles \in [RoleIds -> Role \cup {None}]
      /\ \A r \in Requests : roles[r] = None
  BY <1>2, <1>4
<1>7. \A r \in Requests : pc[r] = "idle" /\ frame[r] = NoCall
  BY DEF Init
<1>8. Types
  <2>1. modules \in [Modules -> Presence]
    BY DEF Init, Presence
  <2>2. grants \in [RoleIds \X PermissionIds -> Presence]
    BY <1>3 DEF Presence
  <2>3. /\ pc \in [Requests -> {"idle"} \cup Statements \cup Outcomes]
        /\ frame \in [Requests -> Frame]
    BY NoCallType DEF Init
  <2>4. audit \subseteq Requests /\ overlapped \in BOOLEAN
    BY DEF Init
  <2>5. QED
    BY <1>5, <1>6, <2>1, <2>2, <2>3, <2>4 DEF Types
<1>9. FramesFit
  <2> SUFFICES ASSUME NEW r \in Requests
               PROVE  FrameFits(r)
    BY DEF FramesFit
  <2>1. /\ pc[r] = "idle" /\ pc[r] \notin Statements
        /\ frame[r].path = "none"
        /\ permissions[r] = None /\ roles[r] = None
    BY <1>5, <1>6, <1>7, NoCallType, StatementSets
  <2>2. "none" \notin PermissionHandlers \cup Granting
    BY DEF PermissionHandlers, Granting
  <2>3. QED
    BY <2>1, <2>2 DEF FrameFits
<1>10. RowsUnique
  BY DEF Init, RowsUnique
<1>11. InFlight = {}
  BY <1>7, StatementSets DEF InFlight
<1>12. ModulesLive
  BY DEF Init, ModulesLive
<1>13. ASSUME NEW g \in LiveGrants
       PROVE  g[2] \in LivePermissions
  <2>1. g \in RoleIds \X PermissionIds /\ grants[g] = "live"
    BY DEF LiveGrants
  <2>2. g \in held
    BY <1>3, <2>1
  <2>3. QED
    BY <2>2
<1>14. CodeNamesOnePermission
  <2>1. \A p \in StoredPermissions : p \in LivePermissions
    <3>1. ASSUME NEW p \in StoredPermissions
          PROVE  ~permissions[p].isDeleted
      <4>1. p \in PermissionIds /\ permissions[p] # None
        BY DEF StoredPermissions
      <4>2. p \in SeedPermissions /\ permissions[p] = seed[p]
        BY <1>1, <4>1
      <4>3. QED
        BY <4>1, <4>2
    <3>2. QED
      BY <3>1 DEF LivePermissions
  <2>2. \A p \in LivePermissions : CodeAvailable(permissions[p].code, p)
    BY DEF Init
  <2>3. QED
    BY <2>1, <2>2 DEF CodeNamesOnePermission, CodeAvailable
<1>15. RoleCodesDistinct
  BY DEF Init, RoleCodesDistinct
<1>16. NoConflict
  BY <1>7 DEF NoConflict
<1>17. AloneHolds
  BY <1>11, <1>12, <1>13, <1>14, <1>15, <1>16 DEF AloneHolds, NothingDangles
<1>18. QED
  BY <1>8, <1>9, <1>10, <1>17 DEF Kernel, Shape

-----------------------------------------------------------------------------
(* Theorems *)

\* The strengthening is an invariant: for any modules, permissions, roles,
\* tenants and requests, whatever overlaps and wherever requests die.
THEOREM CatalogInvariance == Spec => []IInv
<1>1. Init => Kernel
  BY InitKernel
<1>2. Kernel /\ [Next]_vars => Kernel'
  BY NextKernel
<1>3. Kernel => IInv
  BY KernelIInv
<1>4. QED
  BY <1>1, <1>2, <1>3, PTL DEF Spec

\* Every variable keeps its type, and save finds the permissions and grants it
\* is about to change.
THEOREM CatalogTypeCorrect == Spec => []TypeOK
<1>1. IInv => TypeOK
  BY DEF IInv
<1>2. QED
  BY <1>1, CatalogInvariance, PTL

\* One by one, the claims of a token and the administrator's listing give a role
\* the same permissions, in the middle of a cascade and after one cut short.
THEOREM TokensMatchListings == Spec => []TokenMatchesListing
<1>1. ASSUME IInv
      PROVE  TokenMatchesListing
  <2> SUFFICES ASSUME ~overlapped, NEW x \in RoleIds
               PROVE  TokenPermissions(x) = ListedPermissions(x)
    BY DEF TokenMatchesListing
  <2>1. \A q \in LivePermissions : modules[permissions[q].module] = "live"
    BY <1>1 DEF IInv, AloneHolds, ModulesLive
  <2>2. QED
    BY <2>1 DEF TokenPermissions, ListedPermissions
<1>2. QED
  BY <1>1, CatalogInvariance, PTL

\* One by one, no live grant names a deleted permission, wherever a deletion or
\* a cascade is cut short.
THEOREM GrantsNeverDangle == Spec => []NoDanglingGrants
<1>1. IInv => NoDanglingGrants
  BY DEF IInv, AloneHolds, NothingDangles, NoDanglingGrants
<1>2. QED
  BY <1>1, CatalogInvariance, PTL

\* One by one, the handlers' checks cover the constraints of the database, and
\* the codes that have no constraint are as unique as those that have one.
THEOREM CatalogDuplicatesRefused == Spec => []DuplicatesAreRefused
<1>1. IInv => DuplicatesAreRefused
  BY DEF IInv, AloneHolds, NoConflict, RoleCodesDistinct, DuplicatesAreRefused
<1>2. QED
  BY <1>1, CatalogInvariance, PTL

\* The statements that write a table.
LEMMA Writers ==
  ASSUME Types, [Next]_vars
  PROVE  /\ \/ UNCHANGED <<modules, permissions, roles>>
            \/ \E r \in Requests :
                 \/ InsertPermission(r) \/ Write(r) \/ InsertModule(r) \/ SaveModule(r)
                 \/ InsertRole(r) \/ SaveRole(r)
         /\ \/ UNCHANGED grants
            \/ \E r \in Requests : InsertGrant(r) \/ SaveGrants(r)
<1>1. CASE UNCHANGED vars
  BY <1>1 DEF vars, tables
<1>2. ASSUME NEW r \in Requests, Begins(r)
      PROVE  UNCHANGED <<modules, permissions, roles, grants>>
  BY <1>2 DEF Begins, tables
<1>3. ASSUME NEW r \in Requests, Statement(r)
      PROVE  \/ UNCHANGED <<modules, permissions, roles, grants>>
             \/ /\ UNCHANGED grants
                /\ \/ InsertPermission(r) \/ Write(r) \/ InsertModule(r)
                   \/ SaveModule(r) \/ InsertRole(r) \/ SaveRole(r)
             \/ /\ UNCHANGED <<modules, permissions, roles>>
                /\ InsertGrant(r) \/ SaveGrants(r)
  <2>1. CASE \/ RequireModule(r) \/ CheckCode(r) \/ CheckOperation(r)
             \/ CheckRoleCount(r)
    BY <2>1 DEF RequireModule, CheckCode, CheckOperation, CheckRoleCount, Check, tables
  <2>2. CASE \/ Reload(r) \/ FindChildren(r) \/ FindGrants(r) \/ FindPermission(r)
             \/ FindExisting(r) \/ Audit(r) \/ Abort(r)
    BY <2>2 DEF Reload, FindChildren, FindGrants, FindPermission, FindExisting,
       Audit, Abort, tables
  <2>3. CASE \/ InsertPermission(r) \/ Write(r) \/ InsertModule(r) \/ SaveModule(r)
             \/ InsertRole(r) \/ SaveRole(r)
    BY <2>3 DEF InsertPermission, Write, InsertModule, SaveModule, InsertRole, SaveRole
  <2>4. CASE InsertGrant(r) \/ SaveGrants(r)
    BY <2>4 DEF InsertGrant, SaveGrants
  <2>5. QED
    BY <1>3, <2>1, <2>2, <2>3, <2>4 DEF Statement, Step
<1>4. QED
  BY <1>1, <1>2, <1>3, NextCases

\* Whatever overlaps and wherever requests die, a grant becomes live only in a
\* request that asked for it, and never on a system role.
THEOREM GrantsOnlyOnRequest == Spec => GrantsAreAskedFor
<1>1. ASSUME Kernel, [Next]_vars
      PROVE  GrantsAsked
  <2> SUFFICES ASSUME NEW g \in LiveGrants', g \notin LiveGrants
               PROVE  /\ g[1] \notin SystemRoles
                      /\ \E r \in Requests :
                           /\ frame[r].path \in Granting
                           /\ frame[r].target = g[1] /\ g \in frame[r].pairs
                           /\ pc[r] \in {"insertGrant", "saveGrants"}
    BY DEF GrantsAsked, Granting
  <2>1. Shape /\ Types
    BY <1>1 DEF Kernel, Shape
  <2>2. g \in RoleIds \X PermissionIds /\ grants'[g] = "live" /\ grants[g] # "live"
    BY DEF LiveGrants
  <2>3. PICK r \in Requests : InsertGrant(r) \/ SaveGrants(r)
    BY <1>1, <2>1, <2>2, Writers
  <2>4. CASE InsertGrant(r)
    <3>1. PICK h \in RoleIds \X PermissionIds :
            /\ frame[r].pairs = {h} /\ h[1] = frame[r].target
            /\ grants' = [grants EXCEPT ![h] = "live"] \/ grants' = grants
      BY <2>1, <2>4, InsertGrantStep
    <3>2. g = h
      BY <2>1, <2>2, <3>1 DEF Types
    <3>3. pc[r] = "insertGrant"
      BY <2>1, <2>4, InsertGrantStep
    <3>4. frame[r].path \in Granting /\ frame[r].target \in RoleIds \ SystemRoles
      BY <2>1, <3>3, GrantingFrame
    <3>5. QED
      BY <3>1, <3>2, <3>3, <3>4
  <2>5. CASE SaveGrants(r)
    <3>1. /\ pc[r] = "saveGrants"
          /\ grants'[g] = IF g \in frame[r].pairs
                          THEN IF frame[r].path \in Granting THEN "live" ELSE "deleted"
                          ELSE grants[g]
          /\ frame[r].path \in Granting => GrantFits(r)
      BY <2>1, <2>2, <2>5, SaveGrantsStep
    <3>2. g \in frame[r].pairs /\ frame[r].path \in Granting
      BY <2>2, <3>1
    <3>3. PICK p \in PermissionIds : frame[r].pairs = {<<frame[r].target, p>>}
      BY <3>1, <3>2 DEF GrantFits
    <3>4. frame[r].target = g[1] /\ frame[r].target \in RoleIds \ SystemRoles
      BY <3>1, <3>2, <3>3 DEF GrantFits
    <3>5. QED
      BY <3>1, <3>2, <3>4
  <2>6. QED
    BY <2>3, <2>4, <2>5
<1>2. IInv => Kernel
  BY KernelIInv
<1>3. QED
  BY <1>1, <1>2, CatalogInvariance, PTL DEF Spec, GrantsAreAskedFor

\* One by one, no module, permission or role that was deleted comes back.
THEOREM DeletionsAreForGood == Spec => DeletedForGood
<1>1. ASSUME Kernel, [Next]_vars
      PROVE  NothingRevived
  <2> SUFFICES ASSUME ~overlapped
               PROVE  /\ \A m \in Modules :
                           modules[m] = "deleted" => modules'[m] = "deleted"
                      /\ \A p \in StoredPermissions :
                           permissions[p].isDeleted => permissions'[p].isDeleted
                      /\ \A x \in StoredRoles :
                           roles[x].isDeleted => roles'[x].isDeleted
    BY DEF NothingRevived
  <2>1. Shape /\ Types /\ Consistent
    BY <1>1 DEF Kernel, Shape, AloneHolds, Consistent
  <2>2. \A r \in Requests : pc[r] \in Statements => CheckedHolds(r)
    BY <1>1 DEF Kernel, AloneHolds, InFlight
  <2>3. StoredPermissions \subseteq PermissionIds /\ StoredRoles \subseteq RoleIds
    BY DEF StoredPermissions, StoredRoles
  <2>4. CASE UNCHANGED <<modules, permissions, roles>>
    BY <2>4
  <2>5. ASSUME NEW r \in Requests, InsertModule(r) \/ SaveModule(r)
        PROVE  /\ UNCHANGED <<permissions, roles>>
               /\ \A m \in Modules : modules[m] = "deleted" => modules'[m] = "deleted"
    <3> DEFINE t == frame[r].target
    <3>1. /\ UNCHANGED <<permissions, roles>> /\ t \in Modules
          /\ \/ modules[t] = "none" /\ modules' = [modules EXCEPT ![t] = "live"]
             \/ modules' = modules
             \/ /\ pc[r] = "saveModule" /\ frame[r].path = "updateModule"
                /\ modules' = [modules EXCEPT ![t] = "live"]
             \/ modules' = [modules EXCEPT ![t] = "deleted"]
      BY <2>1, <2>5, ModuleStep
    <3>2. pc[r] = "saveModule" /\ frame[r].path = "updateModule" => modules[t] = "live"
      BY <2>2 DEF CheckedHolds, ModuleHolds, Statements
    <3>3. modules \in [Modules -> Presence]
      BY <2>1 DEF Types
    <3>4. QED
      BY <3>1, <3>2, <3>3
  <2>6. ASSUME NEW r \in Requests, InsertPermission(r)
        PROVE  /\ UNCHANGED <<modules, roles>>
               /\ \A p \in StoredPermissions :
                    permissions[p].isDeleted => permissions'[p].isDeleted
    <3>1. /\ UNCHANGED <<modules, roles>>
          /\ permissions[r] = None
          /\ \/ permissions' = [permissions EXCEPT ![r] = Wanted(r)]
             \/ permissions' = permissions
      BY <2>1, <2>6, InsertPermissionStep
    <3>2. permissions \in [PermissionIds -> Permission \cup {None}]
      BY <2>1 DEF Types
    <3>3. QED
      BY <2>3, <3>1, <3>2 DEF StoredPermissions
  <2>7. ASSUME NEW r \in Requests, Write(r)
        PROVE  /\ UNCHANGED <<modules, roles>>
               /\ \A p \in StoredPermissions :
                    permissions[p].isDeleted => permissions'[p].isDeleted
    <3> DEFINE t == frame[r].target
    <3>1. /\ UNCHANGED <<modules, roles>> /\ pc[r] = "write"
          /\ frame[r].path \in {"updatePermission", "deletePermission", "deleteModule"}
          /\ permissions' = Rows(r) \/ permissions' = permissions
      BY <2>1, <2>7, WriteStep
    <3>2. CheckedHolds(r)
      BY <2>2, <3>1 DEF Statements
    <3>3. permissions \in [PermissionIds -> Permission \cup {None}]
      BY <2>1 DEF Types
    <3>4. CASE frame[r].path = "updatePermission" /\ permissions' = Rows(r)
      <4>1. PICK row \in Permission :
              Rows(r) = [permissions EXCEPT ![t] = row] /\ t \in LivePermissions
        BY <2>1, <3>1, <3>2, <3>4, SaveAlone
      <4>2. ~permissions[t].isDeleted
        BY <4>1 DEF LivePermissions
      <4>3. QED
        BY <2>3, <3>1, <3>3, <3>4, <4>1, <4>2
    <3>5. CASE /\ frame[r].path \in {"deletePermission", "deleteModule"}
               /\ permissions' = Rows(r)
      <4>1. PICK gone : Deleting(permissions', gone)
        BY <2>1, <3>1, <3>2, <3>5, SaveAlone
      <4>2. QED
        BY <2>3, <3>1, <4>1 DEF Deleting
    <3>6. QED
      BY <3>1, <3>4, <3>5
  <2>8. ASSUME NEW r \in Requests, InsertRole(r)
        PROVE  /\ UNCHANGED <<modules, permissions>>
               /\ \A x \in StoredRoles : roles[x].isDeleted => roles'[x].isDeleted
    <3>1. /\ UNCHANGED <<modules, permissions>> /\ roles[r] = None
          /\ \/ roles' = [roles EXCEPT ![r] = frame[r].role]
             \/ roles' = roles
      BY <2>1, <2>8, InsertRoleStep
    <3>2. roles \in [RoleIds -> Role \cup {None}]
      BY <2>1 DEF Types
    <3>3. QED
      BY <2>3, <3>1, <3>2 DEF StoredRoles
  <2>9. ASSUME NEW r \in Requests, SaveRole(r)
        PROVE  /\ UNCHANGED <<modules, permissions>>
               /\ \A x \in StoredRoles : roles[x].isDeleted => roles'[x].isDeleted
    <3> DEFINE t == frame[r].target
    <3>1. /\ pc[r] = "saveRole" /\ frame[r].path \in {"updateRole", "deleteRole"}
          /\ UNCHANGED <<modules, permissions>>
      BY <2>1, <2>9, SaveRoleStep
    <3>2. PICK row \in Role :
            /\ roles' = [roles EXCEPT ![t] = row]
            /\ row.isDeleted <=> frame[r].path = "deleteRole"
      BY <2>1, <2>9, SaveRoleStep
    <3>3. frame[r].path = "updateRole" => ~roles[t].isDeleted
      BY <2>2, <3>1 DEF CheckedHolds, RoleHolds, LiveRoles, Statements
    <3>4. roles \in [RoleIds -> Role \cup {None}]
      BY <2>1 DEF Types
    <3>5. QED
      BY <2>3, <3>1, <3>2, <3>3, <3>4
  <2>10. QED
    BY <1>1, <2>1, <2>4, <2>5, <2>6, <2>7, <2>8, <2>9, Writers
<1>2. IInv => Kernel
  BY KernelIInv
<1>3. QED
  BY <1>1, <1>2, CatalogInvariance, PTL DEF Spec, DeletedForGood
=============================================================================
