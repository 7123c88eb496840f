-------------------------- MODULE MembershipProofs --------------------------
(***************************************************************************)
(* Theorems about Membership, for every set of tenants, groups, users,     *)
(* roles, codes and requests.                                              *)
(*                                                                         *)
(* Two facts carry them.  No row changes its tenant and no group or link   *)
(* loses its row, so what a handler has found about tenants stays true     *)
(* whatever overlaps.  All else it has found stays true only as long as no *)
(* other request is under way, which is what AloneHolds collects.          *)
(***************************************************************************)
EXTENDS Membership, TLAPS

-----------------------------------------------------------------------------
(* Rows and frames *)

\* The type invariant without the part that FramesFit implies.
Types ==
  /\ groups \in [GroupIds -> Group \cup {None}]
  /\ users \in [Users -> User]
  /\ roles \in [Roles -> Role]
  /\ links \in [Links -> Presence]
  /\ audit \subseteq
       {Action[h] : h \in AllHandlers} \X (GroupIds \cup Users \cup Roles)
  /\ pc \in [Requests -> {"idle"} \cup Statements \cup Outcomes]
  /\ frame \in [Requests -> Frame]
  /\ overlapped \in BOOLEAN

Shape == Types /\ FramesFit /\ LinksFit

LEMMA TypeOKTypes == TypeOK => Types
BY DEF TypeOK, Types

\* Which handler can be about to run a statement.
LEMMA PathOf ==
  ASSUME NEW path \in AllHandlers, NEW st \in StatementsOf(path)
  PROVE  /\ st \in {"code", "insertGroup"} => path = "createGroup"
         /\ st \in {"reload", "write"} => path \in Saving
         /\ st \in {"dropMembers", "dropRoles"} => path = "deleteGroup"
         /\ st = "user" => path = "addMember"
         /\ st = "role" => path \in {"assignGroupRole", "assignUserRole"}
         /\ st \in {"link", "saveLink"} => path \in Additions \cup Removals
         /\ st = "insertLink" => path \in Additions
         /\ st = "saveUser" => path = "deleteUser"
         /\ st \in Statements
BY DEF AllHandlers, GroupHandlers, Additions, Removals, Saving, StatementsOf,
   Statements

\* A handler works on a group, a role or a user.
LEMMA PathKinds ==
  /\ AllHandlers = {"createGroup"} \cup OnGroup \cup OnRole \cup OnUser
  /\ "createGroup" \notin OnGroup \cup OnRole \cup OnUser
  /\ OnGroup \cap OnRole = {} /\ OnGroup \cap OnUser = {}
  /\ OnRole \cap OnUser = {}
  /\ Saving \subseteq OnGroup \cup OnRole /\ OnRole \subseteq Saving
  /\ Additions \cup Removals \subseteq OnGroup \cup OnUser
  /\ Saving \cap (Additions \cup Removals) = {}
  /\ Additions \cap Removals = {}
  /\ \A p \in Additions \cup Removals : p \in OnUser => PairsOf(p) = UserRolePairs
  /\ \A p \in Additions \cup Removals : p \in OnGroup =>
       PairsOf(p) \in {MemberPairs, GroupRolePairs}
BY DEF AllHandlers, GroupHandlers, Additions, Removals, Saving, OnGroup, OnRole,
   OnUser, PairsOf

LEMMA PairsInLinks == \A path : PairsOf(path) \subseteq Links
BY DEF PairsOf, Links

\* The frame of a request in flight.
LEMMA FrameAt ==
  ASSUME Shape, NEW r \in Requests, pc[r] \in Statements
  PROVE  /\ frame[r] \in Frame
         /\ frame[r].path \in AllHandlers
         /\ pc[r] \in StatementsOf(frame[r].path)
         /\ TargetFits(r) /\ EntityFits(r) /\ LinkFits(r)
BY DEF Shape, FramesFit, FrameFits, InFlight, Types

LEMMA GroupRow ==
  ASSUME Types, NEW g \in StoredGroups
  PROVE  g \in GroupIds /\ groups[g] \in Group
BY DEF Types, StoredGroups

LEMMA ShapeTypeOK == Shape => TypeOK
<1> SUFFICES ASSUME Shape
             PROVE  TypeOK
  OBVIOUS
<1>1. ASSUME NEW r \in Requests, pc[r] \in {"reload", "write"}
      PROVE  LET target == frame[r].target
                 row == IF target \in GroupIds THEN groups[target]
                        ELSE roles[target]
             IN  row # None /\ row.tenant = frame[r].ent.tenant
  <2>1. pc[r] \in Statements
    BY <1>1 DEF Statements
  <2>2. /\ frame[r].path \in Saving
        /\ TargetFits(r) /\ EntityFits(r)
    BY <1>1, <2>1, FrameAt, PathOf
  <2>3. CASE frame[r].path \in OnGroup
    <3>1. frame[r].target \in StoredGroups
      BY <2>2, <2>3 DEF TargetFits
    <3>2. frame[r].ent.tenant = groups[frame[r].target].tenant
      BY <2>2, <2>3 DEF EntityFits
    <3>3. QED
      BY <3>1, <3>2 DEF StoredGroups
  <2>4. CASE frame[r].path \in OnRole
    <3>1. frame[r].target \in Roles
      BY <2>2, <2>4 DEF TargetFits
    <3>2. frame[r].ent.tenant = roles[frame[r].target].tenant
      BY <2>2, <2>4 DEF EntityFits
    <3>3. roles[frame[r].target] # None
      BY <3>1, MembershipNoneAssumption DEF Shape, Types
    <3>4. frame[r].target \notin GroupIds
      BY <3>1, MembershipIdsAssumption
    <3>5. QED
      BY <3>2, <3>3, <3>4
  <2>5. QED
    BY <2>2, <2>3, <2>4, PathKinds
<1>2. QED
  BY <1>1 DEF Shape, Types, TypeOK

\* save leaves a row of the same tenant and code; without anyone else at work
\* it leaves what the entity says.
LEMMA MergeGroup ==
  ASSUME NEW row \in Group, NEW base \in Group, NEW ent \in Group
  PROVE  /\ Merge(row, base, ent) \in Group
         /\ Merge(row, base, ent).tenant = row.tenant
         /\ base = row => Merge(row, base, ent).isDeleted = ent.isDeleted
BY DEF Merge, Group

LEMMA MergeRole ==
  ASSUME NEW row \in Role, NEW base \in Role, NEW ent \in Role
  PROVE  /\ Merge(row, base, ent) \in Role
         /\ Merge(row, base, ent).tenant = row.tenant
         /\ base = row => Merge(row, base, ent).isDeleted = ent.isDeleted
BY DEF Merge, Role

LEMMA NoCallType == NoCall \in Frame
BY DEF NoCall, Frame

-----------------------------------------------------------------------------
(* How calls begin *)

Opening == {"code", "reload", "user", "role", "link", "saveUser"}

\* What the first statement of a handler leaves in the frame of request r.
WellFormed(r, st, c) ==
  /\ c \in Frame
  /\ c.path \in AllHandlers
  /\ st \in Opening /\ st \in StatementsOf(c.path)
  /\ c.path = "createGroup" =>
       /\ c.target = r
       /\ c.ent \in Group /\ ~c.ent.isDeleted /\ InScope(c.ent.tenant, c.scope)
  /\ c.path \in OnGroup => FoundGroup(c.target, c.scope)
  /\ c.path \in OnRole => c.target \in Roles /\ MutableRole(c.target, c.scope)
  /\ c.path \in OnUser => c.target \in Users /\ FoundUser(c.target, c.scope)
  /\ c.path \in Saving \cap OnGroup =>
       c.ent \in Group /\ c.ent.tenant = groups[c.target].tenant
  /\ c.path \in OnRole =>
       c.ent \in Role /\ c.ent.tenant = roles[c.target].tenant
  /\ c.path \in Saving =>
       (c.ent.isDeleted <=> c.path \in {"deleteGroup", "deleteRole"})
  /\ c.path \in Additions \cup Removals =>
       /\ c.link \in PairsOf(c.path) /\ c.link[1] = c.target
       /\ c.path \in Additions => st # "link"

\* A step that begins request r.
Begins(r) ==
  /\ pc[r] = "idle"
  /\ \/ /\ pc' = [pc EXCEPT ![r] = "refused"]
        /\ frame' = [frame EXCEPT ![r] = NoCall]
     \/ \E st \in Opening, c \in Frame :
          /\ WellFormed(r, st, c)
          /\ pc' = [pc EXCEPT ![r] = st]
          /\ frame' = [frame EXCEPT ![r] = c]
  /\ overlapped' = (overlapped \/ InFlight # {})
  /\ UNCHANGED <<tables, audit>>

LEMMA BeginBegins ==
  ASSUME NEW r \in Requests, NEW h, NEW st, NEW c,
         pc[r] = "idle", WellFormed(r, st, c), Begin(r, h, st, c)
  PROVE  Begins(r)
<1>1. st \notin Outcomes
  BY DEF WellFormed, Opening, Outcomes
<1>2. QED
  BY <1>1 DEF Begin, Begins, WellFormed

LEMMA RefusedBegins ==
  ASSUME NEW r \in Requests, NEW h, NEW c, pc[r] = "idle",
         Begin(r, h, "refused", c)
  PROVE  Begins(r)
BY DEF Begin, Begins, Outcomes

\* The frames that calls start with.
LEMMA CallFields ==
  ASSUME NEW h \in AllHandlers, NEW scope \in Tenants \cup {None},
         NEW target \in GroupIds \cup Users \cup Roles
  PROVE  LET c == Call(h, scope, target) IN
         /\ c \in Frame
         /\ c.path = h /\ c.scope = scope /\ c.target = target
BY DEF Call, NoCall, Frame

LEMMA EntityCallFields ==
  ASSUME NEW h \in AllHandlers, NEW scope \in Tenants \cup {None},
         NEW target \in GroupIds \cup Users \cup Roles,
         NEW ent \in Group \cup Role
  PROVE  LET c == [Call(h, scope, target) EXCEPT !.ent = ent] IN
         /\ c \in Frame
         /\ c.path = h /\ c.scope = scope /\ c.target = target
         /\ c.ent = ent
BY DEF Call, NoCall, Frame

LEMMA LinkCallFields ==
  ASSUME NEW h \in AllHandlers, NEW scope \in Tenants \cup {None},
         NEW target \in GroupIds \cup Users \cup Roles, NEW l \in Links
  PROVE  LET c == [Call(h, scope, target) EXCEPT !.link = l] IN
         /\ c \in Frame
         /\ c.path = h /\ c.scope = scope /\ c.target = target
         /\ c.link = l
BY DEF Call, NoCall, Frame

LEMMA FoundGroupRow ==
  ASSUME Types, NEW g, NEW scope, FoundGroup(g, scope)
  PROVE  /\ g \in GroupIds /\ groups[g] \in Group /\ ~groups[g].isDeleted
         /\ \A status \in Status :
              /\ [groups[g] EXCEPT !.status = status] \in Group
              /\ ~[groups[g] EXCEPT !.status = status].isDeleted
              /\ [groups[g] EXCEPT !.status = status].tenant = groups[g].tenant
         /\ [groups[g] EXCEPT !.isDeleted = TRUE] \in Group
         /\ [groups[g] EXCEPT !.isDeleted = TRUE].isDeleted
         /\ [groups[g] EXCEPT !.isDeleted = TRUE].tenant = groups[g].tenant
<1>1. g \in GroupIds /\ groups[g] \in Group /\ ~groups[g].isDeleted
  BY GroupRow DEF FoundGroup
<1>2. QED
  BY <1>1 DEF Group

LEMMA RoleRow ==
  ASSUME Types, NEW x \in Roles
  PROVE  /\ roles[x] \in Role
         /\ \A status \in Status :
              /\ [roles[x] EXCEPT !.status = status] \in Role
              /\ [roles[x] EXCEPT !.status = status].isDeleted
                   = roles[x].isDeleted
              /\ [roles[x] EXCEPT !.status = status].tenant = roles[x].tenant
         /\ [roles[x] EXCEPT !.isDeleted = TRUE] \in Role
         /\ [roles[x] EXCEPT !.isDeleted = TRUE].isDeleted
         /\ [roles[x] EXCEPT !.isDeleted = TRUE].tenant = roles[x].tenant
<1>1. roles[x] \in Role
  BY DEF Types
<1>2. QED
  BY <1>1 DEF Role

LEMMA GroupCallBegins ==
  ASSUME Types, NEW r \in Requests, NEW scope \in Tenants \cup {None},
         pc[r] = "idle", GroupCall(r, scope)
  PROVE  Begins(r)
<1>k. /\ "createGroup" \in AllHandlers /\ "updateGroup" \in AllHandlers
      /\ "deleteGroup" \in AllHandlers
      /\ \A h \in {"updateGroup", "deleteGroup"} :
           /\ h \in OnGroup /\ h \in Saving /\ h \notin OnRole /\ h \notin OnUser
           /\ h \notin Additions \cup Removals /\ h # "createGroup"
           /\ "reload" \in StatementsOf(h)
      /\ "createGroup" \notin OnGroup \cup OnRole \cup OnUser \cup Saving
      /\ "createGroup" \notin Additions \cup Removals
      /\ "code" \in StatementsOf("createGroup")
  BY DEF AllHandlers, GroupHandlers, OnGroup, OnRole, OnUser, Saving, Additions,
     Removals, StatementsOf
<1>1. ASSUME NEW t \in Tenants, NEW c \in Codes, NEW status \in Status,
             CreateGroup(r, scope, t, c, status)
      PROVE  Begins(r)
  <2> DEFINE ent == [tenant |-> t, code |-> c, status |-> status,
                     isDeleted |-> FALSE]
             call == [Call("createGroup", scope, r) EXCEPT !.ent = ent]
  <2>1. ent \in Group /\ ~ent.isDeleted /\ ent.tenant = t
    BY DEF Group
  <2>2. Begin(r, "createGroup", IF InScope(t, scope) THEN "code" ELSE "refused",
              call)
    BY <1>1 DEF CreateGroup
  <2> HIDE DEF ent
  <2>3. /\ call \in Frame /\ call.path = "createGroup" /\ call.scope = scope
        /\ call.target = r /\ call.ent = ent
    BY <1>k, <2>1, EntityCallFields DEF GroupIds
  <2> HIDE DEF call
  <2>4. CASE InScope(t, scope)
    <3>1. WellFormed(r, "code", call)
      BY <1>k, <2>1, <2>3, <2>4 DEF WellFormed, Opening
    <3>2. QED
      BY <2>2, <2>4, <3>1, BeginBegins
  <2>5. CASE ~InScope(t, scope)
    BY <2>2, <2>5, RefusedBegins
  <2>6. QED
    BY <2>4, <2>5
<1>2. ASSUME NEW g \in GroupIds, NEW h, GroupNotFound(r, h, scope, g)
      PROVE  Begins(r)
  BY <1>2, RefusedBegins DEF GroupNotFound
<1>3. ASSUME NEW g \in GroupIds, NEW t \in Tenants, NEW status \in Status,
             UpdateGroup(r, scope, g, t, status)
      PROVE  Begins(r)
  <2> DEFINE ent == [groups[g] EXCEPT !.status = status]
             call == [Call("updateGroup", scope, g) EXCEPT !.ent = ent]
  <2>1. /\ FoundGroup(g, scope)
        /\ Begin(r, "updateGroup",
                 IF t = groups[g].tenant THEN "reload" ELSE "refused", call)
    BY <1>3 DEF UpdateGroup
  <2>2. ent \in Group /\ ent.isDeleted = FALSE /\ ent.tenant = groups[g].tenant
    BY <2>1, FoundGroupRow DEF Group
  <2> HIDE DEF ent
  <2>3. /\ call \in Frame /\ call.path = "updateGroup" /\ call.scope = scope
        /\ call.target = g /\ call.ent = ent
    BY <1>k, <2>2, EntityCallFields
  <2> HIDE DEF call
  <2>4. WellFormed(r, "reload", call)
    BY <1>k, <2>1, <2>2, <2>3 DEF WellFormed, Opening
  <2>5. QED
    BY <2>1, <2>4, BeginBegins, RefusedBegins
<1>4. ASSUME NEW g \in GroupIds, DeleteGroup(r, scope, g)
      PROVE  Begins(r)
  <2> DEFINE ent == [groups[g] EXCEPT !.isDeleted = TRUE]
             call == [Call("deleteGroup", scope, g) EXCEPT !.ent = ent]
  <2>1. FoundGroup(g, scope) /\ Begin(r, "deleteGroup", "reload", call)
    BY <1>4 DEF DeleteGroup
  <2>2. ent \in Group /\ ent.isDeleted = TRUE /\ ent.tenant = groups[g].tenant
    BY <2>1, FoundGroupRow DEF Group
  <2> HIDE DEF ent
  <2>3. /\ call \in Frame /\ call.path = "deleteGroup" /\ call.scope = scope
        /\ call.target = g /\ call.ent = ent
    BY <1>k, <2>2, EntityCallFields
  <2> HIDE DEF call
  <2>4. WellFormed(r, "reload", call)
    BY <1>k, <2>1, <2>2, <2>3 DEF WellFormed, Opening
  <2>5. QED
    BY <2>1, <2>4, BeginBegins
<1>5. QED
  BY <1>1, <1>2, <1>3, <1>4 DEF GroupCall

\* A call that adds or takes away a link.
LEMMA LinkCallBegins ==
  ASSUME Types, NEW r \in Requests, NEW scope \in Tenants \cup {None},
         pc[r] = "idle", NEW h \in Additions \cup Removals,
         NEW target \in GroupIds \cup Users, NEW l \in PairsOf(h),
         l[1] = target, NEW st \in Opening, st \in StatementsOf(h),
         h \in Additions => st # "link",
         h \in OnGroup => FoundGroup(target, scope),
         h \in OnUser => target \in Users /\ FoundUser(target, scope),
         Begin(r, h, st, [Call(h, scope, target) EXCEPT !.link = l])
  PROVE  Begins(r)
<1> DEFINE call == [Call(h, scope, target) EXCEPT !.link = l]
<1>1. /\ h \in AllHandlers /\ h # "createGroup" /\ h \notin Saving
      /\ h \notin OnRole
  BY DEF AllHandlers, Additions, Removals, Saving, OnRole
<1>2. /\ call \in Frame /\ call.path = h /\ call.scope = scope
      /\ call.target = target /\ call.link = l
  BY <1>1, LinkCallFields, PairsInLinks
<1> HIDE DEF call
<1>3. WellFormed(r, st, call)
  BY <1>1, <1>2 DEF WellFormed
<1>4. QED
  BY <1>3, BeginBegins DEF call

LEMMA AssignmentCallBegins ==
  ASSUME Types, NEW r \in Requests, NEW scope \in Tenants \cup {None},
         pc[r] = "idle", AssignmentCall(r, scope)
  PROVE  Begins(r)
<1>1. PICK h \in Additions \cup Removals :
        \/ \E g \in GroupIds, u \in Users : ChangeMember(r, h, scope, g, u)
        \/ \E g \in GroupIds, x \in Roles : ChangeGroupRole(r, h, scope, g, x)
        \/ \E u \in Users, x \in Roles : ChangeUserRole(r, h, scope, u, x)
  BY DEF AssignmentCall
<1>2. ASSUME NEW g \in GroupIds, NEW u \in Users, ChangeMember(r, h, scope, g, u)
      PROVE  Begins(r)
  <2> DEFINE st == IF ~FoundGroup(g, scope) THEN "refused"
                   ELSE IF h = "addMember" THEN "user" ELSE "link"
  <2>1. /\ h \in {"addMember", "removeMember"}
        /\ Begin(r, h, st, [Call(h, scope, g) EXCEPT !.link = <<g, u>>])
    BY <1>2 DEF ChangeMember
  <2>2. <<g, u>> \in PairsOf(h) /\ <<g, u>>[1] = g /\ h \notin OnUser
    BY <2>1 DEF PairsOf, MemberPairs, OnUser
  <2>3. CASE st = "refused"
    BY <2>1, <2>3, RefusedBegins
  <2>4. CASE st # "refused"
    <3>1. FoundGroup(g, scope) /\ st = IF h = "addMember" THEN "user" ELSE "link"
      BY <2>4
    <3> HIDE DEF st
    <3>2. /\ st \in Opening /\ st \in StatementsOf(h)
          /\ h \in Additions => st # "link"
      BY <2>1, <3>1 DEF Opening, StatementsOf, Additions, Removals, Saving
    <3>3. QED
      BY <2>1, <2>2, <3>1, <3>2, LinkCallBegins
  <2>5. QED
    BY <2>3, <2>4
<1>3. ASSUME NEW g \in GroupIds, NEW x \in Roles,
             ChangeGroupRole(r, h, scope, g, x)
      PROVE  Begins(r)
  <2> DEFINE st == IF ~FoundGroup(g, scope) THEN "refused"
                   ELSE IF h = "assignGroupRole" THEN "role" ELSE "link"
  <2>1. /\ h \in {"assignGroupRole", "revokeGroupRole"}
        /\ Begin(r, h, st, [Call(h, scope, g) EXCEPT !.link = <<g, x>>])
    BY <1>3 DEF ChangeGroupRole
  <2>2. <<g, x>> \in PairsOf(h) /\ <<g, x>>[1] = g /\ h \notin OnUser
    BY <2>1 DEF PairsOf, GroupRolePairs, OnUser
  <2>3. CASE st = "refused"
    BY <2>1, <2>3, RefusedBegins
  <2>4. CASE st # "refused"
    <3>1. FoundGroup(g, scope) /\ st = IF h = "assignGroupRole" THEN "role" ELSE "link"
      BY <2>4
    <3> HIDE DEF st
    <3>2. /\ st \in Opening /\ st \in StatementsOf(h)
          /\ h \in Additions => st # "link"
      BY <2>1, <3>1 DEF Opening, StatementsOf, Additions, Removals, Saving
    <3>3. QED
      BY <2>1, <2>2, <3>1, <3>2, LinkCallBegins
  <2>5. QED
    BY <2>3, <2>4
<1>4. ASSUME NEW u \in Users, NEW x \in Roles, ChangeUserRole(r, h, scope, u, x)
      PROVE  Begins(r)
  <2> DEFINE st == IF ~FoundUser(u, scope) THEN "refused"
                   ELSE IF h = "assignUserRole" THEN "role" ELSE "link"
  <2>1. /\ h \in {"assignUserRole", "revokeUserRole"}
        /\ Begin(r, h, st, [Call(h, scope, u) EXCEPT !.link = <<u, x>>])
    BY <1>4 DEF ChangeUserRole
  <2>2. <<u, x>> \in PairsOf(h) /\ <<u, x>>[1] = u /\ h \notin OnGroup
    BY <2>1 DEF PairsOf, UserRolePairs, OnGroup
  <2>3. CASE st = "refused"
    BY <2>1, <2>3, RefusedBegins
  <2>4. CASE st # "refused"
    <3>1. FoundUser(u, scope) /\ st = IF h = "assignUserRole" THEN "role" ELSE "link"
      BY <2>4
    <3> HIDE DEF st
    <3>2. /\ st \in Opening /\ st \in StatementsOf(h)
          /\ h \in Additions => st # "link"
      BY <2>1, <3>1 DEF Opening, StatementsOf, Additions, Removals, Saving
    <3>3. QED
      BY <2>1, <2>2, <3>1, <3>2, LinkCallBegins
  <2>5. QED
    BY <2>3, <2>4
<1>5. QED
  BY <1>1, <1>2, <1>3, <1>4

LEMMA OtherCallBegins ==
  ASSUME Types, NEW r \in Requests, NEW scope \in Tenants \cup {None},
         pc[r] = "idle", OtherCall(r, scope)
  PROVE  Begins(r)
<1>k. /\ "updateRole" \in AllHandlers /\ "deleteRole" \in AllHandlers
      /\ \A h \in {"updateRole", "deleteRole"} :
           /\ h \in AllHandlers /\ h \in OnRole /\ h \in Saving
           /\ h \notin OnGroup /\ h \notin OnUser /\ h # "createGroup"
           /\ h \notin Additions \cup Removals
           /\ "reload" \in StatementsOf(h)
      /\ "deleteUser" \in AllHandlers /\ "deleteUser" \in OnUser
      /\ "deleteUser" \notin Saving \cup OnGroup \cup OnRole
      /\ "deleteUser" \notin Additions \cup Removals
      /\ "saveUser" \in StatementsOf("deleteUser")
  BY DEF AllHandlers, GroupHandlers, OnGroup, OnRole, OnUser, Saving, Additions,
     Removals, StatementsOf
<1>1. ASSUME NEW x \in Roles, NEW status \in Status,
             UpdateRole(r, scope, x, status)
      PROVE  Begins(r)
  <2> DEFINE ent == [roles[x] EXCEPT !.status = status]
             call == [Call("updateRole", scope, x) EXCEPT !.ent = ent]
  <2>1. Begin(r, "updateRole",
              IF MutableRole(x, scope) THEN "reload" ELSE "refused", call)
    BY <1>1 DEF UpdateRole
  <2>2. /\ ent \in Role /\ ent.isDeleted = roles[x].isDeleted
        /\ ent.tenant = roles[x].tenant /\ roles[x].isDeleted \in BOOLEAN
    BY RoleRow DEF Role
  <2> HIDE DEF ent
  <2>3. /\ call \in Frame /\ call.path = "updateRole" /\ call.scope = scope
        /\ call.target = x /\ call.ent = ent
    BY <1>k, <2>2, EntityCallFields
  <2> HIDE DEF call
  <2>4. ASSUME MutableRole(x, scope)
        PROVE  WellFormed(r, "reload", call)
    <3>1. ent.isDeleted = FALSE
      BY <2>2, <2>4 DEF MutableRole
    <3>2. QED
      BY <1>k, <2>2, <2>3, <2>4, <3>1 DEF WellFormed, Opening
  <2>5. QED
    BY <2>1, <2>4, BeginBegins, RefusedBegins
<1>2. ASSUME NEW x \in Roles, DeleteRole(r, scope, x)
      PROVE  Begins(r)
  <2> DEFINE ent == [roles[x] EXCEPT !.isDeleted = TRUE]
             call == [Call("deleteRole", scope, x) EXCEPT !.ent = ent]
  <2>1. Begin(r, "deleteRole",
              IF MutableRole(x, scope) THEN "reload" ELSE "refused", call)
    BY <1>2 DEF DeleteRole
  <2>2. ent \in Role /\ ent.isDeleted = TRUE /\ ent.tenant = roles[x].tenant
    BY RoleRow DEF Role
  <2> HIDE DEF ent
  <2>3. /\ call \in Frame /\ call.path = "deleteRole" /\ call.scope = scope
        /\ call.target = x /\ call.ent = ent
    BY <1>k, <2>2, EntityCallFields
  <2> HIDE DEF call
  <2>4. ASSUME MutableRole(x, scope)
        PROVE  WellFormed(r, "reload", call)
    BY <1>k, <2>2, <2>3, <2>4 DEF WellFormed, Opening
  <2>5. QED
    BY <2>1, <2>4, BeginBegins, RefusedBegins
<1>3. ASSUME NEW u \in Users, DeleteUser(r, scope, u)
      PROVE  Begins(r)
  <2> DEFINE call == Call("deleteUser", scope, u)
  <2>1. Begin(r, "deleteUser",
              IF FoundUser(u, scope) THEN "saveUser" ELSE "refused", call)
    BY <1>3 DEF DeleteUser
  <2>2. /\ call \in Frame /\ call.path = "deleteUser" /\ call.scope = scope
        /\ call.target = u
    BY <1>k, CallFields
  <2> HIDE DEF call
  <2>3. ASSUME FoundUser(u, scope)
        PROVE  WellFormed(r, "saveUser", call)
    BY <1>k, <2>2, <2>3 DEF WellFormed, Opening
  <2>4. QED
    BY <2>1, <2>3, BeginBegins, RefusedBegins
<1>4. QED
  BY <1>1, <1>2, <1>3 DEF OtherCall

LEMMA RequestBegins ==
  ASSUME Types, NEW r \in Requests, Request(r)
  PROVE  Begins(r)
BY GroupCallBegins, AssignmentCallBegins, OtherCallBegins DEF Request

-----------------------------------------------------------------------------
(* What no step undoes *)

\* No row goes or changes its tenant, no link loses its row, and no request but
\* r adds the group that is named after it.
RowsKept(r) ==
  /\ groups' \in [GroupIds -> Group \cup {None}]
  /\ users' \in [Users -> User]
  /\ roles' \in [Roles -> Role]
  /\ links' \in [Links -> Presence]
  /\ \A g \in StoredGroups :
       g \in StoredGroups' /\ groups'[g].tenant = groups[g].tenant
  /\ \A x \in Requests \ {r} : groups[x] = None => groups'[x] = None
  /\ \A u \in Users : users'[u].tenant = users[u].tenant
  /\ \A x \in Roles : roles'[x].tenant = roles[x].tenant
  /\ \A l \in Links : links[l] # "none" => links'[l] # "none"

LEMMA SameRowsKept ==
  ASSUME Types, NEW r, UNCHANGED tables
  PROVE  RowsKept(r)
BY DEF RowsKept, Types, tables, StoredGroups

\* Links join a group or a user with a user or a role.
LEMMA LinkEnds ==
  ASSUME NEW l \in Links
  PROVE  /\ l \in MemberPairs => l[1] \in GroupIds /\ l[2] \in Users
         /\ l \in GroupRolePairs => l[1] \in GroupIds /\ l[2] \in Roles
         /\ l \in UserRolePairs => l[1] \in Users /\ l[2] \in Roles
         /\ l \notin MemberPairs /\ l \notin GroupRolePairs => l \in UserRolePairs
         /\ l \in UserRolePairs => l \notin MemberPairs /\ l \notin GroupRolePairs
         /\ l \in GroupRolePairs => l \notin MemberPairs
BY MembershipIdsAssumption
   DEF Links, MemberPairs, GroupRolePairs, UserRolePairs

\* Rows of one tenant stay rows of one tenant.
LEMMA SameTenantKept ==
  ASSUME Types, NEW r, RowsKept(r), NEW l \in Links,
         l[1] \in StoredGroups \cup Users, SameTenant(l)
  PROVE  SameTenant(l)'
<1>1. ASSUME l \in MemberPairs
      PROVE  users'[l[2]].tenant = groups'[l[1]].tenant
  <2>1. l[1] \in StoredGroups /\ l[2] \in Users
    BY <1>1, LinkEnds, MembershipIdsAssumption
  <2>2. QED
    BY <1>1, <2>1 DEF SameTenant, RowsKept
<1>2. ASSUME l \in GroupRolePairs
      PROVE  roles'[l[2]].tenant \in {None, groups'[l[1]].tenant}
  <2>1. l[1] \in StoredGroups /\ l[2] \in Roles
    BY <1>2, LinkEnds, MembershipIdsAssumption
  <2>2. QED
    BY <1>2, <2>1 DEF SameTenant, RowsKept
<1>3. ASSUME l \in UserRolePairs
      PROVE  roles'[l[2]].tenant \in {None, users'[l[1]].tenant}
  <2>1. l[1] \in Users /\ l[2] \in Roles
    BY <1>3, LinkEnds
  <2>2. QED
    BY <1>3, <2>1 DEF SameTenant, RowsKept
<1>4. QED
  BY <1>1, <1>2, <1>3 DEF SameTenant

\* The link of a request joins what its target fits to.
LEMMA LinkAt ==
  ASSUME NEW r \in Requests, TargetFits(r), LinkFits(r),
         frame[r].path \in Additions \cup Removals
  PROVE  /\ frame[r].link \in Links
         /\ frame[r].link[1] = frame[r].target
         /\ frame[r].link[1] \in StoredGroups \cup Users
<1>1. frame[r].link \in PairsOf(frame[r].path) /\ frame[r].link[1] = frame[r].target
  BY DEF LinkFits
<1>2. frame[r].target \in StoredGroups \cup Users
  BY PathKinds DEF TargetFits
<1>3. QED
  BY <1>1, <1>2, PairsInLinks

\* A request is not concerned by a step that leaves its own variables alone and
\* keeps the rows.
LEMMA OtherFrames ==
  ASSUME Types, NEW r, RowsKept(r), NEW x \in Requests \ {r}, FrameFits(x),
         pc'[x] = pc[x], frame'[x] = frame[x]
  PROVE  FrameFits(x)'
<1>1. TargetFits(x)'
  BY PathKinds DEF FrameFits, TargetFits, RowsKept
<1>2. EntityFits(x)'
  <2>1. TargetFits(x) /\ EntityFits(x)
    BY DEF FrameFits
  <2>2. ASSUME frame[x].path \in Saving \cap OnGroup
        PROVE  frame[x].ent.tenant = groups'[frame[x].target].tenant
    BY <2>1, <2>2 DEF TargetFits, EntityFits, RowsKept
  <2>3. ASSUME frame[x].path \in OnRole
        PROVE  frame[x].ent.tenant = roles'[frame[x].target].tenant
    BY <2>1, <2>3 DEF TargetFits, EntityFits, RowsKept
  <2>4. QED
    BY <2>1, <2>2, <2>3 DEF EntityFits
<1>3. LinkFits(x)'
  <2> SUFFICES ASSUME frame[x].path \in Additions \cup Removals
               PROVE  LinkFits(x)'
    BY DEF LinkFits
  <2>1. LinkFits(x) /\ TargetFits(x)
    BY DEF FrameFits
  <2>2. /\ frame[x].link \in Links
        /\ frame[x].link[1] \in StoredGroups \cup Users
    BY <2>1, LinkAt
  <2>3. SameTenant(frame[x].link) => SameTenant(frame[x].link)'
    <3>1. \A l \in Links :
            l[1] \in StoredGroups \cup Users /\ SameTenant(l) =>
              /\ l \in MemberPairs =>
                   users'[l[2]].tenant = groups'[l[1]].tenant
              /\ l \in GroupRolePairs =>
                   roles'[l[2]].tenant \in {None, groups'[l[1]].tenant}
              /\ l \in UserRolePairs =>
                   roles'[l[2]].tenant \in {None, users'[l[1]].tenant}
      BY SameTenantKept DEF SameTenant
    <3>2. QED
      BY <2>2, <3>1 DEF SameTenant
  <2>4. QED
    BY <2>1, <2>2, <2>3 DEF LinkFits, RowsKept
<1>4. QED
  BY <1>1, <1>2, <1>3 DEF FrameFits

\* A request that goes on with the frame it has.
LEMMA MovedFrame ==
  ASSUME Shape, NEW r \in Requests, pc[r] \in Statements, RowsKept(r),
         frame'[r] = frame[r], NEW next \in StatementsOf(frame[r].path),
         pc'[r] = next, next # "write",
         frame[r].path = "createGroup" /\ next # "audit" => groups'[r] = None,
         frame[r].path \in Additions /\ next \in {"link", "insertLink", "saveLink"}
           => SameTenant(frame[r].link),
         next = "saveLink" => links[frame[r].link] # "none"
  PROVE  FrameFits(r)'
<1>1. /\ frame[r].path \in AllHandlers
      /\ TargetFits(r) /\ EntityFits(r) /\ LinkFits(r)
  BY FrameAt
<1>2. TargetFits(r)'
  BY <1>1 DEF TargetFits, RowsKept
<1>3. EntityFits(r)'
  <2>1. ASSUME frame[r].path \in Saving \cap OnGroup
        PROVE  frame[r].ent.tenant = groups'[frame[r].target].tenant
    BY <1>1, <2>1 DEF TargetFits, EntityFits, RowsKept
  <2>2. ASSUME frame[r].path \in OnRole
        PROVE  frame[r].ent.tenant = roles'[frame[r].target].tenant
    BY <1>1, <2>2 DEF TargetFits, EntityFits, RowsKept
  <2>3. QED
    BY <1>1, <2>1, <2>2 DEF EntityFits
<1>4. LinkFits(r)'
  <2> SUFFICES ASSUME frame[r].path \in Additions \cup Removals
               PROVE  LinkFits(r)'
    BY DEF LinkFits
  <2>1. /\ frame[r].link \in Links
        /\ frame[r].link[1] \in StoredGroups \cup Users
    BY <1>1, LinkAt
  <2>2. \A l \in Links :
          l[1] \in StoredGroups \cup Users /\ SameTenant(l) =>
            /\ l \in MemberPairs =>
                 users'[l[2]].tenant = groups'[l[1]].tenant
            /\ l \in GroupRolePairs =>
                 roles'[l[2]].tenant \in {None, groups'[l[1]].tenant}
            /\ l \in UserRolePairs =>
                 roles'[l[2]].tenant \in {None, users'[l[1]].tenant}
    BY SameTenantKept DEF SameTenant, Shape
  <2>3. SameTenant(frame[r].link) => SameTenant(frame[r].link)'
    BY <2>1, <2>2 DEF SameTenant
  <2>4. QED
    BY <1>1, <2>1, <2>3 DEF LinkFits, RowsKept
<1>5. QED
  BY <1>1, <1>2, <1>3, <1>4 DEF FrameFits

\* A step of request r keeps the shape of everything when it keeps the rows,
\* adds links of one tenant only and leaves r a frame that fits.
LEMMA StepShape ==
  ASSUME Shape, NEW r \in Requests, RowsKept(r),
         NEW st \in Statements \cup Outcomes, NEW f \in Frame,
         pc' = [pc EXCEPT ![r] = st], frame' = [frame EXCEPT ![r] = f],
         audit' \subseteq
           {Action[h] : h \in AllHandlers} \X (GroupIds \cup Users \cup Roles),
         overlapped' \in BOOLEAN,
         \A l \in Links : links[l] = "none" /\ links'[l] # "none" =>
           l[1] \in StoredGroups \cup Users /\ SameTenant(l),
         pc'[r] = st /\ frame'[r] = f /\ st \in Statements => FrameFits(r)'
  PROVE  Shape'
<1>1. /\ pc'[r] = st /\ frame'[r] = f
      /\ \A x \in Requests \ {r} : pc'[x] = pc[x] /\ frame'[x] = frame[x]
      /\ Types /\ FramesFit /\ LinksFit
  BY DEF Shape, Types
<1>2. Types'
  BY <1>1 DEF Types, RowsKept
<1>3. ASSUME NEW x \in Requests, pc'[x] \in Statements
      PROVE  FrameFits(x)'
  <2>1. CASE x = r
    BY <1>1, <1>3, <2>1
  <2>2. CASE x # r
    <3>1. FrameFits(x)
      BY <1>1, <1>3, <2>2 DEF FramesFit, InFlight
    <3>2. QED
      BY <1>1, <2>2, <3>1, OtherFrames
  <2>3. QED
    BY <2>1, <2>2
<1>4. ASSUME NEW x \in Requests, pc'[x] = "idle"
      PROVE  groups'[x] = None
  <2>1. x # r
    BY <1>1, <1>4 DEF Statements, Outcomes
  <2>2. QED
    BY <1>1, <1>4, <2>1 DEF FramesFit, RowsKept
<1>5. FramesFit'
  BY <1>3, <1>4 DEF FramesFit, InFlight
<1>6. LinksFit'
  <2> SUFFICES ASSUME NEW l \in Links, links'[l] # "none"
               PROVE  l[1] \in StoredGroups' \cup Users /\ SameTenant(l)'
    BY DEF LinksFit
  <2>1. l[1] \in StoredGroups \cup Users /\ SameTenant(l)
    BY <1>1 DEF LinksFit
  <2>2. QED
    BY <1>1, <2>1, SameTenantKept DEF RowsKept
<1>7. QED
  BY <1>2, <1>5, <1>6 DEF Shape

\* The frame a statement leaves when the request goes on or ends.
LEMMA GotoFrame ==
  ASSUME Types, NEW r \in Requests, NEW st, Goto(r, st)
  PROVE  LET f == IF st \in Outcomes THEN NoCall ELSE frame[r] IN
         /\ pc' = [pc EXCEPT ![r] = st]
         /\ frame' = [frame EXCEPT ![r] = f]
         /\ f \in Frame
         /\ pc'[r] = st
         /\ st \notin Outcomes => frame'[r] = frame[r]
BY NoCallType DEF Goto, Types

\* A statement that changes at most the rows and moves request r on.
LEMMA GotoShape ==
  ASSUME Shape, NEW r \in Requests, pc[r] \in Statements, RowsKept(r),
         NEW st \in Outcomes \cup StatementsOf(frame[r].path), Goto(r, st),
         audit' \subseteq
           {Action[h] : h \in AllHandlers} \X (GroupIds \cup Users \cup Roles),
         overlapped' = overlapped,
         \A l \in Links : links[l] = "none" /\ links'[l] # "none" =>
           l[1] \in StoredGroups \cup Users /\ SameTenant(l),
         st # "write",
         frame[r].path = "createGroup" /\ st \notin Outcomes \cup {"audit"} =>
           groups'[r] = None,
         frame[r].path \in Additions /\ st \in {"link", "insertLink", "saveLink"}
           => SameTenant(frame[r].link),
         st = "saveLink" => links[frame[r].link] # "none"
  PROVE  Shape'
<1> DEFINE f == IF st \in Outcomes THEN NoCall ELSE frame[r]
<1>1. /\ pc' = [pc EXCEPT ![r] = st] /\ frame' = [frame EXCEPT ![r] = f]
      /\ f \in Frame /\ pc'[r] = st
      /\ st \notin Outcomes => frame'[r] = frame[r]
  BY GotoFrame DEF Shape
<1>2. st \in Statements \cup Outcomes
  BY FrameAt, PathOf
<1>3. st \in Statements => st \notin Outcomes
  BY DEF Statements, Outcomes
<1>4. overlapped' \in BOOLEAN
  BY DEF Shape, Types
<1> HIDE DEF f
<1>5. ASSUME st \in Statements
      PROVE  FrameFits(r)'
  BY <1>1, <1>3, <1>5, MovedFrame
<1>6. QED
  BY <1>1, <1>2, <1>4, <1>5, StepShape

LEMMA BeginsShape ==
  ASSUME Shape, NEW r \in Requests, Begins(r)
  PROVE  Shape'
<1>1. UNCHANGED tables /\ audit' = audit /\ overlapped' \in BOOLEAN
  BY DEF Begins, Shape, Types
<1>2. RowsKept(r)
  BY <1>1, SameRowsKept DEF Shape
<1>3. /\ \A l \in Links : ~(links[l] = "none" /\ links'[l] # "none")
      /\ audit' \subseteq
           {Action[h] : h \in AllHandlers} \X (GroupIds \cup Users \cup Roles)
  BY <1>1 DEF tables, Shape, Types
<1>4. CASE pc' = [pc EXCEPT ![r] = "refused"]
           /\ frame' = [frame EXCEPT ![r] = NoCall]
  BY <1>1, <1>2, <1>3, <1>4, NoCallType, StepShape DEF Outcomes, Statements
<1>5. ASSUME NEW st \in Opening, NEW c \in Frame, WellFormed(r, st, c),
             pc' = [pc EXCEPT ![r] = st], frame' = [frame EXCEPT ![r] = c]
      PROVE  Shape'
  <2>1. groups[r] = None
    BY DEF Begins, Shape, FramesFit
  <2>2. ASSUME pc'[r] = st, frame'[r] = c
        PROVE  FrameFits(r)'
    <3>1. groups' = groups /\ StoredGroups' = StoredGroups /\ roles' = roles
          /\ users' = users /\ links' = links
      BY <1>1 DEF tables, StoredGroups
    <3>2. TargetFits(r)'
      BY <1>5, <2>1, <2>2, <3>1
         DEF WellFormed, TargetFits, FoundGroup, FoundUser, MutableRole
    <3>3. EntityFits(r)'
      BY <1>5, <2>2, <3>1 DEF WellFormed, EntityFits, Opening
    <3>4. LinkFits(r)'
      BY <1>5, <2>2, <3>1 DEF WellFormed, LinkFits, Opening
    <3>5. QED
      BY <1>5, <2>2, <3>2, <3>3, <3>4 DEF WellFormed, FrameFits
  <2>3. st \in Statements
    BY DEF Opening, Statements
  <2>4. QED
    BY <1>1, <1>2, <1>3, <1>5, <2>2, <2>3, StepShape
<1>6. QED
  BY <1>4, <1>5 DEF Begins

\* A statement that changes no row.
LEMMA QuietShape ==
  ASSUME Shape, NEW r \in Requests, pc[r] \in Statements,
         NEW st \in Outcomes \cup StatementsOf(frame[r].path), Goto(r, st),
         UNCHANGED <<tables, audit, overlapped>>,
         st # "write",
         frame[r].path = "createGroup" /\ st \notin Outcomes \cup {"audit"} =>
           pc[r] # "audit",
         frame[r].path \in Additions /\ st \in {"link", "insertLink", "saveLink"}
           => SameTenant(frame[r].link),
         st = "saveLink" => links[frame[r].link] # "none"
  PROVE  Shape'
<1>1. RowsKept(r)
  BY SameRowsKept DEF Shape
<1>2. /\ \A l \in Links : ~(links[l] = "none" /\ links'[l] # "none")
      /\ audit' \subseteq
           {Action[h] : h \in AllHandlers} \X (GroupIds \cup Users \cup Roles)
  BY DEF tables, Shape, Types
<1>3. frame[r].path = "createGroup" /\ st \notin Outcomes \cup {"audit"} =>
        groups'[r] = None
  BY FrameAt DEF TargetFits, tables
<1>4. QED
  BY <1>1, <1>2, <1>3, GotoShape

LEMMA CheckCodeShape ==
  ASSUME Shape, NEW r \in Requests, CheckCode(r)
  PROVE  Shape'
<1>1. PICK st \in {"insertGroup", "refused"} :
        pc[r] = "code" /\ Goto(r, st) /\ UNCHANGED <<tables, audit, overlapped>>
  BY DEF CheckCode, Check
<1>2. pc[r] \in Statements
  BY <1>1 DEF Statements
<1>3. frame[r].path = "createGroup"
  BY <1>1, <1>2, FrameAt, PathOf
<1>4. st \in Outcomes \cup StatementsOf(frame[r].path) /\ frame[r].path \notin Additions
  BY <1>3 DEF Outcomes, StatementsOf, Additions, Removals, Saving
<1>5. QED
  BY <1>1, <1>2, <1>4, QuietShape

LEMMA CheckUserShape ==
  ASSUME Shape, NEW r \in Requests, CheckUser(r)
  PROVE  Shape'
<1> DEFINE l == frame[r].link
           holds == ~users[l[2]].isDeleted
                      /\ users[l[2]].tenant = groups[frame[r].target].tenant
<1>1. /\ pc[r] = "user" /\ UNCHANGED <<tables, audit, overlapped>>
      /\ Goto(r, IF holds THEN "link" ELSE "refused")
  BY DEF CheckUser, Check
<1>2. pc[r] \in Statements
  BY <1>1 DEF Statements
<1>3. frame[r].path = "addMember" /\ LinkFits(r)
  BY <1>1, <1>2, FrameAt, PathOf
<1>4. l \in MemberPairs /\ l[1] = frame[r].target
  BY <1>3 DEF LinkFits, PairsOf, Additions
<1>5. ASSUME holds
      PROVE  SameTenant(l)
  BY <1>4, <1>5, LinkEnds DEF SameTenant, Links
<1>6. /\ "link" \in StatementsOf(frame[r].path) /\ "refused" \in Outcomes
      /\ frame[r].path # "createGroup"
  BY <1>3 DEF StatementsOf, Outcomes, Saving
<1>7. CASE holds
  BY <1>1, <1>2, <1>5, <1>6, <1>7, QuietShape
<1>8. CASE ~holds
  BY <1>1, <1>2, <1>6, <1>8, QuietShape
<1>9. QED
  BY <1>7, <1>8

LEMMA CheckRoleShape ==
  ASSUME Shape, NEW r \in Requests, CheckRole(r)
  PROVE  Shape'
<1> DEFINE l == frame[r].link
           holds == AssignableRole(l[2], TargetTenant(r))
<1>1. /\ pc[r] = "role" /\ UNCHANGED <<tables, audit, overlapped>>
      /\ Goto(r, IF holds THEN "link" ELSE "refused")
  BY DEF CheckRole, Check
<1>2. pc[r] \in Statements
  BY <1>1 DEF Statements
<1>3. /\ frame[r].path \in {"assignGroupRole", "assignUserRole"}
      /\ LinkFits(r) /\ TargetFits(r)
  BY <1>1, <1>2, FrameAt, PathOf
<1>4. /\ l \in PairsOf(frame[r].path) /\ l[1] = frame[r].target /\ l \in Links
  BY <1>3, PairsInLinks DEF LinkFits, Additions
<1>5. ASSUME holds
      PROVE  SameTenant(l)
  <2>1. CASE frame[r].path = "assignGroupRole"
    <3>1. l \in GroupRolePairs
      BY <1>4, <2>1 DEF PairsOf
    <3>2. roles[l[2]].tenant \in {None, groups[l[1]].tenant}
      BY <1>4, <1>5, <2>1 DEF AssignableRole, TargetTenant
    <3>3. QED
      BY <1>4, <3>1, <3>2, LinkEnds DEF SameTenant
  <2>2. CASE frame[r].path = "assignUserRole"
    <3>1. l \in UserRolePairs
      BY <1>4, <2>2 DEF PairsOf
    <3>2. roles[l[2]].tenant \in {None, users[l[1]].tenant}
      BY <1>4, <1>5, <2>2 DEF AssignableRole, TargetTenant
    <3>3. QED
      BY <1>4, <3>1, <3>2, LinkEnds DEF SameTenant
  <2>3. QED
    BY <1>3, <2>1, <2>2
<1>6. /\ "link" \in StatementsOf(frame[r].path) /\ "refused" \in Outcomes
      /\ frame[r].path # "createGroup"
  BY <1>3 DEF StatementsOf, Outcomes, Saving, Additions
<1>7. CASE holds
  BY <1>1, <1>2, <1>5, <1>6, <1>7, QuietShape
<1>8. CASE ~holds
  BY <1>1, <1>2, <1>6, <1>8, QuietShape
<1>9. QED
  BY <1>7, <1>8

LEMMA FindLinkShape ==
  ASSUME Shape, NEW r \in Requests, FindLink(r)
  PROVE  Shape'
<1>1. pc[r] = "link" /\ UNCHANGED <<tables, audit, overlapped>>
  BY DEF FindLink
<1>2. pc[r] \in Statements
  BY <1>1 DEF Statements
<1>3. frame[r].path \in Additions \cup Removals /\ LinkFits(r)
  BY <1>1, <1>2, FrameAt, PathOf
<1>4. frame[r].path \in Additions => SameTenant(frame[r].link)
  BY <1>1, <1>3 DEF LinkFits
<1>5. PICK st \in {"insertLink", "saveLink", "refused"} :
        /\ Goto(r, st)
        /\ st = "insertLink" => frame[r].path \in Additions
        /\ st = "saveLink" => links[frame[r].link] # "none"
  BY DEF FindLink
<1>6. st \in Outcomes \cup StatementsOf(frame[r].path)
  BY <1>3, <1>5 DEF StatementsOf, Outcomes, Saving, Additions, Removals
<1>7. frame[r].path # "createGroup"
  BY <1>3 DEF Additions, Removals
<1>8. QED
  BY <1>1, <1>2, <1>4, <1>5, <1>6, <1>7, QuietShape

\* A statement that changes the links alone.
LEMMA LinksShape ==
  ASSUME Shape, NEW r \in Requests, pc[r] \in Statements,
         NEW st \in Outcomes \cup {"dropRoles", "audit"}, Goto(r, st),
         st \in Outcomes \cup StatementsOf(frame[r].path),
         frame[r].path # "createGroup",
         UNCHANGED <<groups, users, roles, audit, overlapped>>,
         links' \in [Links -> Presence],
         \A l \in Links :
           /\ links[l] # "none" => links'[l] # "none"
           /\ links[l] = "none" /\ links'[l] # "none" =>
                l[1] \in StoredGroups \cup Users /\ SameTenant(l)
  PROVE  Shape'
<1>1. RowsKept(r)
  BY DEF RowsKept, Shape, Types, StoredGroups
<1>2. audit' \subseteq
        {Action[h] : h \in AllHandlers} \X (GroupIds \cup Users \cup Roles)
  BY DEF Shape, Types
<1>3. st \notin {"write", "link", "insertLink", "saveLink"}
  BY DEF Outcomes
<1>4. QED
  BY <1>1, <1>2, <1>3, GotoShape

\* One UPDATE of a group's live rows in one table.
LEMMA DropLinks ==
  ASSUME Types, NEW r, NEW pairs, Drop(r, pairs)
  PROVE  /\ links' \in [Links -> Presence]
         /\ \A l \in Links :
              /\ links[l] # "none" <=> links'[l] # "none"
              /\ l \in LinksOf(frame[r].target) \cap pairs => links'[l] = "deleted"
              /\ l \notin LinksOf(frame[r].target) \cap pairs => links'[l] = links[l]
BY DEF Drop, Types, Presence, LinksOf, LiveLinks

LEMMA DropMembersShape ==
  ASSUME Shape, NEW r \in Requests, DropMembers(r)
  PROVE  Shape'
<1>1. /\ pc[r] = "dropMembers" /\ Goto(r, "dropRoles")
      /\ UNCHANGED <<groups, users, roles, audit, overlapped>>
      /\ Drop(r, MemberPairs)
  BY DEF DropMembers, AfterMembers
<1>2. pc[r] \in Statements
  BY <1>1 DEF Statements
<1>3. frame[r].path = "deleteGroup"
  BY <1>1, <1>2, FrameAt, PathOf
<1>4. "dropRoles" \in StatementsOf(frame[r].path)
  BY <1>3 DEF StatementsOf, Additions, Removals, Saving
<1>5. QED
  BY <1>1, <1>2, <1>3, <1>4, DropLinks, LinksShape DEF Shape

LEMMA DropRolesShape ==
  ASSUME Shape, NEW r \in Requests, DropRoles(r)
  PROVE  Shape'
<1>1. /\ pc[r] = "dropRoles" /\ Goto(r, "audit")
      /\ UNCHANGED <<groups, users, roles, audit, overlapped>>
      /\ Drop(r, GroupRolePairs)
  BY DEF DropRoles
<1>2. pc[r] \in Statements
  BY <1>1 DEF Statements
<1>3. frame[r].path = "deleteGroup"
  BY <1>1, <1>2, FrameAt, PathOf
<1>4. "audit" \in StatementsOf(frame[r].path)
  BY <1>3 DEF StatementsOf, Additions, Removals, Saving
<1>5. QED
  BY <1>1, <1>2, <1>3, <1>4, DropLinks, LinksShape DEF Shape

\* The link a request is about to write.
LEMMA LinkToWrite ==
  ASSUME Shape, NEW r \in Requests, pc[r] \in {"insertLink", "saveLink"}
  PROVE  /\ frame[r].path \in Additions \cup Removals
         /\ frame[r].path # "createGroup"
         /\ "audit" \in StatementsOf(frame[r].path)
         /\ frame[r].link \in Links
         /\ frame[r].link[1] = frame[r].target
         /\ frame[r].link[1] \in StoredGroups \cup Users
         /\ SameTenant(frame[r].link)
         /\ pc[r] = "insertLink" => frame[r].path \in Additions
         /\ pc[r] = "saveLink" => links[frame[r].link] # "none"
<1>1. pc[r] \in Statements
  BY DEF Statements
<1>2. /\ frame[r].path \in Additions \cup Removals
      /\ TargetFits(r) /\ LinkFits(r)
      /\ pc[r] = "insertLink" => frame[r].path \in Additions
  BY <1>1, FrameAt, PathOf
<1>3. /\ frame[r].path # "createGroup"
      /\ "audit" \in StatementsOf(frame[r].path)
  BY <1>2 DEF StatementsOf, Additions, Removals, Saving
<1>4. /\ frame[r].link \in Links
      /\ frame[r].link[1] = frame[r].target
      /\ frame[r].link[1] \in StoredGroups \cup Users
  BY <1>2, LinkAt
<1>5. pc[r] = "saveLink" => links[frame[r].link] # "none"
  BY <1>2 DEF LinkFits
<1>6. SameTenant(frame[r].link)
  <2>1. CASE frame[r].path \in Additions
    BY <1>2, <2>1 DEF LinkFits
  <2>2. CASE frame[r].path \notin Additions
    BY <1>2, <1>4, <1>5, <2>2 DEF Shape, LinksFit
  <2>3. QED
    BY <2>1, <2>2
<1>7. QED
  BY <1>2, <1>3, <1>4, <1>5, <1>6

LEMMA InsertLinkShape ==
  ASSUME Shape, NEW r \in Requests, InsertLink(r)
  PROVE  Shape'
<1> DEFINE l == frame[r].link
<1>1. /\ pc[r] = "insertLink"
      /\ UNCHANGED <<groups, users, roles, audit, overlapped>>
      /\ \/ links' = [links EXCEPT ![l] = "live"] /\ Goto(r, "audit")
         \/ links' = links /\ Goto(r, "conflict")
  BY DEF InsertLink
<1>2. pc[r] \in Statements
  BY <1>1 DEF Statements
<1>3. /\ l \in Links /\ l[1] \in StoredGroups \cup Users /\ SameTenant(l)
      /\ "audit" \in StatementsOf(frame[r].path)
      /\ frame[r].path # "createGroup"
  BY <1>1, LinkToWrite
<1> HIDE DEF l
<1>4. /\ links' \in [Links -> Presence]
      /\ \A k \in Links :
           /\ links[k] # "none" => links'[k] # "none"
           /\ links[k] = "none" /\ links'[k] # "none" => k = l
  BY <1>1, <1>3 DEF Shape, Types, Presence
<1>5. CASE Goto(r, "audit")
  BY <1>1, <1>2, <1>3, <1>4, <1>5, LinksShape
<1>6. CASE Goto(r, "conflict")
  BY <1>1, <1>2, <1>3, <1>4, <1>6, LinksShape DEF Outcomes
<1>7. QED
  BY <1>1, <1>5, <1>6

LEMMA SaveLinkShape ==
  ASSUME Shape, NEW r \in Requests, SaveLink(r)
  PROVE  Shape'
<1> DEFINE l == frame[r].link
           new == IF frame[r].path \in Additions THEN "live" ELSE "deleted"
<1>1. /\ pc[r] = "saveLink"
      /\ UNCHANGED <<groups, users, roles, audit, overlapped>>
      /\ links' = [links EXCEPT ![l] = new] /\ Goto(r, "audit")
  BY DEF SaveLink
<1>2. pc[r] \in Statements
  BY <1>1 DEF Statements
<1>3. /\ l \in Links /\ links[l] # "none"
      /\ "audit" \in StatementsOf(frame[r].path)
      /\ frame[r].path # "createGroup"
  BY <1>1, LinkToWrite
<1>4. new \in Presence \ {"none"}
  BY DEF Presence
<1> HIDE DEF l, new
<1>5. /\ links' \in [Links -> Presence]
      /\ \A k \in Links : links[k] # "none" <=> links'[k] # "none"
  BY <1>1, <1>3, <1>4 DEF Shape, Types
<1>6. QED
  BY <1>1, <1>2, <1>3, <1>5, LinksShape

LEMMA SaveUserShape ==
  ASSUME Shape, NEW r \in Requests, SaveUser(r)
  PROVE  Shape'
<1> DEFINE u == frame[r].target
<1>1. /\ pc[r] = "saveUser" /\ Goto(r, "audit")
      /\ UNCHANGED <<groups, roles, links, audit, overlapped>>
      /\ users' = [users EXCEPT ![u] = [users[u] EXCEPT !.isDeleted = TRUE]]
  BY DEF SaveUser
<1>2. pc[r] \in Statements
  BY <1>1 DEF Statements
<1>3. frame[r].path = "deleteUser" /\ TargetFits(r)
  BY <1>1, <1>2, FrameAt, PathOf
<1>4. u \in Users
  BY <1>3 DEF TargetFits, OnUser
<1>5. users[u] \in User
  BY <1>4 DEF Shape, Types
<1>6. /\ [users[u] EXCEPT !.isDeleted = TRUE] \in User
      /\ [users[u] EXCEPT !.isDeleted = TRUE].tenant = users[u].tenant
  BY <1>5 DEF User
<1> HIDE DEF u
<1>7. RowsKept(r)
  BY <1>1, <1>4, <1>6 DEF RowsKept, Shape, Types, StoredGroups
<1>8. "audit" \in StatementsOf(frame[r].path) /\ frame[r].path # "createGroup"
  BY <1>3 DEF StatementsOf, Additions, Removals, Saving
<1>9. /\ \A l \in Links : ~(links[l] = "none" /\ links'[l] # "none")
      /\ audit' \subseteq
           {Action[h] : h \in AllHandlers} \X (GroupIds \cup Users \cup Roles)
  BY <1>1 DEF Shape, Types
<1>10. QED
  BY <1>1, <1>2, <1>7, <1>8, <1>9, GotoShape

LEMMA InsertGroupShape ==
  ASSUME Shape, NEW r \in Requests, InsertGroup(r)
  PROVE  Shape'
<1> DEFINE new == frame[r].ent
<1>1. /\ pc[r] = "insertGroup"
      /\ UNCHANGED <<users, roles, links, audit, overlapped>>
      /\ \/ groups' = [groups EXCEPT ![r] = new] /\ Goto(r, "audit")
         \/ groups' = groups /\ Goto(r, "conflict")
  BY DEF InsertGroup
<1>2. pc[r] \in Statements /\ pc[r] # "audit"
  BY <1>1 DEF Statements
<1>3. frame[r].path = "createGroup" /\ TargetFits(r)
  BY <1>1, <1>2, FrameAt, PathOf
<1>4. new \in Group /\ groups[r] = None
  BY <1>2, <1>3 DEF TargetFits
<1>5. "audit" \in StatementsOf(frame[r].path) /\ frame[r].path \notin Additions
  BY <1>3 DEF StatementsOf, Additions, Removals, Saving
<1> HIDE DEF new
<1>6. RowsKept(r)
  BY <1>1, <1>4, MembershipIdsAssumption
     DEF RowsKept, Shape, Types, StoredGroups, GroupIds
<1>7. /\ \A l \in Links : ~(links[l] = "none" /\ links'[l] # "none")
      /\ audit' \subseteq
           {Action[h] : h \in AllHandlers} \X (GroupIds \cup Users \cup Roles)
  BY <1>1 DEF Shape, Types
<1>8. CASE Goto(r, "audit")
  BY <1>1, <1>2, <1>5, <1>6, <1>7, <1>8, GotoShape
<1>9. CASE Goto(r, "conflict")
  BY <1>1, <1>2, <1>5, <1>6, <1>7, <1>9, GotoShape DEF Outcomes
<1>10. QED
  BY <1>1, <1>8, <1>9

\* The row a save finds and the rows it was given.
LEMMA SavingAt ==
  ASSUME Shape, NEW r \in Requests, pc[r] \in {"reload", "write"}
  PROVE  /\ frame[r].path \in Saving
         /\ frame[r].path # "createGroup"
         /\ frame[r].path \notin Additions \cup Removals
         /\ frame[r].ent.isDeleted <=>
              frame[r].path \in {"deleteGroup", "deleteRole"}
         /\ \/ /\ frame[r].path \in OnGroup
               /\ frame[r].target \in StoredGroups
               /\ frame[r].target \in GroupIds
               /\ groups[frame[r].target] \in Group
               /\ frame[r].ent \in Group
               /\ pc[r] = "write" => frame[r].base \in Group
            \/ /\ frame[r].path \in OnRole
               /\ frame[r].target \in Roles
               /\ frame[r].target \notin GroupIds
               /\ roles[frame[r].target] \in Role
               /\ frame[r].ent \in Role
               /\ pc[r] = "write" => frame[r].base \in Role
<1>1. pc[r] \in Statements
  BY DEF Statements
<1>2. frame[r].path \in Saving /\ TargetFits(r) /\ EntityFits(r)
  BY <1>1, FrameAt, PathOf
<1>3. /\ frame[r].path # "createGroup"
      /\ frame[r].path \notin Additions \cup Removals
  BY <1>2 DEF Saving, Additions, Removals
<1>4. frame[r].ent.isDeleted <=> frame[r].path \in {"deleteGroup", "deleteRole"}
  BY <1>2 DEF EntityFits
<1>5. CASE frame[r].path \in OnGroup
  <2>1. frame[r].target \in StoredGroups
    BY <1>2, <1>5 DEF TargetFits
  <2>2. frame[r].ent \in Group /\ (pc[r] = "write" => frame[r].base \in Group)
    BY <1>2, <1>5 DEF EntityFits
  <2>3. QED
    BY <1>2, <1>3, <1>4, <1>5, <2>1, <2>2, GroupRow DEF Shape
<1>6. CASE frame[r].path \in OnRole
  <2>1. frame[r].target \in Roles
    BY <1>2, <1>6 DEF TargetFits
  <2>2. frame[r].ent \in Role /\ (pc[r] = "write" => frame[r].base \in Role)
    BY <1>2, <1>6 DEF EntityFits
  <2>3. roles[frame[r].target] \in Role /\ frame[r].target \notin GroupIds
    BY <2>1, MembershipIdsAssumption DEF Shape, Types
  <2>4. QED
    BY <1>2, <1>3, <1>4, <1>6, <2>1, <2>2, <2>3
<1>7. QED
  BY <1>2, <1>5, <1>6, PathKinds

\* What save has re-read.
LEMMA ReloadedFrame ==
  ASSUME Shape, NEW r \in Requests, Reload(r)
  PROVE  LET row == IF frame[r].path \in OnRole THEN roles[frame[r].target]
                    ELSE groups[frame[r].target]
             f == [frame[r] EXCEPT !.base = row]
         IN  /\ row \in Group \cup Role
             /\ frame[r].path \in OnRole => row \in Role
             /\ frame[r].path \in OnGroup => row \in Group
             /\ f \in Frame /\ frame' = [frame EXCEPT ![r] = f]
             /\ f.path = frame[r].path /\ f.scope = frame[r].scope
             /\ f.target = frame[r].target /\ f.link = frame[r].link
             /\ f.ent = frame[r].ent /\ f.base = row
<1> DEFINE row == IF frame[r].path \in OnRole THEN roles[frame[r].target]
                  ELSE groups[frame[r].target]
           f == [frame[r] EXCEPT !.base = row]
<1>1. pc[r] = "reload" /\ pc[r] \in Statements
  BY DEF Reload, Statements
<1>2. frame[r] \in Frame
  BY <1>1, FrameAt
<1>3. /\ row \in Group \cup Role
      /\ frame[r].path \in OnRole => row \in Role
      /\ frame[r].path \in OnGroup => row \in Group
      /\ row = IF frame[r].target \in GroupIds THEN groups[frame[r].target]
               ELSE roles[frame[r].target]
  BY <1>1, SavingAt, PathKinds
<1>4. frame' = [frame EXCEPT ![r] = [frame[r] EXCEPT !.base =
                  IF frame[r].target \in GroupIds THEN groups[frame[r].target]
                  ELSE roles[frame[r].target]]]
  BY <1>2 DEF Reload, Shape, Types
<1>5. frame' = [frame EXCEPT ![r] = f]
  BY <1>3, <1>4
<1> HIDE DEF row
<1>6. /\ f \in Frame
      /\ f.path = frame[r].path /\ f.scope = frame[r].scope
      /\ f.target = frame[r].target /\ f.link = frame[r].link
      /\ f.ent = frame[r].ent /\ f.base = row
  BY <1>2, <1>3 DEF Frame
<1>7. QED
  BY <1>3, <1>5, <1>6 DEF row

LEMMA ReloadShape ==
  ASSUME Shape, NEW r \in Requests, Reload(r)
  PROVE  Shape'
<1> DEFINE row == IF frame[r].path \in OnRole THEN roles[frame[r].target]
                  ELSE groups[frame[r].target]
           f == [frame[r] EXCEPT !.base = row]
<1>1. /\ pc[r] = "reload" /\ pc' = [pc EXCEPT ![r] = "write"]
      /\ UNCHANGED <<tables, audit, overlapped>> /\ pc[r] \in Statements
  BY DEF Reload, Statements
<1>2. /\ row \in Group \cup Role /\ f \in Frame
      /\ frame[r].path \in OnRole => row \in Role
      /\ frame[r].path \in OnGroup => row \in Group
      /\ frame' = [frame EXCEPT ![r] = f]
      /\ f.path = frame[r].path /\ f.scope = frame[r].scope
      /\ f.target = frame[r].target /\ f.link = frame[r].link
      /\ f.ent = frame[r].ent /\ f.base = row
  BY ReloadedFrame
<1> HIDE DEF row, f
<1>3. /\ frame[r].path \in AllHandlers /\ TargetFits(r) /\ EntityFits(r)
      /\ frame[r].path \in Saving
  BY <1>1, FrameAt, SavingAt
<1>4. ASSUME pc'[r] = "write", frame'[r] = f
      PROVE  FrameFits(r)'
    <2>1. StoredGroups' = StoredGroups /\ groups' = groups /\ roles' = roles
          /\ users' = users
      BY <1>1 DEF tables, StoredGroups
    <2>2. "write" \in StatementsOf(f.path)
      BY <1>2, <1>3 DEF StatementsOf, Saving, Additions, Removals
    <2>3. TargetFits(r)'
      BY <1>2, <1>3, <1>4, <2>1, PathKinds DEF TargetFits
    <2>4. EntityFits(r)'
      BY <1>2, <1>3, <1>4, <2>1 DEF EntityFits
    <2>5. LinkFits(r)'
      BY <1>2, <1>3, <1>4, PathKinds DEF LinkFits
    <2>6. QED
      BY <1>2, <1>3, <1>4, <2>2, <2>3, <2>4, <2>5 DEF FrameFits
<1>5. RowsKept(r) /\ overlapped' \in BOOLEAN
  BY <1>1, SameRowsKept DEF Shape, Types
<1>6. /\ \A l \in Links : ~(links[l] = "none" /\ links'[l] # "none")
      /\ audit' \subseteq
           {Action[h] : h \in AllHandlers} \X (GroupIds \cup Users \cup Roles)
  BY <1>1 DEF tables, Shape, Types
<1>7. QED
  BY <1>1, <1>2, <1>4, <1>5, <1>6, StepShape DEF Statements

\* The row a save leaves.
LEMMA WrittenRow ==
  ASSUME Shape, NEW r \in Requests, Write(r)
  PROVE  LET target == frame[r].target
             m(row) == Merge(row, frame[r].base, frame[r].ent)
         IN  \/ /\ frame[r].path \in OnGroup /\ target \in StoredGroups
                /\ target \in GroupIds /\ groups[target] \in Group
                /\ groups' = [groups EXCEPT ![target] = m(groups[target])]
                /\ roles' = roles
                /\ m(groups[target]) \in Group
                /\ m(groups[target]).tenant = groups[target].tenant
                /\ frame[r].base = groups[target] =>
                     m(groups[target]).isDeleted = frame[r].ent.isDeleted
             \/ /\ frame[r].path \in OnRole /\ target \in Roles
                /\ roles[target] \in Role
                /\ roles' = [roles EXCEPT ![target] = m(roles[target])]
                /\ groups' = groups
                /\ m(roles[target]) \in Role
                /\ m(roles[target]).tenant = roles[target].tenant
                /\ frame[r].base = roles[target] =>
                     m(roles[target]).isDeleted = frame[r].ent.isDeleted
<1>1. pc[r] = "write"
  BY DEF Write
<1>2. CASE frame[r].path \in OnGroup
  BY <1>1, <1>2, SavingAt, MergeGroup, PathKinds DEF Write
<1>3. CASE frame[r].path \in OnRole
  BY <1>1, <1>3, SavingAt, MergeRole, PathKinds DEF Write
<1>4. QED
  BY <1>1, <1>2, <1>3, SavingAt

LEMMA WriteShape ==
  ASSUME Shape, NEW r \in Requests, Write(r)
  PROVE  Shape'
<1> DEFINE next == IF frame[r].path = "deleteGroup" THEN "dropMembers"
                   ELSE "audit"
<1>1. /\ pc[r] = "write" /\ Goto(r, next) /\ pc[r] \in Statements
      /\ UNCHANGED <<users, links, audit, overlapped>>
  BY DEF Write, Statements
<1>2. /\ frame[r].path \in Saving /\ frame[r].path # "createGroup"
      /\ frame[r].path \notin Additions
  BY <1>1, SavingAt
<1>3. next \in StatementsOf(frame[r].path) /\ next # "write" /\ next # "saveLink"
  BY <1>2 DEF StatementsOf, Saving, Additions, Removals
<1>4. RowsKept(r)
  <2>1. ASSUME NEW g \in StoredGroups, NEW m \in Group, m.tenant = groups[g].tenant,
               groups' = [groups EXCEPT ![g] = m], roles' = roles
        PROVE  RowsKept(r)
    BY <1>1, <2>1, MembershipNoneAssumption
       DEF RowsKept, Shape, Types, StoredGroups
  <2>2. ASSUME NEW x \in Roles, NEW m \in Role, m.tenant = roles[x].tenant,
               roles' = [roles EXCEPT ![x] = m], groups' = groups
        PROVE  RowsKept(r)
    BY <1>1, <2>2 DEF RowsKept, Shape, Types, StoredGroups
  <2>3. QED
    BY <2>1, <2>2, WrittenRow
<1>5. /\ \A l \in Links : ~(links[l] = "none" /\ links'[l] # "none")
      /\ audit' \subseteq
           {Action[h] : h \in AllHandlers} \X (GroupIds \cup Users \cup Roles)
  BY <1>1 DEF Shape, Types
<1> HIDE DEF next
<1>6. QED
  BY <1>1, <1>2, <1>3, <1>4, <1>5, GotoShape

LEMMA AuditShape ==
  ASSUME Shape, NEW r \in Requests, Audit(r)
  PROVE  Shape'
<1>1. /\ pc[r] = "audit" /\ Goto(r, "done") /\ pc[r] \in Statements
      /\ UNCHANGED <<tables, overlapped>>
      /\ audit' = audit \cup {<<Action[frame[r].path], frame[r].target>>}
  BY DEF Audit, Statements
<1>2. frame[r].path \in AllHandlers /\ TargetFits(r)
  BY <1>1, FrameAt
<1>3. frame[r].target \in GroupIds \cup Users \cup Roles
  BY <1>2, PathKinds DEF TargetFits, StoredGroups, GroupIds
<1>4. audit' \subseteq
        {Action[h] : h \in AllHandlers} \X (GroupIds \cup Users \cup Roles)
  BY <1>1, <1>2, <1>3 DEF Shape, Types
<1>5. RowsKept(r) /\ \A l \in Links : ~(links[l] = "none" /\ links'[l] # "none")
  BY <1>1, SameRowsKept DEF Shape, tables
<1>6. QED
  BY <1>1, <1>4, <1>5, GotoShape DEF Outcomes

LEMMA AbortShape ==
  ASSUME Shape, NEW r \in Requests, Abort(r)
  PROVE  Shape'
BY QuietShape DEF Abort, Outcomes

\* The statements after the first.
Statement(r) == Step(r) \/ Abort(r)

LEMMA NextCases ==
  ASSUME Types, [Next]_vars
  PROVE  \/ \E r \in Requests : Begins(r) \/ Statement(r)
         \/ UNCHANGED vars
BY RequestBegins DEF Next, Statement

LEMMA ShapeStep ==
  ASSUME Shape, [Next]_vars
  PROVE  Shape'
<1>1. CASE UNCHANGED vars
  <2>1. StoredGroups' = StoredGroups /\ InFlight' = InFlight
    BY <1>1 DEF vars, tables, StoredGroups, InFlight
  <2>2. Types'
    BY <1>1 DEF vars, tables, Shape, Types
  <2>3. FramesFit'
    BY <1>1, <2>1 DEF vars, tables, Shape, FramesFit, FrameFits, TargetFits,
       EntityFits, LinkFits, SameTenant
  <2>4. LinksFit'
    BY <1>1, <2>1 DEF vars, tables, Shape, LinksFit, SameTenant
  <2>5. QED
    BY <2>2, <2>3, <2>4 DEF Shape
<1>2. QED
  BY <1>1, NextCases, BeginsShape, CheckCodeShape, CheckUserShape,
     CheckRoleShape, FindLinkShape, InsertGroupShape, ReloadShape, WriteShape,
     DropMembersShape, DropRolesShape, InsertLinkShape, SaveLinkShape,
     SaveUserShape, AuditShape, AbortShape DEF Shape, Statement, Step
-----------------------------------------------------------------------------
(* One by one *)

LEMMA IInvShape == IInv => Shape
BY TypeOKTypes DEF IInv, Shape

\* What a step does to the control of the requests.
LEMMA StatementMoves ==
  ASSUME Types, NEW r \in Requests, Statement(r)
  PROVE  /\ pc[r] \in Statements
         /\ pc'[r] \in {"insertGroup", "write", "dropMembers", "dropRoles",
                        "link", "insertLink", "saveLink", "audit"} \cup Outcomes
         /\ \A x \in Requests \ {r} : pc'[x] = pc[x] /\ frame'[x] = frame[x]
         /\ overlapped' = overlapped
BY DEF Statement, Step, CheckCode, CheckUser, CheckRole, Check, FindLink,
   InsertGroup, Reload, Write, DropMembers, AfterMembers, DropRoles, InsertLink,
   SaveLink, SaveUser, Audit, Abort, Goto, Types, Statements, Outcomes

LEMMA BeginsMoves ==
  ASSUME Types, NEW r \in Requests, Begins(r)
  PROVE  /\ pc[r] \notin Statements
         /\ \A x \in Requests \ {r} : pc'[x] = pc[x] /\ frame'[x] = frame[x]
         /\ overlapped' = (overlapped \/ InFlight # {})
         /\ UNCHANGED <<tables, audit>>
         /\ pc'[r] \in Opening \cup {"refused"}
BY DEF Begins, Types, Statements

LEMMA OneByOneStep ==
  ASSUME Types, OneByOne, [Next]_vars
  PROVE  OneByOne'
<1>1. CASE UNCHANGED vars
  BY <1>1 DEF vars, OneByOne, InFlight
<1>2. ASSUME NEW r \in Requests, Begins(r)
      PROVE  OneByOne'
  BY <1>2, BeginsMoves DEF OneByOne, InFlight
<1>3. ASSUME NEW r \in Requests, Statement(r)
      PROVE  OneByOne'
  BY <1>3, StatementMoves DEF OneByOne, InFlight
<1>4. QED
  BY <1>1, <1>2, <1>3, NextCases

\* A statement leaves the frame of a request that goes on alone.
LEMMA GoesOn ==
  ASSUME Types, NEW r \in Requests, NEW st, Goto(r, st), pc'[r] \in Statements
  PROVE  pc'[r] = st /\ st \in Statements /\ frame'[r] = frame[r]
<1>1. pc'[r] = st /\ (st \notin Outcomes => frame'[r] = frame[r])
  BY GotoFrame
<1>2. QED
  BY <1>1 DEF Statements, Outcomes

LEMMA CheckCodeHolds ==
  ASSUME Shape, NEW r \in Requests, CheckCode(r), pc'[r] \in Statements
  PROVE  CheckedHolds(r)'
<1> DEFINE holds == CodeAvailable(frame[r].ent.tenant, frame[r].ent.code)
<1>1. /\ pc[r] = "code" /\ UNCHANGED <<tables, audit, overlapped>>
      /\ Goto(r, IF holds THEN "insertGroup" ELSE "refused")
  BY DEF CheckCode, Check
<1>2. /\ holds /\ pc'[r] = "insertGroup" /\ frame'[r] = frame[r]
  BY <1>1, GoesOn DEF Shape, Statements
<1>3. frame[r].path = "createGroup"
  BY <1>1, FrameAt, PathOf DEF Statements
<1>4. groups' = groups /\ StoredGroups' = StoredGroups
  BY <1>1 DEF tables, StoredGroups
<1>5. CodeAvailable(frame[r].ent.tenant, frame[r].ent.code)'
  BY <1>2, <1>4 DEF CodeAvailable
<1>6. QED
  BY <1>2, <1>3, <1>5, PathKinds DEF CheckedHolds

LEMMA CheckLinkHolds ==
  ASSUME Shape, NEW r \in Requests, CheckUser(r) \/ CheckRole(r),
         CheckedHolds(r), pc'[r] \in Statements
  PROVE  CheckedHolds(r)'
<1>1. /\ pc[r] \in {"user", "role"} /\ UNCHANGED <<tables, audit, overlapped>>
      /\ Goto(r, "link") \/ Goto(r, "refused")
  BY DEF CheckUser, CheckRole, Check
<1>2. pc'[r] = "link" /\ frame'[r] = frame[r]
  BY <1>1, GoesOn DEF Shape, Statements
<1>3. frame[r].path \notin OnRole
  BY <1>1, FrameAt, PathOf DEF Statements, OnRole
<1>4. groups' = groups
  BY <1>1 DEF tables
<1>5. QED
  BY <1>1, <1>2, <1>3, <1>4 DEF CheckedHolds

LEMMA FindLinkHolds ==
  ASSUME Shape, NEW r \in Requests, FindLink(r), CheckedHolds(r),
         pc'[r] \in Statements
  PROVE  CheckedHolds(r)'
<1>1. pc[r] = "link" /\ UNCHANGED <<tables, audit, overlapped>>
  BY DEF FindLink
<1>2. frame[r].path \notin OnRole
  BY <1>1, FrameAt, PathOf DEF Statements, OnRole, Additions, Removals
<1>3. PICK st \in {"insertLink", "saveLink", "refused"} :
        /\ Goto(r, st)
        /\ st = "insertLink" => links[frame[r].link] = "none"
  BY DEF FindLink
<1>4. pc'[r] = st /\ st # "refused" /\ frame'[r] = frame[r]
  BY <1>3, GoesOn DEF Shape, Statements
<1>5. groups' = groups /\ links' = links
  BY <1>1 DEF tables
<1>6. QED
  BY <1>1, <1>2, <1>3, <1>4, <1>5 DEF CheckedHolds

LEMMA ReloadHolds ==
  ASSUME Shape, NEW r \in Requests, Reload(r), CheckedHolds(r)
  PROVE  CheckedHolds(r)'
<1> DEFINE row == IF frame[r].path \in OnRole THEN roles[frame[r].target]
                  ELSE groups[frame[r].target]
           f == [frame[r] EXCEPT !.base = row]
<1>1. /\ pc[r] = "reload" /\ UNCHANGED <<tables, audit, overlapped>>
      /\ pc'[r] = "write"
  BY DEF Reload, Shape, Types
<1>2. /\ frame' = [frame EXCEPT ![r] = f]
      /\ f.path = frame[r].path /\ f.target = frame[r].target
      /\ f.base = row
  BY ReloadedFrame
<1>3. row' = row /\ groups' = groups /\ roles' = roles
  <2>1. groups' = groups /\ roles' = roles
    BY <1>1 DEF tables
  <2>2. frame'[r] = f
    BY <1>2 DEF Shape, Types
  <2>3. QED
    BY <1>2, <2>1, <2>2
<1> HIDE DEF f
<1>4. frame'[r] = f
  BY <1>2 DEF Shape, Types
<1>5. QED
  BY <1>1, <1>2, <1>3, <1>4 DEF CheckedHolds

LEMMA WriteHolds ==
  ASSUME Shape, NEW r \in Requests, Write(r), CheckedHolds(r),
         pc'[r] \in Statements
  PROVE  CheckedHolds(r)'
<1> DEFINE target == frame[r].target
           next == IF frame[r].path = "deleteGroup" THEN "dropMembers"
                   ELSE "audit"
<1>1. /\ pc[r] = "write" /\ Goto(r, next)
      /\ UNCHANGED <<users, links, audit, overlapped>>
  BY DEF Write
<1>2. pc'[r] = next /\ frame'[r] = frame[r]
  BY <1>1, GoesOn DEF Shape
<1>3. /\ frame[r].path \in Saving
      /\ frame[r].ent.isDeleted <=> frame[r].path \in {"deleteGroup", "deleteRole"}
  BY <1>1, SavingAt
<1>4. frame[r].path = "deleteGroup" => groups'[target].isDeleted
  <2> SUFFICES ASSUME frame[r].path = "deleteGroup"
               PROVE  groups'[target].isDeleted
    OBVIOUS
  <2>1. frame[r].path \notin OnRole
    BY DEF OnRole
  <2>2. frame[r].base = groups[target]
    BY <1>1, <2>1 DEF CheckedHolds
  <2> DEFINE m == Merge(groups[target], frame[r].base, frame[r].ent)
  <2>3. /\ target \in GroupIds /\ groups' = [groups EXCEPT ![target] = m]
        /\ m.isDeleted = frame[r].ent.isDeleted
    BY <2>1, <2>2, WrittenRow
  <2> HIDE DEF m
  <2>4. groups'[target] = m
    BY <2>3 DEF Shape, Types
  <2>5. QED
    BY <1>3, <2>3, <2>4
<1>5. frame[r].path = "deleteRole" => roles'[target].isDeleted
  <2> SUFFICES ASSUME frame[r].path = "deleteRole"
               PROVE  roles'[target].isDeleted
    OBVIOUS
  <2>1. frame[r].path \in OnRole /\ frame[r].path \notin OnGroup
    BY DEF OnRole, OnGroup
  <2>2. frame[r].base = roles[target]
    BY <1>1, <2>1 DEF CheckedHolds
  <2> DEFINE m == Merge(roles[target], frame[r].base, frame[r].ent)
  <2>3. /\ target \in Roles /\ roles' = [roles EXCEPT ![target] = m]
        /\ m.isDeleted = frame[r].ent.isDeleted
    BY <2>1, <2>2, WrittenRow
  <2> HIDE DEF m
  <2>4. roles'[target] = m
    BY <2>3 DEF Shape, Types
  <2>5. QED
    BY <1>3, <2>3, <2>4
<1>6. frame[r].path # "deleteUser"
  BY <1>3 DEF Saving
<1>7. QED
  BY <1>2, <1>4, <1>5, <1>6 DEF CheckedHolds, OnRole

LEMMA DropMembersHolds ==
  ASSUME Shape, NEW r \in Requests, DropMembers(r), CheckedHolds(r),
         pc'[r] \in Statements
  PROVE  CheckedHolds(r)'
<1>1. /\ pc[r] = "dropMembers" /\ Goto(r, "dropRoles")
      /\ UNCHANGED <<groups, users, roles, audit, overlapped>>
      /\ Drop(r, MemberPairs)
  BY DEF DropMembers, AfterMembers
<1>2. pc'[r] = "dropRoles" /\ frame'[r] = frame[r]
  BY <1>1, GoesOn DEF Shape
<1>3. frame[r].path = "deleteGroup"
  BY <1>1, FrameAt, PathOf DEF Statements
<1>4. LinksOf(frame[r].target)' \cap MemberPairs = {}
  BY <1>1, <1>2, DropLinks DEF Shape, LinksOf, LiveLinks
<1>5. QED
  BY <1>1, <1>2, <1>3, <1>4 DEF CheckedHolds, OnRole

LEMMA DropRolesHolds ==
  ASSUME Shape, NEW r \in Requests, DropRoles(r), CheckedHolds(r),
         pc'[r] \in Statements
  PROVE  CheckedHolds(r)'
<1>1. /\ pc[r] = "dropRoles" /\ Goto(r, "audit")
      /\ UNCHANGED <<groups, users, roles, audit, overlapped>>
      /\ Drop(r, GroupRolePairs)
  BY DEF DropRoles
<1>2. pc'[r] = "audit" /\ frame'[r] = frame[r]
  BY <1>1, GoesOn DEF Shape
<1>3. frame[r].path = "deleteGroup" /\ TargetFits(r)
  BY <1>1, FrameAt, PathOf DEF Statements
<1>4. frame[r].target \in GroupIds
  BY <1>3 DEF TargetFits, OnGroup, StoredGroups
<1>5. LinksOf(frame[r].target)' = {}
  <2> SUFFICES ASSUME NEW l \in Links, links'[l] = "live", l[1] = frame[r].target
               PROVE  FALSE
    BY <1>2 DEF LinksOf, LiveLinks
  <2>1. l \in MemberPairs \cup GroupRolePairs
    BY <1>4, LinkEnds, MembershipIdsAssumption
  <2>2. links[l] = "live" /\ l \notin GroupRolePairs
    BY <1>1, DropLinks DEF Shape, LinksOf, LiveLinks
  <2>3. QED
    BY <1>1, <2>1, <2>2 DEF CheckedHolds, LinksOf, LiveLinks
<1>6. groups'[frame[r].target].isDeleted
  BY <1>1 DEF CheckedHolds
<1>7. QED
  BY <1>2, <1>3, <1>5, <1>6 DEF CheckedHolds, OnRole

\* The statements before the audit of a creation, an addition or a removal.
LEMMA EndHolds ==
  ASSUME Shape, NEW r \in Requests, InsertGroup(r) \/ InsertLink(r) \/ SaveLink(r),
         pc'[r] \in Statements
  PROVE  CheckedHolds(r)'
<1>1. /\ pc[r] \in {"insertGroup", "insertLink", "saveLink"}
      /\ Goto(r, "audit") \/ Goto(r, "conflict")
  BY DEF InsertGroup, InsertLink, SaveLink
<1>2. pc'[r] = "audit" /\ frame'[r] = frame[r]
  BY <1>1, GoesOn DEF Shape, Statements
<1>3. frame[r].path \in {"createGroup"} \cup Additions \cup Removals
  BY <1>1, FrameAt, PathOf DEF Statements
<1>4. frame[r].path \notin {"deleteGroup", "deleteRole", "deleteUser"}
  BY <1>3 DEF Additions, Removals
<1>5. QED
  BY <1>2, <1>4 DEF CheckedHolds

LEMMA SaveUserHolds ==
  ASSUME Shape, NEW r \in Requests, SaveUser(r), pc'[r] \in Statements
  PROVE  CheckedHolds(r)'
<1>1. /\ pc[r] = "saveUser" /\ Goto(r, "audit")
      /\ users' = [users EXCEPT ![frame[r].target] =
                     [users[frame[r].target] EXCEPT !.isDeleted = TRUE]]
  BY DEF SaveUser
<1>2. pc'[r] = "audit" /\ frame'[r] = frame[r]
  BY <1>1, GoesOn DEF Shape
<1>3. frame[r].path = "deleteUser" /\ TargetFits(r)
  BY <1>1, FrameAt, PathOf DEF Statements
<1>4. frame[r].target \in Users
  BY <1>3 DEF TargetFits, OnUser
<1>5. users'[frame[r].target].isDeleted
  BY <1>1, <1>4 DEF Shape, Types, User
<1>6. QED
  BY <1>2, <1>3, <1>5 DEF CheckedHolds

LEMMA BeginsHolds ==
  ASSUME Shape, NEW r \in Requests, Begins(r), pc'[r] \in Statements
  PROVE  CheckedHolds(r)'
<1>1. PICK st \in Opening, c \in Frame :
        WellFormed(r, st, c) /\ pc'[r] = st /\ frame'[r] = c
  BY DEF Begins, Shape, Types, Statements
<1>2. groups' = groups /\ roles' = roles
  BY DEF Begins, tables
<1>3. QED
  BY <1>1, <1>2 DEF Opening, WellFormed, FoundGroup, MutableRole, CheckedHolds

LEMMA StatementHolds ==
  ASSUME Shape, NEW r \in Requests, Statement(r), CheckedHolds(r),
         pc'[r] \in Statements
  PROVE  CheckedHolds(r)'
<1>1. CASE Audit(r) \/ Abort(r)
  <2>1. PICK st \in {"done", "aborted"} : Goto(r, st)
    BY <1>1 DEF Audit, Abort
  <2>2. QED
    BY <2>1, GoesOn DEF Shape, Statements
<1>2. QED
  BY <1>1, CheckCodeHolds, CheckLinkHolds, FindLinkHolds, ReloadHolds, WriteHolds,
     DropMembersHolds, DropRolesHolds, EndHolds, SaveUserHolds
     DEF Statement, Step

LEMMA AloneStep ==
  ASSUME Shape, OneByOne, AloneHolds, [Next]_vars
  PROVE  AloneHolds'
<1>1. CASE UNCHANGED vars
  <2>1. ASSUME NEW r \in Requests, CheckedHolds(r)
        PROVE  CheckedHolds(r)'
    <3>1. CodeAvailable(frame[r].ent.tenant, frame[r].ent.code)
            => CodeAvailable(frame[r].ent.tenant, frame[r].ent.code)'
      BY <1>1 DEF vars, tables, CodeAvailable, StoredGroups
    <3>2. LinksOf(frame[r].target)' = LinksOf(frame[r].target)
      BY <1>1 DEF vars, tables, LinksOf, LiveLinks
    <3>3. QED
      BY <1>1, <2>1, <3>1, <3>2 DEF vars, tables, CheckedHolds
  <2>2. QED
    BY <1>1, <2>1 DEF vars, AloneHolds, InFlight
<1>2. ASSUME NEW r \in Requests, Begins(r)
      PROVE  AloneHolds'
  BY <1>2, BeginsMoves, BeginsHolds DEF Shape, AloneHolds, InFlight
<1>3. ASSUME NEW r \in Requests, Statement(r)
      PROVE  AloneHolds'
  <2> SUFFICES ASSUME ~overlapped', NEW x \in Requests, pc'[x] \in Statements
               PROVE  CheckedHolds(x)'
    BY DEF AloneHolds, InFlight
  <2>1. /\ ~overlapped /\ pc[r] \in Statements
        /\ \A y \in Requests \ {r} : pc'[y] = pc[y]
    BY <1>3, StatementMoves DEF Shape
  <2>2. x = r
    BY <2>1 DEF OneByOne, InFlight
  <2>3. CheckedHolds(r)
    BY <2>1 DEF AloneHolds, InFlight
  <2>4. QED
    BY <1>3, <2>2, <2>3, StatementHolds
<1>4. QED
  BY <1>1, <1>2, <1>3, NextCases DEF Shape
-----------------------------------------------------------------------------
(* What the audit trail says *)

\* The statements that change rows, the audit trail apart.
LEMMA GroupsChange ==
  ASSUME Shape, NEW r \in Requests, Statement(r)
  PROVE  \/ groups' = groups
         \/ /\ pc[r] = "insertGroup" /\ groups[r] = None
            /\ groups' = [groups EXCEPT ![r] = frame[r].ent]
            /\ frame[r].ent \in Group
            /\ UNCHANGED <<users, roles, links, audit>>
         \/ /\ pc[r] = "write" /\ Write(r) /\ roles' = roles
            /\ UNCHANGED <<users, links, audit>>
<1>1. CASE InsertGroup(r)
  <2>1. pc[r] = "insertGroup"
    BY <1>1 DEF InsertGroup
  <2>2. frame[r].path = "createGroup" /\ TargetFits(r)
    BY <2>1, FrameAt, PathOf DEF Statements
  <2>3. QED
    BY <1>1, <2>1, <2>2 DEF InsertGroup, TargetFits
<1>2. CASE Write(r)
  BY <1>2 DEF Write
<1>3. CASE ~InsertGroup(r) /\ ~Write(r)
  BY <1>3 DEF Statement, Step, CheckCode, CheckUser, CheckRole, Check, FindLink,
     Reload, DropMembers, DropRoles, InsertLink, SaveLink, SaveUser, Audit,
     Abort, tables
<1>4. QED
  BY <1>1, <1>2, <1>3

LEMMA StoredStay ==
  ASSUME Shape, [Next]_vars
  PROVE  StoredGroups \subseteq StoredGroups'
<1>1. CASE UNCHANGED vars
  BY <1>1 DEF vars, tables, StoredGroups
<1>2. ASSUME NEW r \in Requests, Begins(r)
      PROVE  StoredGroups \subseteq StoredGroups'
  BY <1>2 DEF Begins, tables, StoredGroups
<1>3. ASSUME NEW r \in Requests, Statement(r)
      PROVE  StoredGroups \subseteq StoredGroups'
  <2>1. CASE groups' = groups
    BY <2>1 DEF StoredGroups
  <2>2. CASE groups' = [groups EXCEPT ![r] = frame[r].ent]
             /\ frame[r].ent \in Group
    BY <2>2, MembershipNoneAssumption DEF Shape, Types, StoredGroups
  <2>3. CASE Write(r)
    <3> DEFINE m == Merge(groups[frame[r].target], frame[r].base, frame[r].ent)
    <3>1. \/ groups' = groups
          \/ /\ groups' = [groups EXCEPT ![frame[r].target] = m]
             /\ m \in Group
      BY <2>3, WrittenRow
    <3> HIDE DEF m
    <3>2. QED
      BY <3>1, MembershipNoneAssumption DEF Shape, Types, StoredGroups
  <2>4. QED
    BY <1>3, <2>1, <2>2, <2>3, GroupsChange
<1>4. QED
  BY <1>1, <1>2, <1>3, NextCases DEF Shape

\* What request r adds to the audit trail.
LEMMA AuditChange ==
  ASSUME Shape, NEW r \in Requests, Statement(r)
  PROVE  \/ audit' = audit
         \/ /\ pc[r] = "audit" /\ UNCHANGED tables
            /\ audit' = audit \cup {<<Action[frame[r].path], frame[r].target>>}
BY DEF Statement, Step, CheckCode, CheckUser, CheckRole, Check, FindLink,
   InsertGroup, Reload, Write, DropMembers, DropRoles, InsertLink, SaveLink,
   SaveUser, Audit, Abort

\* A deletion of group, role or user e is audited by its own handler.
LEMMA DeletionAudit ==
  ASSUME Shape, NEW r \in Requests, pc[r] = "audit",
         Action[frame[r].path] = "DELETE"
  PROVE  /\ frame[r].target \in GroupIds =>
              frame[r].path = "deleteGroup" /\ frame[r].target \in StoredGroups
         /\ frame[r].target \in Roles => frame[r].path = "deleteRole"
         /\ frame[r].target \in Users => frame[r].path = "deleteUser"
<1>1. frame[r].path \in AllHandlers /\ TargetFits(r)
  BY FrameAt DEF Statements
<1>2. frame[r].path \in {"deleteGroup", "deleteRole", "deleteUser"}
  BY <1>1 DEF Action, AllHandlers, GroupHandlers, Additions, Removals
<1>3. QED
  BY <1>1, <1>2, MembershipIdsAssumption
     DEF TargetFits, OnGroup, OnRole, OnUser, StoredGroups

LEMMA AuditFitsStep ==
  ASSUME Shape, AuditFits, [Next]_vars
  PROVE  AuditFits'
<1>1. CASE audit' = audit
  BY <1>1, StoredStay DEF AuditFits
<1>2. ASSUME NEW r \in Requests, pc[r] = "audit",
             audit' = audit \cup {<<Action[frame[r].path], frame[r].target>>}
      PROVE  AuditFits'
  BY <1>2, StoredStay, DeletionAudit DEF AuditFits
<1>3. QED
  BY <1>1, <1>2, NextCases, AuditChange DEF Begins, vars, Shape

\* Alone, no statement meets a duplicate.
LEMMA DuplicatesStep ==
  ASSUME Shape, OneByOne, AloneHolds, DuplicatesAreRefused, [Next]_vars
  PROVE  DuplicatesAreRefused'
<1> SUFFICES ASSUME ~overlapped', NEW x \in Requests, pc'[x] = "conflict"
             PROVE  FALSE
  BY DEF DuplicatesAreRefused
<1>1. CASE UNCHANGED vars
  BY <1>1 DEF vars, DuplicatesAreRefused
<1>2. ASSUME NEW r \in Requests, Begins(r)
      PROVE  FALSE
  <2>1. ~overlapped /\ \A y \in Requests \ {r} : pc'[y] = pc[y]
    BY <1>2, BeginsMoves DEF Shape
  <2>2. pc'[r] # "conflict"
    BY <1>2, BeginsMoves DEF Shape, Opening
  <2>3. QED
    BY <2>1, <2>2 DEF DuplicatesAreRefused
<1>3. ASSUME NEW r \in Requests, Statement(r)
      PROVE  FALSE
  <2>1. /\ ~overlapped /\ pc[r] \in Statements
        /\ \A y \in Requests \ {r} : pc'[y] = pc[y]
    BY <1>3, StatementMoves DEF Shape
  <2>2. x = r
    BY <2>1 DEF DuplicatesAreRefused
  <2>3. CheckedHolds(r)
    BY <2>1 DEF AloneHolds, InFlight
  <2>4. CASE InsertGroup(r)
    <3>1. UniqueGroup(frame[r].ent.tenant, frame[r].ent.code)
      BY <2>3, <2>4 DEF InsertGroup, CheckedHolds, CodeAvailable, UniqueGroup
    <3>2. Goto(r, "audit")
      BY <2>4, <3>1 DEF InsertGroup
    <3>3. QED
      BY <2>2, <3>2 DEF Goto, Shape, Types
  <2>5. CASE InsertLink(r)
    BY <2>2, <2>3, <2>5 DEF InsertLink, CheckedHolds, Goto, Shape, Types
  <2>6. CASE ~InsertGroup(r) /\ ~InsertLink(r)
    BY <1>3, <2>2, <2>6 DEF Statement, Step, CheckCode, CheckUser, CheckRole,
       Check, FindLink, Reload, Write, DropMembers, AfterMembers, DropRoles,
       SaveLink, SaveUser, Audit, Abort, Goto, Shape, Types
  <2>7. QED
    BY <2>4, <2>5, <2>6
<1>4. QED
  BY <1>1, <1>2, <1>3, NextCases DEF Shape

\* Alone, a statement touches no row that was reported as deleted: what
\* request r changes is not deleted before it.
LEMMA TouchesUndeleted ==
  ASSUME Shape, NEW r \in Requests, Statement(r), CheckedHolds(r)
  PROVE  /\ \A g \in StoredGroups : groups[g].isDeleted =>
              /\ groups'[g] = groups[g]
              /\ LinksOf(g)' \subseteq LinksOf(g)
         /\ \A x \in Roles : roles[x].isDeleted => roles'[x] = roles[x]
         /\ \A u \in Users : users[u].isDeleted => users'[u].isDeleted
<1>1. CASE InsertGroup(r)
  <2>1. /\ UNCHANGED <<users, roles, links>>
        /\ \A g \in StoredGroups : groups'[g] = groups[g]
    BY <1>1, GroupsChange DEF InsertGroup, Write, Shape, Types, StoredGroups
  <2>2. \A g \in StoredGroups : LinksOf(g)' = LinksOf(g)
    BY <2>1 DEF LinksOf, LiveLinks
  <2>3. QED
    BY <2>1, <2>2
<1>2. CASE Write(r)
  <2>1. pc[r] = "write" /\ UNCHANGED <<users, links>>
    BY <1>2 DEF Write
  <2>2. \A g : LinksOf(g)' = LinksOf(g)
    BY <2>1 DEF LinksOf, LiveLinks
  <2> DEFINE mg == Merge(groups[frame[r].target], frame[r].base, frame[r].ent)
             mx == Merge(roles[frame[r].target], frame[r].base, frame[r].ent)
  <2>3. \/ /\ frame[r].path \in OnGroup
           /\ groups' = [groups EXCEPT ![frame[r].target] = mg]
           /\ roles' = roles
        \/ /\ frame[r].path \in OnRole
           /\ roles' = [roles EXCEPT ![frame[r].target] = mx]
           /\ groups' = groups
    BY <1>2, WrittenRow
  <2> HIDE DEF mg, mx
  <2>4. /\ frame[r].path \in OnGroup => ~groups[frame[r].target].isDeleted
        /\ frame[r].path \in OnRole => ~roles[frame[r].target].isDeleted
    BY <2>1 DEF CheckedHolds
  <2>5. QED
    BY <2>1, <2>2, <2>3, <2>4 DEF Shape, Types, StoredGroups
<1>3. CASE DropMembers(r) \/ DropRoles(r)
  <2>1. /\ UNCHANGED <<groups, users, roles>>
        /\ Drop(r, MemberPairs) \/ Drop(r, GroupRolePairs)
    BY <1>3 DEF DropMembers, DropRoles
  <2>2. \A l \in Links : links'[l] = "live" => links[l] = "live"
    BY <2>1, DropLinks DEF Shape
  <2>3. \A g : LinksOf(g)' \subseteq LinksOf(g)
    BY <2>2 DEF LinksOf, LiveLinks
  <2>4. QED
    BY <2>1, <2>3
<1>4. CASE InsertLink(r) \/ SaveLink(r)
  <2>1. /\ UNCHANGED <<groups, users, roles>>
        /\ pc[r] \in {"insertLink", "saveLink"}
        /\ \A l \in Links : l # frame[r].link => links'[l] = links[l]
    BY <1>4 DEF InsertLink, SaveLink, Shape, Types
  <2>2. /\ frame[r].path \in Additions \cup Removals
        /\ frame[r].link[1] = frame[r].target
        /\ TargetFits(r)
    BY <2>1, LinkToWrite, FrameAt DEF Statements
  <2>3. ASSUME NEW g \in StoredGroups, groups[g].isDeleted
        PROVE  g # frame[r].target
    <3>1. CASE frame[r].path \in OnGroup
      BY <2>1, <2>3, <3>1 DEF CheckedHolds
    <3>2. CASE frame[r].path \in OnUser
      BY <2>2, <2>3, <3>2, MembershipIdsAssumption DEF TargetFits, StoredGroups
    <3>3. QED
      BY <2>2, <3>1, <3>2, PathKinds
  <2>4. \A g \in StoredGroups : groups[g].isDeleted =>
          LinksOf(g)' \subseteq LinksOf(g)
    BY <2>1, <2>2, <2>3 DEF LinksOf, LiveLinks
  <2>5. QED
    BY <2>1, <2>4
<1>5. CASE SaveUser(r)
  <2>1. UNCHANGED <<groups, roles, links>>
    BY <1>5 DEF SaveUser
  <2>2. users' = [users EXCEPT ![frame[r].target] =
                    [users[frame[r].target] EXCEPT !.isDeleted = TRUE]]
    BY <1>5 DEF SaveUser
  <2>3. \A u \in Users : users[u].isDeleted => users'[u].isDeleted
    BY <2>2 DEF Shape, Types, User
  <2>4. \A g : LinksOf(g)' = LinksOf(g)
    BY <2>1 DEF LinksOf, LiveLinks
  <2>5. QED
    BY <2>1, <2>3, <2>4
<1>6. CASE UNCHANGED tables
  BY <1>6 DEF tables, LinksOf, LiveLinks
<1>7. QED
  BY <1>1, <1>2, <1>3, <1>4, <1>5, <1>6 DEF Statement, Step, CheckCode, CheckUser,
     CheckRole, Check, FindLink, Reload, Audit, Abort

LEMMA AuditedDeletionStep ==
  ASSUME Shape, AuditFits, OneByOne, AloneHolds, AuditedDeletionIsComplete,
         [Next]_vars
  PROVE  AuditedDeletionIsComplete'
<1> SUFFICES ASSUME ~overlapped'
             PROVE  AuditedDeletionIsComplete'
  BY DEF AuditedDeletionIsComplete
<1>1. CASE UNCHANGED <<tables, audit>> /\ ~overlapped
  <2>1. StoredGroups' = StoredGroups /\ \A g : LinksOf(g)' = LinksOf(g)
    BY <1>1 DEF tables, StoredGroups, LinksOf, LiveLinks
  <2>2. QED
    BY <1>1, <2>1 DEF tables, AuditedDeletionIsComplete
<1>2. ASSUME NEW r \in Requests, Statement(r)
      PROVE  AuditedDeletionIsComplete'
  <2>1. ~overlapped /\ pc[r] \in Statements
    BY <1>2, StatementMoves DEF Shape
  <2>2. CheckedHolds(r)
    BY <2>1 DEF AloneHolds, InFlight
  <2>3. CASE audit' = audit
    <3>1. ASSUME NEW g \in StoredGroups', <<"DELETE", g>> \in audit
          PROVE  groups'[g].isDeleted /\ LinksOf(g)' = {}
      <4>1. g \in StoredGroups
        BY <3>1 DEF AuditFits, StoredGroups
      <4>2. groups[g].isDeleted /\ LinksOf(g) = {}
        BY <2>1, <3>1, <4>1 DEF AuditedDeletionIsComplete
      <4>3. QED
        BY <1>2, <2>2, <4>1, <4>2, TouchesUndeleted
    <3>2. QED
      BY <1>2, <2>1, <2>2, <2>3, <3>1, TouchesUndeleted
         DEF AuditedDeletionIsComplete
  <2>4. CASE /\ pc[r] = "audit" /\ UNCHANGED tables
             /\ audit' = audit \cup {<<Action[frame[r].path], frame[r].target>>}
    <3>1. StoredGroups' = StoredGroups /\ \A g : LinksOf(g)' = LinksOf(g)
      BY <2>4 DEF tables, StoredGroups, LinksOf, LiveLinks
    <3>2. /\ frame[r].path = "deleteGroup" =>
               /\ groups[frame[r].target].isDeleted
               /\ LinksOf(frame[r].target) = {}
          /\ frame[r].path = "deleteRole" => roles[frame[r].target].isDeleted
          /\ frame[r].path = "deleteUser" => users[frame[r].target].isDeleted
      BY <2>2, <2>4 DEF CheckedHolds
    <3>3. ASSUME NEW g \in StoredGroups, <<"DELETE", g>> \in audit'
          PROVE  groups[g].isDeleted /\ LinksOf(g) = {}
      BY <2>1, <2>4, <3>2, <3>3, DeletionAudit
         DEF AuditedDeletionIsComplete, StoredGroups
    <3>4. ASSUME NEW x \in Roles, <<"DELETE", x>> \in audit'
          PROVE  roles[x].isDeleted
      BY <2>1, <2>4, <3>2, <3>4, DeletionAudit DEF AuditedDeletionIsComplete
    <3>5. ASSUME NEW u \in Users, <<"DELETE", u>> \in audit'
          PROVE  users[u].isDeleted
      BY <2>1, <2>4, <3>2, <3>5, DeletionAudit DEF AuditedDeletionIsComplete
    <3>6. QED
      BY <2>4, <3>1, <3>3, <3>4, <3>5 DEF tables, AuditedDeletionIsComplete
  <2>5. QED
    BY <1>2, <2>3, <2>4, AuditChange
<1>3. CASE UNCHANGED vars
  BY <1>1, <1>3 DEF vars
<1>4. ASSUME NEW r \in Requests, Begins(r)
      PROVE  AuditedDeletionIsComplete'
  BY <1>1, <1>4, BeginsMoves DEF Shape
<1>5. QED
  BY <1>2, <1>3, <1>4, NextCases DEF Shape

-----------------------------------------------------------------------------
(* The inductive invariant *)

LEMMA InitShape ==
  ASSUME Init
  PROVE  Shape
<1>1. groups \in [GroupIds -> Group \cup {None}]
  BY DEF Init
<1>2. \A g \in GroupIds : groups[g] # None <=> g \in Groups
  BY MembershipNoneAssumption DEF Init
<1>3. users \in [Users -> User] /\ roles \in [Roles -> Role]
  BY DEF Init
<1>4. links \in [Links -> Presence]
  BY DEF Init, Presence
<1>5. /\ audit = {} /\ overlapped = FALSE
      /\ pc = [r \in Requests |-> "idle"] /\ frame = [r \in Requests |-> NoCall]
  BY DEF Init
<1>6. Types
  BY <1>1, <1>3, <1>4, <1>5, NoCallType DEF Types
<1>7. FramesFit
  BY <1>2, <1>5, MembershipIdsAssumption
     DEF FramesFit, InFlight, Statements, GroupIds
<1>8. LinksFit
  <2> SUFFICES ASSUME NEW l \in Links, links[l] # "none"
               PROVE  l[1] \in StoredGroups \cup Users /\ SameTenant(l)
    BY DEF LinksFit
  <2>1. l[1] \notin Requests /\ SameTenant(l)
    BY DEF Init
  <2>2. l[1] \in GroupIds \cup Users
    BY LinkEnds
  <2>3. QED
    BY <1>2, <2>1, <2>2 DEF StoredGroups, GroupIds
<1>9. QED
  BY <1>6, <1>7, <1>8 DEF Shape

LEMMA InitIInv == Init => IInv
<1> SUFFICES ASSUME Init
             PROVE  IInv
  OBVIOUS
<1>1. Shape /\ TypeOK
  BY InitShape, ShapeTypeOK
<1>2. /\ audit = {}
      /\ pc = [r \in Requests |-> "idle"]
      /\ InFlight = {}
  BY DEF Init, InFlight, Statements
<1>3. AuditFits /\ OneByOne /\ AloneHolds
  BY <1>2 DEF AuditFits, OneByOne, AloneHolds
<1>4. AuditedDeletionIsComplete /\ DuplicatesAreRefused
  BY <1>2 DEF AuditedDeletionIsComplete, DuplicatesAreRefused
<1>5. QED
  BY <1>1, <1>3, <1>4 DEF IInv, Shape

\* The strengthening without the part that the others imply.
Core ==
  /\ Shape /\ AuditFits /\ OneByOne /\ AloneHolds
  /\ AuditedDeletionIsComplete /\ DuplicatesAreRefused

LEMMA CoreIsIInv == Core <=> IInv
<1>1. Core => IInv
  BY ShapeTypeOK DEF Core, Shape, IInv
<1>2. IInv => Core
  BY IInvShape DEF Core, IInv
<1>3. QED
  BY <1>1, <1>2

LEMMA NextCore == Core /\ [Next]_vars => Core'
<1> SUFFICES ASSUME Core, [Next]_vars
             PROVE  Core'
  OBVIOUS
<1>1. /\ Shape /\ Types /\ AuditFits /\ OneByOne /\ AloneHolds
      /\ AuditedDeletionIsComplete /\ DuplicatesAreRefused
  BY DEF Core, Shape
<1>2. Shape'
  BY <1>1, ShapeStep
<1>3. AuditFits' /\ OneByOne' /\ AloneHolds'
  BY <1>1, AuditFitsStep, OneByOneStep, AloneStep
<1>4. AuditedDeletionIsComplete' /\ DuplicatesAreRefused'
  BY <1>1, AuditedDeletionStep, DuplicatesStep
<1>5. QED
  BY <1>2, <1>3, <1>4 DEF Core

\* The strengthening holds in every state: rows keep their tenants, frames fit
\* them, and what a request that runs alone has checked stays true.
THEOREM MembershipInvariance == Spec => []IInv
BY InitIInv, NextCore, CoreIsIInv, PTL DEF Spec

\* Every variable has its type, and a save finds the row it was prepared for,
\* of the same tenant.
THEOREM MembershipTypeCorrect == Spec => []TypeOK
<1>1. IInv => TypeOK
  BY DEF IInv
<1>2. QED
  BY <1>1, MembershipInvariance, PTL

\* A row of a join table is of one tenant, and so is all a user may do.
THEOREM TenantsAreIsolated == Spec => []TenantIsolation
<1>1. IInv => TenantIsolation
  <2> SUFFICES ASSUME IInv
               PROVE  TenantIsolation
    OBVIOUS
  <2>1. /\ Types
        /\ \A l \in Links : links[l] # "none" => SameTenant(l)
    BY IInvShape DEF IInv, LinksFit, Shape
  <2>2. ASSUME NEW u \in Users, NEW x \in ActiveRoles(u)
        PROVE  roles[x].tenant \in {None, users[u].tenant}
    <3>1. x \in Roles
      BY DEF ActiveRoles
    <3>2. CASE links[<<u, x>>] = "live"
      <4>1. <<u, x>> \in UserRolePairs /\ <<u, x>> \in Links
        BY <3>1 DEF UserRolePairs, Links
      <4>2. QED
        BY <2>1, <3>2, <4>1 DEF SameTenant
    <3>3. ASSUME NEW g \in StoredGroups,
                 links[<<g, u>>] = "live", links[<<g, x>>] = "live"
          PROVE  roles[x].tenant \in {None, users[u].tenant}
      <4>1. /\ <<g, u>> \in MemberPairs /\ <<g, u>> \in Links
            /\ <<g, x>> \in GroupRolePairs /\ <<g, x>> \in Links
        BY <3>1 DEF MemberPairs, GroupRolePairs, Links, StoredGroups
      <4>2. /\ users[u].tenant = groups[g].tenant
            /\ roles[x].tenant \in {None, groups[g].tenant}
        BY <2>1, <3>3, <4>1 DEF SameTenant
      <4>3. QED
        BY <4>2
    <3>4. QED
      BY <3>2, <3>3 DEF ActiveRoles
  <2>3. QED
    BY <2>1, <2>2 DEF TenantIsolation
<1>2. QED
  BY <1>1, MembershipInvariance, PTL

\* One by one, what the audit trail reports as deleted is deleted, and nobody
\* and nothing is left in a deleted group.
THEOREM AuditedDeletionsAreComplete == Spec => []AuditedDeletionIsComplete
<1>1. IInv => AuditedDeletionIsComplete
  BY DEF IInv
<1>2. QED
  BY <1>1, MembershipInvariance, PTL

\* One by one, no call of the groups ends in a constraint of the database.
THEOREM MembershipDuplicatesAreRefused == Spec => []DuplicatesAreRefused
<1>1. IInv => DuplicatesAreRefused
  BY DEF IInv
<1>2. QED
  BY <1>1, MembershipInvariance, PTL
-----------------------------------------------------------------------------
(* What a step may do *)

\* Whom request r may change the links of: the group or user of its URL.
LEMMA LinksChange ==
  ASSUME Shape, NEW r \in Requests, Statement(r),
         NEW l \in Links, links'[l] # links[l]
  PROVE  /\ pc[r] \in Statements /\ TargetFits(r)
         /\ frame[r].path \in OnGroup \cup OnUser
         /\ l[1] = frame[r].target
         /\ UNCHANGED <<groups, users, roles>>
<1>1. pc[r] \in Statements
  BY StatementMoves DEF Shape
<1>2. TargetFits(r)
  BY <1>1, FrameAt
<1>3. CASE DropMembers(r) \/ DropRoles(r)
  <2>1. /\ pc[r] \in {"dropMembers", "dropRoles"}
        /\ UNCHANGED <<groups, users, roles>>
        /\ Drop(r, MemberPairs) \/ Drop(r, GroupRolePairs)
    BY <1>3 DEF DropMembers, DropRoles
  <2>2. l \in LinksOf(frame[r].target)
    BY <2>1, DropLinks DEF Shape
  <2>3. frame[r].path = "deleteGroup"
    BY <1>1, <2>1, FrameAt, PathOf
  <2>4. QED
    BY <1>1, <1>2, <2>1, <2>2, <2>3 DEF LinksOf, OnGroup
<1>4. CASE InsertLink(r) \/ SaveLink(r)
  <2>1. /\ UNCHANGED <<groups, users, roles>>
        /\ pc[r] \in {"insertLink", "saveLink"} /\ l = frame[r].link
    BY <1>4 DEF InsertLink, SaveLink, Shape, Types
  <2>2. frame[r].path \in Additions \cup Removals /\ l[1] = frame[r].target
    BY <2>1, LinkToWrite
  <2>3. QED
    BY <1>1, <1>2, <2>1, <2>2, PathKinds
<1>5. CASE links' = links
  BY <1>5
<1>6. QED
  BY <1>3, <1>4, <1>5 DEF Statement, Step, CheckCode, CheckUser, CheckRole, Check,
     FindLink, InsertGroup, Reload, Write, SaveUser, Audit, Abort, tables

\* The row of a role or an account that a statement changes is its target.
LEMMA RolesChange ==
  ASSUME Shape, NEW r \in Requests, Statement(r),
         NEW x \in Roles, roles'[x] # roles[x]
  PROVE  /\ Write(r) /\ pc[r] = "write"
         /\ frame[r].path \in OnRole /\ x = frame[r].target /\ TargetFits(r)
<1>1. Write(r) /\ pc[r] = "write"
  BY DEF Statement, Step, CheckCode, CheckUser, CheckRole, Check, FindLink,
     InsertGroup, Reload, Write, DropMembers, DropRoles, InsertLink, SaveLink,
     SaveUser, Audit, Abort, tables
<1> DEFINE m == Merge(roles[frame[r].target], frame[r].base, frame[r].ent)
<1>2. \/ roles' = roles
      \/ frame[r].path \in OnRole /\ roles' = [roles EXCEPT ![frame[r].target] = m]
  BY <1>1, WrittenRow
<1> HIDE DEF m
<1>3. frame[r].path \in OnRole /\ x = frame[r].target
  BY <1>2 DEF Shape, Types
<1>4. QED
  BY <1>1, <1>3, FrameAt DEF Statements

LEMMA UsersChange ==
  ASSUME Shape, NEW r \in Requests, Statement(r),
         NEW u \in Users, users'[u] # users[u]
  PROVE  frame[r].path \in OnUser /\ u = frame[r].target /\ TargetFits(r)
<1>1. SaveUser(r) /\ pc[r] = "saveUser"
  BY DEF Statement, Step, CheckCode, CheckUser, CheckRole, Check, FindLink,
     InsertGroup, Reload, Write, DropMembers, DropRoles, InsertLink, SaveLink,
     SaveUser, Audit, Abort, tables
<1>2. u = frame[r].target
  BY <1>1 DEF SaveUser, Shape, Types
<1>3. frame[r].path = "deleteUser" /\ TargetFits(r)
  BY <1>1, FrameAt, PathOf DEF Statements
<1>4. QED
  BY <1>2, <1>3 DEF OnUser

\* A changed row of core.groups is the target's, and is of its tenant.
LEMMA GroupChange ==
  ASSUME Shape, NEW r \in Requests, Statement(r),
         NEW g \in GroupIds, groups'[g] # groups[g]
  PROVE  InScope(groups'[g].tenant, frame[r].scope)
<1>1. CASE /\ pc[r] = "insertGroup" /\ groups' = [groups EXCEPT ![r] = frame[r].ent]
  <2>1. frame[r].path = "createGroup" /\ TargetFits(r)
    BY <1>1, FrameAt, PathOf DEF Statements
  <2>2. g = r /\ groups'[g] = frame[r].ent
    BY <1>1 DEF Shape, Types
  <2>3. QED
    BY <2>1, <2>2 DEF TargetFits
<1>2. CASE Write(r)
  <2> DEFINE m == Merge(groups[frame[r].target], frame[r].base, frame[r].ent)
  <2>1. \/ groups' = groups
        \/ /\ frame[r].path \in OnGroup
           /\ groups' = [groups EXCEPT ![frame[r].target] = m]
           /\ m.tenant = groups[frame[r].target].tenant
    BY <1>2, WrittenRow
  <2> HIDE DEF m
  <2>2. /\ frame[r].path \in OnGroup
        /\ groups'[g].tenant = groups[frame[r].target].tenant
    BY <2>1 DEF Shape, Types
  <2>3. TargetFits(r)
    BY <1>2, FrameAt DEF Write, Statements
  <2>4. QED
    BY <2>2, <2>3 DEF TargetFits
<1>3. QED
  BY <1>1, <1>2, GroupsChange

\* Whatever overlaps, what a tenant's administrator changes is of that tenant.
THEOREM ScopedChangesStayHome == Spec => ScopedChangesOwnTenant
<1> DEFINE Scoped ==
      \A r \in Requests :
        pc[r] # pc'[r] /\ frame[r].scope # None =>
          /\ \A g \in GroupIds : groups[g] # groups'[g] =>
               groups'[g].tenant = frame[r].scope
          /\ \A x \in Roles : roles[x] # roles'[x] =>
               roles[x].tenant = frame[r].scope
          /\ \A u \in Users : users[u] # users'[u] =>
               users[u].tenant = frame[r].scope
          /\ \A l \in Links : links[l] # links'[l] =>
               frame[r].scope = IF l[1] \in Users THEN users[l[1]].tenant
                                ELSE groups[l[1]].tenant
<1>1. ASSUME IInv, [Next]_vars
      PROVE  [Scoped]_vars
  <2> SUFFICES ASSUME NEW r \in Requests, pc[r] # pc'[r], frame[r].scope # None
               PROVE  /\ \A g \in GroupIds : groups[g] # groups'[g] =>
                           groups'[g].tenant = frame[r].scope
                      /\ \A x \in Roles : roles[x] # roles'[x] =>
                           roles[x].tenant = frame[r].scope
                      /\ \A u \in Users : users[u] # users'[u] =>
                           users[u].tenant = frame[r].scope
                      /\ \A l \in Links : links[l] # links'[l] =>
                           frame[r].scope = IF l[1] \in Users
                                            THEN users[l[1]].tenant
                                            ELSE groups[l[1]].tenant
    OBVIOUS
  <2>1. Shape /\ Types
    BY <1>1, IInvShape DEF Shape
  <2>2. CASE UNCHANGED tables
    BY <2>2 DEF tables
  <2>3. CASE Statement(r)
    <3>1. \A tenant : InScope(tenant, frame[r].scope) => tenant = frame[r].scope
      BY DEF InScope
    <3>2. \A g \in GroupIds : groups[g] # groups'[g] =>
            groups'[g].tenant = frame[r].scope
      BY <2>1, <2>3, <3>1, GroupChange
    <3>3. \A x \in Roles : roles[x] # roles'[x] => roles[x].tenant = frame[r].scope
      BY <2>1, <2>3, <3>1, RolesChange DEF TargetFits
    <3>4. \A u \in Users : users[u] # users'[u] => users[u].tenant = frame[r].scope
      BY <2>1, <2>3, <3>1, UsersChange DEF TargetFits
    <3>5. ASSUME NEW l \in Links, links[l] # links'[l]
          PROVE  frame[r].scope = IF l[1] \in Users THEN users[l[1]].tenant
                                  ELSE groups[l[1]].tenant
      <4>1. /\ TargetFits(r) /\ frame[r].path \in OnGroup \cup OnUser
            /\ l[1] = frame[r].target
        BY <2>1, <2>3, <3>5, LinksChange
      <4>2. CASE frame[r].path \in OnGroup
        <5>1. l[1] \notin Users /\ InScope(groups[l[1]].tenant, frame[r].scope)
          BY <4>1, <4>2, MembershipIdsAssumption DEF TargetFits, StoredGroups
        <5>2. QED
          BY <3>1, <5>1
      <4>3. CASE frame[r].path \in OnUser
        <5>1. l[1] \in Users /\ InScope(users[l[1]].tenant, frame[r].scope)
          BY <4>1, <4>3 DEF TargetFits
        <5>2. QED
          BY <3>1, <5>1
      <4>4. QED
        BY <4>1, <4>2, <4>3
    <3>6. QED
      BY <3>2, <3>3, <3>4, <3>5
  <2>4. ASSUME NEW q \in Requests, Statement(q)
        PROVE  q = r
    BY <2>1, <2>4, StatementMoves
  <2>5. QED
    BY <1>1, <2>1, <2>2, <2>3, <2>4, NextCases DEF Begins, vars
<1>2. QED
  BY <1>1, MembershipInvariance, PTL DEF Spec, ScopedChangesOwnTenant

\* As long as no group and no role changes, a role is gained through a link.
LEMMA GainedByLink ==
  ASSUME Types, NEW u \in Users, NEW x \in Roles,
         UNCHANGED <<groups, roles>>,
         x \in ActiveRoles(u)', x \notin ActiveRoles(u)
  PROVE  \E l \in LiveLinks' \ LiveLinks : u \in {l[1], l[2]} \/ x = l[2]
<1>1. /\ ~roles[x].isDeleted /\ roles[x].status = "ACTIVE"
      /\ StoredGroups' = StoredGroups
  BY DEF ActiveRoles, StoredGroups
<1>2. CASE links'[<<u, x>>] = "live"
  <2>1. <<u, x>> \in Links
    BY DEF Links, UserRolePairs
  <2>2. links[<<u, x>>] # "live"
    BY <1>1 DEF ActiveRoles
  <2>3. <<u, x>> \in LiveLinks' \ LiveLinks
    BY <1>2, <2>1, <2>2 DEF LiveLinks
  <2>4. QED
    BY <2>3
<1>3. ASSUME NEW g \in StoredGroups,
             links'[<<g, u>>] = "live", links'[<<g, x>>] = "live",
             ~groups[g].isDeleted, groups[g].status = "ACTIVE"
      PROVE  \E l \in LiveLinks' \ LiveLinks : u \in {l[1], l[2]} \/ x = l[2]
  <2>1. <<g, u>> \in Links /\ <<g, x>> \in Links
    BY DEF Links, MemberPairs, GroupRolePairs, StoredGroups
  <2>2. links[<<g, u>>] # "live" \/ links[<<g, x>>] # "live"
    BY <1>1, <1>3 DEF ActiveRoles
  <2>3. \/ <<g, u>> \in LiveLinks' \ LiveLinks
        \/ <<g, x>> \in LiveLinks' \ LiveLinks
    BY <1>3, <2>1, <2>2 DEF LiveLinks
  <2>4. QED
    BY <2>3
<1>4. QED
  BY <1>1, <1>2, <1>3 DEF ActiveRoles

\* One by one, an account gains a role by a link that was asked for or by the
\* activation of the role or of one of its groups, never by a creation or by
\* what a deletion left behind.
THEOREM AccessIsAskedFor == Spec => AccessGrowsWhenAsked
<1>1. ASSUME IInv, [Next]_vars
      PROVE  [AccessHasCause]_vars
  <2> SUFFICES ASSUME ~overlapped, NEW u \in Users,
                      NEW x \in ActiveRoles(u)' \ ActiveRoles(u)
               PROVE  CauseOfAccess(u, x)
    BY DEF AccessHasCause
  <2>1. Shape /\ Types /\ LinksFit /\ OneByOne /\ AloneHolds
    BY <1>1, IInvShape DEF IInv, Shape
  <2>2. /\ x \in Roles /\ ~roles'[x].isDeleted /\ roles'[x].status = "ACTIVE"
        /\ roles[x] \in Role
    BY <2>1 DEF ActiveRoles, Types
  <2>3. CASE UNCHANGED <<groups, roles>>
    BY <2>1, <2>2, <2>3, GainedByLink DEF CauseOfAccess
  <2>4. ASSUME NEW r \in Requests, Statement(r),
               pc[r] = "insertGroup", groups[r] = None,
               groups' = [groups EXCEPT ![r] = frame[r].ent],
               UNCHANGED <<users, roles, links, audit>>
        PROVE  CauseOfAccess(u, x)
    <3>1. links[<<u, x>>] # "live"
      BY <2>2, <2>4 DEF ActiveRoles
    <3>2. PICK g \in StoredGroups' :
            /\ links[<<g, u>>] = "live" /\ links[<<g, x>>] = "live"
            /\ ~groups'[g].isDeleted /\ groups'[g].status = "ACTIVE"
      BY <2>4, <3>1 DEF ActiveRoles
    <3>3. <<g, u>> \in Links /\ g \in GroupIds
      BY <3>2 DEF Links, MemberPairs, StoredGroups
    <3>4. g \in StoredGroups
      BY <2>1, <3>2, <3>3, MembershipIdsAssumption DEF LinksFit
    <3>5. g # r /\ groups'[g] = groups[g]
      BY <2>1, <2>4, <3>4 DEF StoredGroups, Types
    <3>6. QED
      BY <2>2, <2>4, <3>2, <3>4, <3>5 DEF ActiveRoles
  <2>5. ASSUME NEW r \in Requests, Write(r)
        PROVE  CauseOfAccess(u, x)
    <3>1. pc[r] = "write" /\ UNCHANGED <<users, links>> /\ CheckedHolds(r)
      BY <2>1, <2>5 DEF Write, AloneHolds, InFlight, Statements
    <3> DEFINE target == frame[r].target
               mg == Merge(groups[target], frame[r].base, frame[r].ent)
               mx == Merge(roles[target], frame[r].base, frame[r].ent)
    <3>2. \/ /\ frame[r].path \in OnGroup /\ target \in StoredGroups
             /\ groups[target] \in Group
             /\ groups' = [groups EXCEPT ![target] = mg] /\ roles' = roles
          \/ /\ frame[r].path \in OnRole /\ target \in Roles
             /\ roles' = [roles EXCEPT ![target] = mx] /\ groups' = groups
      BY <2>1, <2>5, WrittenRow
    <3> HIDE DEF target, mg, mx
    <3>3. CASE /\ frame[r].path \in OnGroup /\ target \in StoredGroups
               /\ groups[target] \in Group
               /\ groups' = [groups EXCEPT ![target] = mg] /\ roles' = roles
      <4>1. ~groups[target].isDeleted
        BY <3>1, <3>3 DEF CheckedHolds, target
      <4>2. links[<<u, x>>] # "live"
        BY <2>2, <3>1, <3>3 DEF ActiveRoles
      <4>3. PICK g \in StoredGroups' :
              /\ links[<<g, u>>] = "live" /\ links[<<g, x>>] = "live"
              /\ ~groups'[g].isDeleted /\ groups'[g].status = "ACTIVE"
        BY <3>1, <4>2 DEF ActiveRoles
      <4>4. CASE g = target
        <5>1. groups[g].status # "ACTIVE"
          BY <2>2, <3>3, <4>1, <4>3, <4>4 DEF ActiveRoles
        <5>2. groups[g].status = "INACTIVE"
          BY <3>3, <4>4, <5>1 DEF Group, Status
        <5>3. QED
          BY <3>3, <4>1, <4>3, <4>4, <5>2 DEF CauseOfAccess
      <4>5. CASE g # target
        <5>1. groups'[g] = groups[g] /\ g \in StoredGroups
          BY <2>1, <3>3, <4>5 DEF Types, StoredGroups
        <5>2. QED
          BY <2>2, <3>3, <4>3, <5>1 DEF ActiveRoles
      <4>6. QED
        BY <4>4, <4>5
    <3>4. CASE /\ frame[r].path \in OnRole /\ target \in Roles
               /\ roles' = [roles EXCEPT ![target] = mx] /\ groups' = groups
      <4>1. ~roles[target].isDeleted
        BY <3>1, <3>4 DEF CheckedHolds, target
      <4>2. StoredGroups' = StoredGroups
        BY <3>4 DEF StoredGroups
      <4>3. ~(~roles[x].isDeleted /\ roles[x].status = "ACTIVE")
        BY <2>2, <3>1, <3>4, <4>2 DEF ActiveRoles
      <4>4. x = target
        BY <2>1, <2>2, <3>4, <4>3 DEF Types
      <4>5. roles[x].status = "INACTIVE"
        BY <2>2, <4>1, <4>3, <4>4 DEF Role, Status
      <4>6. QED
        BY <4>5 DEF CauseOfAccess
    <3>5. QED
      BY <3>2, <3>3, <3>4
  <2>6. ASSUME NEW r \in Requests, Statement(r), ~Write(r), groups' = groups
        PROVE  roles' = roles
    <3>1. \A y \in Roles : roles'[y] = roles[y]
      BY <2>1, <2>6, RolesChange
    <3>2. roles' \in [Roles -> Role]
      <4>1. Shape'
        BY <1>1, <2>1, ShapeStep
      <4>2. QED
        BY <4>1 DEF Shape, Types
    <3>3. QED
      BY <2>1, <3>1, <3>2 DEF Types
  <2>7. ASSUME NEW r \in Requests, Statement(r)
        PROVE  CauseOfAccess(u, x)
    BY <2>1, <2>3, <2>4, <2>5, <2>6, <2>7, GroupsChange
  <2>8. QED
    BY <1>1, <2>1, <2>3, <2>7, NextCases DEF Begins, vars, tables
<1>2. QED
  BY <1>1, MembershipInvariance, PTL DEF Spec, AccessGrowsWhenAsked
=============================================================================
