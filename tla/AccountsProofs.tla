--------------------------- MODULE AccountsProofs ---------------------------
(***************************************************************************)
(* Theorems about Accounts, for every set of tenants, accounts, names and  *)
(* requests.                                                               *)
(*                                                                         *)
(* The counting argument: the accounts of a tenant that are live, or that  *)
(* a request may still insert or bring back, form a set that only a        *)
(* passing check of the seats can enlarge, and such a check passes only    *)
(* while fewer accounts are live than the limit it has read allows.  One   *)
(* by one, what a request has read or checked holds until it is done.      *)
(***************************************************************************)
EXTENDS Accounts, CountingLemmas

-----------------------------------------------------------------------------
(* Rows and frames *)

LEMMA NoneIsNoRow == None \notin Tenant /\ None \notin User /\ None \notin Draft
BY AccountsNoneAssumption

LEMMA NoCallType ==
  NoCall \in Frame /\ NoCall.path = "none" /\ NoCall.role = None
BY DEF NoCall, Frame

LEMMA RowFields ==
  /\ \A row \in User :
       /\ row.tenant \in TenantIds /\ row.tenant # None
       /\ row.username \in Usernames /\ row.email \in Emails
       /\ row.isDeleted \in BOOLEAN
  /\ \A row \in Draft :
       /\ row.tenant = None /\ row.username \in Usernames
       /\ row.email \in Emails /\ row.isDeleted = FALSE
  /\ \A row \in Tenant :
       /\ row.code \in Codes /\ row.limit \in Limits \cup {None}
       /\ row.isDeleted \in BOOLEAN
BY AccountsNoneAssumption DEF User, Draft, Tenant

\* save leaves a row of the same tenant and username, which is deleted as the
\* row was or as the entity is.
LEMMA MergedUser ==
  ASSUME NEW row \in User, NEW base \in User, NEW ent \in User
  PROVE  LET m == MergeUser(row, base, ent) IN
         /\ m \in User
         /\ m.tenant = row.tenant /\ m.username = row.username
         /\ ~m.isDeleted => ~row.isDeleted \/ ~ent.isDeleted
         /\ ent.isDeleted => m.isDeleted = row.isDeleted \/ m.isDeleted
         /\ base = row => m.email = ent.email /\ m.isDeleted = ent.isDeleted
BY DEF MergeUser, User

LEMMA MergedTenant ==
  ASSUME NEW row \in Tenant, NEW base \in Tenant, NEW ent \in Tenant
  PROVE  LET m == MergeTenant(row, base, ent) IN
         /\ m \in Tenant
         /\ base = row => m.code = ent.code /\ m.isDeleted = ent.isDeleted
BY DEF MergeTenant, Tenant

\* The type invariant without the part that FramesFit implies.
Types ==
  /\ tenants \in [TenantIds -> Tenant \cup {None}]
  /\ users \in [UserIds -> User \cup {None}]
  /\ userRoles \in [UserIds \X PlatformRoles -> Presence]
  /\ pc \in [Requests -> {"idle"} \cup Statements \cup Outcomes]
  /\ frame \in [Requests -> Frame]
  /\ registered \subseteq Requests
  /\ peak \in [TenantIds -> {0} \cup Limits \cup {None}]
  /\ overlapped \in BOOLEAN
  /\ \A u \in StoredUsers : users[u].tenant \in StoredTenants
  /\ \A u \in UserIds, x \in PlatformRoles :
       userRoles[<<u, x>>] # "none" => u \in StoredUsers

LEMMA TypeOKTypes == TypeOK => Types
BY DEF Types, TypeOK

\* A request that saves a row saves it for one of the handlers.
LEMMA SavingPaths ==
  ASSUME Types, FramesFit, NEW r \in Requests, pc[r] \in {"reload", "write"}
  PROVE  /\ FrameFits(r) /\ frame[r].path \in UserHandlers \cup TenantHandlers
         /\ frame[r].path \in UserHandlers =>
              frame[r].path \in {"updateUser", "deleteUser"} /\ AccountFits(r)
         /\ frame[r].path \in TenantHandlers =>
              frame[r].path \in {"updateTenant", "deleteTenant"} /\ TenantFits(r)
<1>1. FrameFits(r) /\ frame[r] \in Frame /\ pc[r] \in Statements /\ pc[r] \in Saving
  BY DEF FramesFit, Types, Statements, Saving
<1>2. /\ frame[r].path \in UserHandlers \cup TenantHandlers
      /\ pc[r] \in StatementsOf(frame[r].path)
  BY <1>1 DEF FrameFits, Frame
<1>3. frame[r].path \notin {"createUser", "register", "createTenant"}
  BY <1>2 DEF StatementsOf, Drafting
<1>4. /\ frame[r].path \in UserHandlers =>
           frame[r].path \in {"updateUser", "deleteUser"}
      /\ frame[r].path \in TenantHandlers =>
           frame[r].path \in {"updateTenant", "deleteTenant"}
  BY <1>3 DEF UserHandlers, TenantHandlers
<1>5. QED
  BY <1>1, <1>2, <1>4 DEF FrameFits

LEMMA TypesFit == Types /\ FramesFit => TypeOK
<1> SUFFICES ASSUME Types, FramesFit
             PROVE  TypeOK
  OBVIOUS
<1>1. ASSUME NEW r \in Requests, pc[r] \in {"reload", "write"}
      PROVE  IF frame[r].path \in UserHandlers
             THEN /\ frame[r].target \in StoredUsers
                  /\ frame[r].ent.tenant = users[frame[r].target].tenant
             ELSE frame[r].target \in StoredTenants
  BY <1>1, SavingPaths DEF AccountFits, TenantFits
<1>2. QED
  BY <1>1 DEF Types, TypeOK

-----------------------------------------------------------------------------
(* How calls begin *)

Opening == {"email", "reload", "insertTenant", "refused"}

NewAccount(r, st, c) ==
  /\ st = "email" /\ c.path \in {"createUser", "register"} /\ c.target = r
  /\ c.ent \in Draft /\ UsernameAvailable(c.ent.username)
  /\ c.path = "register" => c.scope = None

OldAccount(st, c) ==
  /\ st \in {"email", "reload"} /\ c.path \in {"updateUser", "deleteUser"}
  /\ c.target \in LiveUsers
  /\ c.ent \in User /\ c.ent.tenant = users[c.target].tenant
  /\ c.ent.isDeleted <=> c.path = "deleteUser"
  /\ c.path = "deleteUser" =>
       st = "reload" /\ c.role = None /\ c.ent.email = users[c.target].email
  /\ c.path = "updateUser" =>
       /\ c.ent.email = Lower(c.ent.email)
       /\ st = "email" => c.ent.email # users[c.target].email
       /\ st = "reload" => c.ent.email = Lower(users[c.target].email)

NewTenant(r, st, c) ==
  /\ st = "insertTenant" /\ c.path = "createTenant" /\ c.target = r
  /\ c.ent \in Tenant /\ ~c.ent.isDeleted /\ CodeAvailable(c.ent.code)

OldTenant(st, c) ==
  /\ st = "reload" /\ c.path \in {"updateTenant", "deleteTenant"}
  /\ c.target \in StoredTenants /\ c.ent \in Tenant
  /\ c.ent.isDeleted <=> c.path = "deleteTenant"
  /\ c.path = "updateTenant" => c.target \in LiveTenants

\* What the first statement of a handler leaves in the frame of request r.
WellFormed(r, st, c) ==
  \/ st = "refused"
  \/ NewAccount(r, st, c) \/ OldAccount(st, c)
  \/ NewTenant(r, st, c) \/ OldTenant(st, c)

\* A step that begins request r.
Begins(r) ==
  /\ pc[r] = "idle"
  /\ Cardinality(InFlight) < MaxInFlight
  /\ \E st \in Opening, c \in Frame :
       /\ WellFormed(r, st, c)
       /\ pc' = [pc EXCEPT ![r] = st]
       /\ frame' = [frame EXCEPT ![r] = c]
  /\ overlapped' = (overlapped \/ InFlight # {})
  /\ UNCHANGED <<tenants, users, userRoles, registered, peak>>

LEMMA BeginBegins ==
  ASSUME NEW r \in Requests, NEW h, NEW st \in Opening, NEW c \in Frame,
         pc[r] = "idle", Cardinality(InFlight) < MaxInFlight,
         WellFormed(r, st, c), Begin(r, h, st, c)
  PROVE  Begins(r)
<1> DEFINE f == IF st \in Outcomes THEN NoCall ELSE c
<1>1. f \in Frame /\ WellFormed(r, st, f)
  BY NoCallType DEF WellFormed, Opening, Outcomes
<1>2. QED
  BY <1>1 DEF Begin, Begins

LEMMA CallFrame ==
  ASSUME NEW path \in UserHandlers \cup TenantHandlers,
         NEW target \in TenantIds \cup UserIds, NEW ent \in User \cup Draft \cup Tenant
  PROVE  /\ Call(path, target, ent) \in Frame
         /\ Call(path, target, ent).path = path
         /\ Call(path, target, ent).target = target
         /\ Call(path, target, ent).ent = ent
         /\ Call(path, target, ent).role = None
         /\ Call(path, target, ent).scope = None
BY DEF Call, NoCall, Frame

\* What a call asks for beside that.
Asks(d, c) ==
  /\ d \in Frame /\ d.path = c.path /\ d.target = c.target /\ d.ent = c.ent

LEMMA AskingFrame ==
  ASSUME NEW c \in Frame, NEW scope \in TenantIds \cup {None},
         NEW asked \in TenantIds \cup Codes \cup {None},
         NEW role \in ApiRoles \cup {"USER", None}
  PROVE  /\ Asks([c EXCEPT !.scope = scope, !.asked = asked, !.role = role], c)
         /\ Asks([c EXCEPT !.asked = asked], c)
         /\ [c EXCEPT !.asked = asked].scope = c.scope
         /\ Asks([c EXCEPT !.role = role], c)
<1>1. Asks([c EXCEPT !.scope = scope, !.asked = asked, !.role = role], c)
  <2> DEFINE d1 == [c EXCEPT !.scope = scope]
             d2 == [d1 EXCEPT !.asked = asked]
             d3 == [d2 EXCEPT !.role = role]
  <2>1. [c EXCEPT !.scope = scope, !.asked = asked, !.role = role] = d3
    OBVIOUS
  <2>2. Asks(d1, c)
    BY DEF Asks, Frame
  <2> HIDE DEF d1
  <2>3. Asks(d2, d1)
    BY <2>2 DEF Asks, Frame
  <2> HIDE DEF d2
  <2>4. Asks(d3, d2)
    BY <2>3 DEF Asks, Frame
  <2> HIDE DEF d3
  <2>5. QED
    BY <2>1, <2>2, <2>3, <2>4 DEF Asks
<1>2. /\ Asks([c EXCEPT !.asked = asked], c)
      /\ [c EXCEPT !.asked = asked].scope = c.scope
  BY DEF Asks, Frame
<1>3. Asks([c EXCEPT !.role = role], c)
  BY DEF Asks, Frame
<1>4. QED
  BY <1>1, <1>2, <1>3

LEMMA NewUserType ==
  ASSUME NEW n \in Usernames, NEW e \in Emails
  PROVE  /\ NewUser(n, e) \in Draft
         /\ NewUser(n, e).username = n /\ NewUser(n, e).email = e
BY DEF NewUser, Draft

LEMMA CreateUserBegins ==
  ASSUME NEW r \in Requests, NEW scope \in TenantIds \cup {None},
         NEW t \in TenantIds \cup {None}, NEW n \in Usernames, NEW w \in Words,
         NEW role \in ApiRoles \cup {None},
         pc[r] = "idle", Cardinality(InFlight) < MaxInFlight,
         CreateUser(r, scope, t, n, w, role)
  PROVE  Begins(r)
<1> DEFINE ent == NewUser(n, <<w, "lower">>)
           st == IF UsernameAvailable(n) THEN "email" ELSE "refused"
           asked == IF t = None THEN scope ELSE t
           due == IF role = None THEN "USER" ELSE role
           c == [Call("createUser", r, ent) EXCEPT
                   !.scope = scope, !.asked = asked, !.role = due]
<1>1. Begin(r, "createUser", st, c)
  BY DEF CreateUser
<1>2. ent \in Draft /\ ent.username = n
  BY NewUserType DEF Emails
<1>3. asked \in TenantIds \cup Codes \cup {None} /\ due \in ApiRoles \cup {"USER", None}
  OBVIOUS
<1> HIDE DEF ent, asked, due
<1>4. c \in Frame /\ c.path = "createUser" /\ c.target = r /\ c.ent = ent
  <2> DEFINE call == Call("createUser", r, ent)
  <2>1. /\ call \in Frame /\ call.path = "createUser" /\ call.target = r
        /\ call.ent = ent
    BY <1>2, CallFrame DEF UserHandlers, UserIds
  <2>2. Asks(c, call)
    BY <1>3, <2>1, AskingFrame
  <2> HIDE DEF call, c
  <2>3. QED
    BY <2>1, <2>2 DEF Asks
<1> HIDE DEF c
<1>5. WellFormed(r, st, c) /\ st \in Opening
  BY <1>2, <1>4 DEF WellFormed, NewAccount, Opening
<1> HIDE DEF st
<1>6. QED
  BY <1>1, <1>4, <1>5, BeginBegins

LEMMA RegisterBegins ==
  ASSUME NEW r \in Requests, NEW code \in Codes \cup {None}, NEW n \in Usernames,
         NEW e \in Emails, pc[r] = "idle", Cardinality(InFlight) < MaxInFlight,
         Register(r, code, n, e)
  PROVE  Begins(r)
<1> DEFINE ent == NewUser(n, e)
           st == IF UsernameAvailable(n) THEN "email" ELSE "refused"
           c == [Call("register", r, ent) EXCEPT !.asked = code]
<1>1. Begin(r, "register", st, c)
  BY DEF Register
<1>2. ent \in Draft /\ ent.username = n
  BY NewUserType
<1> HIDE DEF ent
<1>3. /\ c \in Frame /\ c.path = "register" /\ c.target = r /\ c.ent = ent
      /\ c.scope = None
  <2> DEFINE call == Call("register", r, ent)
  <2>1. /\ call \in Frame /\ call.path = "register" /\ call.target = r
        /\ call.ent = ent /\ call.scope = None
    BY <1>2, CallFrame DEF UserHandlers, UserIds
  <2>2. Asks(c, call) /\ c.scope = call.scope
    BY <2>1, AskingFrame
  <2> HIDE DEF call, c
  <2>3. QED
    BY <2>1, <2>2 DEF Asks
<1> HIDE DEF c
<1>4. WellFormed(r, st, c) /\ st \in Opening
  BY <1>2, <1>3 DEF WellFormed, NewAccount, Opening
<1> HIDE DEF st
<1>5. QED
  BY <1>1, <1>3, <1>4, BeginBegins

\* The row of an account that was found.
LEMMA FoundAccount ==
  ASSUME Types, NEW u, NEW scope, FoundUser(u, scope)
  PROVE  /\ u \in UserIds /\ u \in LiveUsers
         /\ users[u] \in User /\ ~users[u].isDeleted
BY DEF FoundUser, LiveUsers, StoredUsers, Types

LEMMA UpdateUserBegins ==
  ASSUME Types, NEW r \in Requests, NEW scope, NEW u \in UserIds, NEW w \in Words,
         NEW role \in ApiRoles \cup {None},
         pc[r] = "idle", Cardinality(InFlight) < MaxInFlight,
         UpdateUser(r, scope, u, w, role)
  PROVE  Begins(r)
<1> DEFINE e == <<w, "lower">>
           ent == [users[u] EXCEPT !.email = e]
           st == IF e = Lower(users[u].email) THEN "reload" ELSE "email"
           c == [Call("updateUser", u, ent) EXCEPT !.role = role]
<1>1. FoundUser(u, scope) /\ Begin(r, "updateUser", st, c)
  BY DEF UpdateUser
<1>2. u \in LiveUsers /\ users[u] \in User /\ ~users[u].isDeleted
  BY <1>1, FoundAccount
<1>3. e \in Emails /\ Lower(e) = e
  BY DEF Emails, Lower
<1>4. users[u].email = e => e = Lower(users[u].email)
  BY <1>3
<1> HIDE DEF e
<1>5. /\ ent \in User /\ ent.tenant = users[u].tenant /\ ent.email = e
      /\ ent.isDeleted = users[u].isDeleted
  BY <1>2, <1>3 DEF User
<1> HIDE DEF ent
<1>6. c \in Frame /\ c.path = "updateUser" /\ c.target = u /\ c.ent = ent
  <2> DEFINE call == Call("updateUser", u, ent)
  <2>1. /\ call \in Frame /\ call.path = "updateUser" /\ call.target = u
        /\ call.ent = ent
    BY <1>5, CallFrame DEF UserHandlers
  <2>2. Asks(c, call)
    BY <2>1, AskingFrame
  <2> HIDE DEF call, c
  <2>3. QED
    BY <2>1, <2>2 DEF Asks
<1> HIDE DEF c
<1>7. OldAccount(st, c)
  BY <1>2, <1>3, <1>4, <1>5, <1>6 DEF OldAccount
<1>8. WellFormed(r, st, c) /\ st \in Opening
  BY <1>7 DEF WellFormed, Opening
<1> HIDE DEF st
<1>9. QED
  BY <1>1, <1>6, <1>8, BeginBegins

LEMMA DeleteUserBegins ==
  ASSUME Types, NEW r \in Requests, NEW scope, NEW u \in UserIds,
         pc[r] = "idle", Cardinality(InFlight) < MaxInFlight,
         DeleteUser(r, scope, u)
  PROVE  Begins(r)
<1> DEFINE ent == [users[u] EXCEPT !.isDeleted = TRUE]
           c == Call("deleteUser", u, ent)
<1>1. FoundUser(u, scope) /\ Begin(r, "deleteUser", "reload", c)
  BY DEF DeleteUser
<1>2. u \in LiveUsers /\ users[u] \in User
  BY <1>1, FoundAccount
<1>3. /\ ent \in User /\ ent.tenant = users[u].tenant
      /\ ent.email = users[u].email /\ ent.isDeleted = TRUE
  BY <1>2 DEF User
<1> HIDE DEF ent
<1>4. /\ c \in Frame /\ c.path = "deleteUser" /\ c.target = u /\ c.ent = ent
      /\ c.role = None
  BY <1>3, CallFrame DEF UserHandlers
<1> HIDE DEF c
<1>5. OldAccount("reload", c)
  BY <1>2, <1>3, <1>4 DEF OldAccount
<1>6. WellFormed(r, "reload", c) /\ "reload" \in Opening
  BY <1>5 DEF WellFormed, Opening
<1>7. QED
  BY <1>1, <1>4, <1>6, BeginBegins

LEMMA CreateTenantBegins ==
  ASSUME Types, NEW r \in Requests, NEW code \in Codes,
         NEW limit \in Limits \cup {None},
         pc[r] = "idle", Cardinality(InFlight) < MaxInFlight,
         CreateTenant(r, code, limit)
  PROVE  Begins(r)
<1> DEFINE ent == [code |-> code, limit |-> limit, isDeleted |-> FALSE]
           st == IF CodeAvailable(code) THEN "insertTenant" ELSE "refused"
           c == Call("createTenant", r, ent)
<1>1. Begin(r, "createTenant", st, c)
  BY DEF CreateTenant
<1>2. ent \in Tenant /\ ent.code = code /\ ~ent.isDeleted
  BY DEF Tenant
<1> HIDE DEF ent
<1>3. c \in Frame /\ c.path = "createTenant" /\ c.target = r /\ c.ent = ent
  <2>1. "createTenant" \in TenantHandlers /\ r \in TenantIds
    BY DEF TenantHandlers, TenantIds
  <2>2. QED
    BY <1>2, <2>1, CallFrame
<1> HIDE DEF c
<1>4. WellFormed(r, st, c) /\ st \in Opening
  BY <1>2, <1>3 DEF WellFormed, NewTenant, Opening
<1> HIDE DEF st
<1>5. QED
  BY <1>1, <1>3, <1>4, BeginBegins

LEMMA OldTenantBegins ==
  ASSUME Types, NEW r \in Requests, NEW t \in TenantIds, NEW code \in Codes,
         NEW limit \in Limits \cup {None},
         pc[r] = "idle", Cardinality(InFlight) < MaxInFlight,
         UpdateTenant(r, t, code, limit) \/ DeleteTenant(r, t)
  PROVE  Begins(r)
<1> DEFINE updated == [tenants[t] EXCEPT !.code = code, !.limit = limit]
           deleted == [tenants[t] EXCEPT !.isDeleted = TRUE]
<1>1. t \in StoredTenants /\ tenants[t] \in Tenant
  BY DEF UpdateTenant, DeleteTenant, LiveTenants, StoredTenants, Types
<1>2. /\ updated \in Tenant /\ updated.isDeleted = tenants[t].isDeleted
      /\ deleted \in Tenant /\ deleted.isDeleted = TRUE
  BY <1>1 DEF Tenant
<1>3. CASE UpdateTenant(r, t, code, limit)
  <2> DEFINE c == Call("updateTenant", t, updated)
  <2>1. t \in LiveTenants /\ Begin(r, "updateTenant", "reload", c)
    BY <1>3 DEF UpdateTenant
  <2>2. ~updated.isDeleted
    BY <1>2, <2>1 DEF LiveTenants
  <2> HIDE DEF updated
  <2>3. /\ c \in Frame /\ c.path = "updateTenant" /\ c.target = t
        /\ c.ent = updated
    BY <1>2, CallFrame DEF TenantHandlers
  <2> HIDE DEF c
  <2>4. WellFormed(r, "reload", c) /\ "reload" \in Opening
    BY <1>1, <1>2, <2>1, <2>2, <2>3 DEF WellFormed, OldTenant, Opening
  <2>5. QED
    BY <2>1, <2>3, <2>4, BeginBegins
<1>4. CASE DeleteTenant(r, t)
  <2> DEFINE c == Call("deleteTenant", t, deleted)
  <2>1. Begin(r, "deleteTenant", "reload", c)
    BY <1>4 DEF DeleteTenant
  <2> HIDE DEF deleted
  <2>2. /\ c \in Frame /\ c.path = "deleteTenant" /\ c.target = t
        /\ c.ent = deleted
    BY <1>2, CallFrame DEF TenantHandlers
  <2> HIDE DEF c
  <2>3. WellFormed(r, "reload", c) /\ "reload" \in Opening
    BY <1>1, <1>2, <2>2 DEF WellFormed, OldTenant, Opening
  <2>4. QED
    BY <2>1, <2>2, <2>3, BeginBegins
<1>5. QED
  BY <1>3, <1>4

LEMMA RequestBegins ==
  ASSUME Types, NEW r \in Requests, Request(r)
  PROVE  Begins(r)
<1>1. pc[r] = "idle" /\ Cardinality(InFlight) < MaxInFlight
  BY DEF Request
<1>2. ASSUME NEW handler, Begin(r, handler, "refused", NoCall)
      PROVE  Begins(r)
  BY <1>1, <1>2, NoCallType, BeginBegins DEF WellFormed, Opening
<1>3. ASSUME UserCall(r)
      PROVE  Begins(r)
  <2>1. PICK scope \in Tenants \cup {None} :
          \/ \E t \in StoredTenants \cup {None}, n \in Usernames, w \in Words,
                role \in ApiRoles \cup {None} : CreateUser(r, scope, t, n, w, role)
          \/ \E u \in UserIds, handler \in {"updateUser", "deleteUser"} :
               UserNotFound(r, handler, scope, u)
          \/ \E u \in UserIds, w \in Words, role \in ApiRoles \cup {None} :
               UpdateUser(r, scope, u, w, role)
          \/ \E u \in UserIds : DeleteUser(r, scope, u)
    BY <1>3 DEF UserCall
  <2>2. scope \in TenantIds \cup {None} /\ StoredTenants \subseteq TenantIds
    BY DEF TenantIds, StoredTenants
  <2>3. QED
    BY <1>1, <1>2, <2>1, <2>2, CreateUserBegins, UpdateUserBegins,
       DeleteUserBegins DEF UserNotFound
<1>4. ASSUME TenantCall(r)
      PROVE  Begins(r)
  <2>1. ASSUME NEW t \in TenantIds, DeleteTenant(r, t)
        PROVE  Begins(r)
    <3>1. tenants[t] \in Tenant
      BY <2>1 DEF DeleteTenant, StoredTenants, Types
    <3>2. tenants[t].code \in Codes /\ tenants[t].limit \in Limits \cup {None}
      BY <3>1, RowFields
    <3>3. QED
      BY <1>1, <2>1, <3>2, OldTenantBegins
  <2>2. QED
    BY <1>1, <1>2, <1>4, <2>1, CreateTenantBegins, OldTenantBegins
       DEF TenantCall, TenantNotFound
<1>5. QED
  BY <1>1, <1>3, <1>4, RegisterBegins DEF Request

\* The statements after the first, which the proofs below go through.
Statement(r) ==
  \/ CheckEmail(r) \/ FindTenant(r) \/ CheckSeats(r) \/ InsertUser(r)
  \/ InsertTenant(r) \/ Reload(r) \/ WriteUser(r) \/ WriteTenant(r)
  \/ AssignRole(r) \/ Audit(r) \/ Abort(r)

LEMMA NextCases ==
  ASSUME Types, [Next]_vars
  PROVE  \/ \E r \in Requests : Begins(r) \/ Statement(r)
         \/ UNCHANGED vars
BY RequestBegins DEF Next, Step, Statement

-----------------------------------------------------------------------------
(* Types and frames *)

\* The types of everything but the requests' own variables.
Tables ==
  /\ tenants \in [TenantIds -> Tenant \cup {None}]
  /\ users \in [UserIds -> User \cup {None}]
  /\ userRoles \in [UserIds \X PlatformRoles -> Presence]
  /\ registered \subseteq Requests
  /\ peak \in [TenantIds -> {0} \cup Limits \cup {None}]
  /\ overlapped \in BOOLEAN
  /\ \A u \in StoredUsers : users[u].tenant \in StoredTenants
  /\ \A u \in UserIds, x \in PlatformRoles :
       userRoles[<<u, x>>] # "none" => u \in StoredUsers

Shape == Types /\ FramesFit /\ RowsUnique

\* No row goes, no account changes its tenant, no limit is forgotten, and only
\* request r may have added a row.
Kept(r) ==
  /\ \A x \in Requests \ {r} : /\ users[x] = None => users'[x] = None
                               /\ tenants[x] = None => tenants'[x] = None
  /\ \A t \in StoredTenants : t \in StoredTenants'
  /\ \A u \in StoredUsers : u \in StoredUsers' /\ users'[u].tenant = users[u].tenant
  /\ \A t \in TenantIds, limit \in Limits \cup {None} :
       Covers(peak[t], limit) => Covers(peak'[t], limit)
  /\ \A u \in UserIds, x \in PlatformRoles :
       userRoles[<<u, x>>] # "none" => userRoles'[<<u, x>>] # "none"

LEMMA RoleCodeIn ==
  ASSUME NEW role, NEW b
  PROVE  RoleCode(role, b) \in PlatformRoles
BY DEF RoleCode, PlatformRoles

LEMMA StatementSets ==
  /\ Drafting \subseteq Statements /\ Saving \subseteq Statements
  /\ "idle" \notin Statements /\ Statements \cap Outcomes = {}
  /\ "idle" \notin Outcomes
  /\ {"role", "audit", "reload", "write", "insertTenant"} \subseteq Statements
BY DEF Drafting, Saving, Statements, Outcomes

LEMMA EndedFits ==
  ASSUME NEW r \in Requests, pc'[r] \in Outcomes
  PROVE  FrameFits(r)'
BY StatementSets DEF FrameFits

LEMMA OthersFit ==
  ASSUME Types, NEW r \in Requests, NEW x \in Requests \ {r}, FrameFits(x),
         Kept(r), pc'[x] = pc[x], frame'[x] = frame[x]
  PROVE  FrameFits(x)'
<1> DEFINE f == frame[x]
<1>1. f \in Frame
  BY DEF Types
<1>2. DraftFits(x) /\ pc[x] \in Drafting => DraftFits(x)'
  <2> SUFFICES ASSUME DraftFits(x), pc[x] \in Drafting
               PROVE  DraftFits(x)'
    OBVIOUS
  <2>1. ASSUME f.ent \in User
        PROVE  f.ent.tenant \in StoredTenants'
    BY <2>1 DEF DraftFits, Kept
  <2>2. ASSUME pc[x] = "seats"
        PROVE  Covers(peak'[f.ent.tenant], f.limit)
    <3>1. pc[x] \in StatementsOf(f.path) /\ f.path # "none"
      BY <2>2, StatementSets DEF FrameFits, Drafting
    <3>2. f.path = "createUser"
      <4>1. "seats" \notin Saving /\ "seats" \notin Drafting \ {"seats"}
        BY DEF Saving
      <4>2. QED
        BY <2>2, <3>1, <4>1 DEF StatementsOf
    <3>3. f.ent \in User /\ Covers(peak[f.ent.tenant], f.limit)
      BY <2>2, <3>2 DEF DraftFits
    <3>4. f.ent.tenant \in TenantIds /\ f.limit \in Limits \cup {None}
      BY <1>1, <3>3, RowFields DEF Frame
    <3>5. QED
      BY <3>3, <3>4 DEF Kept
  <2>3. users'[x] = None
    BY DEF DraftFits, Kept
  <2>4. QED
    BY <2>1, <2>2, <2>3 DEF DraftFits
<1>3. AccountFits(x) => AccountFits(x)'
  BY DEF AccountFits, Kept
<1>4. TenantFits(x) => TenantFits(x)'
  BY DEF TenantFits, Kept
<1>5. SavedFits(x) => SavedFits(x)'
  <2> SUFFICES ASSUME SavedFits(x)
               PROVE  SavedFits(x)'
    OBVIOUS
  <2>1. /\ f.target \in StoredUsers /\ f.target \in UserIds
        /\ f.target \in StoredUsers'
        /\ users'[f.target].tenant = users[f.target].tenant
    BY DEF SavedFits, Kept, StoredUsers
  <2>2. RoleOf(x)' = RoleOf(x)
    BY <2>1 DEF RoleOf
  <2>3. PICK code \in PlatformRoles : RoleOf(x) = <<f.target, code>>
    BY RoleCodeIn DEF RoleOf
  <2>4. userRoles[RoleOf(x)] # "none" => userRoles'[RoleOf(x)] # "none"
    BY <2>1, <2>3 DEF Kept
  <2>5. QED
    BY <2>1, <2>2, <2>4 DEF SavedFits
<1>6. pc[x] = "idle" => users'[x] = None /\ tenants'[x] = None
  BY DEF FrameFits, Kept
<1>7. QED
  BY <1>2, <1>3, <1>4, <1>5, <1>6 DEF FrameFits

\* A step of request r keeps the shape of everything when it keeps the rows and
\* leaves r a frame that fits its next statement.
LEMMA StepShape ==
  ASSUME Shape, NEW r \in Requests, Tables', RowsUnique', Kept(r),
         NEW st \in Statements \cup Outcomes, NEW f \in Frame,
         pc' = [pc EXCEPT ![r] = st], frame' = [frame EXCEPT ![r] = f],
         pc'[r] = st /\ frame'[r] = f /\ st \in Statements => FrameFits(r)'
  PROVE  Shape'
<1>1. /\ pc'[r] = st /\ frame'[r] = f
      /\ \A x \in Requests \ {r} : pc'[x] = pc[x] /\ frame'[x] = frame[x]
  BY DEF Shape, Types
<1>2. Types'
  BY DEF Shape, Types, Tables
<1>3. FrameFits(r)'
  BY <1>1, EndedFits
<1>4. ASSUME NEW x \in Requests \ {r}
      PROVE  FrameFits(x)'
  BY <1>1, OthersFit DEF Shape, FramesFit
<1>5. QED
  BY <1>2, <1>3, <1>4 DEF Shape, FramesFit

\* What Goto leaves in the variables of request r.
LEMMA GotoFrame ==
  ASSUME Types, NEW r \in Requests, NEW st, Goto(r, st)
  PROVE  LET f == IF st \in Outcomes THEN NoCall ELSE frame[r] IN
         /\ pc' = [pc EXCEPT ![r] = st] /\ frame' = [frame EXCEPT ![r] = f]
         /\ f \in Frame
         /\ pc'[r] = st /\ (st \notin Outcomes => frame'[r] = frame[r])
BY NoCallType DEF Goto, Types

LEMMA SameTables ==
  ASSUME Shape, NEW r \in Requests,
         UNCHANGED <<tenants, users, userRoles, registered, peak>>,
         overlapped' \in BOOLEAN
  PROVE  Tables' /\ RowsUnique' /\ Kept(r)
<1>1. StoredUsers' = StoredUsers /\ StoredTenants' = StoredTenants
  BY DEF StoredUsers, StoredTenants
<1>2. Tables'
  BY <1>1 DEF Shape, Types, Tables
<1>3. RowsUnique'
  BY <1>1 DEF Shape, RowsUnique, StorableUser
<1>4. Kept(r)
  BY <1>1 DEF Kept
<1>5. QED
  BY <1>2, <1>3, <1>4

\* A statement that only moves request r on.
LEMMA GotoShape ==
  ASSUME Shape, NEW r \in Requests, NEW st \in Statements \cup Outcomes,
         Goto(r, st), UNCHANGED <<tenants, users, userRoles, history>>,
         pc'[r] = st /\ frame'[r] = frame[r] /\ st \in Statements => FrameFits(r)'
  PROVE  Shape'
<1> DEFINE f == IF st \in Outcomes THEN NoCall ELSE frame[r]
<1>1. /\ pc' = [pc EXCEPT ![r] = st] /\ frame' = [frame EXCEPT ![r] = f]
      /\ f \in Frame
      /\ st \notin Outcomes => frame'[r] = frame[r]
  BY GotoFrame DEF Shape
<1>2. Tables' /\ RowsUnique' /\ Kept(r)
  BY SameTables DEF Shape, Types, history
<1>3. st \in Statements => st \notin Outcomes
  BY StatementSets
<1> HIDE DEF f
<1>4. QED
  BY <1>1, <1>2, <1>3, StepShape

LEMMA BeginsShape ==
  ASSUME Shape, NEW r \in Requests, Begins(r)
  PROVE  Shape'
<1>1. PICK st \in Opening, c \in Frame :
        /\ WellFormed(r, st, c)
        /\ pc' = [pc EXCEPT ![r] = st]
        /\ frame' = [frame EXCEPT ![r] = c]
  BY DEF Begins
<1>2. users[r] = None /\ tenants[r] = None
  BY DEF Begins, Shape, FramesFit, FrameFits
<1>3. st \in Statements \cup Outcomes
  BY DEF Opening, Statements, Outcomes
<1>4. /\ Tables' /\ RowsUnique' /\ Kept(r)
      /\ UNCHANGED <<tenants, users, userRoles, registered, peak>>
  BY SameTables DEF Begins, Shape, Types
<1>5. StoredUsers' = StoredUsers /\ StoredTenants' = StoredTenants
  BY <1>4 DEF StoredUsers, StoredTenants
<1>6. ASSUME pc'[r] = st, frame'[r] = c, st \in Statements
      PROVE  FrameFits(r)'
  <2>1. st # "refused" /\ st # "idle"
    BY <1>6, StatementSets DEF Outcomes
  <2>2. CASE NewAccount(r, st, c)
    <3>1. DraftFits(r)'
      BY <1>2, <1>4, <1>6, <2>2, RowFields DEF NewAccount, DraftFits
    <3>2. pc'[r] \in StatementsOf(c.path)
      BY <1>6, <2>2 DEF NewAccount, StatementsOf, Drafting
    <3>3. QED
      BY <1>6, <2>2, <3>1, <3>2 DEF NewAccount, FrameFits, TenantHandlers
  <2>3. CASE OldAccount(st, c)
    <3>1. AccountFits(r)'
      BY <1>4, <1>5, <1>6, <2>3 DEF OldAccount, AccountFits, LiveUsers
    <3>2. pc'[r] \in StatementsOf(c.path)
      BY <1>6, <2>3 DEF OldAccount, StatementsOf, Saving
    <3>3. QED
      BY <1>6, <2>3, <3>1, <3>2 DEF OldAccount, FrameFits, TenantHandlers
  <2>4. CASE NewTenant(r, st, c)
    <3>1. TenantFits(r)'
      BY <1>2, <1>4, <1>6, <2>4 DEF NewTenant, TenantFits
    <3>2. pc'[r] \in StatementsOf(c.path)
      BY <1>6, <2>4 DEF NewTenant, StatementsOf
    <3>3. QED
      BY <1>6, <2>4, <3>1, <3>2 DEF NewTenant, FrameFits
  <2>5. CASE OldTenant(st, c)
    <3>1. TenantFits(r)'
      BY <1>5, <1>6, <2>5 DEF OldTenant, TenantFits
    <3>2. pc'[r] \in StatementsOf(c.path)
      BY <1>6, <2>5 DEF OldTenant, StatementsOf
    <3>3. QED
      BY <1>6, <2>5, <3>1, <3>2 DEF OldTenant, FrameFits
  <2>6. QED
    BY <1>1, <2>1, <2>2, <2>3, <2>4, <2>5 DEF WellFormed
<1>7. QED
  BY <1>1, <1>3, <1>4, <1>6, StepShape
\* Which handlers a statement belongs to.
LEMMA PathsOf ==
  ASSUME NEW r \in Requests, FrameFits(r), pc[r] \in Statements,
         frame[r] \in Frame
  PROVE  LET path == frame[r].path IN
         /\ pc[r] \in StatementsOf(path)
         /\ path \in UserHandlers \cup TenantHandlers
         /\ pc[r] = "email" => path \in {"createUser", "register", "updateUser"}
         /\ pc[r] \in {"tenant", "insertUser"} => path \in {"createUser", "register"}
         /\ pc[r] = "seats" => path = "createUser"
         /\ pc[r] = "insertTenant" => path = "createTenant"
         /\ pc[r] = "role" => path \in {"createUser", "updateUser"}
         /\ pc[r] = "audit" => path \in {"createUser", "updateUser", "deleteUser"}
<1> DEFINE path == frame[r].path
<1>1. pc[r] \in StatementsOf(path) /\ path \in UserHandlers \cup TenantHandlers
  BY DEF FrameFits, Frame
<1>2. path \in {"createUser", "register", "updateUser", "deleteUser",
                "createTenant", "updateTenant", "deleteTenant"}
  BY <1>1 DEF UserHandlers, TenantHandlers
<1>3. /\ pc[r] \in {"email", "tenant", "insertUser"} =>
           path \in {"createUser", "register", "updateUser"}
      /\ pc[r] \in {"tenant", "insertUser"} => path # "updateUser"
      /\ pc[r] = "seats" => path = "createUser"
  BY <1>1, <1>2 DEF StatementsOf, Drafting, Saving
<1>4. /\ pc[r] = "insertTenant" => path = "createTenant"
      /\ pc[r] = "role" => path \in {"createUser", "updateUser"}
      /\ pc[r] = "audit" => path \in {"createUser", "updateUser", "deleteUser"}
  BY <1>1, <1>2 DEF StatementsOf, Drafting, Saving
<1>5. QED
  BY <1>1, <1>3, <1>4

LEMMA CheckEmailShape ==
  ASSUME Shape, NEW r \in Requests, CheckEmail(r)
  PROVE  Shape'
<1> DEFINE next == CASE frame[r].path = "updateUser" -> "reload"
                     [] frame[r].path = "register" /\ frame[r].asked = None ->
                          "insertUser"
                     [] OTHER -> "tenant"
<1>1. PICK found :
        Check(r, "email", found \in {None, frame[r].target}, next)
  BY DEF CheckEmail
<1>2. PICK st \in {next, "refused"} :
        /\ pc[r] = "email" /\ Goto(r, st)
        /\ UNCHANGED <<tenants, users, userRoles, history>>
  BY <1>1 DEF Check
<1>3. st \in {"reload", "insertUser", "tenant", "refused"}
  BY <1>2
<1>4. st \in Statements \cup Outcomes
  BY <1>3 DEF Statements, Outcomes
<1>5. /\ FrameFits(r) /\ frame[r] \in Frame
      /\ frame[r].path \in {"createUser", "register", "updateUser"}
      /\ pc[r] \in Statements /\ pc[r] \in Drafting /\ pc[r] \in Saving
  BY <1>2, PathsOf DEF Shape, Types, FramesFit, Statements, Drafting, Saving
<1>6. UNCHANGED <<tenants, users, userRoles, peak>>
  BY <1>2 DEF history
<1>7. StoredUsers' = StoredUsers /\ StoredTenants' = StoredTenants
  BY <1>6 DEF StoredUsers, StoredTenants
<1>8. ASSUME pc'[r] = st, frame'[r] = frame[r], st \in Statements
      PROVE  FrameFits(r)'
  <2>1. st # "refused"
    BY <1>8, StatementSets DEF Outcomes
  <2>2. CASE frame[r].path = "updateUser"
    <3>1. st = "reload"
      BY <1>2, <2>1, <2>2
    <3>2. AccountFits(r)'
      BY <1>5, <1>6, <1>7, <1>8, <2>2, <3>1 DEF FrameFits, AccountFits
    <3>3. pc'[r] \in StatementsOf(frame[r].path)
      BY <1>8, <2>2, <3>1 DEF StatementsOf, Saving
    <3>4. QED
      BY <1>8, <2>2, <3>1, <3>2, <3>3 DEF FrameFits, Drafting, TenantHandlers
  <2>3. CASE frame[r].path \in {"createUser", "register"}
    <3>1. DraftFits(r)
      BY <1>5, <2>3 DEF FrameFits
    <3>2. \/ st = "tenant"
          \/ st = "insertUser" /\ frame[r].path = "register"
      BY <1>2, <2>1, <2>3
    <3>3. DraftFits(r)'
      BY <1>2, <1>6, <1>7, <1>8, <3>1, <3>2 DEF DraftFits
    <3>4. pc'[r] \in StatementsOf(frame[r].path)
      BY <1>8, <2>3, <3>2 DEF StatementsOf, Drafting
    <3>5. QED
      BY <1>8, <2>3, <3>2, <3>3, <3>4 DEF FrameFits, Saving, TenantHandlers
  <2>4. QED
    BY <1>5, <2>2, <2>3
<1>9. QED
  BY <1>2, <1>4, <1>8, GotoShape

\* A new account's entity, once the tenant is found.
LEMMA DraftInTenant ==
  ASSUME NEW ent \in User \cup Draft, NEW t \in TenantIds
  PROVE  LET e == [ent EXCEPT !.tenant = t] IN
         /\ ~ent.isDeleted => e \in User
         /\ e.tenant = t /\ e.username = ent.username /\ e.email = ent.email
         /\ e.isDeleted = ent.isDeleted
BY DEF User, Draft

\* What a request at this statement has and what it goes on with.
LEMMA FindTenantStep ==
  ASSUME Shape, NEW r \in Requests, FindTenant(r)
  PROVE  \/ Goto(r, "refused")
         \/ \E t \in TenantIds, st \in {"insertUser", "seats"}, f \in Frame :
              /\ t \in LiveTenants /\ Eligible(t, frame[r])
              /\ st = IF frame[r].path = "register" THEN "insertUser" ELSE "seats"
              /\ f.ent \in User /\ ~f.ent.isDeleted /\ f.ent.tenant = t
              /\ f.ent.username = frame[r].ent.username
              /\ f.ent.email = frame[r].ent.email
              /\ f.path = frame[r].path /\ f.target = frame[r].target
              /\ f.scope = frame[r].scope
              /\ f.limit = tenants[t].limit
              /\ pc' = [pc EXCEPT ![r] = st]
              /\ frame' = [frame EXCEPT ![r] = f]
<1> SUFFICES ASSUME ~Goto(r, "refused")
             PROVE  \E t \in TenantIds, st \in {"insertUser", "seats"}, f \in Frame :
              /\ t \in LiveTenants /\ Eligible(t, frame[r])
              /\ st = IF frame[r].path = "register" THEN "insertUser" ELSE "seats"
              /\ f.ent \in User /\ ~f.ent.isDeleted /\ f.ent.tenant = t
              /\ f.ent.username = frame[r].ent.username
              /\ f.ent.email = frame[r].ent.email
              /\ f.path = frame[r].path /\ f.target = frame[r].target
              /\ f.scope = frame[r].scope
              /\ f.limit = tenants[t].limit
              /\ pc' = [pc EXCEPT ![r] = st]
              /\ frame' = [frame EXCEPT ![r] = f]
  OBVIOUS
<1>1. PICK t \in TenantIds :
        /\ Eligible(t, frame[r])
        /\ frame' = [frame EXCEPT ![r].ent.tenant = t, ![r].asked = None,
                                  ![r].limit = tenants[t].limit]
        /\ pc' = [pc EXCEPT ![r] = IF frame[r].path = "register"
                                   THEN "insertUser" ELSE "seats"]
  BY DEF FindTenant
<1> DEFINE st == IF frame[r].path = "register" THEN "insertUser" ELSE "seats"
           e == [frame[r].ent EXCEPT !.tenant = t]
           f1 == [frame[r] EXCEPT !.ent = e]
           f2 == [f1 EXCEPT !.asked = None]
           f3 == [f2 EXCEPT !.limit = tenants[t].limit]
<1>2. t \in LiveTenants /\ tenants[t].limit \in Limits \cup {None}
  <2>1. t \in LiveTenants /\ tenants[t] \in Tenant
    BY <1>1 DEF Eligible, LiveTenants, StoredTenants, Shape, Types
  <2>2. QED
    BY <2>1, RowFields
<1>3. /\ pc[r] = "tenant" /\ frame[r] \in Frame /\ FrameFits(r)
      /\ pc[r] \in Statements /\ pc[r] \in Drafting
  BY DEF FindTenant, Shape, Types, FramesFit, Statements, Drafting
<1>4. frame[r].path \in {"createUser", "register"} /\ DraftFits(r)
  BY <1>3, PathsOf DEF FrameFits
<1>5. frame[r].ent \in Draft /\ ~frame[r].ent.isDeleted
  BY <1>3, <1>4 DEF DraftFits
<1>6. /\ e \in User /\ e.tenant = t /\ ~e.isDeleted
      /\ e.username = frame[r].ent.username /\ e.email = frame[r].ent.email
  BY <1>5, DraftInTenant
<1>7. frame' = [frame EXCEPT ![r] = f3]
  BY <1>1, <1>3 DEF Shape, Types, Frame
<1> HIDE DEF e
<1>8. /\ f1 \in Frame /\ f1.ent = e /\ f1.path = frame[r].path
      /\ f1.target = frame[r].target /\ f1.scope = frame[r].scope
  BY <1>3, <1>6 DEF Frame
<1> HIDE DEF f1
<1>9. /\ f2 \in Frame /\ f2.ent = e /\ f2.path = frame[r].path
      /\ f2.target = frame[r].target /\ f2.scope = frame[r].scope
  BY <1>8 DEF Frame
<1> HIDE DEF f2
<1>10. /\ f3 \in Frame /\ f3.ent = e /\ f3.path = frame[r].path
       /\ f3.target = frame[r].target /\ f3.scope = frame[r].scope
       /\ f3.limit = tenants[t].limit
  BY <1>2, <1>9 DEF Frame
<1> HIDE DEF f3
<1>11. pc' = [pc EXCEPT ![r] = st] /\ st \in {"insertUser", "seats"}
  BY <1>1
<1>12. QED
  BY <1>1, <1>2, <1>6, <1>7, <1>10, <1>11

LEMMA FindTenantShape ==
  ASSUME Shape, NEW r \in Requests, FindTenant(r),
         \A t \in StoredTenants : Covers(peak[t], tenants[t].limit)
  PROVE  Shape'
<1>1. UNCHANGED <<tenants, users, userRoles, history>> /\ pc[r] = "tenant"
  BY DEF FindTenant
<1>2. CASE Goto(r, "refused")
  BY <1>1, <1>2, GotoShape, StatementSets DEF Outcomes
<1>3. ASSUME NEW t \in TenantIds, NEW st \in {"insertUser", "seats"}, NEW f \in Frame,
             t \in LiveTenants,
             st = IF frame[r].path = "register" THEN "insertUser" ELSE "seats",
             f.ent \in User /\ ~f.ent.isDeleted /\ f.ent.tenant = t,
             f.path = frame[r].path /\ f.target = frame[r].target,
             f.scope = frame[r].scope, f.limit = tenants[t].limit,
             pc' = [pc EXCEPT ![r] = st],
             frame' = [frame EXCEPT ![r] = f]
      PROVE  Shape'
  <2>1. Tables' /\ RowsUnique' /\ Kept(r)
    BY <1>1, SameTables DEF history, Shape, Types
  <2>2. /\ frame[r] \in Frame /\ FrameFits(r)
        /\ pc[r] \in Statements /\ pc[r] \in Drafting
    BY <1>1 DEF Shape, Types, FramesFit, Statements, Drafting
  <2>3. f.path \in {"createUser", "register"} /\ DraftFits(r)
    BY <1>1, <1>3, <2>2, PathsOf DEF FrameFits
  <2>4. StoredTenants' = StoredTenants /\ UNCHANGED <<users, peak>>
    BY <1>1 DEF StoredTenants, history
  <2>5. ASSUME pc'[r] = st, frame'[r] = f
        PROVE  FrameFits(r)'
    <3>1. DraftFits(r)'
      BY <1>3, <2>3, <2>4, <2>5 DEF DraftFits, LiveTenants
    <3>2. st \in StatementsOf(f.path)
      BY <1>3, <2>3 DEF StatementsOf, Drafting
    <3>3. QED
      BY <1>3, <2>3, <2>5, <3>1, <3>2, StatementSets
         DEF FrameFits, Saving, TenantHandlers
  <2>6. st \in Statements \cup Outcomes
    BY DEF Statements
  <2>7. QED
    BY <1>3, <2>1, <2>5, <2>6, StepShape
<1>4. QED
  <2>1. CASE ~Goto(r, "refused")
    BY <2>1, <1>3, FindTenantStep
  <2>2. QED
    BY <1>2, <2>1
LEMMA CheckSeatsShape ==
  ASSUME Shape, NEW r \in Requests, CheckSeats(r)
  PROVE  Shape'
<1> DEFINE st == IF SeatFree(frame[r].ent.tenant, frame[r].limit)
                 THEN "insertUser" ELSE "refused"
           f == IF st = "refused" THEN NoCall ELSE [frame[r] EXCEPT !.limit = None]
<1>1. /\ pc[r] = "seats" /\ frame[r] \in Frame /\ FrameFits(r)
      /\ pc[r] \in Statements /\ pc[r] \in Drafting
  BY DEF CheckSeats, Shape, Types, FramesFit, Statements, Drafting
<1>2. frame[r].path = "createUser" /\ DraftFits(r)
  BY <1>1, PathsOf DEF FrameFits
<1>3. pc' = [pc EXCEPT ![r] = st] /\ pc'[r] = st
  BY DEF CheckSeats, Shape, Types
<1>4. frame' = [frame EXCEPT ![r] = f]
  BY <1>3 DEF CheckSeats
<1>5. /\ f \in Frame
      /\ st # "refused" => /\ f.path = frame[r].path /\ f.target = frame[r].target
                           /\ f.ent = frame[r].ent
  BY <1>1, NoCallType DEF Frame
<1> HIDE DEF f
<1>6. UNCHANGED <<tenants, users, userRoles, history>>
  BY DEF CheckSeats
<1>7. Tables' /\ RowsUnique' /\ Kept(r)
  BY <1>6, SameTables DEF history, Shape, Types
<1>8. StoredTenants' = StoredTenants
  BY <1>6 DEF StoredTenants
<1>9. ASSUME pc'[r] = st, frame'[r] = f, st \in Statements
      PROVE  FrameFits(r)'
  <2>1. st = "insertUser"
    BY <1>9, StatementSets DEF Outcomes
  <2>2. DraftFits(r)'
    BY <1>1, <1>2, <1>5, <1>6, <1>8, <1>9, <2>1 DEF DraftFits
  <2>3. st \in StatementsOf(f.path)
    BY <1>2, <1>5, <2>1 DEF StatementsOf, Drafting
  <2>4. QED
    BY <1>2, <1>5, <1>9, <2>1, <2>2, <2>3 DEF FrameFits, Saving, TenantHandlers
<1>10. st \in Statements \cup Outcomes
  BY DEF Statements, Outcomes
<1> HIDE DEF st
<1>11. QED
  BY <1>3, <1>4, <1>5, <1>7, <1>9, <1>10, StepShape

\* What GotoSaved leaves in the variables of request r.
LEMMA SavedFrame ==
  ASSUME Types, NEW r \in Requests, NEW st, GotoSaved(r, st)
  PROVE  \E f \in Frame :
           /\ pc' = [pc EXCEPT ![r] = st] /\ frame' = [frame EXCEPT ![r] = f]
           /\ st \notin Outcomes =>
                /\ f.path = frame[r].path /\ f.target = frame[r].target
                /\ f.role = frame[r].role
<1> DEFINE call == Call(frame[r].path, frame[r].target, None)
           saved == [call EXCEPT !.role = frame[r].role]
           f == IF st \in Outcomes THEN NoCall ELSE saved
<1>1. frame[r] \in Frame
  BY DEF Types
<1>2. /\ call \in Frame /\ call.path = frame[r].path
      /\ call.target = frame[r].target
  BY <1>1 DEF Call, NoCall, Frame
<1> HIDE DEF call
<1>3. /\ saved \in Frame /\ saved.path = frame[r].path
      /\ saved.target = frame[r].target /\ saved.role = frame[r].role
  BY <1>1, <1>2 DEF Frame
<1>4. pc' = [pc EXCEPT ![r] = st] /\ frame' = [frame EXCEPT ![r] = f]
  BY DEF GotoSaved, Types, call
<1> HIDE DEF saved
<1>5. f \in Frame
  BY <1>3, NoCallType
<1>6. QED
  BY <1>3, <1>4, <1>5

\* The tables after a row of users is written.
LEMMA UserRowWritten ==
  ASSUME Shape, NEW r \in Requests, NEW u \in UserIds, NEW row \in User,
         users' = [users EXCEPT ![u] = row], StorableUser(u, row),
         row.tenant \in StoredTenants,
         u = r \/ u \in StoredUsers,
         u \in StoredUsers => row.tenant = users[u].tenant,
         UNCHANGED <<tenants, userRoles, peak, overlapped>>,
         registered' \subseteq Requests
  PROVE  /\ Tables' /\ RowsUnique' /\ Kept(r)
         /\ StoredUsers' = StoredUsers \cup {u} /\ StoredTenants' = StoredTenants
         /\ users'[u] = row
         /\ \A v \in UserIds \ {u} : users'[v] = users[v]
<1>1. /\ users'[u] = row /\ row # None
      /\ \A v \in UserIds \ {u} : users'[v] = users[v]
      /\ users' \in [UserIds -> User \cup {None}]
  BY NoneIsNoRow DEF Shape, Types
<1>2. StoredUsers' = StoredUsers \cup {u} /\ StoredTenants' = StoredTenants
  BY <1>1 DEF StoredUsers, StoredTenants
<1>3. \A v \in StoredUsers' : users'[v].tenant \in StoredTenants'
  BY <1>1, <1>2 DEF Shape, Types, StoredUsers
<1>4. Tables'
  BY <1>1, <1>2, <1>3 DEF Shape, Types, Tables
<1>5. RowsUnique'
  <2>1. \A s, t \in StoredTenants' : tenants'[s].code = tenants'[t].code => s = t
    BY <1>2 DEF Shape, RowsUnique
  <2>2. ASSUME NEW v \in StoredUsers'
        PROVE  users'[v].tenant # None
    BY <1>1, <1>2, <2>2 DEF Shape, RowsUnique, StorableUser, StoredUsers
  <2>3. ASSUME NEW v \in StoredUsers', NEW w \in StoredUsers' \ {v},
               users'[w].tenant = users'[v].tenant
        PROVE  users'[w].username # users'[v].username /\ users'[w].email # users'[v].email
    <3>1. CASE v = u
      BY <1>1, <1>2, <2>3, <3>1 DEF StorableUser, StoredUsers
    <3>2. CASE w = u
      BY <1>1, <1>2, <2>3, <3>2 DEF StorableUser, StoredUsers
    <3>3. CASE v # u /\ w # u
      <4>1. v \in StoredUsers /\ w \in StoredUsers \ {v} /\ StorableUser(v, users[v])
        BY <1>2, <3>3 DEF Shape, RowsUnique
      <4>2. users'[v] = users[v] /\ users'[w] = users[w]
        BY <1>1, <3>3, <4>1 DEF StoredUsers
      <4>3. QED
        BY <2>3, <4>1, <4>2 DEF StorableUser
    <3>4. QED
      BY <3>1, <3>2, <3>3
  <2>4. QED
    BY <2>1, <2>2, <2>3 DEF RowsUnique, StorableUser
<1>6. Kept(r)
  <2>1. \A x \in Requests \ {r} : users[x] = None => users'[x] = None
    BY <1>1 DEF StoredUsers, UserIds
  <2>2. \A v \in StoredUsers : v \in StoredUsers' /\ users'[v].tenant = users[v].tenant
    BY <1>1, <1>2 DEF StoredUsers
  <2>3. QED
    BY <1>2, <2>1, <2>2 DEF Kept
<1>7. QED
  BY <1>1, <1>2, <1>4, <1>5, <1>6

LEMMA InsertUserStep ==
  ASSUME Shape, NEW r \in Requests, InsertUser(r)
  PROVE  /\ pc[r] = "insertUser" /\ DraftFits(r) /\ users[r] = None
         /\ FrameFits(r) /\ frame[r].path \in {"createUser", "register"}
         /\ UNCHANGED <<tenants, userRoles, peak, overlapped>>
         /\ \/ Goto(r, "conflict") /\ UNCHANGED <<users, registered>>
            \/ /\ users' = [users EXCEPT ![r] = frame[r].ent]
               /\ frame[r].ent \in User /\ ~frame[r].ent.isDeleted
               /\ frame[r].ent.tenant \in StoredTenants
               /\ StorableUser(r, frame[r].ent)
               /\ registered' = IF frame[r].path = "register"
                                THEN registered \cup {r} ELSE registered
               /\ GotoSaved(r, AfterInsert(r))
<1>1. /\ pc[r] = "insertUser" /\ frame[r] \in Frame /\ FrameFits(r)
      /\ pc[r] \in Statements /\ pc[r] \in Drafting
  BY DEF InsertUser, Shape, Types, FramesFit, Statements, Drafting
<1>2. frame[r].path \in {"createUser", "register"} /\ DraftFits(r)
  BY <1>1, PathsOf DEF FrameFits
<1>3. ASSUME StorableUser(r, frame[r].ent)
      PROVE  /\ frame[r].ent \in User /\ ~frame[r].ent.isDeleted
             /\ frame[r].ent.tenant \in StoredTenants
  BY <1>2, <1>3, RowFields DEF DraftFits, StorableUser
<1>4. QED
  BY <1>1, <1>2, <1>3 DEF InsertUser, DraftFits

LEMMA InsertUserShape ==
  ASSUME Shape, NEW r \in Requests, InsertUser(r)
  PROVE  Shape'
<1>1. CASE Goto(r, "conflict") /\ UNCHANGED <<users, registered>>
  <2>1. UNCHANGED <<tenants, users, userRoles, history>>
    BY <1>1, InsertUserStep DEF history
  <2>2. QED
    BY <1>1, <2>1, GotoShape, StatementSets DEF Outcomes
<1>2. CASE /\ users' = [users EXCEPT ![r] = frame[r].ent]
           /\ frame[r].ent \in User /\ ~frame[r].ent.isDeleted
           /\ frame[r].ent.tenant \in StoredTenants
           /\ StorableUser(r, frame[r].ent)
           /\ registered' = IF frame[r].path = "register"
                            THEN registered \cup {r} ELSE registered
           /\ GotoSaved(r, AfterInsert(r))
  <2> DEFINE st == AfterInsert(r)
  <2>1. PICK f \in Frame :
          /\ pc' = [pc EXCEPT ![r] = st] /\ frame' = [frame EXCEPT ![r] = f]
          /\ st \notin Outcomes =>
               /\ f.path = frame[r].path /\ f.target = frame[r].target
               /\ f.role = frame[r].role
    BY <1>2, SavedFrame DEF Shape
  <2>2. /\ Tables' /\ RowsUnique' /\ Kept(r)
        /\ StoredUsers' = StoredUsers \cup {r}
    <3>1. r \in UserIds /\ r \notin StoredUsers
      BY InsertUserStep DEF UserIds, StoredUsers
    <3>2. registered' \subseteq Requests
      BY <1>2 DEF Shape, Types
    <3>3. UNCHANGED <<tenants, userRoles, peak, overlapped>>
      BY InsertUserStep
    <3>4. QED
      BY <1>2, <3>1, <3>2, <3>3, UserRowWritten
  <2>3. st \in {"role", "done"} /\ st \in Statements \cup Outcomes
    BY DEF AfterInsert, Statements, Outcomes
  <2>4. ASSUME pc'[r] = st, frame'[r] = f, st \in Statements
        PROVE  FrameFits(r)'
    <3>1. st = "role" /\ frame[r].path = "createUser"
      BY <2>4, <2>3, StatementSets DEF Outcomes, AfterInsert
    <3>2. f.path = "createUser" /\ f.target = r
      BY <2>1, <3>1, InsertUserStep, StatementSets DEF DraftFits, Outcomes
    <3>3. SavedFits(r)'
      BY <2>2, <2>4, <3>1, <3>2 DEF SavedFits
    <3>4. st \in StatementsOf(f.path)
      BY <3>1, <3>2 DEF StatementsOf
    <3>5. QED
      BY <2>4, <3>1, <3>2, <3>3, <3>4
         DEF FrameFits, Drafting, Saving, TenantHandlers
  <2> HIDE DEF st
  <2>5. QED
    BY <2>1, <2>2, <2>3, <2>4, StepShape
<1>3. QED
  BY <1>1, <1>2, InsertUserStep
LEMMA HigherCovers ==
  ASSUME NEW a \in {0} \cup Limits \cup {None}, NEW b \in Limits \cup {None}
  PROVE  /\ Higher(a, b) \in {0} \cup Limits \cup {None}
         /\ Covers(Higher(a, b), b)
         /\ \A limit \in Limits \cup {None} :
              Covers(a, limit) => Covers(Higher(a, b), limit)
<1>1. Limits \subseteq Nat
  BY AccountsBoundsAssumption
<1>2. CASE a = None \/ b = None
  BY <1>2 DEF Higher, Covers
<1>3. CASE a # None /\ b # None
  <2>1. a \in Nat /\ b \in Nat /\ \A limit \in Limits : limit \in Nat
    BY <1>1, <1>3
  <2>2. Higher(a, b) = IF a > b THEN a ELSE b
    BY <1>3 DEF Higher
  <2>3. Higher(a, b) >= a /\ Higher(a, b) >= b /\ Higher(a, b) \in {a, b}
    BY <2>1, <2>2
  <2>4. Covers(Higher(a, b), b)
    BY <1>3, <2>3 DEF Covers
  <2>5. ASSUME NEW limit \in Limits \cup {None}, Covers(a, limit)
        PROVE  Covers(Higher(a, b), limit)
    <3>1. limit # None /\ limit <= a /\ limit \in Nat
      BY <1>1, <1>3, <2>5 DEF Covers
    <3>2. limit <= Higher(a, b)
      BY <2>1, <2>2, <3>1
    <3>3. QED
      BY <3>1, <3>2 DEF Covers
  <2>6. QED
    BY <1>3, <2>3, <2>4, <2>5
<1>4. QED
  BY <1>2, <1>3

\* The tables after a row of tenants is written.
LEMMA TenantRowWritten ==
  ASSUME Shape, NEW r \in Requests, NEW t \in TenantIds, NEW row \in Tenant,
         tenants' = [tenants EXCEPT ![t] = row], UniqueTenant(t, row),
         t = r \/ t \in StoredTenants,
         peak' = [peak EXCEPT ![t] = Higher(@, row.limit)],
         UNCHANGED <<users, userRoles, registered, overlapped>>
  PROVE  /\ Tables' /\ RowsUnique' /\ Kept(r)
         /\ StoredTenants' = StoredTenants \cup {t} /\ StoredUsers' = StoredUsers
         /\ tenants'[t] = row /\ peak'[t] = Higher(peak[t], row.limit)
         /\ \A s \in TenantIds \ {t} : tenants'[s] = tenants[s] /\ peak'[s] = peak[s]
<1>1. /\ tenants'[t] = row /\ row # None
      /\ \A s \in TenantIds \ {t} : tenants'[s] = tenants[s] /\ peak'[s] = peak[s]
      /\ tenants' \in [TenantIds -> Tenant \cup {None}]
      /\ peak'[t] = Higher(peak[t], row.limit)
  BY NoneIsNoRow DEF Shape, Types
<1>2. StoredUsers' = StoredUsers /\ StoredTenants' = StoredTenants \cup {t}
  BY <1>1 DEF StoredUsers, StoredTenants
<1>3. /\ peak[t] \in {0} \cup Limits \cup {None} /\ row.limit \in Limits \cup {None}
  BY RowFields DEF Shape, Types
<1>4. peak' \in [TenantIds -> {0} \cup Limits \cup {None}]
  BY <1>3, HigherCovers DEF Shape, Types
<1>5. Tables'
  BY <1>1, <1>2, <1>4 DEF Shape, Types, Tables
<1>6. RowsUnique'
  <2>1. ASSUME NEW v \in StoredTenants', NEW w \in StoredTenants',
               tenants'[v].code = tenants'[w].code, v # w
        PROVE  FALSE
    <3>1. CASE v = t
      BY <1>1, <1>2, <2>1, <3>1 DEF UniqueTenant, StoredTenants
    <3>2. CASE w = t
      BY <1>1, <1>2, <2>1, <3>2 DEF UniqueTenant, StoredTenants
    <3>3. CASE v # t /\ w # t
      BY <1>1, <1>2, <2>1, <3>3 DEF Shape, RowsUnique, StoredTenants
    <3>4. QED
      BY <3>1, <3>2, <3>3
  <2>2. QED
    BY <1>2, <2>1 DEF Shape, RowsUnique, StorableUser
<1>7. Kept(r)
  <2>1. \A x \in Requests \ {r} : tenants[x] = None => tenants'[x] = None
    BY <1>1 DEF StoredTenants, TenantIds
  <2>2. ASSUME NEW s \in TenantIds, NEW limit \in Limits \cup {None},
               Covers(peak[s], limit)
        PROVE  Covers(peak'[s], limit)
    <3>1. CASE s = t
      <4>1. Covers(Higher(peak[t], row.limit), limit)
        BY <1>3, <2>2, <3>1, HigherCovers
      <4>2. QED
        BY <1>1, <3>1, <4>1
    <3>2. CASE s # t
      BY <1>1, <2>2, <3>2
    <3>3. QED
      BY <3>1, <3>2
  <2>3. QED
    BY <1>2, <2>1, <2>2 DEF Kept
<1>8. QED
  BY <1>1, <1>2, <1>5, <1>6, <1>7

LEMMA InsertTenantStep ==
  ASSUME Shape, NEW r \in Requests, InsertTenant(r)
  PROVE  /\ pc[r] = "insertTenant" /\ TenantFits(r) /\ FrameFits(r)
         /\ frame[r].path = "createTenant" /\ r \in TenantIds
         /\ frame[r].ent \in Tenant /\ tenants[r] = None
         /\ UNCHANGED <<users, userRoles, registered, overlapped>>
         /\ \/ Goto(r, "conflict") /\ UNCHANGED <<tenants, peak>>
            \/ /\ tenants' = [tenants EXCEPT ![r] = frame[r].ent]
               /\ UniqueTenant(r, frame[r].ent)
               /\ peak' = [peak EXCEPT ![r] = Higher(@, frame[r].ent.limit)]
               /\ Goto(r, "done")
<1>1. /\ pc[r] = "insertTenant" /\ frame[r] \in Frame /\ FrameFits(r)
      /\ pc[r] \in Statements
  BY DEF InsertTenant, Shape, Types, FramesFit, Statements
<1>2. frame[r].path = "createTenant" /\ TenantFits(r)
  BY <1>1, PathsOf DEF FrameFits, TenantHandlers
<1>3. QED
  BY <1>1, <1>2 DEF InsertTenant, TenantFits, TenantIds

LEMMA InsertTenantShape ==
  ASSUME Shape, NEW r \in Requests, InsertTenant(r)
  PROVE  Shape'
<1>1. CASE Goto(r, "conflict") /\ UNCHANGED <<tenants, peak>>
  <2>1. UNCHANGED <<tenants, users, userRoles, history>>
    BY <1>1, InsertTenantStep DEF history
  <2>2. QED
    BY <1>1, <2>1, GotoShape, StatementSets DEF Outcomes
<1>2. CASE /\ tenants' = [tenants EXCEPT ![r] = frame[r].ent]
           /\ UniqueTenant(r, frame[r].ent)
           /\ peak' = [peak EXCEPT ![r] = Higher(@, frame[r].ent.limit)]
           /\ Goto(r, "done")
  <2>1. Tables' /\ RowsUnique' /\ Kept(r)
    BY <1>2, InsertTenantStep, TenantRowWritten
  <2>2. /\ pc' = [pc EXCEPT ![r] = "done"] /\ frame' = [frame EXCEPT ![r] = NoCall]
    BY <1>2 DEF Goto, Outcomes
  <2>3. "done" \in Statements \cup Outcomes /\ "done" \notin Statements
    BY DEF Statements, Outcomes
  <2>4. QED
    BY <2>1, <2>2, <2>3, NoCallType, StepShape
<1>3. QED
  BY <1>1, <1>2, InsertTenantStep

\* The frame once the row to save is read again.
LEMMA ReloadStep ==
  ASSUME Shape, NEW r \in Requests, Reload(r)
  PROVE  /\ pc[r] = "reload" /\ UNCHANGED <<tenants, users, userRoles, history>>
         /\ \E f \in Frame :
              /\ pc' = [pc EXCEPT ![r] = "write"]
              /\ frame' = [frame EXCEPT ![r] = f]
              /\ f.path = frame[r].path /\ f.target = frame[r].target
              /\ f.ent = frame[r].ent /\ f.role = frame[r].role
              /\ f.path \in UserHandlers => f.base = users[f.target] /\ f.base \in User
              /\ f.path \in TenantHandlers =>
                   f.base = tenants[f.target] /\ f.base \in Tenant
<1> DEFINE base == IF frame[r].path \in UserHandlers THEN users[frame[r].target]
                   ELSE tenants[frame[r].target]
           f == [frame[r] EXCEPT !.base = base]
<1>1. /\ pc[r] = "reload" /\ UNCHANGED <<tenants, users, userRoles, history>>
      /\ pc' = [pc EXCEPT ![r] = "write"]
      /\ frame' = [frame EXCEPT ![r].base = base]
  BY DEF Reload
<1>2. /\ frame[r] \in Frame
      /\ frame[r].path \in UserHandlers \cup TenantHandlers
      /\ frame[r].path \in UserHandlers => AccountFits(r)
      /\ frame[r].path \in TenantHandlers =>
           frame[r].path \in {"updateTenant", "deleteTenant"} /\ TenantFits(r)
  BY <1>1, SavingPaths DEF Shape, Types
<1>3. UserHandlers \cap TenantHandlers = {}
  BY DEF UserHandlers, TenantHandlers
<1>4. /\ frame[r].path \in UserHandlers => base = users[frame[r].target] /\ base \in User
      /\ frame[r].path \in TenantHandlers =>
           base = tenants[frame[r].target] /\ base \in Tenant
  <2>1. CASE frame[r].path \in UserHandlers
    BY <1>2, <1>3, <2>1 DEF AccountFits, StoredUsers, Shape, Types
  <2>2. CASE frame[r].path \in TenantHandlers
    BY <1>2, <1>3, <2>2 DEF TenantFits, StoredTenants, Shape, Types
  <2>3. QED
    BY <1>2, <2>1, <2>2
<1>5. frame' = [frame EXCEPT ![r] = f]
  BY <1>1 DEF Shape, Types
<1> HIDE DEF base
<1>6. /\ f \in Frame /\ f.base = base /\ f.path = frame[r].path
      /\ f.target = frame[r].target /\ f.ent = frame[r].ent /\ f.role = frame[r].role
  BY <1>2, <1>4 DEF Frame
<1> HIDE DEF f
<1>7. QED
  BY <1>1, <1>4, <1>5, <1>6

LEMMA ReloadShape ==
  ASSUME Shape, NEW r \in Requests, Reload(r)
  PROVE  Shape'
<1>1. PICK f \in Frame :
        /\ pc' = [pc EXCEPT ![r] = "write"]
        /\ frame' = [frame EXCEPT ![r] = f]
        /\ f.path = frame[r].path /\ f.target = frame[r].target
        /\ f.ent = frame[r].ent /\ f.role = frame[r].role
        /\ f.path \in UserHandlers => f.base = users[f.target] /\ f.base \in User
        /\ f.path \in TenantHandlers =>
             f.base = tenants[f.target] /\ f.base \in Tenant
  BY ReloadStep
<1>2. pc[r] = "reload" /\ UNCHANGED <<tenants, users, userRoles, history>>
  BY ReloadStep
<1>3. Tables' /\ RowsUnique' /\ Kept(r)
  BY <1>2, SameTables DEF history, Shape, Types
<1>4. StoredUsers' = StoredUsers /\ StoredTenants' = StoredTenants
  BY <1>2 DEF StoredUsers, StoredTenants
<1>5. ASSUME pc'[r] = "write", frame'[r] = f
      PROVE  FrameFits(r)'
  <2>1. CASE f.path \in UserHandlers
    <3>1. f.path \in {"updateUser", "deleteUser"} /\ AccountFits(r)
      BY <1>1, <1>2, <2>1, SavingPaths DEF Shape
    <3>2. AccountFits(r)'
      BY <1>1, <1>2, <1>4, <1>5, <2>1, <3>1 DEF AccountFits
    <3>3. "write" \in StatementsOf(f.path)
      BY <3>1 DEF StatementsOf, Saving
    <3>4. QED
      BY <1>5, <3>1, <3>2, <3>3 DEF FrameFits, Drafting, TenantHandlers
  <2>2. CASE f.path \in TenantHandlers
    <3>1. f.path \in {"updateTenant", "deleteTenant"} /\ TenantFits(r)
      BY <1>1, <1>2, <2>2, SavingPaths DEF Shape
    <3>2. TenantFits(r)'
      BY <1>1, <1>2, <1>4, <1>5, <2>2, <3>1 DEF TenantFits
    <3>3. "write" \in StatementsOf(f.path)
      BY <3>1 DEF StatementsOf
    <3>4. QED
      BY <1>5, <3>1, <3>2, <3>3 DEF FrameFits, Drafting
  <2>3. QED
    BY <1>1, <1>2, <2>1, <2>2, SavingPaths DEF Shape
<1>6. "write" \in Statements \cup Outcomes
  BY DEF Statements
<1>7. QED
  BY <1>1, <1>3, <1>5, <1>6, StepShape

\* What a request that saves an account writes.
LEMMA WriteUserStep ==
  ASSUME Shape, NEW r \in Requests, WriteUser(r)
  PROVE  LET u == frame[r].target
             row == MergeUser(users[u], frame[r].base, frame[r].ent)
         IN
         /\ pc[r] = "write" /\ FrameFits(r) /\ AccountFits(r)
         /\ frame[r].path \in {"updateUser", "deleteUser"}
         /\ u \in UserIds /\ u \in StoredUsers /\ users[u] \in User
         /\ row \in User /\ row.tenant = users[u].tenant
         /\ row.username = users[u].username
         /\ ~row.isDeleted => ~users[u].isDeleted \/ ~frame[r].ent.isDeleted
         /\ frame[r].base = users[u] =>
              row.email = frame[r].ent.email /\ row.isDeleted = frame[r].ent.isDeleted
         /\ users[u].tenant \in StoredTenants
         /\ UNCHANGED <<tenants, userRoles, history>>
         /\ \/ Goto(r, "conflict") /\ UNCHANGED users /\ ~StorableUser(u, row)
            \/ /\ users' = [users EXCEPT ![u] = row] /\ StorableUser(u, row)
               /\ GotoSaved(r, IF frame[r].role = None THEN "audit" ELSE "role")
<1> DEFINE u == frame[r].target
           row == MergeUser(users[u], frame[r].base, frame[r].ent)
<1>1. /\ pc[r] = "write" /\ frame[r].path \in UserHandlers
      /\ UNCHANGED <<tenants, userRoles, history>>
      /\ \/ Goto(r, "conflict") /\ UNCHANGED users /\ ~StorableUser(u, row)
         \/ /\ users' = [users EXCEPT ![u] = row] /\ StorableUser(u, row)
            /\ GotoSaved(r, IF frame[r].role = None THEN "audit" ELSE "role")
  BY DEF WriteUser
<1>2. /\ FrameFits(r) /\ AccountFits(r)
      /\ frame[r].path \in {"updateUser", "deleteUser"}
  BY <1>1, SavingPaths DEF Shape
<1>3. /\ u \in UserIds /\ u \in StoredUsers /\ users[u] \in User
      /\ frame[r].ent \in User /\ frame[r].base \in User
      /\ users[u].tenant \in StoredTenants
  BY <1>1, <1>2 DEF AccountFits, StoredUsers, Shape, Types
<1>4. /\ row \in User /\ row.tenant = users[u].tenant
      /\ row.username = users[u].username
      /\ ~row.isDeleted => ~users[u].isDeleted \/ ~frame[r].ent.isDeleted
      /\ frame[r].base = users[u] =>
           row.email = frame[r].ent.email /\ row.isDeleted = frame[r].ent.isDeleted
  BY <1>3, MergedUser
<1> HIDE DEF row
<1>5. QED
  BY <1>1, <1>2, <1>3, <1>4 DEF row

LEMMA WriteUserShape ==
  ASSUME Shape, NEW r \in Requests, WriteUser(r)
  PROVE  Shape'
<1> DEFINE u == frame[r].target
           row == MergeUser(users[u], frame[r].base, frame[r].ent)
           st == IF frame[r].role = None THEN "audit" ELSE "role"
<1>1. /\ pc[r] = "write" /\ FrameFits(r) /\ AccountFits(r)
      /\ frame[r].path \in {"updateUser", "deleteUser"}
      /\ u \in UserIds /\ u \in StoredUsers
      /\ row \in User /\ row.tenant = users[u].tenant
      /\ users[u].tenant \in StoredTenants
      /\ UNCHANGED <<tenants, userRoles, history>>
      /\ \/ Goto(r, "conflict") /\ UNCHANGED users
         \/ users' = [users EXCEPT ![u] = row] /\ StorableUser(u, row) /\ GotoSaved(r, st)
  BY WriteUserStep
<1> HIDE DEF row
<1>2. CASE Goto(r, "conflict") /\ UNCHANGED users
  BY <1>1, <1>2, GotoShape, StatementSets DEF Outcomes
<1>3. CASE users' = [users EXCEPT ![u] = row] /\ StorableUser(u, row) /\ GotoSaved(r, st)
  <2>1. PICK f \in Frame :
          /\ pc' = [pc EXCEPT ![r] = st] /\ frame' = [frame EXCEPT ![r] = f]
          /\ st \notin Outcomes =>
               /\ f.path = frame[r].path /\ f.target = frame[r].target
               /\ f.role = frame[r].role
    BY <1>3, SavedFrame DEF Shape
  <2>2. UNCHANGED <<tenants, userRoles, peak, overlapped>> /\ registered' \subseteq Requests
    BY <1>1 DEF history, Shape, Types
  <2>3. /\ Tables' /\ RowsUnique' /\ Kept(r)
        /\ StoredUsers' = StoredUsers \cup {u}
    BY <1>1, <1>3, <2>2, UserRowWritten
  <2>4. st \in Statements /\ st \notin Outcomes /\ st \in {"audit", "role"}
    BY DEF Statements, Outcomes
  <2>5. ASSUME pc'[r] = st, frame'[r] = f
        PROVE  FrameFits(r)'
    <3>1. f.path = frame[r].path /\ f.target = u /\ f.role = frame[r].role
      BY <2>1, <2>4
    <3>2. SavedFits(r)'
      BY <2>3, <2>5, <3>1 DEF SavedFits
    <3>3. st \in StatementsOf(f.path)
      BY <1>1, <3>1 DEF StatementsOf, AccountFits
    <3>4. QED
      BY <1>1, <2>4, <2>5, <3>1, <3>2, <3>3
         DEF FrameFits, Drafting, Saving, TenantHandlers
  <2> HIDE DEF st
  <2>6. QED
    BY <2>1, <2>3, <2>4, <2>5, StepShape
<1>4. QED
  BY <1>1, <1>2, <1>3

\* What a request that saves a tenant writes.
LEMMA WriteTenantStep ==
  ASSUME Shape, NEW r \in Requests, WriteTenant(r)
  PROVE  LET t == frame[r].target
             row == MergeTenant(tenants[t], frame[r].base, frame[r].ent)
         IN
         /\ pc[r] = "write" /\ FrameFits(r) /\ TenantFits(r)
         /\ frame[r].path \in {"updateTenant", "deleteTenant"}
         /\ t \in TenantIds /\ t \in StoredTenants /\ tenants[t] \in Tenant
         /\ row \in Tenant
         /\ frame[r].base = tenants[t] =>
              row.code = frame[r].ent.code /\ row.isDeleted = frame[r].ent.isDeleted
         /\ UNCHANGED <<users, userRoles, registered, overlapped>>
         /\ \/ /\ Goto(r, "conflict") /\ UNCHANGED <<tenants, peak>>
               /\ ~UniqueTenant(t, row)
            \/ /\ tenants' = [tenants EXCEPT ![t] = row] /\ UniqueTenant(t, row)
               /\ peak' = [peak EXCEPT ![t] = Higher(@, row.limit)]
               /\ Goto(r, "done")
<1> DEFINE t == frame[r].target
           row == MergeTenant(tenants[t], frame[r].base, frame[r].ent)
<1>1. /\ pc[r] = "write" /\ frame[r].path \in TenantHandlers
      /\ UNCHANGED <<users, userRoles, registered, overlapped>>
      /\ \/ /\ Goto(r, "conflict") /\ UNCHANGED <<tenants, peak>>
            /\ ~UniqueTenant(t, row)
         \/ /\ tenants' = [tenants EXCEPT ![t] = row] /\ UniqueTenant(t, row)
            /\ peak' = [peak EXCEPT ![t] = Higher(@, row.limit)]
            /\ Goto(r, "done")
  BY DEF WriteTenant
<1>2. /\ FrameFits(r) /\ TenantFits(r)
      /\ frame[r].path \in {"updateTenant", "deleteTenant"}
  BY <1>1, SavingPaths DEF Shape
<1>3. /\ t \in TenantIds /\ t \in StoredTenants /\ tenants[t] \in Tenant
      /\ frame[r].ent \in Tenant /\ frame[r].base \in Tenant
  BY <1>1, <1>2 DEF TenantFits, StoredTenants, Shape, Types
<1>4. /\ row \in Tenant
      /\ frame[r].base = tenants[t] =>
           row.code = frame[r].ent.code /\ row.isDeleted = frame[r].ent.isDeleted
  BY <1>3, MergedTenant
<1> HIDE DEF row
<1>5. QED
  BY <1>1, <1>2, <1>3, <1>4 DEF row

LEMMA WriteTenantShape ==
  ASSUME Shape, NEW r \in Requests, WriteTenant(r)
  PROVE  Shape'
<1> DEFINE t == frame[r].target
           row == MergeTenant(tenants[t], frame[r].base, frame[r].ent)
<1>1. /\ t \in TenantIds /\ t \in StoredTenants /\ row \in Tenant
      /\ UNCHANGED <<users, userRoles, registered, overlapped>>
      /\ \/ Goto(r, "conflict") /\ UNCHANGED <<tenants, peak>>
         \/ /\ tenants' = [tenants EXCEPT ![t] = row] /\ UniqueTenant(t, row)
            /\ peak' = [peak EXCEPT ![t] = Higher(@, row.limit)]
            /\ Goto(r, "done")
  BY WriteTenantStep
<1> HIDE DEF row
<1>2. CASE Goto(r, "conflict") /\ UNCHANGED <<tenants, peak>>
  <2>1. UNCHANGED <<tenants, users, userRoles, history>>
    BY <1>1, <1>2 DEF history
  <2>2. QED
    BY <1>2, <2>1, GotoShape, StatementSets DEF Outcomes
<1>3. CASE /\ tenants' = [tenants EXCEPT ![t] = row] /\ UniqueTenant(t, row)
           /\ peak' = [peak EXCEPT ![t] = Higher(@, row.limit)]
           /\ Goto(r, "done")
  <2>1. Tables' /\ RowsUnique' /\ Kept(r)
    BY <1>1, <1>3, TenantRowWritten
  <2>2. /\ pc' = [pc EXCEPT ![r] = "done"] /\ frame' = [frame EXCEPT ![r] = NoCall]
    BY <1>3 DEF Goto, Outcomes
  <2>3. "done" \in Statements \cup Outcomes /\ "done" \notin Statements
    BY DEF Statements, Outcomes
  <2>4. QED
    BY <2>1, <2>2, <2>3, NoCallType, StepShape
<1>4. QED
  BY <1>1, <1>2, <1>3

LEMMA RoleIsPair ==
  ASSUME NEW r, frame[r].target \in UserIds
  PROVE  RoleOf(r) \in UserIds \X PlatformRoles
BY RoleCodeIn DEF RoleOf

LEMMA AssignRoleShape ==
  ASSUME Shape, NEW r \in Requests, AssignRole(r)
  PROVE  Shape'
<1> DEFINE given == Assigned(userRoles[RoleOf(r)])
<1>1. /\ pc[r] = "role" /\ Goto(r, "audit")
      /\ userRoles' = [userRoles EXCEPT ![RoleOf(r)] = given]
      /\ UNCHANGED <<tenants, users, history>>
  BY DEF AssignRole
<1>2. /\ FrameFits(r) /\ SavedFits(r) /\ frame[r] \in Frame /\ pc[r] \in Statements
  BY <1>1 DEF Shape, Types, FramesFit, FrameFits, Statements
<1>3. frame[r].path \in {"createUser", "updateUser"}
  BY <1>1, <1>2, PathsOf
<1>4. frame[r].target \in UserIds /\ frame[r].target \in StoredUsers
  BY <1>2 DEF SavedFits, StoredUsers
<1>5. RoleOf(r) \in UserIds \X PlatformRoles /\ RoleOf(r)[1] = frame[r].target
  BY <1>4, RoleIsPair DEF RoleOf
<1>6. userRoles[RoleOf(r)] \in Presence
  BY <1>5 DEF Shape, Types
<1>7. given \in Presence /\ given # "none"
  BY <1>6 DEF Assigned, Presence
<1> HIDE DEF given
<1>8. /\ userRoles' \in [UserIds \X PlatformRoles -> Presence]
      /\ userRoles'[RoleOf(r)] = given
      /\ \A pair \in UserIds \X PlatformRoles :
           pair # RoleOf(r) => userRoles'[pair] = userRoles[pair]
  BY <1>1, <1>5, <1>7 DEF Shape, Types
<1>9. StoredUsers' = StoredUsers /\ StoredTenants' = StoredTenants
  BY <1>1 DEF StoredUsers, StoredTenants
<1>10. ASSUME NEW u \in UserIds, NEW x \in PlatformRoles, userRoles'[<<u, x>>] # "none"
       PROVE  u \in StoredUsers
  <2>1. CASE <<u, x>> = RoleOf(r)
    BY <1>4, <2>1 DEF RoleOf
  <2>2. CASE <<u, x>> # RoleOf(r)
    BY <1>8, <1>10, <2>2 DEF Shape, Types
  <2>3. QED
    BY <2>1, <2>2
<1>11. Tables'
  BY <1>1, <1>8, <1>9, <1>10 DEF Shape, Types, Tables, history
<1>12. RowsUnique'
  BY <1>1, <1>9 DEF Shape, RowsUnique, StorableUser
<1>13. Kept(r)
  BY <1>1, <1>7, <1>8, <1>9 DEF Kept, history
<1>14. /\ pc' = [pc EXCEPT ![r] = "audit"] /\ frame' = [frame EXCEPT ![r] = frame[r]]
  BY <1>1 DEF Goto, Outcomes
<1>15. ASSUME pc'[r] = "audit", frame'[r] = frame[r]
       PROVE  FrameFits(r)'
  <2>1. RoleOf(r)' = RoleOf(r)
    BY <1>1, <1>15 DEF RoleOf
  <2>2. SavedFits(r)'
    BY <1>4, <1>7, <1>8, <1>9, <1>15, <2>1 DEF SavedFits
  <2>3. "audit" \in StatementsOf(frame[r].path)
    BY <1>3 DEF StatementsOf
  <2>4. QED
    BY <1>3, <1>15, <2>2, <2>3 DEF FrameFits, Drafting, Saving, TenantHandlers
<1>16. "audit" \in Statements \cup Outcomes
  BY DEF Statements
<1>17. QED
  BY <1>2, <1>11, <1>12, <1>13, <1>14, <1>15, <1>16, StepShape

LEMMA EndingShape ==
  ASSUME Shape, NEW r \in Requests, Audit(r) \/ Abort(r)
  PROVE  Shape'
BY GotoShape, StatementSets DEF Audit, Abort, Outcomes

LEMMA ShapeStep ==
  ASSUME Shape, \A t \in StoredTenants : Covers(peak[t], tenants[t].limit),
         [Next]_vars
  PROVE  Shape'
<1>1. CASE UNCHANGED vars
  <2>1. StoredUsers' = StoredUsers /\ StoredTenants' = StoredTenants
    BY <1>1 DEF vars, StoredUsers, StoredTenants
  <2>2. Types'
    BY <1>1, <2>1 DEF Shape, Types, vars, history
  <2>3. RowsUnique'
    BY <1>1, <2>1 DEF Shape, RowsUnique, StorableUser, vars
  <2>4. ASSUME NEW r \in Requests
        PROVE  FrameFits(r)'
    <3>1. FrameFits(r)
      BY DEF Shape, FramesFit
    <3>2. RoleOf(r)' = RoleOf(r)
      BY <1>1 DEF RoleOf, vars
    <3>3. /\ DraftFits(r)' <=> DraftFits(r)
          /\ AccountFits(r)' <=> AccountFits(r)
          /\ TenantFits(r)' <=> TenantFits(r)
          /\ SavedFits(r)' <=> SavedFits(r)
      BY <1>1, <2>1, <3>2
         DEF DraftFits, AccountFits, TenantFits, SavedFits, vars, history
    <3>4. QED
      BY <1>1, <3>1, <3>3 DEF FrameFits, vars
  <2>5. QED
    BY <2>2, <2>3, <2>4 DEF Shape, FramesFit
<1>2. ASSUME NEW r \in Requests, Begins(r) \/ Statement(r)
      PROVE  Shape'
  BY <1>2, BeginsShape, CheckEmailShape, FindTenantShape, CheckSeatsShape,
     InsertUserShape, InsertTenantShape, ReloadShape, WriteUserShape,
     WriteTenantShape, AssignRoleShape, EndingShape DEF Statement
<1>3. QED
  BY <1>1, <1>2, NextCases DEF Shape
-----------------------------------------------------------------------------
(* Requests in flight *)

LEMMA ExcessNat ==
  /\ Excess \in Nat /\ MaxInFlight \in Nat /\ MaxInFlight >= 1
  /\ ~overlapped => Excess = 0
BY AccountsBoundsAssumption DEF Excess

\* What every statement after the first does to the requests.
Moves(r) ==
  /\ pc[r] \in Statements
  /\ pc'[r] \in Statements \cup Outcomes
  /\ \A x \in Requests \ {r} : pc'[x] = pc[x] /\ frame'[x] = frame[x]
  /\ overlapped' = overlapped

LEMMA StatementMoves ==
  ASSUME Types, NEW r \in Requests, Statement(r)
  PROVE  Moves(r)
<1> USE DEF Moves, Types, Statements, Outcomes, Goto, GotoSaved, history
<1>1. ASSUME NEW statement \in Statements, NEW holds, NEW next \in Statements,
             Check(r, statement, holds, next)
      PROVE  Moves(r)
  BY <1>1 DEF Check
<1>2. CASE CheckEmail(r)
  BY <1>1, <1>2 DEF CheckEmail
<1>3. CASE FindTenant(r)
  BY <1>3 DEF FindTenant
<1>4. CASE CheckSeats(r)
  BY <1>4 DEF CheckSeats
<1>5. CASE InsertUser(r)
  BY <1>5 DEF InsertUser, AfterInsert
<1>6. CASE InsertTenant(r)
  BY <1>6 DEF InsertTenant
<1>7. CASE Reload(r)
  BY <1>7 DEF Reload
<1>8. CASE WriteUser(r)
  BY <1>8 DEF WriteUser
<1>9. CASE WriteTenant(r)
  BY <1>9 DEF WriteTenant
<1>10. CASE AssignRole(r)
  BY <1>10 DEF AssignRole
<1>11. CASE Audit(r)
  BY <1>11 DEF Audit
<1>12. CASE Abort(r)
  BY <1>12 DEF Abort
<1>13. QED
  BY <1>2, <1>3, <1>4, <1>5, <1>6, <1>7, <1>8, <1>9, <1>10, <1>11, <1>12
     DEF Statement

LEMMA MovesInFlight ==
  ASSUME InFlightBounded, NEW r \in Requests, Moves(r)
  PROVE  /\ InFlight' \subseteq InFlight
         /\ Excess' = Excess
         /\ InFlightBounded'
<1>1. InFlight' \subseteq InFlight
  BY DEF InFlight, Moves
<1>2. Excess' = Excess
  BY DEF Excess, Moves
<1>3. IsFiniteSet(InFlight') /\ Cardinality(InFlight') <= 1 + Excess
  BY <1>1, ExcessNat, PartBounded DEF InFlightBounded
<1>4. QED
  BY <1>1, <1>2, <1>3 DEF InFlightBounded

LEMMA BeginsInFlight ==
  ASSUME Types, InFlightBounded, NEW r \in Requests, Begins(r)
  PROVE  /\ Excess' \in Nat /\ Excess <= Excess'
         /\ InFlightBounded'
         /\ ~overlapped' => ~overlapped /\ InFlight' \subseteq {r}
         /\ \A x \in Requests \ {r} : pc'[x] = pc[x] /\ frame'[x] = frame[x]
<1>1. /\ \A x \in Requests \ {r} : pc'[x] = pc[x] /\ frame'[x] = frame[x]
      /\ overlapped' = (overlapped \/ InFlight # {})
      /\ Cardinality(InFlight) < MaxInFlight
  BY DEF Begins, Types
<1>2. InFlight' \subseteq InFlight \cup {r}
  BY <1>1 DEF InFlight
<1>3. Cardinality(InFlight) \in Nat
  BY FS_CardinalityType DEF InFlightBounded
<1>4. Excess' \in Nat /\ Excess <= Excess'
  <2>1. overlapped => overlapped'
    BY <1>1
  <2>2. CASE overlapped'
    BY <2>2, ExcessNat DEF Excess
  <2>3. CASE ~overlapped'
    BY <2>1, <2>3, ExcessNat DEF Excess
  <2>4. QED
    BY <2>2, <2>3
<1>5. IsFiniteSet(InFlight') /\ Cardinality(InFlight') <= 1 + Excess'
  <2>1. CASE overlapped'
    <3>1. Excess' = MaxInFlight - 1
      BY <2>1 DEF Excess
    <3>2. Cardinality(InFlight) <= MaxInFlight - 1 /\ MaxInFlight - 1 \in Nat
      BY <1>1, <1>3, ExcessNat
    <3>3. /\ IsFiniteSet(InFlight \cup {r})
          /\ Cardinality(InFlight \cup {r}) <= MaxInFlight - 1 + 1
      BY <3>2, OneMoreBounded DEF InFlightBounded
    <3>4. /\ IsFiniteSet(InFlight')
          /\ Cardinality(InFlight') <= MaxInFlight - 1 + 1
      BY <1>2, <3>2, <3>3, ExcessNat, PartBounded
    <3>5. QED
      BY <3>1, <3>4, ExcessNat
  <2>2. CASE ~overlapped'
    <3>1. InFlight' \subseteq {r}
      BY <1>1, <1>2, <2>2
    <3>2. IsFiniteSet({r}) /\ Cardinality({r}) = 1
      BY FS_Singleton
    <3>3. IsFiniteSet(InFlight') /\ Cardinality(InFlight') <= 1
      BY <3>1, <3>2, PartBounded
    <3>4. Cardinality(InFlight') \in Nat
      BY <3>3, FS_CardinalityType
    <3>5. QED
      BY <1>4, <3>3, <3>4
  <2>3. QED
    BY <2>1, <2>2
<1>6. ~overlapped' => ~overlapped /\ InFlight' \subseteq {r}
  BY <1>1, <1>2
<1>7. QED
  BY <1>1, <1>4, <1>5, <1>6 DEF InFlightBounded

\* As long as requests have not overlapped, a request in flight is the only one.
LEMMA AloneInFlight ==
  ASSUME InFlightBounded, ~overlapped, NEW r \in InFlight
  PROVE  InFlight = {r}
BY ExcessNat, OnlyMember DEF InFlightBounded
-----------------------------------------------------------------------------
(* Counting the accounts of a tenant *)

LEMMA PeakNat ==
  ASSUME NEW high \in {0} \cup Limits \cup {None}, high # None
  PROVE  high \in Nat
<1>1. Limits \subseteq Nat
  BY AccountsBoundsAssumption
<1>2. QED
  BY <1>1

LEMMA NoNewPotential ==
  ASSUME Types, Types', SeatsPotential, Excess' \in Nat, Excess <= Excess',
         IsFiniteSet(StoredUsers'),
         \A t \in StoredTenants' : Covers(peak'[t], tenants'[t].limit),
         \A t \in TenantIds : peak'[t] # None =>
           peak[t] # None /\ peak[t] <= peak'[t],
         \A t \in TenantIds : PotentialUsers(t)' \subseteq PotentialUsers(t)
  PROVE  SeatsPotential'
<1> SUFFICES ASSUME NEW t \in TenantIds, peak'[t] # None
             PROVE  /\ IsFiniteSet(PotentialUsers(t)')
                    /\ Cardinality(PotentialUsers(t)') <= peak'[t] + Excess'
  BY DEF SeatsPotential
<1>1. peak[t] \in Nat /\ peak'[t] \in Nat /\ peak[t] # None /\ peak[t] <= peak'[t]
  <2>1. /\ peak[t] \in {0} \cup Limits \cup {None}
        /\ peak'[t] \in {0} \cup Limits \cup {None}
    BY DEF Types
  <2>2. peak[t] # None /\ peak[t] <= peak'[t]
    OBVIOUS
  <2>3. QED
    BY <2>1, <2>2, PeakNat
<1>2. Excess \in Nat /\ peak[t] + Excess \in Nat
  BY <1>1, ExcessNat
<1>3. /\ IsFiniteSet(PotentialUsers(t)')
      /\ Cardinality(PotentialUsers(t)') <= peak[t] + Excess
  BY <1>1, <1>2, PartBounded DEF SeatsPotential
<1>4. Cardinality(PotentialUsers(t)') \in Nat
  BY <1>3, FS_CardinalityType
<1>5. QED
  BY <1>1, <1>2, <1>3, <1>4

\* A step of request r enlarges the potential accounts of a tenant by nothing
\* but what r may add from now on.
LEMMA NoneAdded ==
  ASSUME NEW r \in Requests, NEW t \in TenantIds, registered \subseteq registered',
         \A x \in Requests \ {r} : pc'[x] = pc[x] /\ frame'[x] = frame[x],
         \A u \in UserIds : u \in UsersOf(t)' /\ u \notin registered' =>
           u \in UsersOf(t) \/ MayAdd(r, u, t),
         \A u \in UserIds : MayAdd(r, u, t)' => u \in UsersOf(t) \/ MayAdd(r, u, t)
  PROVE  PotentialUsers(t)' \subseteq PotentialUsers(t)
<1> SUFFICES ASSUME NEW u \in PotentialUsers(t)'
             PROVE  u \in PotentialUsers(t)
  OBVIOUS
<1>1. u \in UserIds /\ u \notin registered /\ u \notin registered'
  BY DEF PotentialUsers, UsersOf, LiveUsers, StoredUsers
<1>2. CASE u \in UsersOf(t)'
  BY <1>1, <1>2 DEF PotentialUsers
<1>3. ASSUME NEW x \in Requests, MayAdd(x, u, t)'
      PROVE  u \in PotentialUsers(t)
  <2>1. CASE x = r
    BY <1>1, <1>3, <2>1 DEF PotentialUsers
  <2>2. CASE x # r
    <3>1. MayAdd(x, u, t)
      BY <1>3, <2>2 DEF MayAdd
    <3>2. QED
      BY <1>1, <3>1 DEF PotentialUsers
  <2>3. QED
    BY <2>1, <2>2
<1>4. QED
  BY <1>2, <1>3 DEF PotentialUsers

\* The users that count do not change with the rows.
LEMMA SameUsers ==
  ASSUME users' = users
  PROVE  /\ StoredUsers' = StoredUsers /\ LiveUsers' = LiveUsers
         /\ \A t : UsersOf(t)' = UsersOf(t)
BY DEF StoredUsers, LiveUsers, UsersOf

LEMMA SamePeak ==
  ASSUME Types
  PROVE  \A t \in TenantIds : peak[t] # None => peak[t] \in Nat /\ peak[t] <= peak[t]
<1> SUFFICES ASSUME NEW t \in TenantIds, peak[t] # None
             PROVE  peak[t] \in Nat /\ peak[t] <= peak[t]
  OBVIOUS
<1>1. peak[t] \in {0} \cup Limits \cup {None}
  BY DEF Types
<1>2. peak[t] \in Nat
  BY <1>1, PeakNat
<1>3. QED
  BY <1>2

LEMMA BeginsPotential ==
  ASSUME Types, Types', InFlightBounded, SeatsPotential,
         NEW r \in Requests, Begins(r)
  PROVE  SeatsPotential'
<1>1. PICK st \in Opening, c \in Frame :
        /\ WellFormed(r, st, c)
        /\ pc' = [pc EXCEPT ![r] = st]
        /\ frame' = [frame EXCEPT ![r] = c]
  BY DEF Begins
<1>2. /\ pc'[r] = st /\ frame'[r] = c
      /\ UNCHANGED <<tenants, users, registered, peak>>
  BY <1>1 DEF Begins, Types
<1>3. /\ Excess' \in Nat /\ Excess <= Excess'
      /\ \A x \in Requests \ {r} : pc'[x] = pc[x] /\ frame'[x] = frame[x]
  BY BeginsInFlight
<1>4. ASSUME NEW t \in TenantIds, NEW u \in UserIds, MayAdd(r, u, t)'
      PROVE  u \in UsersOf(t)
  <2>1. st \in {"email", "reload"} /\ c.path = "updateUser"
    BY <1>2, <1>4 DEF MayAdd, Opening, Saving
  <2>2. OldAccount(st, c)
    BY <1>1, <2>1 DEF WellFormed, NewAccount, NewTenant, OldTenant
  <2>3. QED
    BY <1>2, <1>4, <2>2 DEF OldAccount, MayAdd, UsersOf
<1>5. ASSUME NEW t \in TenantIds
      PROVE  PotentialUsers(t)' \subseteq PotentialUsers(t)
  BY <1>2, <1>3, <1>4, SameUsers, NoneAdded
<1>6. StoredTenants' = StoredTenants
  BY <1>2 DEF StoredTenants
<1>7. IsFiniteSet(StoredUsers')
  BY <1>2, SameUsers DEF SeatsPotential
<1>8. /\ \A t \in StoredTenants' : Covers(peak'[t], tenants'[t].limit)
      /\ \A t \in TenantIds : peak'[t] # None =>
           peak[t] # None /\ peak[t] <= peak'[t]
  BY <1>2, <1>6, SamePeak DEF SeatsPotential
<1>9. QED
  BY <1>3, <1>5, <1>7, <1>8, NoNewPotential

\* A statement that leaves tenants alone.
LEMMA QuietPotential ==
  ASSUME Types, Types', InFlightBounded, SeatsPotential,
         NEW r \in Requests, Moves(r), UNCHANGED <<tenants, peak>>,
         IsFiniteSet(StoredUsers'), registered \subseteq registered',
         \A t \in TenantIds, u \in UserIds :
           /\ u \in UsersOf(t)' /\ u \notin registered' =>
                u \in UsersOf(t) \/ MayAdd(r, u, t)
           /\ MayAdd(r, u, t)' => u \in UsersOf(t) \/ MayAdd(r, u, t)
  PROVE  SeatsPotential'
<1>1. Excess' \in Nat /\ Excess <= Excess'
  BY MovesInFlight, ExcessNat
<1>2. ASSUME NEW t \in TenantIds
      PROVE  PotentialUsers(t)' \subseteq PotentialUsers(t)
  BY NoneAdded DEF Moves
<1>3. StoredTenants' = StoredTenants
  BY DEF StoredTenants
<1>4. /\ \A t \in StoredTenants' : Covers(peak'[t], tenants'[t].limit)
      /\ \A t \in TenantIds : peak'[t] # None =>
           peak[t] # None /\ peak[t] <= peak'[t]
  BY <1>3, SamePeak DEF SeatsPotential
<1>5. QED
  BY <1>1, <1>2, <1>4, NoNewPotential

\* A statement that leaves the rows alone and gives request r no account to add.
LEMMA IdlePotential ==
  ASSUME Types, Types', InFlightBounded, SeatsPotential,
         NEW r \in Requests, Moves(r), UNCHANGED <<tenants, users, history>>,
         \A t \in TenantIds, u \in UserIds : MayAdd(r, u, t)' => MayAdd(r, u, t)
  PROVE  SeatsPotential'
<1>1. /\ UNCHANGED <<tenants, users, registered, peak>>
  BY DEF history
<1>2. QED
  BY <1>1, SameUsers, QuietPotential DEF SeatsPotential

LEMMA EndedAdds ==
  ASSUME NEW r, pc'[r] \notin {"insertUser", "email", "reload", "write"}
  PROVE  \A u, t : ~MayAdd(r, u, t)'
BY DEF MayAdd, Saving

LEMMA GotoPotential ==
  ASSUME Shape, Shape', InFlightBounded, SeatsPotential, NEW r \in Requests,
         CheckEmail(r) \/ FindTenant(r) \/ Reload(r) \/ AssignRole(r)
           \/ Audit(r) \/ Abort(r)
  PROVE  SeatsPotential'
<1>1. Moves(r) /\ Types /\ Types'
  BY StatementMoves DEF Statement, Shape
<1>2. ASSUME UNCHANGED <<tenants, users, history>>,
             pc'[r] \notin {"insertUser", "email", "reload", "write"}
      PROVE  SeatsPotential'
  BY <1>1, <1>2, EndedAdds, IdlePotential
<1>3. CASE CheckEmail(r)
  <2> DEFINE next == CASE frame[r].path = "updateUser" -> "reload"
                       [] frame[r].path = "register" /\ frame[r].asked = None ->
                            "insertUser"
                       [] OTHER -> "tenant"
  <2>1. PICK found :
          Check(r, "email", found \in {None, frame[r].target}, next)
    BY <1>3 DEF CheckEmail
  <2>2. PICK st \in {next, "refused"} :
          /\ pc[r] = "email" /\ Goto(r, st)
          /\ UNCHANGED <<tenants, users, userRoles, history>>
    BY <2>1 DEF Check
  <2>3. /\ pc'[r] = st /\ st \in {"reload", "insertUser", "tenant", "refused"}
        /\ st \notin Outcomes => frame'[r] = frame[r]
    BY <1>1, <2>2, GotoFrame
  <2>4. /\ st = "reload" => frame[r].path = "updateUser" /\ frame'[r] = frame[r]
        /\ st = "insertUser" => frame[r].path = "register" /\ frame'[r] = frame[r]
    BY <2>2, <2>3 DEF Outcomes
  <2>5. \A t \in TenantIds, u \in UserIds : MayAdd(r, u, t)' => MayAdd(r, u, t)
    BY <2>2, <2>3, <2>4 DEF MayAdd, Saving
  <2>6. QED
    BY <1>1, <2>2, <2>5, IdlePotential
<1>4. CASE FindTenant(r)
  <2>1. UNCHANGED <<tenants, users, history>>
    BY <1>4 DEF FindTenant
  <2>2. CASE Goto(r, "refused")
    BY <1>1, <1>2, <2>1, <2>2, GotoFrame
  <2>3. ASSUME ~Goto(r, "refused")
        PROVE  SeatsPotential'
    <3>1. PICK t \in TenantIds, st \in {"insertUser", "seats"}, f \in Frame :
            /\ st = IF frame[r].path = "register" THEN "insertUser" ELSE "seats"
            /\ f.path = frame[r].path
            /\ pc' = [pc EXCEPT ![r] = st]
            /\ frame' = [frame EXCEPT ![r] = f]
      BY <1>4, <2>3, FindTenantStep
    <3>2. pc'[r] = st /\ frame'[r] = f
      BY <1>1, <3>1 DEF Types
    <3>3. \A s \in TenantIds, u \in UserIds : ~MayAdd(r, u, s)'
      BY <3>1, <3>2 DEF MayAdd, Saving
    <3>4. QED
      BY <1>1, <2>1, <3>3, IdlePotential
  <2>4. QED
    BY <2>2, <2>3
<1>5. CASE Reload(r)
  <2>1. PICK f \in Frame :
          /\ pc' = [pc EXCEPT ![r] = "write"]
          /\ frame' = [frame EXCEPT ![r] = f]
          /\ f.path = frame[r].path /\ f.target = frame[r].target
          /\ f.ent = frame[r].ent
    BY <1>5, ReloadStep
  <2>2. pc[r] = "reload" /\ UNCHANGED <<tenants, users, history>>
    BY <1>5, ReloadStep
  <2>3. pc'[r] = "write" /\ frame'[r] = f
    BY <1>1, <2>1 DEF Types
  <2>4. \A t \in TenantIds, u \in UserIds : MayAdd(r, u, t)' => MayAdd(r, u, t)
    BY <2>1, <2>2, <2>3 DEF MayAdd, Saving
  <2>5. QED
    BY <1>1, <2>2, <2>4, IdlePotential
<1>6. CASE AssignRole(r)
  <2>1. UNCHANGED <<tenants, users, history>> /\ Goto(r, "audit")
    BY <1>6 DEF AssignRole
  <2>2. QED
    BY <1>1, <1>2, <2>1, GotoFrame
<1>7. CASE Audit(r) \/ Abort(r)
  <2>1. /\ UNCHANGED <<tenants, users, history>>
        /\ Goto(r, "done") \/ Goto(r, "aborted")
    BY <1>7 DEF Audit, Abort
  <2>2. QED
    BY <1>1, <1>2, <2>1, GotoFrame
<1>8. QED
  BY <1>3, <1>4, <1>5, <1>6, <1>7
LEMMA InsertUserPotential ==
  ASSUME Shape, Shape', InFlightBounded, SeatsPotential,
         NEW r \in Requests, InsertUser(r)
  PROVE  SeatsPotential'
<1>1. Moves(r) /\ Types /\ Types'
  BY StatementMoves DEF Statement, Shape
<1>2. CASE Goto(r, "conflict") /\ UNCHANGED <<users, registered>>
  <2>1. UNCHANGED <<tenants, users, history>>
    BY <1>2, InsertUserStep DEF history
  <2>2. pc'[r] = "conflict"
    BY <1>1, <1>2, GotoFrame
  <2>3. QED
    BY <1>1, <2>1, <2>2, EndedAdds, IdlePotential
<1>3. CASE /\ users' = [users EXCEPT ![r] = frame[r].ent]
           /\ frame[r].ent \in User /\ ~frame[r].ent.isDeleted
           /\ registered' = IF frame[r].path = "register"
                            THEN registered \cup {r} ELSE registered
           /\ GotoSaved(r, AfterInsert(r))
  <2>1. pc'[r] \in {"role", "done"}
    BY <1>1, <1>3 DEF GotoSaved, AfterInsert, Types
  <2>2. /\ r \in UserIds /\ users'[r] = frame[r].ent
        /\ \A u \in UserIds \ {r} : users'[u] = users[u]
    BY <1>1, <1>3 DEF Types, UserIds
  <2>3. StoredUsers' \subseteq StoredUsers \cup {r}
    BY <2>2 DEF StoredUsers
  <2>4. IsFiniteSet(StoredUsers')
    <3>1. IsFiniteSet(StoredUsers \cup {r})
      BY FS_AddElement DEF SeatsPotential
    <3>2. QED
      BY <2>3, <3>1, FS_Subset
  <2>5. registered \subseteq registered'
    BY <1>3
  <2>6. ASSUME NEW t \in TenantIds, NEW u \in UserIds, u \in UsersOf(t)',
               u \notin registered'
        PROVE  u \in UsersOf(t) \/ MayAdd(r, u, t)
    <3>1. CASE u = r
      <4>1. frame[r].path = "createUser"
        BY <1>3, <2>6, <3>1, InsertUserStep
      <4>2. frame[r].ent.tenant = t
        BY <2>2, <2>6, <3>1 DEF UsersOf
      <4>3. QED
        BY <3>1, <4>1, <4>2, InsertUserStep DEF MayAdd, DraftFits
    <3>2. CASE u # r
      BY <2>2, <2>6, <3>2 DEF UsersOf, LiveUsers, StoredUsers
    <3>3. QED
      BY <3>1, <3>2
  <2>7. \A u, t : ~MayAdd(r, u, t)'
    BY <2>1, EndedAdds
  <2>8. UNCHANGED <<tenants, peak>>
    BY InsertUserStep
  <2>9. QED
    BY <1>1, <2>4, <2>5, <2>6, <2>7, <2>8, QuietPotential
<1>4. QED
  BY <1>2, <1>3, InsertUserStep

LEMMA WriteUserPotential ==
  ASSUME Shape, Shape', InFlightBounded, SeatsPotential,
         NEW r \in Requests, WriteUser(r)
  PROVE  SeatsPotential'
<1> DEFINE w == frame[r].target
           row == MergeUser(users[w], frame[r].base, frame[r].ent)
           st == IF frame[r].role = None THEN "audit" ELSE "role"
<1>1. Moves(r) /\ Types /\ Types'
  BY StatementMoves DEF Statement, Shape
<1>2. /\ pc[r] = "write" /\ AccountFits(r)
      /\ frame[r].path \in {"updateUser", "deleteUser"}
      /\ w \in UserIds /\ w \in StoredUsers
      /\ row.tenant = users[w].tenant
      /\ ~row.isDeleted => ~users[w].isDeleted \/ ~frame[r].ent.isDeleted
      /\ UNCHANGED <<tenants, userRoles, history>>
      /\ \/ Goto(r, "conflict") /\ UNCHANGED users
         \/ users' = [users EXCEPT ![w] = row] /\ GotoSaved(r, st)
  BY WriteUserStep
<1> HIDE DEF row
<1>3. CASE Goto(r, "conflict") /\ UNCHANGED users
  <2>1. pc'[r] = "conflict"
    BY <1>1, <1>3, GotoFrame
  <2>2. QED
    BY <1>1, <1>2, <1>3, <2>1, EndedAdds, IdlePotential
<1>4. CASE users' = [users EXCEPT ![w] = row] /\ GotoSaved(r, st)
  <2>1. pc'[r] \in {"audit", "role"}
    BY <1>1, <1>4 DEF GotoSaved, Types
  <2>2. /\ users'[w] = row
        /\ \A u \in UserIds \ {w} : users'[u] = users[u]
    BY <1>1, <1>2, <1>4 DEF Types
  <2>3. IsFiniteSet(StoredUsers')
    <3>1. StoredUsers' \subseteq StoredUsers
      BY <1>2, <2>2 DEF StoredUsers
    <3>2. QED
      BY <3>1, FS_Subset DEF SeatsPotential
  <2>4. UNCHANGED <<tenants, peak, registered>>
    BY <1>2 DEF history
  <2>5. ASSUME NEW t \in TenantIds, NEW u \in UserIds, u \in UsersOf(t)'
        PROVE  u \in UsersOf(t) \/ MayAdd(r, u, t)
    <3>1. CASE u = w
      <4>1. ~row.isDeleted /\ row.tenant = t
        BY <2>2, <2>5, <3>1 DEF UsersOf, LiveUsers
      <4>2. CASE ~users[w].isDeleted
        BY <1>2, <3>1, <4>1, <4>2 DEF UsersOf, LiveUsers
      <4>3. CASE ~frame[r].ent.isDeleted
        BY <1>2, <3>1, <4>1, <4>3 DEF AccountFits, MayAdd, Saving
      <4>4. QED
        BY <1>2, <4>1, <4>2, <4>3
    <3>2. CASE u # w
      BY <2>2, <2>5, <3>2 DEF UsersOf, LiveUsers, StoredUsers
    <3>3. QED
      BY <3>1, <3>2
  <2>6. \A u, t : ~MayAdd(r, u, t)'
    BY <2>1, EndedAdds
  <2>7. QED
    BY <1>1, <2>3, <2>4, <2>5, <2>6, QuietPotential
<1>5. QED
  BY <1>2, <1>3, <1>4

\* A statement that writes the row of a tenant raises its peak, if anything.
LEMMA TenantPotential ==
  ASSUME Shape, Shape', InFlightBounded, SeatsPotential,
         NEW r \in Requests, Moves(r), NEW t \in TenantIds, NEW row \in Tenant,
         tenants' = [tenants EXCEPT ![t] = row], UniqueTenant(t, row),
         t = r \/ t \in StoredTenants,
         peak' = [peak EXCEPT ![t] = Higher(@, row.limit)],
         UNCHANGED <<users, userRoles, registered, overlapped>>,
         pc'[r] = "done"
  PROVE  SeatsPotential'
<1>1. /\ StoredTenants' = StoredTenants \cup {t}
      /\ tenants'[t] = row /\ peak'[t] = Higher(peak[t], row.limit)
      /\ \A s \in TenantIds \ {t} : tenants'[s] = tenants[s] /\ peak'[s] = peak[s]
  BY TenantRowWritten
<1>2. /\ peak[t] \in {0} \cup Limits \cup {None} /\ row.limit \in Limits \cup {None}
  BY RowFields DEF Shape, Types
<1>3. ASSUME NEW s \in StoredTenants'
      PROVE  Covers(peak'[s], tenants'[s].limit)
  <2>1. CASE s = t
    <3>1. Covers(Higher(peak[t], row.limit), row.limit)
      BY <1>2, HigherCovers
    <3>2. QED
      BY <1>1, <2>1, <3>1
  <2>2. CASE s # t
    BY <1>1, <1>3, <2>2 DEF SeatsPotential, StoredTenants
  <2>3. QED
    BY <2>1, <2>2
<1>4. ASSUME NEW s \in TenantIds, peak'[s] # None
      PROVE  peak[s] # None /\ peak[s] <= peak'[s]
  <2>1. CASE s = t
    <3>1. peak[t] # None /\ row.limit # None
      BY <1>1, <1>4, <2>1 DEF Higher
    <3>2. peak[t] \in Nat /\ row.limit \in Nat
      BY <1>2, <3>1, PeakNat
    <3>3. Higher(peak[t], row.limit) = IF peak[t] > row.limit THEN peak[t] ELSE row.limit
      BY <3>1 DEF Higher
    <3>4. peak[t] <= Higher(peak[t], row.limit)
      BY <3>2, <3>3
    <3>5. QED
      BY <1>1, <2>1, <3>1, <3>4
  <2>2. CASE s # t
    BY <1>1, <1>4, <2>2, SamePeak DEF Shape
  <2>3. QED
    BY <2>1, <2>2
<1>5. ASSUME NEW s \in TenantIds
      PROVE  PotentialUsers(s)' \subseteq PotentialUsers(s)
  BY SameUsers, EndedAdds, NoneAdded DEF Moves
<1>6. IsFiniteSet(StoredUsers')
  BY SameUsers DEF SeatsPotential
<1>7. Excess' \in Nat /\ Excess <= Excess'
  BY MovesInFlight, ExcessNat
<1>8. QED
  BY <1>3, <1>4, <1>5, <1>6, <1>7, NoNewPotential DEF Shape

LEMMA WriteTenantPotential ==
  ASSUME Shape, Shape', InFlightBounded, SeatsPotential,
         NEW r \in Requests, InsertTenant(r) \/ WriteTenant(r)
  PROVE  SeatsPotential'
<1>1. Moves(r) /\ Types /\ Types'
  BY StatementMoves DEF Statement, Shape
<1>2. ASSUME Goto(r, "conflict"), UNCHANGED <<tenants, users, history>>
      PROVE  SeatsPotential'
  <2>1. pc'[r] = "conflict"
    BY <1>1, <1>2, GotoFrame
  <2>2. QED
    BY <1>1, <1>2, <2>1, EndedAdds, IdlePotential
<1>3. ASSUME NEW t \in TenantIds, NEW row \in Tenant,
             UNCHANGED <<users, userRoles, registered, overlapped>>,
             t = r \/ t \in StoredTenants,
             tenants' = [tenants EXCEPT ![t] = row], UniqueTenant(t, row),
             peak' = [peak EXCEPT ![t] = Higher(@, row.limit)],
             Goto(r, "done")
      PROVE  SeatsPotential'
  <2>1. pc'[r] = "done"
    BY <1>1, <1>3, GotoFrame
  <2>2. QED
    BY <1>1, <1>3, <2>1, TenantPotential
<1>4. CASE InsertTenant(r)
  <2>1. CASE Goto(r, "conflict") /\ UNCHANGED <<tenants, peak>>
    BY <1>2, <1>4, <2>1, InsertTenantStep DEF history
  <2>2. QED
    BY <1>3, <1>4, <2>1, InsertTenantStep
<1>5. CASE WriteTenant(r)
  <2> DEFINE t == frame[r].target
             row == MergeTenant(tenants[t], frame[r].base, frame[r].ent)
  <2>1. /\ t \in TenantIds /\ t \in StoredTenants /\ row \in Tenant
        /\ UNCHANGED <<users, userRoles, registered, overlapped>>
        /\ \/ Goto(r, "conflict") /\ UNCHANGED <<tenants, peak>>
           \/ /\ tenants' = [tenants EXCEPT ![t] = row] /\ UniqueTenant(t, row)
              /\ peak' = [peak EXCEPT ![t] = Higher(@, row.limit)]
              /\ Goto(r, "done")
    BY <1>5, WriteTenantStep
  <2> HIDE DEF row, t
  <2>2. CASE Goto(r, "conflict") /\ UNCHANGED <<tenants, peak>>
    BY <1>2, <2>1, <2>2 DEF history
  <2>3. QED
    BY <1>3, <2>1, <2>2
<1>6. QED
  BY <1>4, <1>5

\* What requests in flight name is no more than those requests.
LEMMA InFlightNames ==
  ASSUME InFlightBounded, NEW S,
         \A u \in S : \E x \in InFlight : frame[x].target = u
  PROVE  IsFiniteSet(S) /\ Cardinality(S) <= 1 + Excess
<1> DEFINE target == [x \in Requests |-> frame[x].target]
<1>1. InFlight \subseteq DOMAIN target
  BY DEF InFlight
<1>2. \A u \in S : \E x \in InFlight : target[x] = u
  BY DEF InFlight
<1> HIDE DEF target
<1>3. IsFiniteSet(S) /\ Cardinality(S) <= Cardinality(InFlight)
  BY <1>1, <1>2, NamedBounded DEF InFlightBounded
<1>4. Cardinality(S) \in Nat /\ Cardinality(InFlight) \in Nat
  BY <1>3, FS_CardinalityType DEF InFlightBounded
<1>5. QED
  BY <1>3, <1>4, ExcessNat DEF InFlightBounded

\* Passing the check of the seats: the live accounts were fewer than a limit
\* that the tenant has had, and all that may yet be added is named by a request
\* in flight.
LEMMA SeatsPassed ==
  ASSUME InFlightBounded, NEW t, NEW high \in Nat, NEW limit,
         SeatFree(t, limit), limit # None, limit \in Nat, limit <= high,
         IsFiniteSet(UsersOf(t)), NEW S,
         \A u \in S : u \in UsersOf(t) \/ \E x \in InFlight : frame[x].target = u
  PROVE  IsFiniteSet(S) /\ Cardinality(S) <= high + Excess
<1> DEFINE old == S \cap UsersOf(t)
           new == {u \in S : \E x \in InFlight : frame[x].target = u}
<1>1. Cardinality(UsersOf(t)) \in Nat /\ Cardinality(UsersOf(t)) < limit
  BY FS_CardinalityType DEF SeatFree
<1>2. Cardinality(UsersOf(t)) <= high - 1 /\ high - 1 \in Nat
  BY <1>1
<1>3. IsFiniteSet(old) /\ Cardinality(old) <= high - 1
  BY <1>2, PartBounded
<1>4. IsFiniteSet(new) /\ Cardinality(new) <= 1 + Excess
  BY InFlightNames
<1>5. S = old \cup new
  OBVIOUS
<1> HIDE DEF old, new
<1>6. 1 + Excess \in Nat /\ Excess \in Nat
  BY ExcessNat
<1>7. IsFiniteSet(S) /\ Cardinality(S) <= high - 1 + (1 + Excess)
  BY <1>2, <1>3, <1>4, <1>5, <1>6, TogetherBounded
<1>8. Cardinality(S) \in Nat
  BY <1>7, FS_CardinalityType
<1>9. QED
  BY <1>6, <1>7, <1>8

LEMMA CheckSeatsPotential ==
  ASSUME Shape, Shape', InFlightBounded, SeatsPotential,
         NEW r \in Requests, CheckSeats(r)
  PROVE  SeatsPotential'
<1> DEFINE f == [frame[r] EXCEPT !.limit = None]
<1>1. Moves(r) /\ Types /\ Types'
  BY StatementMoves DEF Statement, Shape
<1>2. /\ pc[r] = "seats" /\ frame[r] \in Frame /\ FrameFits(r) /\ pc[r] \in Statements
      /\ pc[r] \in Drafting /\ UNCHANGED <<tenants, users, userRoles, history>>
  BY DEF CheckSeats, Shape, Types, FramesFit, Statements, Drafting
<1>3. frame[r].path = "createUser" /\ DraftFits(r)
  BY <1>2, PathsOf DEF FrameFits
<1>4. CASE ~SeatFree(frame[r].ent.tenant, frame[r].limit)
  <2>1. pc'[r] = "refused"
    BY <1>4 DEF CheckSeats, Shape, Types
  <2>2. QED
    BY <1>1, <1>2, <2>1, EndedAdds, IdlePotential
<1>5. CASE SeatFree(frame[r].ent.tenant, frame[r].limit)
  <2>1. pc'[r] = "insertUser" /\ frame'[r] = f
    BY <1>5 DEF CheckSeats, Shape, Types
  <2>2. /\ f.path = frame[r].path /\ f.target = frame[r].target
        /\ f.ent = frame[r].ent
    BY <1>2 DEF Frame
  <2> HIDE DEF f
  <2>3. Excess' = Excess
    BY <1>1, MovesInFlight
  <2>4. UNCHANGED <<users, tenants, registered, peak>> /\ StoredTenants' = StoredTenants
    BY <1>2 DEF history, StoredTenants
  <2>5. ASSUME NEW t \in TenantIds, peak'[t] # None
        PROVE  /\ IsFiniteSet(PotentialUsers(t)')
               /\ Cardinality(PotentialUsers(t)') <= peak'[t] + Excess'
    <3>1. /\ peak'[t] = peak[t] /\ peak[t] \in Nat /\ peak[t] # None
          /\ peak[t] + Excess \in Nat
      BY <1>1, <2>4, <2>5, SamePeak, ExcessNat
    <3>2. CASE frame[r].ent.tenant # t
      <4>1. \A u \in UserIds : ~MayAdd(r, u, t)'
        BY <2>1, <2>2, <3>2 DEF MayAdd
      <4>2. PotentialUsers(t)' \subseteq PotentialUsers(t)
        BY <1>1, <2>4, <4>1, SameUsers, NoneAdded DEF Moves
      <4>3. QED
        BY <2>3, <3>1, <4>2, PartBounded DEF SeatsPotential
    <3>3. CASE frame[r].ent.tenant = t
      <4>1. Covers(peak[t], frame[r].limit)
        BY <1>2, <1>3, <3>3 DEF DraftFits
      <4>2. /\ frame[r].limit # None /\ frame[r].limit <= peak[t]
            /\ frame[r].limit \in Limits \cup {None}
        BY <1>2, <3>1, <4>1 DEF Covers, Frame
      <4>3. frame[r].limit \in Nat
        BY <4>2, PeakNat
      <4>4. IsFiniteSet(UsersOf(t))
        <5>1. UsersOf(t) \subseteq StoredUsers
          BY DEF UsersOf, LiveUsers
        <5>2. QED
          BY <5>1, FS_Subset DEF SeatsPotential
      <4>5. ASSUME NEW u \in PotentialUsers(t)', u \notin UsersOf(t)
            PROVE  \E x \in InFlight : frame[x].target = u
        <5>1. u \notin UsersOf(t)'
          BY <2>4, <4>5, SameUsers
        <5>2. PICK x \in Requests : MayAdd(x, u, t)'
          BY <4>5, <5>1 DEF PotentialUsers
        <5>3. CASE x = r
          BY <1>2, <2>1, <2>2, <5>2, <5>3 DEF MayAdd, InFlight
        <5>4. CASE x # r
          <6>1. MayAdd(x, u, t)
            BY <1>1, <5>2, <5>4 DEF MayAdd, Moves
          <6>2. QED
            BY <6>1 DEF MayAdd, InFlight, Saving, Statements
        <5>5. QED
          BY <5>3, <5>4
      <4>6. SeatFree(t, frame[r].limit)
        BY <1>5, <3>3
      <4>7. /\ IsFiniteSet(PotentialUsers(t)')
            /\ Cardinality(PotentialUsers(t)') <= peak[t] + Excess
        BY <3>1, <4>2, <4>3, <4>4, <4>5, <4>6, SeatsPassed
      <4>8. QED
        BY <2>3, <3>1, <4>7
    <3>4. QED
      BY <3>2, <3>3
  <2>6. \A t \in StoredTenants' : Covers(peak'[t], tenants'[t].limit)
    BY <2>4 DEF SeatsPotential
  <2>7. IsFiniteSet(StoredUsers')
    BY <2>4, SameUsers DEF SeatsPotential
  <2>8. QED
    BY <2>5, <2>6, <2>7 DEF SeatsPotential
<1>6. QED
  BY <1>4, <1>5

LEMMA StatementPotential ==
  ASSUME Shape, Shape', InFlightBounded, SeatsPotential,
         NEW r \in Requests, Statement(r)
  PROVE  SeatsPotential'
BY GotoPotential, InsertUserPotential, WriteUserPotential, WriteTenantPotential,
   CheckSeatsPotential DEF Statement
-----------------------------------------------------------------------------
(* What one request alone has checked still holds *)

NamesDistinct ==
  \A u, v \in LiveUsers : users[u].username = users[v].username => u = v

LEMMA BeginsAlone ==
  ASSUME Shape, InFlightBounded, AloneHolds, NEW r \in Requests, Begins(r)
  PROVE  AloneHolds'
<1> SUFFICES ASSUME ~overlapped'
             PROVE  /\ \A x \in InFlight' : CheckedHolds(x)'
                    /\ NamesDistinct'
  BY DEF AloneHolds, NamesDistinct
<1>1. PICK st \in Opening, c \in Frame :
        /\ WellFormed(r, st, c)
        /\ pc' = [pc EXCEPT ![r] = st]
        /\ frame' = [frame EXCEPT ![r] = c]
  BY DEF Begins
<1>2. /\ pc'[r] = st /\ frame'[r] = c /\ UNCHANGED <<tenants, users>>
  BY <1>1 DEF Begins, Shape, Types
<1>3. ~overlapped /\ InFlight' \subseteq {r}
  BY BeginsInFlight DEF Shape
<1>4. LiveUsers' = LiveUsers /\ LiveTenants' = LiveTenants /\ StoredUsers' = StoredUsers
  BY <1>2 DEF StoredUsers, LiveUsers, StoredTenants, LiveTenants
<1>5. NamesDistinct'
  BY <1>2, <1>3, <1>4 DEF AloneHolds, NamesDistinct
<1>6. ASSUME r \in InFlight'
      PROVE  CheckedHolds(r)'
  <2>1. st # "refused"
    BY <1>2, <1>6, StatementSets DEF InFlight, Outcomes
  <2>2. CASE NewAccount(r, st, c)
    <3>1. c.ent.tenant = None
      BY <2>2, RowFields DEF NewAccount
    <3>2. DraftHolds(r)'
      BY <1>2, <1>4, <2>2, <3>1
         DEF NewAccount, DraftHolds, UsernameAvailable
    <3>3. QED
      BY <1>2, <2>2, <3>2 DEF NewAccount, CheckedHolds, TenantHandlers
  <2>3. CASE OldAccount(st, c)
    <3>1. AccountHolds(r)'
      BY <1>2, <1>4, <2>3 DEF OldAccount, AccountHolds, LiveUsers
    <3>2. QED
      BY <1>2, <2>3, <3>1 DEF OldAccount, CheckedHolds, TenantHandlers
  <2>4. CASE NewTenant(r, st, c)
    <3>1. TenantHolds(r)'
      BY <1>2, <1>4, <2>4 DEF NewTenant, TenantHolds, CodeAvailable
    <3>2. QED
      BY <1>2, <2>4, <3>1 DEF NewTenant, CheckedHolds
  <2>5. CASE OldTenant(st, c)
    <3>1. TenantHolds(r)'
      BY <1>2, <1>4, <2>5 DEF OldTenant, TenantHolds, LiveTenants
    <3>2. QED
      BY <1>2, <2>5, <3>1 DEF OldTenant, CheckedHolds
  <2>6. QED
    BY <1>1, <2>1, <2>2, <2>3, <2>4, <2>5 DEF WellFormed
<1>7. QED
  BY <1>3, <1>5, <1>6

\* What a statement of the only request has to keep.
LEMMA MovesAlone ==
  ASSUME InFlightBounded, AloneHolds, NEW r \in Requests, Moves(r),
         ~overlapped /\ CheckedHolds(r) /\ NamesDistinct =>
           /\ NamesDistinct'
           /\ pc'[r] \in Statements => CheckedHolds(r)'
  PROVE  AloneHolds'
<1> SUFFICES ASSUME ~overlapped'
             PROVE  /\ \A x \in InFlight' : CheckedHolds(x)'
                    /\ NamesDistinct'
  BY DEF AloneHolds, NamesDistinct
<1>1. ~overlapped /\ r \in InFlight /\ InFlight' \subseteq InFlight
  BY MovesInFlight DEF Moves, InFlight
<1>2. InFlight' \subseteq {r}
  BY <1>1, AloneInFlight
<1>3. CheckedHolds(r) /\ NamesDistinct
  BY <1>1 DEF AloneHolds, NamesDistinct
<1>4. QED
  BY <1>1, <1>2, <1>3 DEF InFlight

LEMMA SameNames ==
  ASSUME users' = users, NamesDistinct
  PROVE  NamesDistinct'
BY SameUsers DEF NamesDistinct

\* Once the row of an account is saved nothing is left to hold.
LEMMA TailHolds ==
  ASSUME NEW r, pc'[r] \in {"role", "audit"},
         frame'[r].path \in {"createUser", "updateUser", "deleteUser"}
  PROVE  CheckedHolds(r)'
BY DEF CheckedHolds, Drafting, Saving, TenantHandlers

LEMMA NoneHolds == None \notin UserIds
BY AccountsNoneAssumption

\* The check of the email finds that the email is free, but where it finds the
\* account's own row, which it looks for only under another email.
LEMMA EmailFree ==
  ASSUME Shape, NEW r \in Requests, CheckEmail(r), CheckedHolds(r)
  PROVE  /\ pc[r] = "email" /\ UNCHANGED <<tenants, users, userRoles, history>>
         /\ \/ Goto(r, "refused")
            \/ /\ Goto(r, CASE frame[r].path = "updateUser" -> "reload"
                            [] frame[r].path = "register" /\ frame[r].asked = None ->
                                 "insertUser"
                            [] OTHER -> "tenant")
               /\ EmailHolders(frame[r].ent.email) = {}
<1> DEFINE next == CASE frame[r].path = "updateUser" -> "reload"
                     [] frame[r].path = "register" /\ frame[r].asked = None ->
                          "insertUser"
                     [] OTHER -> "tenant"
           holders == EmailHolders(frame[r].ent.email)
<1>1. PICK found \in IF holders = {} THEN {None} ELSE holders :
        Check(r, "email", found \in {None, frame[r].target}, next)
  BY DEF CheckEmail
<1>2. /\ pc[r] = "email" /\ UNCHANGED <<tenants, users, userRoles, history>>
      /\ Goto(r, IF found \in {None, frame[r].target} THEN next ELSE "refused")
  BY <1>1 DEF Check
<1>3. ASSUME found \in {None, frame[r].target}
      PROVE  holders = {}
  <2> SUFFICES ASSUME holders # {}
               PROVE  FALSE
    OBVIOUS
  <2>1. /\ found \in LiveUsers /\ found \in UserIds /\ users[found] # None
        /\ users[found].email = frame[r].ent.email
    BY <1>1 DEF EmailHolders, LiveUsers, StoredUsers
  <2>2. found = frame[r].target
    BY <1>3, <2>1, NoneHolds
  <2>3. /\ FrameFits(r) /\ frame[r] \in Frame
        /\ frame[r].path \in {"createUser", "register", "updateUser"}
        /\ pc[r] \in Drafting /\ pc[r] \in Saving
    BY <1>2, PathsOf DEF Shape, Types, FramesFit, Statements, Drafting, Saving
  <2>4. CASE frame[r].path = "updateUser"
    BY <1>2, <2>1, <2>2, <2>3, <2>4 DEF CheckedHolds, AccountHolds
  <2>5. CASE frame[r].path \in {"createUser", "register"}
    BY <2>1, <2>2, <2>3, <2>5 DEF FrameFits, DraftFits
  <2>6. QED
    BY <2>3, <2>4, <2>5
<1> HIDE DEF next, holders
<1>4. QED
  BY <1>2, <1>3 DEF next, holders

LEMMA CheckEmailAlone ==
  ASSUME Shape, InFlightBounded, AloneHolds, NEW r \in Requests, CheckEmail(r)
  PROVE  AloneHolds'
<1>1. Moves(r) /\ Types
  BY StatementMoves DEF Statement, Shape
<1> SUFFICES ASSUME ~overlapped, CheckedHolds(r), NamesDistinct
             PROVE  /\ NamesDistinct'
                    /\ pc'[r] \in Statements => CheckedHolds(r)'
  BY <1>1, MovesAlone
<1> DEFINE next == CASE frame[r].path = "updateUser" -> "reload"
                     [] frame[r].path = "register" /\ frame[r].asked = None ->
                          "insertUser"
                     [] OTHER -> "tenant"
           holders == EmailHolders(frame[r].ent.email)
<1>2. /\ pc[r] = "email" /\ UNCHANGED <<tenants, users, userRoles, history>>
      /\ Goto(r, "refused") \/ (Goto(r, next) /\ holders = {})
  BY EmailFree
<1>3. NamesDistinct'
  BY <1>2, SameNames
<1>4. CASE Goto(r, "refused")
  BY <1>1, <1>3, <1>4, GotoFrame, StatementSets DEF Outcomes
<1>5. CASE Goto(r, next) /\ holders = {}
  <2>1. next \in {"reload", "insertUser", "tenant"} /\ next \notin Outcomes
    BY DEF Outcomes
  <2>2. pc'[r] = next /\ frame'[r] = frame[r]
    BY <1>1, <1>5, <2>1, GotoFrame
  <2>3. LiveUsers' = LiveUsers /\ LiveTenants' = LiveTenants
    BY <1>2, SameUsers DEF StoredTenants, LiveTenants
  <2>4. /\ frame[r].path \in {"createUser", "register", "updateUser"}
        /\ pc[r] \in Drafting /\ pc[r] \in Saving
    BY <1>2, PathsOf DEF Shape, Types, FramesFit, Statements, Drafting, Saving
  <2>5. CASE frame[r].path = "updateUser"
    <3>1. next = "reload" /\ AccountHolds(r)
      BY <2>4, <2>5 DEF CheckedHolds
    <3>2. EmailHolders(frame[r].ent.email)' = {}
      BY <1>2, <1>5, <2>2, <2>3 DEF EmailHolders
    <3>3. AccountHolds(r)'
      BY <1>2, <2>2, <2>5, <3>1, <3>2 DEF AccountHolds
    <3>4. QED
      BY <1>3, <2>2, <2>5, <3>1, <3>3 DEF CheckedHolds, Drafting, TenantHandlers
  <2>6. CASE frame[r].path \in {"createUser", "register"}
    <3>1. DraftHolds(r)
      BY <2>4, <2>6 DEF CheckedHolds
    <3>2. EmailHolders(frame[r].ent.email)' = {}
      BY <1>2, <1>5, <2>2, <2>3 DEF EmailHolders
    <3>3. DraftHolds(r)'
      BY <1>2, <2>2, <2>3, <3>1, <3>2 DEF DraftHolds, UsernameAvailable
    <3>4. QED
      BY <1>3, <2>2, <2>6, <3>3 DEF CheckedHolds, TenantHandlers
  <2>7. QED
    BY <2>4, <2>5, <2>6
<1>6. QED
  BY <1>2, <1>4, <1>5

LEMMA FindTenantAlone ==
  ASSUME Shape, InFlightBounded, AloneHolds, NEW r \in Requests, FindTenant(r)
  PROVE  AloneHolds'
<1>1. Moves(r) /\ Types
  BY StatementMoves DEF Statement, Shape
<1> SUFFICES ASSUME ~overlapped, CheckedHolds(r), NamesDistinct
             PROVE  /\ NamesDistinct'
                    /\ pc'[r] \in Statements => CheckedHolds(r)'
  BY <1>1, MovesAlone
<1>2. UNCHANGED <<tenants, users, userRoles, history>> /\ pc[r] = "tenant"
  BY DEF FindTenant
<1>3. NamesDistinct'
  BY <1>2, SameNames
<1>4. CASE Goto(r, "refused")
  BY <1>1, <1>3, <1>4, GotoFrame, StatementSets DEF Outcomes
<1>5. CASE ~Goto(r, "refused")
  <2>1. PICK t \in TenantIds, st \in {"insertUser", "seats"}, f \in Frame :
          /\ t \in LiveTenants /\ Eligible(t, frame[r])
          /\ f.ent.tenant = t
          /\ f.ent.username = frame[r].ent.username
          /\ f.ent.email = frame[r].ent.email
          /\ f.path = frame[r].path /\ f.target = frame[r].target
          /\ f.scope = frame[r].scope
          /\ pc' = [pc EXCEPT ![r] = st]
          /\ frame' = [frame EXCEPT ![r] = f]
    BY <1>5, FindTenantStep
  <2>2. pc'[r] = st /\ frame'[r] = f
    BY <1>1, <2>1 DEF Types
  <2>3. LiveUsers' = LiveUsers /\ LiveTenants' = LiveTenants
    BY <1>2, SameUsers DEF StoredTenants, LiveTenants
  <2>4. /\ FrameFits(r) /\ frame[r].path \in {"createUser", "register"}
        /\ pc[r] \in Drafting
    BY <1>2, PathsOf DEF Shape, Types, FramesFit, Statements, Drafting
  <2>5. DraftHolds(r) /\ EmailHolders(frame[r].ent.email) = {}
    BY <1>2, <2>4 DEF CheckedHolds, DraftHolds
  <2>6. EmailHolders(frame[r].ent.email)' = {}
    BY <1>2, <2>1, <2>2, <2>3, <2>5 DEF EmailHolders
  <2>7. InScope(t, frame[r].scope)
    BY <2>1, <2>4 DEF Eligible, InScope, FrameFits, DraftFits
  <2>8. DraftHolds(r)'
    BY <1>2, <2>1, <2>2, <2>3, <2>5, <2>6, <2>7 DEF DraftHolds, UsernameAvailable
  <2>9. QED
    BY <1>3, <2>1, <2>2, <2>4, <2>8 DEF CheckedHolds, Saving, TenantHandlers
<1>6. QED
  BY <1>4, <1>5

LEMMA CheckSeatsAlone ==
  ASSUME Shape, InFlightBounded, AloneHolds, NEW r \in Requests, CheckSeats(r)
  PROVE  AloneHolds'
<1> DEFINE f == [frame[r] EXCEPT !.limit = None]
<1>1. Moves(r) /\ Types
  BY StatementMoves DEF Statement, Shape
<1> SUFFICES ASSUME ~overlapped, CheckedHolds(r), NamesDistinct
             PROVE  /\ NamesDistinct'
                    /\ pc'[r] \in Statements => CheckedHolds(r)'
  BY <1>1, MovesAlone
<1>2. /\ pc[r] = "seats" /\ frame[r] \in Frame /\ FrameFits(r) /\ pc[r] \in Statements
      /\ pc[r] \in Drafting /\ UNCHANGED <<tenants, users, userRoles, history>>
  BY DEF CheckSeats, Shape, Types, FramesFit, Statements, Drafting
<1>3. NamesDistinct'
  BY <1>2, SameNames
<1>4. CASE pc'[r] = "refused"
  BY <1>3, <1>4, StatementSets DEF Outcomes
<1>5. CASE pc'[r] # "refused"
  <2>1. pc'[r] = "insertUser" /\ frame'[r] = f
    BY <1>1, <1>5 DEF CheckSeats, Types
  <2>2. /\ f.path = frame[r].path /\ f.scope = frame[r].scope
        /\ f.ent = frame[r].ent
    BY <1>2 DEF Frame
  <2> HIDE DEF f
  <2>3. LiveUsers' = LiveUsers /\ LiveTenants' = LiveTenants
    BY <1>2, SameUsers DEF StoredTenants, LiveTenants
  <2>4. frame[r].path = "createUser"
    BY <1>2, PathsOf
  <2>5. DraftHolds(r) /\ EmailHolders(frame[r].ent.email) = {}
    BY <1>2, <2>4 DEF CheckedHolds, DraftHolds
  <2>6. EmailHolders(frame[r].ent.email)' = {}
    BY <1>2, <2>1, <2>2, <2>3, <2>5 DEF EmailHolders
  <2>7. DraftHolds(r)'
    BY <1>2, <2>1, <2>2, <2>3, <2>5, <2>6 DEF DraftHolds, UsernameAvailable
  <2>8. QED
    BY <1>3, <2>1, <2>2, <2>4, <2>7 DEF CheckedHolds, Saving, TenantHandlers
<1>6. QED
  BY <1>4, <1>5
\* Rows that only leave the live accounts, or keep their usernames, stay apart.
LEMMA FewerNames ==
  ASSUME NamesDistinct,
         \A u \in LiveUsers' : u \in LiveUsers /\ users'[u].username = users[u].username
  PROVE  NamesDistinct'
BY DEF NamesDistinct

\* The statements that leave the accounts alone and with which the handler ends
\* or nothing is left to hold.
LEMMA EndingAlone ==
  ASSUME Shape, InFlightBounded, AloneHolds, NEW r \in Requests,
         InsertTenant(r) \/ WriteTenant(r) \/ AssignRole(r) \/ Audit(r) \/ Abort(r)
  PROVE  AloneHolds'
<1>1. Moves(r) /\ Types
  BY StatementMoves DEF Statement, Shape
<1>2. users' = users
  BY DEF InsertTenant, WriteTenant, AssignRole, Audit, Abort
<1>3. NamesDistinct => NamesDistinct'
  BY <1>2, SameNames
<1>4. ASSUME NEW st \in Outcomes, Goto(r, st)
      PROVE  AloneHolds'
  BY <1>1, <1>3, <1>4, GotoFrame, StatementSets, MovesAlone
<1>5. CASE AssignRole(r)
  <2>1. pc[r] = "role" /\ Goto(r, "audit")
    BY <1>5 DEF AssignRole
  <2>2. frame[r].path \in {"createUser", "updateUser"}
    BY <2>1, PathsOf DEF Shape, Types, FramesFit, Statements
  <2>3. pc'[r] = "audit" /\ frame'[r] = frame[r]
    BY <1>1, <2>1, GotoFrame DEF Outcomes
  <2>4. CheckedHolds(r)'
    BY <2>2, <2>3, TailHolds
  <2>5. QED
    BY <1>1, <1>3, <2>4, MovesAlone
<1>6. CASE InsertTenant(r) \/ WriteTenant(r)
  <2>1. Goto(r, "done") \/ Goto(r, "conflict")
    BY <1>6 DEF InsertTenant, WriteTenant
  <2>2. QED
    BY <1>4, <2>1 DEF Outcomes
<1>7. CASE Audit(r) \/ Abort(r)
  BY <1>4, <1>7 DEF Audit, Abort, Outcomes
<1>8. QED
  BY <1>5, <1>6, <1>7

LEMMA InsertUserAlone ==
  ASSUME Shape, InFlightBounded, AloneHolds, NEW r \in Requests, InsertUser(r)
  PROVE  AloneHolds'
<1>1. Moves(r) /\ Types
  BY StatementMoves DEF Statement, Shape
<1>2. CASE Goto(r, "conflict") /\ UNCHANGED <<users, registered>>
  <2>1. pc'[r] \notin Statements
    BY <1>1, <1>2, GotoFrame, StatementSets DEF Outcomes
  <2>2. NamesDistinct => NamesDistinct'
    BY <1>2, SameNames
  <2>3. QED
    BY <1>1, <2>1, <2>2, MovesAlone
<1>3. CASE /\ users' = [users EXCEPT ![r] = frame[r].ent]
           /\ frame[r].ent \in User /\ ~frame[r].ent.isDeleted
           /\ GotoSaved(r, AfterInsert(r))
  <2> SUFFICES ASSUME ~overlapped, CheckedHolds(r), NamesDistinct
               PROVE  /\ NamesDistinct'
                      /\ pc'[r] \in Statements => CheckedHolds(r)'
    BY <1>1, MovesAlone
  <2>1. /\ r \in UserIds /\ users'[r] = frame[r].ent
        /\ \A u \in UserIds \ {r} : users'[u] = users[u]
    BY <1>1, <1>3 DEF Types, UserIds
  <2>2. DraftHolds(r)
    BY InsertUserStep DEF CheckedHolds, Drafting
  <2>3. ASSUME NEW u \in LiveUsers' \ {r}
        PROVE  /\ u \in LiveUsers /\ users'[u] = users[u]
               /\ users'[u].username # frame[r].ent.username
    BY <2>1, <2>2 DEF LiveUsers, StoredUsers, DraftHolds, UsernameAvailable
  <2>4. NamesDistinct'
    <3> SUFFICES ASSUME NEW u \in LiveUsers', NEW v \in LiveUsers',
                        users'[u].username = users'[v].username, u # v
                 PROVE  FALSE
      BY DEF NamesDistinct
    <3>1. CASE u = r
      BY <2>1, <2>3, <3>1
    <3>2. CASE v = r
      BY <2>1, <2>3, <3>2
    <3>3. CASE u # r /\ v # r
      BY <2>3, <3>3 DEF NamesDistinct
    <3>4. QED
      BY <3>1, <3>2, <3>3
  <2>5. ASSUME pc'[r] \in Statements
        PROVE  CheckedHolds(r)'
    <3>1. PICK f \in Frame :
            /\ pc' = [pc EXCEPT ![r] = AfterInsert(r)]
            /\ frame' = [frame EXCEPT ![r] = f]
            /\ AfterInsert(r) \notin Outcomes => f.path = frame[r].path
      BY <1>1, <1>3, SavedFrame
    <3>2. pc'[r] = AfterInsert(r) /\ frame'[r] = f
      BY <1>1, <3>1 DEF Types
    <3>3. AfterInsert(r) = "role" /\ frame[r].path = "createUser"
      BY <2>5, <3>2, StatementSets DEF AfterInsert, Outcomes
    <3>4. frame'[r].path = "createUser"
      BY <3>1, <3>2, <3>3 DEF Outcomes
    <3>5. QED
      BY <3>2, <3>3, <3>4, TailHolds
  <2>6. QED
    BY <2>4, <2>5
<1>4. QED
  BY <1>2, <1>3, InsertUserStep

LEMMA ReloadAlone ==
  ASSUME Shape, InFlightBounded, AloneHolds, NEW r \in Requests, Reload(r)
  PROVE  AloneHolds'
<1>1. Moves(r) /\ Types
  BY StatementMoves DEF Statement, Shape
<1> SUFFICES ASSUME ~overlapped, CheckedHolds(r), NamesDistinct
             PROVE  /\ NamesDistinct'
                    /\ pc'[r] \in Statements => CheckedHolds(r)'
  BY <1>1, MovesAlone
<1>2. /\ pc[r] = "reload" /\ UNCHANGED <<tenants, users>>
      /\ frame[r].path \in UserHandlers \cup TenantHandlers
      /\ frame[r].path \in UserHandlers => frame[r].path \in {"updateUser", "deleteUser"}
      /\ frame[r].path \in TenantHandlers =>
           frame[r].path \in {"updateTenant", "deleteTenant"}
  BY ReloadStep, SavingPaths DEF Shape
<1>3. PICK f \in Frame :
        /\ pc' = [pc EXCEPT ![r] = "write"]
        /\ frame' = [frame EXCEPT ![r] = f]
        /\ f.path = frame[r].path /\ f.target = frame[r].target
        /\ f.ent = frame[r].ent
        /\ f.path \in UserHandlers => f.base = users[f.target]
        /\ f.path \in TenantHandlers => f.base = tenants[f.target]
  BY ReloadStep
<1>4. pc'[r] = "write" /\ frame'[r] = f
  BY <1>1, <1>3 DEF Types
<1>5. NamesDistinct'
  BY <1>2, SameNames
<1>6. LiveUsers' = LiveUsers
  BY <1>2, SameUsers
<1>7. CASE frame[r].path \in UserHandlers
  <2>1. AccountHolds(r)
    BY <1>2, <1>7 DEF CheckedHolds, Saving
  <2>2. EmailHolders(frame[r].ent.email) = {} => EmailHolders(frame[r].ent.email)' = {}
    BY <1>2, <1>3, <1>4, <1>6 DEF EmailHolders
  <2>3. AccountHolds(r)'
    BY <1>2, <1>3, <1>4, <1>7, <2>1, <2>2 DEF AccountHolds
  <2>4. QED
    BY <1>2, <1>3, <1>4, <1>5, <1>7, <2>3 DEF CheckedHolds, Drafting, TenantHandlers
<1>8. CASE frame[r].path \in TenantHandlers
  <2>1. TenantHolds(r)
    BY <1>8 DEF CheckedHolds
  <2>2. TenantHolds(r)'
    BY <1>2, <1>3, <1>4, <1>8, <2>1 DEF TenantHolds
  <2>3. QED
    BY <1>2, <1>3, <1>4, <1>5, <1>8, <2>2 DEF CheckedHolds, Drafting
<1>9. QED
  BY <1>2, <1>7, <1>8

\* Alone, a write gives an account the email and the presence of the entity.
LEMMA WriteUserHolds ==
  ASSUME Shape, NEW r \in Requests, WriteUser(r), CheckedHolds(r)
  PROVE  LET u == frame[r].target
             row == MergeUser(users[u], frame[r].base, frame[r].ent)
         IN
         /\ AccountHolds(r) /\ u \in LiveUsers
         /\ row.email = frame[r].ent.email
         /\ row.isDeleted = frame[r].ent.isDeleted
<1>1. /\ pc[r] = "write" /\ frame[r].path \in {"updateUser", "deleteUser"}
      /\ frame[r].target \in StoredUsers
  BY WriteUserStep
<1>2. AccountHolds(r)
  BY <1>1 DEF CheckedHolds, Saving
<1>3. frame[r].base = users[frame[r].target] /\ frame[r].target \in LiveUsers
  BY <1>1, <1>2 DEF AccountHolds, LiveUsers
<1>4. QED
  BY <1>2, <1>3, WriteUserStep

LEMMA WriteUserAlone ==
  ASSUME Shape, InFlightBounded, AloneHolds, NEW r \in Requests, WriteUser(r)
  PROVE  AloneHolds'
<1> DEFINE w == frame[r].target
           row == MergeUser(users[w], frame[r].base, frame[r].ent)
           st == IF frame[r].role = None THEN "audit" ELSE "role"
<1>1. Moves(r) /\ Types
  BY StatementMoves DEF Statement, Shape
<1> SUFFICES ASSUME ~overlapped, CheckedHolds(r), NamesDistinct
             PROVE  /\ NamesDistinct'
                    /\ pc'[r] \in Statements => CheckedHolds(r)'
  BY <1>1, MovesAlone
<1>2. /\ frame[r].path \in {"updateUser", "deleteUser"}
      /\ w \in UserIds /\ row.username = users[w].username
      /\ \/ Goto(r, "conflict") /\ UNCHANGED users
         \/ users' = [users EXCEPT ![w] = row] /\ GotoSaved(r, st)
  BY WriteUserStep
<1>3. w \in LiveUsers
  BY WriteUserHolds
<1> HIDE DEF row
<1>4. CASE Goto(r, "conflict") /\ UNCHANGED users
  BY <1>1, <1>4, GotoFrame, SameNames, StatementSets DEF Outcomes
<1>5. CASE users' = [users EXCEPT ![w] = row] /\ GotoSaved(r, st)
  <2>1. /\ users'[w] = row
        /\ \A u \in UserIds \ {w} : users'[u] = users[u]
    BY <1>1, <1>2, <1>5 DEF Types
  <2>2. ASSUME NEW u \in LiveUsers'
        PROVE  u \in LiveUsers /\ users'[u].username = users[u].username
    <3>1. CASE u = w
      BY <1>2, <1>3, <2>1, <3>1
    <3>2. CASE u # w
      BY <2>1, <2>2, <3>2 DEF LiveUsers, StoredUsers
    <3>3. QED
      BY <3>1, <3>2
  <2>3. PICK f \in Frame :
          /\ pc' = [pc EXCEPT ![r] = st] /\ frame' = [frame EXCEPT ![r] = f]
          /\ st \notin Outcomes => f.path = frame[r].path
    BY <1>1, <1>5, SavedFrame
  <2>4. /\ pc'[r] = st /\ frame'[r] = f /\ f.path = frame[r].path
        /\ st \in {"audit", "role"}
    BY <1>1, <2>3 DEF Types, Outcomes
  <2>5. CheckedHolds(r)'
    BY <1>2, <2>4, TailHolds
  <2>6. QED
    BY <2>2, <2>5, FewerNames
<1>6. QED
  BY <1>2, <1>4, <1>5

LEMMA StatementAlone ==
  ASSUME Shape, InFlightBounded, AloneHolds, NEW r \in Requests, Statement(r)
  PROVE  AloneHolds'
BY CheckEmailAlone, FindTenantAlone, CheckSeatsAlone, InsertUserAlone, ReloadAlone,
   WriteUserAlone, EndingAlone DEF Statement

-----------------------------------------------------------------------------
(* The invariant *)

\* The invariant without what its other parts imply.
Kernel == Shape /\ InFlightBounded /\ SeatsPotential /\ AloneHolds

LEMMA KernelIInv == Kernel <=> IInv
<1>1. TypeOK => Types
  BY TypeOKTypes
<1>2. Types /\ FramesFit => TypeOK
  BY TypesFit
<1>3. QED
  BY <1>1, <1>2 DEF Kernel, Shape, IInv

LEMMA NextKernel ==
  ASSUME Kernel, [Next]_vars
  PROVE  Kernel'
<1>1. Shape /\ InFlightBounded /\ SeatsPotential /\ AloneHolds
  BY DEF Kernel
<1>2. Shape'
  BY <1>1, ShapeStep DEF SeatsPotential
<1>3. CASE UNCHANGED vars
  <2>1. /\ StoredUsers' = StoredUsers /\ StoredTenants' = StoredTenants
        /\ LiveUsers' = LiveUsers /\ LiveTenants' = LiveTenants
        /\ InFlight' = InFlight /\ Excess' = Excess
    BY <1>3 DEF vars, history, StoredUsers, StoredTenants, LiveUsers, LiveTenants,
       InFlight, Excess
  <2>2. InFlightBounded'
    BY <1>1, <2>1 DEF InFlightBounded
  <2>3. ASSUME NEW t \in TenantIds
        PROVE  PotentialUsers(t)' = PotentialUsers(t)
    BY <1>3, <2>1 DEF PotentialUsers, UsersOf, MayAdd, vars, history
  <2>4. SeatsPotential'
    BY <1>1, <1>3, <2>1, <2>3 DEF SeatsPotential, vars, history
  <2>5. ASSUME NEW r \in Requests, CheckedHolds(r)
        PROVE  CheckedHolds(r)'
    <3>1. EmailHolders(frame[r].ent.email)' = EmailHolders(frame[r].ent.email)
      BY <1>3, <2>1 DEF EmailHolders, vars
    <3>2. /\ DraftHolds(r) => DraftHolds(r)'
          /\ AccountHolds(r) => AccountHolds(r)'
          /\ TenantHolds(r) => TenantHolds(r)'
      BY <1>3, <2>1, <3>1 DEF DraftHolds, AccountHolds, TenantHolds,
         UsernameAvailable, CodeAvailable, vars
    <3>3. QED
      BY <1>3, <2>5, <3>2 DEF CheckedHolds, vars
  <2>6. AloneHolds'
    BY <1>1, <1>3, <2>1, <2>5 DEF AloneHolds, InFlight, vars, history
  <2>7. QED
    BY <1>2, <2>2, <2>4, <2>6 DEF Kernel
<1>4. ASSUME NEW r \in Requests, Begins(r)
      PROVE  InFlightBounded' /\ SeatsPotential' /\ AloneHolds'
  BY <1>1, <1>2, <1>4, BeginsInFlight, BeginsPotential, BeginsAlone DEF Shape
<1>5. ASSUME NEW r \in Requests, Statement(r)
      PROVE  InFlightBounded' /\ SeatsPotential' /\ AloneHolds'
  <2>1. Moves(r)
    BY <1>1, <1>5, StatementMoves DEF Shape
  <2>2. QED
    BY <1>1, <1>2, <1>5, <2>1, MovesInFlight, StatementPotential, StatementAlone
<1>6. QED
  BY <1>1, <1>2, <1>3, <1>4, <1>5, NextCases DEF Kernel, Shape
LEMMA InitKernel ==
  ASSUME Init
  PROVE  Kernel
<1>1. PICK seed \in [Tenants -> {row \in Tenant : ~row.isDeleted}] :
        tenants = [t \in TenantIds |-> IF t \in Tenants THEN seed[t] ELSE None]
  BY DEF Init
<1>2. PICK rows \in [Users -> {row \in User : row.tenant \in Tenants}] :
        users = [u \in UserIds |-> IF u \in Users THEN rows[u] ELSE None]
  BY DEF Init
<1>3. /\ Tenants \subseteq TenantIds /\ Users \subseteq UserIds
      /\ Requests \subseteq TenantIds /\ Requests \subseteq UserIds
      /\ Tenants \cap Requests = {} /\ Users \cap Requests = {} /\ IsFiniteSet(Users)
  BY AccountsIdsAssumption DEF TenantIds, UserIds
<1>4. /\ \A t \in Tenants : tenants[t] = seed[t] /\ tenants[t] \in Tenant
                            /\ tenants[t] # None
      /\ \A t \in TenantIds \ Tenants : tenants[t] = None
      /\ tenants \in [TenantIds -> Tenant \cup {None}]
  BY <1>1, <1>3, NoneIsNoRow
<1>5. /\ \A u \in Users : users[u] = rows[u] /\ users[u] \in User
                          /\ users[u].tenant \in Tenants /\ users[u] # None
      /\ \A u \in UserIds \ Users : users[u] = None
      /\ users \in [UserIds -> User \cup {None}]
  BY <1>2, <1>3, NoneIsNoRow
<1>6. StoredTenants = Tenants /\ StoredUsers = Users
  BY <1>3, <1>4, <1>5 DEF StoredTenants, StoredUsers
<1>7. Types
  <2>1. /\ userRoles \in [UserIds \X PlatformRoles -> Presence]
        /\ \A u \in UserIds, x \in PlatformRoles :
             userRoles[<<u, x>>] # "none" => u \in StoredUsers
    BY <1>6 DEF Init, Presence
  <2>2. /\ pc \in [Requests -> {"idle"} \cup Statements \cup Outcomes]
        /\ frame \in [Requests -> Frame]
    BY NoCallType DEF Init
  <2>3. \A t \in Tenants : tenants[t].limit \in Limits \cup {None}
    BY <1>4, RowFields
  <2>4. peak \in [TenantIds -> {0} \cup Limits \cup {None}]
    BY <2>3 DEF Init
  <2>5. registered \subseteq Requests /\ overlapped \in BOOLEAN
    BY DEF Init
  <2>6. \A u \in StoredUsers : users[u].tenant \in StoredTenants
    BY <1>5, <1>6
  <2>7. QED
    BY <1>4, <1>5, <2>1, <2>2, <2>4, <2>5, <2>6 DEF Types
<1>8. InFlight = {}
  BY StatementSets DEF Init, InFlight
<1>9. \A r \in Requests : pc[r] = "idle"
  BY DEF Init
<1>10. FramesFit
  <2> SUFFICES ASSUME NEW r \in Requests
               PROVE  FrameFits(r)
    BY DEF FramesFit
  <2>1. users[r] = None /\ tenants[r] = None
    BY <1>3, <1>4, <1>5
  <2>2. QED
    BY <1>9, <2>1, StatementSets DEF FrameFits
<1>11. RowsUnique
  BY <1>6 DEF Init, RowsUnique
<1>12. InFlightBounded
  <2>1. IsFiniteSet(InFlight) /\ Cardinality(InFlight) = 0
    BY <1>8, FS_EmptySet
  <2>2. QED
    BY <2>1, ExcessNat DEF InFlightBounded
<1>13. ASSUME NEW t \in TenantIds, peak[t] # None
       PROVE  /\ IsFiniteSet(PotentialUsers(t))
              /\ Cardinality(PotentialUsers(t)) <= peak[t] + Excess
  <2>1. \A r \in Requests, u \in UserIds : ~MayAdd(r, u, t)
    BY <1>9 DEF MayAdd, Saving
  <2>2. PotentialUsers(t) = UsersOf(t)
    BY <2>1 DEF PotentialUsers, Init, UsersOf, LiveUsers, StoredUsers
  <2>3. UsersOf(t) \subseteq Users
    BY <1>6 DEF UsersOf, LiveUsers
  <2>4. IsFiniteSet(UsersOf(t)) /\ Cardinality(UsersOf(t)) \in Nat
    BY <1>3, <2>3, FS_Subset, FS_CardinalityType
  <2>5. peak[t] \in Nat
    BY <1>7, <1>13, SamePeak
  <2>6. Cardinality(UsersOf(t)) <= peak[t]
    <3>1. CASE t \in Tenants
      BY <1>13, <3>1 DEF Init
    <3>2. CASE t \notin Tenants
      <4>1. UsersOf(t) = {}
        BY <1>5, <1>6, <3>2 DEF UsersOf, LiveUsers
      <4>2. Cardinality(UsersOf(t)) = 0
        BY <4>1, FS_EmptySet
      <4>3. QED
        BY <2>5, <4>2
    <3>3. QED
      BY <3>1, <3>2
  <2>7. QED
    BY <2>2, <2>4, <2>5, <2>6, ExcessNat
<1>14. ASSUME NEW t \in StoredTenants
       PROVE  Covers(peak[t], tenants[t].limit)
  <2>1. peak[t] = tenants[t].limit /\ t \in TenantIds
    BY <1>3, <1>6 DEF Init
  <2>2. peak[t] # None => peak[t] <= peak[t]
    BY <1>7, <2>1, SamePeak
  <2>3. QED
    BY <2>1, <2>2 DEF Covers
<1>15. SeatsPotential
  BY <1>3, <1>6, <1>13, <1>14 DEF SeatsPotential
<1>16. AloneHolds
  BY <1>8 DEF AloneHolds, Init
<1>17. QED
  BY <1>7, <1>10, <1>11, <1>12, <1>15, <1>16 DEF Kernel, Shape

-----------------------------------------------------------------------------
(* Theorems *)

\* The strengthening is an invariant: for any tenants, accounts, names, limits
\* and requests, whatever overlaps and wherever requests die.
THEOREM AccountsInvariance == Spec => []IInv
<1>1. Init => Kernel
  BY InitKernel
<1>2. Kernel /\ [Next]_vars => Kernel'
  BY NextKernel
<1>3. Kernel => IInv
  BY KernelIInv
<1>4. QED
  BY <1>1, <1>2, <1>3, PTL DEF Spec

\* Every variable keeps its type, an account keeps a tenant that exists, and
\* save finds the row of the entity it is about to save.
THEOREM AccountsTypeCorrect == Spec => []TypeOK
<1>1. IInv => TypeOK
  BY DEF IInv
<1>2. QED
  BY <1>1, AccountsInvariance, PTL

\* Leaving out those who registered themselves, a tenant has no more live
\* accounts than the highest limit it had; requests that overlap pass it by one
\* each, the last excepted.
THEOREM SeatsAreBounded == Spec => []SeatsBounded
<1>1. ASSUME IInv
      PROVE  SeatsBounded
  <2> SUFFICES ASSUME NEW t \in StoredTenants, peak[t] # None
               PROVE  Cardinality(UsersOf(t) \ registered) <= peak[t] + Excess
    BY DEF SeatsBounded
  <2>1. t \in TenantIds /\ Types
    BY <1>1, TypeOKTypes DEF IInv, StoredTenants
  <2>2. UsersOf(t) \ registered \subseteq PotentialUsers(t)
    BY DEF PotentialUsers
  <2>3. peak[t] + Excess \in Nat
    BY <2>1, SamePeak, ExcessNat
  <2>4. QED
    BY <1>1, <2>1, <2>2, <2>3, PartBounded DEF IInv, SeatsPotential
<1>2. QED
  BY <1>1, AccountsInvariance, PTL

\* Whatever overlaps or fails, the role that a creation or an update reports is
\* stored for the account, or was revoked.
THEOREM ReportedRolesAreStored == Spec => ReportedRoleIsStored
<1>1. ASSUME IInv
      PROVE  RoleReported
  BY <1>1 DEF IInv, FramesFit, FrameFits, SavedFits, RoleReported
<1>2. QED
  BY <1>1, AccountsInvariance, PTL DEF ReportedRoleIsStored
\* What holds before a statement as long as no requests have overlapped.
LEMMA AloneBefore ==
  ASSUME Kernel, NEW r \in Requests, Statement(r), ~overlapped
  PROVE  /\ Shape /\ Types /\ RowsUnique /\ Moves(r)
         /\ CheckedHolds(r) /\ NamesDistinct
<1>1. Shape /\ Types /\ RowsUnique /\ AloneHolds
  BY DEF Kernel, Shape
<1>2. Moves(r)
  BY <1>1, StatementMoves
<1>3. r \in InFlight
  BY <1>2 DEF Moves, InFlight
<1>4. QED
  BY <1>1, <1>2, <1>3 DEF AloneHolds, NamesDistinct

\* Only a creation and a save of an account change the accounts.
LEMMA QuietUsers ==
  ASSUME Types, [Next]_vars, users' # users
  PROVE  \E r \in Requests : InsertUser(r) \/ WriteUser(r)
BY NextCases DEF Statement, Begins, CheckEmail, Check, FindTenant, CheckSeats,
   InsertTenant, Reload, WriteTenant, AssignRole, Audit, Abort, vars

\* Alone, a save leaves the account live if the entity is, with its email, and
\* the others as they were.
LEMMA SavedUser ==
  ASSUME Shape, NEW r \in Requests, WriteUser(r), CheckedHolds(r), users' # users
  PROVE  LET u == frame[r].target IN
         /\ u \in LiveUsers /\ AccountHolds(r) /\ AccountFits(r)
         /\ pc[r] = "write" /\ frame[r].path \in {"updateUser", "deleteUser"}
         /\ users'[u].email = frame[r].ent.email
         /\ users'[u].isDeleted = frame[r].ent.isDeleted
         /\ \A v \in UserIds \ {u} : users'[v] = users[v]
         /\ LiveUsers' \subseteq LiveUsers
         /\ StoredUsers' = StoredUsers
<1> DEFINE u == frame[r].target
           row == MergeUser(users[u], frame[r].base, frame[r].ent)
<1>1. /\ AccountHolds(r) /\ u \in LiveUsers
      /\ row.email = frame[r].ent.email /\ row.isDeleted = frame[r].ent.isDeleted
  BY WriteUserHolds
<1>2. /\ pc[r] = "write" /\ AccountFits(r)
      /\ frame[r].path \in {"updateUser", "deleteUser"}
      /\ u \in UserIds /\ row \in User
      /\ users' = [users EXCEPT ![u] = row]
  BY WriteUserStep
<1> HIDE DEF row
<1>3. /\ users'[u] = row
      /\ \A v \in UserIds \ {u} : users'[v] = users[v]
  BY <1>2 DEF Shape, Types
<1>4. LiveUsers' \subseteq LiveUsers
  BY <1>1, <1>3 DEF LiveUsers, StoredUsers
<1>5. StoredUsers' = StoredUsers
  BY <1>1, <1>2, <1>3, NoneIsNoRow DEF LiveUsers, StoredUsers
<1>6. QED
  BY <1>1, <1>2, <1>3, <1>4, <1>5

\* One by one, two live accounts never come to share a username, nor an email
\* that they did not already have in two spellings.
THEOREM LiveNamesStayDistinct == Spec => NamesStayDistinct
<1>1. ASSUME Kernel, [Next]_vars, Kernel'
      PROVE  DistinctNames
  <2> SUFFICES ASSUME ~overlapped', NEW u \in LiveUsers', NEW v \in LiveUsers', u # v
               PROVE  /\ users'[u].username # users'[v].username
                      /\ users'[u].email = users'[v].email =>
                           /\ {u, v} \subseteq LiveUsers
                           /\ Lower(users[u].email) = Lower(users[v].email)
    BY DEF DistinctNames
  <2>1. users'[u].username # users'[v].username
    BY <1>1 DEF Kernel, AloneHolds
  <2>2. u \in UserIds /\ v \in UserIds
    BY DEF LiveUsers, StoredUsers
  <2> SUFFICES ASSUME users'[u].email = users'[v].email
               PROVE  /\ {u, v} \subseteq LiveUsers
                      /\ Lower(users[u].email) = Lower(users[v].email)
    BY <2>1
  <2>3. CASE users' = users
    BY <2>3, SameUsers
  <2>4. ASSUME NEW r \in Requests, InsertUser(r), users' # users
        PROVE  /\ {u, v} \subseteq LiveUsers
               /\ Lower(users[u].email) = Lower(users[v].email)
    <3>1. Statement(r) /\ ~overlapped
      BY <2>4, InsertUserStep DEF Statement, InsertUser
    <3>2. Shape /\ Types /\ CheckedHolds(r)
      BY <1>1, <3>1, AloneBefore
    <3>3. /\ pc[r] = "insertUser" /\ frame[r].path \in {"createUser", "register"}
          /\ users' = [users EXCEPT ![r] = frame[r].ent]
      BY <2>4, <3>2, InsertUserStep
    <3>4. EmailHolders(frame[r].ent.email) = {}
      BY <3>2, <3>3 DEF CheckedHolds, Drafting, DraftHolds
    <3>5. /\ users'[r] = frame[r].ent
          /\ \A x \in UserIds \ {r} : users'[x] = users[x]
      BY <3>2, <3>3 DEF Types, UserIds
    <3>6. ASSUME NEW x \in LiveUsers', x # r
          PROVE  x \in LiveUsers /\ users'[x].email # frame[r].ent.email
                 /\ users'[x] = users[x]
      BY <3>4, <3>5, <3>6 DEF LiveUsers, StoredUsers, EmailHolders
    <3>7. u # r /\ v # r
      BY <3>5, <3>6
    <3>8. u \in LiveUsers /\ v \in LiveUsers /\ users'[u] = users[u] /\ users'[v] = users[v]
      BY <3>6, <3>7
    <3>9. QED
      BY <3>8
  <2>5. ASSUME NEW r \in Requests, WriteUser(r), users' # users
        PROVE  /\ {u, v} \subseteq LiveUsers
               /\ Lower(users[u].email) = Lower(users[v].email)
    <3> DEFINE w == frame[r].target
    <3>1. Statement(r) /\ ~overlapped
      BY <2>5 DEF Statement, WriteUser, history
    <3>2. Shape /\ CheckedHolds(r)
      BY <1>1, <3>1, AloneBefore
    <3>3. /\ w \in LiveUsers /\ AccountHolds(r) /\ AccountFits(r)
          /\ pc[r] = "write" /\ frame[r].path \in {"updateUser", "deleteUser"}
          /\ users'[w].email = frame[r].ent.email
          /\ users'[w].isDeleted = frame[r].ent.isDeleted
          /\ \A x \in UserIds \ {w} : users'[x] = users[x]
          /\ LiveUsers' \subseteq LiveUsers
      BY <2>5, <3>2, SavedUser
    <3>4. ASSUME NEW x \in LiveUsers', x # w, w \in LiveUsers',
                 users'[x].email = users'[w].email
          PROVE  Lower(users[x].email) = Lower(users[w].email)
      <4>1. x \in LiveUsers /\ users[x].email = frame[r].ent.email
        BY <3>3, <3>4 DEF LiveUsers, StoredUsers
      <4>2. frame[r].path = "updateUser"
        BY <3>3, <3>4 DEF LiveUsers, AccountFits
      <4>3. EmailHolders(frame[r].ent.email) # {}
        BY <4>1 DEF EmailHolders
      <4>4. frame[r].ent.email = Lower(users[w].email)
        BY <3>3, <4>2, <4>3 DEF AccountHolds
      <4>5. frame[r].ent.email = Lower(frame[r].ent.email)
        BY <3>3, <4>2 DEF AccountFits
      <4>6. QED
        BY <4>1, <4>4, <4>5
    <3> HIDE DEF w
    <3>5. CASE u = w
      BY <3>3, <3>4, <3>5
    <3>6. CASE v = w
      BY <3>3, <3>4, <3>6
    <3>7. CASE u # w /\ v # w
      BY <2>2, <3>3, <3>7
    <3>8. QED
      BY <3>5, <3>6, <3>7
  <2>6. QED
    BY <1>1, <2>3, <2>4, <2>5, QuietUsers DEF Kernel, Shape
<1>2. IInv => Kernel
  BY KernelIInv
<1>3. QED
  BY <1>1, <1>2, AccountsInvariance, PTL DEF Spec, NamesStayDistinct

\* One by one, what is deleted stays deleted, and an account enters a live
\* tenant, its creator's if the creator is confined to one.
THEOREM DeletionsAreFinal == Spec => DeletedIsFinal
<1>1. ASSUME Kernel, [Next]_vars
      PROVE  NothingRestored
  <2> SUFFICES ASSUME ~overlapped'
               PROVE  /\ LiveUsers' \cap StoredUsers \subseteq LiveUsers
                      /\ LiveTenants' \cap StoredTenants \subseteq LiveTenants
                      /\ \A r \in StoredUsers' \ StoredUsers :
                           /\ users'[r].tenant \in LiveTenants
                           /\ InScope(users'[r].tenant, frame[r].scope)
    BY DEF NothingRestored
  <2>1. Shape /\ Types
    BY <1>1 DEF Kernel, Shape
  <2>2. /\ LiveUsers' \cap StoredUsers \subseteq LiveUsers
        /\ \A r \in StoredUsers' \ StoredUsers :
             /\ users'[r].tenant \in LiveTenants
             /\ InScope(users'[r].tenant, frame[r].scope)
    <3>1. CASE users' = users
      BY <3>1, SameUsers
    <3>2. ASSUME NEW r \in Requests, InsertUser(r), users' # users
          PROVE  /\ LiveUsers' \cap StoredUsers \subseteq LiveUsers
                 /\ \A x \in StoredUsers' \ StoredUsers :
                      /\ users'[x].tenant \in LiveTenants
                      /\ InScope(users'[x].tenant, frame[x].scope)
      <4>1. Statement(r) /\ ~overlapped
        BY <3>2, InsertUserStep DEF Statement, InsertUser
      <4>2. CheckedHolds(r)
        BY <1>1, <4>1, AloneBefore
      <4>3. /\ pc[r] = "insertUser" /\ frame[r].path \in {"createUser", "register"}
            /\ users' = [users EXCEPT ![r] = frame[r].ent] /\ users[r] = None
            /\ frame[r].ent \in User
        BY <2>1, <3>2, InsertUserStep
      <4>4. /\ users'[r] = frame[r].ent
            /\ \A x \in UserIds \ {r} : users'[x] = users[x]
        BY <2>1, <4>3 DEF Types, UserIds
      <4>5. LiveUsers' \cap StoredUsers \subseteq LiveUsers
        BY <4>3, <4>4 DEF LiveUsers, StoredUsers
      <4>6. StoredUsers' \ StoredUsers \subseteq {r}
        BY <4>4 DEF StoredUsers
      <4>7. frame[r].ent.tenant # None
        BY <4>3, RowFields
      <4>8. /\ frame[r].ent.tenant \in LiveTenants
            /\ InScope(frame[r].ent.tenant, frame[r].scope)
        BY <4>2, <4>3, <4>7 DEF CheckedHolds, Drafting, DraftHolds
      <4>9. QED
        BY <4>4, <4>5, <4>6, <4>8
    <3>3. ASSUME NEW r \in Requests, WriteUser(r), users' # users
          PROVE  LiveUsers' \subseteq LiveUsers /\ StoredUsers' = StoredUsers
      <4>1. Statement(r) /\ ~overlapped
        BY <3>3 DEF Statement, WriteUser, history
      <4>2. CheckedHolds(r)
        BY <1>1, <4>1, AloneBefore
      <4>3. QED
        BY <2>1, <3>3, <4>2, SavedUser
    <3>4. QED
      BY <1>1, <2>1, <3>1, <3>2, <3>3, QuietUsers
  <2>3. LiveTenants' \cap StoredTenants \subseteq LiveTenants
    <3>1. CASE tenants' = tenants
      BY <3>1 DEF LiveTenants, StoredTenants
    <3>2. ASSUME NEW r \in Requests, InsertTenant(r), tenants' # tenants
          PROVE  LiveTenants' \cap StoredTenants \subseteq LiveTenants
      <4>1. tenants' = [tenants EXCEPT ![r] = frame[r].ent] /\ tenants[r] = None
        BY <2>1, <3>2, InsertTenantStep
      <4>2. \A x \in TenantIds \ {r} : tenants'[x] = tenants[x]
        BY <2>1, <4>1 DEF Types
      <4>3. QED
        BY <4>1, <4>2 DEF LiveTenants, StoredTenants
    <3>3. ASSUME NEW r \in Requests, WriteTenant(r), tenants' # tenants
          PROVE  LiveTenants' \cap StoredTenants \subseteq LiveTenants
      <4> DEFINE t == frame[r].target
                 row == MergeTenant(tenants[t], frame[r].base, frame[r].ent)
      <4>1. Statement(r) /\ ~overlapped
        BY <3>3 DEF Statement, WriteTenant
      <4>2. CheckedHolds(r)
        BY <1>1, <4>1, AloneBefore
      <4>3. /\ pc[r] = "write" /\ TenantFits(r)
            /\ frame[r].path \in {"updateTenant", "deleteTenant"}
            /\ t \in StoredTenants
            /\ frame[r].base = tenants[t] => row.isDeleted = frame[r].ent.isDeleted
            /\ tenants' = [tenants EXCEPT ![t] = row]
        BY <2>1, <3>3, WriteTenantStep
      <4>4. /\ tenants'[t] = row /\ \A x \in TenantIds \ {t} : tenants'[x] = tenants[x]
        BY <2>1, <4>3 DEF Types, StoredTenants
      <4> HIDE DEF row
      <4>5. TenantHolds(r)
        BY <4>2, <4>3 DEF CheckedHolds, TenantHandlers
      <4>6. row.isDeleted \/ ~tenants[t].isDeleted
        BY <4>3, <4>5 DEF TenantHolds, TenantFits
      <4>7. QED
        BY <4>4, <4>6 DEF LiveTenants, StoredTenants
    <3>4. QED
      BY <1>1, <2>1, <3>1, <3>2, <3>3, NextCases DEF Statement, Begins, CheckEmail,
         Check, FindTenant, CheckSeats, InsertUser, Reload, WriteUser, AssignRole,
         Audit, Abort, vars
  <2>4. QED
    BY <2>2, <2>3
<1>2. IInv => Kernel
  BY KernelIInv
<1>3. QED
  BY <1>1, <1>2, AccountsInvariance, PTL DEF Spec, DeletedIsFinal
\* The statements at which the database may refuse a row.
LEMMA ConflictCases ==
  ASSUME Shape, [Next]_vars, NEW r \in Requests, pc'[r] # pc[r], pc'[r] = "conflict"
  PROVE  \/ InsertUser(r) /\ ~StorableUser(r, frame[r].ent)
         \/ InsertTenant(r) /\ ~UniqueTenant(r, frame[r].ent)
         \/ WriteUser(r)
              /\ ~StorableUser(frame[r].target, MergeUser(users[frame[r].target],
                                                  frame[r].base, frame[r].ent))
         \/ WriteTenant(r)
              /\ ~UniqueTenant(frame[r].target, MergeTenant(tenants[frame[r].target],
                                                  frame[r].base, frame[r].ent))
<1>1. Types /\ pc \in [Requests -> {"idle"} \cup Statements \cup Outcomes]
  BY DEF Shape, Types
<1>2. ASSUME NEW x \in Requests, Begins(x)
      PROVE  FALSE
  BY <1>1, <1>2 DEF Begins, Opening
<1>3. PICK x \in Requests : Statement(x)
  BY <1>1, <1>2, NextCases DEF vars
<1>4. x = r
  BY <1>1, <1>3, StatementMoves DEF Moves
<1>5. ASSUME NEW st, Goto(r, st)
      PROVE  st = "conflict"
  BY <1>1, <1>5, GotoFrame
<1>6. CASE CheckEmail(r)
  <2>1. \E st \in {"reload", "insertUser", "tenant", "refused"} : Goto(r, st)
    BY <1>6 DEF CheckEmail, Check
  <2>2. QED
    BY <1>5, <2>1
<1>7. CASE FindTenant(r) \/ CheckSeats(r) \/ Reload(r)
  <2>1. CASE FindTenant(r)
    BY <1>1, <1>5, <2>1, FindTenantStep
  <2>2. CASE CheckSeats(r)
    BY <1>1, <2>2 DEF CheckSeats
  <2>3. CASE Reload(r)
    BY <1>1, <2>3 DEF Reload
  <2>4. QED
    BY <1>7, <2>1, <2>2, <2>3
<1>8. CASE AssignRole(r) \/ Audit(r) \/ Abort(r)
  <2>1. \E st \in {"audit", "done", "aborted"} : Goto(r, st)
    BY <1>8 DEF AssignRole, Audit, Abort
  <2>2. QED
    BY <1>5, <2>1
<1>9. CASE InsertUser(r)
  <2>1. CASE StorableUser(r, frame[r].ent)
    <3>1. pc'[r] = AfterInsert(r)
      BY <1>1, <1>9, <2>1 DEF InsertUser, GotoSaved
    <3>2. QED
      BY <3>1 DEF AfterInsert
  <2>2. QED
    BY <1>9, <2>1
<1>10. CASE InsertTenant(r)
  BY <1>5, <1>10 DEF InsertTenant
<1>11. CASE WriteUser(r)
  <2> DEFINE row == MergeUser(users[frame[r].target], frame[r].base, frame[r].ent)
  <2>1. StorableUser(frame[r].target, row) =>
          GotoSaved(r, IF frame[r].role = None THEN "audit" ELSE "role")
    BY <1>11 DEF WriteUser
  <2>2. QED
    BY <1>1, <1>11, <2>1 DEF GotoSaved
<1>12. CASE WriteTenant(r)
  BY <1>5, <1>12 DEF WriteTenant
<1>13. QED
  BY <1>3, <1>4, <1>6, <1>7, <1>8, <1>9, <1>10, <1>11, <1>12 DEF Statement

LEMMA InsertUserConflict ==
  ASSUME Kernel, ~overlapped, NEW r \in Requests, InsertUser(r),
         ~StorableUser(r, frame[r].ent)
  PROVE  UnseenByChecks(r)
<1>1. Shape /\ Types /\ CheckedHolds(r)
  BY AloneBefore DEF Statement
<1>2. /\ pc[r] = "insertUser" /\ DraftFits(r)
      /\ frame[r].path \in {"createUser", "register"} /\ frame[r].target = r
  BY <1>1, InsertUserStep DEF DraftFits
<1>3. DraftHolds(r)
  BY <1>1, <1>2 DEF CheckedHolds, Drafting
<1>4. CASE frame[r].ent.tenant = None
  <2>1. frame[r].path = "register"
    <3>1. frame[r].path = "createUser" => frame[r].ent \in User
      BY <1>2 DEF DraftFits
    <3>2. QED
      BY <1>2, <1>4, <3>1, RowFields
  <2>2. QED
    BY <1>4, <2>1 DEF UnseenByChecks
<1>5. CASE frame[r].ent.tenant # None
  <2>1. PICK v \in StoredUsers \ {r} :
          /\ users[v].tenant = frame[r].ent.tenant
          /\ \/ users[v].username = frame[r].ent.username
             \/ users[v].email = frame[r].ent.email
    BY <1>5 DEF StorableUser
  <2>2. v \notin LiveUsers
    BY <1>2, <1>3, <2>1 DEF DraftHolds, UsernameAvailable, EmailHolders
  <2>3. users[v].isDeleted
    BY <2>1, <2>2 DEF LiveUsers
  <2>4. QED
    BY <1>2, <2>1, <2>3 DEF UnseenByChecks
<1>6. QED
  BY <1>4, <1>5

LEMMA WriteUserConflict ==
  ASSUME Kernel, ~overlapped, NEW r \in Requests, WriteUser(r),
         ~StorableUser(frame[r].target, MergeUser(users[frame[r].target],
                                                  frame[r].base, frame[r].ent))
  PROVE  UnseenByChecks(r)
<1> DEFINE u == frame[r].target
           row == MergeUser(users[u], frame[r].base, frame[r].ent)
<1>1. Shape /\ Types /\ CheckedHolds(r) /\ RowsUnique
  BY AloneBefore DEF Statement
<1>2. /\ pc[r] = "write" /\ AccountFits(r)
      /\ frame[r].path \in {"updateUser", "deleteUser"}
      /\ u \in StoredUsers /\ row \in User
      /\ row.tenant = users[u].tenant /\ row.username = users[u].username
      /\ ~StorableUser(u, row)
  BY <1>1, WriteUserStep
<1>3. AccountHolds(r) /\ row.email = frame[r].ent.email
  BY <1>1, WriteUserHolds
<1> HIDE DEF row
<1>4. row.tenant # None
  BY <1>2, RowFields
<1>5. PICK v \in StoredUsers \ {u} :
        /\ users[v].tenant = row.tenant
        /\ users[v].username = row.username \/ users[v].email = row.email
  BY <1>2, <1>4 DEF StorableUser
<1>6. users[v].username # users[u].username /\ users[v].email # users[u].email
  BY <1>1, <1>2, <1>5 DEF RowsUnique, StorableUser
<1>7. users[v].email = frame[r].ent.email /\ users[v].tenant = frame[r].ent.tenant
  BY <1>2, <1>3, <1>5, <1>6 DEF AccountFits
<1>8. frame[r].path = "updateUser"
  BY <1>2, <1>3, <1>6, <1>7 DEF AccountHolds
<1>9. users[v].isDeleted \/ Lower(users[u].email) = users[v].email
  <2>1. ASSUME ~users[v].isDeleted
        PROVE  Lower(users[u].email) = users[v].email
    <3>1. v \in EmailHolders(frame[r].ent.email)
      BY <1>5, <1>7, <2>1 DEF EmailHolders, LiveUsers
    <3>2. QED
      BY <1>2, <1>3, <1>7, <1>8, <3>1 DEF AccountHolds
  <2>2. QED
    BY <2>1
<1>10. QED
  BY <1>5, <1>7, <1>8, <1>9 DEF UnseenByChecks

LEMMA TenantConflict ==
  ASSUME Kernel, ~overlapped, NEW r \in Requests,
         \/ InsertTenant(r) /\ ~UniqueTenant(r, frame[r].ent)
         \/ WriteTenant(r)
              /\ ~UniqueTenant(frame[r].target, MergeTenant(tenants[frame[r].target],
                                                  frame[r].base, frame[r].ent))
  PROVE  UnseenByChecks(r)
<1>1. Shape /\ Types /\ CheckedHolds(r) /\ RowsUnique
  BY AloneBefore DEF Statement
<1>2. CASE InsertTenant(r) /\ ~UniqueTenant(r, frame[r].ent)
  <2>1. frame[r].path = "createTenant"
    BY <1>1, <1>2, InsertTenantStep
  <2>2. CodeAvailable(frame[r].ent.code)
    BY <1>1, <2>1 DEF CheckedHolds, TenantHandlers, TenantHolds
  <2>3. PICK s \in StoredTenants \ {r} : tenants[s].code = frame[r].ent.code
    BY <1>2 DEF UniqueTenant
  <2>4. s \notin LiveTenants
    BY <2>2, <2>3 DEF CodeAvailable
  <2>5. QED
    BY <2>1, <2>3, <2>4 DEF UnseenByChecks, UserHandlers
<1>3. CASE /\ WriteTenant(r)
           /\ ~UniqueTenant(frame[r].target, MergeTenant(tenants[frame[r].target],
                                                  frame[r].base, frame[r].ent))
  <2> DEFINE t == frame[r].target
             row == MergeTenant(tenants[t], frame[r].base, frame[r].ent)
  <2>1. /\ pc[r] = "write" /\ frame[r].path \in {"updateTenant", "deleteTenant"}
        /\ t \in StoredTenants /\ ~UniqueTenant(t, row)
        /\ frame[r].base = tenants[t] => row.code = frame[r].ent.code
    BY <1>1, <1>3, WriteTenantStep
  <2>2. row.code = frame[r].ent.code
    BY <1>1, <2>1 DEF CheckedHolds, TenantHandlers, TenantHolds
  <2> HIDE DEF row
  <2>3. PICK s \in StoredTenants \ {t} : tenants[s].code = row.code
    BY <2>1 DEF UniqueTenant
  <2>4. tenants[s].code # tenants[t].code
    BY <1>1, <2>1, <2>3 DEF RowsUnique
  <2>5. frame[r].path \notin UserHandlers
    BY <2>1 DEF UserHandlers
  <2>6. QED
    BY <2>1, <2>2, <2>3, <2>4, <2>5 DEF UnseenByChecks
<1>4. QED
  BY <1>2, <1>3

\* One by one, the database refuses a row only where the checks look away.
THEOREM ConflictsAreExplained == Spec => ConflictsExplained
<1>1. ASSUME Kernel, [Next]_vars
      PROVE  ConflictsHaveCause
  BY <1>1, ConflictCases, InsertUserConflict, WriteUserConflict, TenantConflict
     DEF ConflictsHaveCause, Kernel
<1>2. IInv => Kernel
  BY KernelIInv
<1>3. QED
  BY <1>1, <1>2, AccountsInvariance, PTL DEF Spec, ConflictsExplained
=============================================================================
