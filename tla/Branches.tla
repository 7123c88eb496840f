------------------------------ MODULE Branches ------------------------------
(***************************************************************************)
(* The branches of the tenants: src/src/branches/branches.service.ts.      *)
(*                                                                         *)
(* As in AuthSessions an action is one SQL statement and the code that     *)
(* runs on its answer, a request is used once, and the branch that request *)
(* r creates is named r.  The rules of the service (one headquarters per   *)
(* tenant, a limit on branches, one code once) are each a SELECT made some *)
(* statements before the write it allows; only the last one has a          *)
(* constraint of the database behind it.                                   *)
(***************************************************************************)
EXTENDS Naturals, FiniteSets

CONSTANTS
  Tenants,       \* the tenants, none of them deleted
  Requests,      \* the HTTP calls of a behaviour
  Codes,         \* branch codes, trimmed and in upper case
  None,          \* no branch, no row, no limit
  MaxBranches,   \* core.tenants.max_branches, or None
  MaxInFlight,   \* bound: requests between their first and last statement
  StatusChoices, \* bound: the statuses a caller asks for
  Handlers       \* bound: the handlers this instance calls

AllHandlers == {"create", "update", "updateStatus", "delete"}

BranchStatus == {"ACTIVE", "INACTIVE"}

Branch ==
  [tenant : Tenants, branchCode : Codes, isHeadquarters : BOOLEAN,
   status : BranchStatus, isDeleted : BOOLEAN]

ASSUME BranchesNoneAssumption ==
  None \notin Tenants \cup Requests \cup Codes \cup Nat \cup Branch
ASSUME BranchesBoundsAssumption ==
  MaxBranches \in (Nat \ {0}) \cup {None} /\ MaxInFlight \in Nat \ {0}
ASSUME BranchesChoicesAssumption ==
  StatusChoices \subseteq BranchStatus /\ Handlers \subseteq AllHandlers

VARIABLES
  branches,  \* core.branches: the request that created it -> row or None
  audit,     \* core.audit_logs: the requests that have logged what they did
  pc,        \* the statement a request runs next, or how it ended
  frame,     \* the handler's local variables
  overlapped \* history: two requests have been under way at a time

vars == <<branches, audit, pc, frame, overlapped>>

Statements ==
  {"code", "limit", "headquarters", "others", "insert", "reload", "write",
   "audit"}

\* refused: one of the service's own checks threw; conflict: the database
\* refused the row and the client sees a 500; aborted: a statement failed or
\* the process died.
Outcomes == {"done", "refused", "conflict", "aborted"}

\* ent is the entity the handler will save, base the row save has read again.
Frame ==
  [path : AllHandlers \cup {"none"}, id : Requests \cup {None},
   ent : Branch \cup {None}, base : Branch \cup {None}]

Call(path, id, ent) == [path |-> path, id |-> id, ent |-> ent, base |-> None]

NoCall == Call("none", None, None)

InFlight == {r \in Requests : pc[r] \in Statements}

Rows == {b \in Requests : branches[b] # None}

LiveOf(t) ==
  {b \in Rows : branches[b].tenant = t /\ ~branches[b].isDeleted}

HeadquartersOf(t) == {b \in LiveOf(t) : branches[b].isHeadquarters}

-----------------------------------------------------------------------------
(* Mutants: one plausible bug each, for the properties at the end *)

LimitOffByOne(t) ==
  MaxBranches # None => Cardinality(LiveOf(t)) <= MaxBranches

NoHeadquartersCheck(t, b) == TRUE

OthersIgnored(r) == TRUE

LiveCodesOnly(t, c) ==
  \A b \in LiveOf(t) : branches[b].branchCode # c

-----------------------------------------------------------------------------
(* The checks *)

\* findBranch
Found(b) == b \in Rows /\ ~branches[b].isDeleted

\* ensureCodeAvailable looks at the deleted branches too.
CodeAvailable(t, c) ==
  \A b \in Rows : branches[b].tenant = t => branches[b].branchCode # c

\* ensureBranchLimit
BelowLimit(t) ==
  MaxBranches # None => Cardinality(LiveOf(t)) < MaxBranches

\* ensureHeadquartersAvailable; b is the branch being updated, or None.
HeadquartersAvailable(t, b) == HeadquartersOf(t) \subseteq {b}

\* delete: no other branch of the tenant is left.
LastBranch(r) ==
  LiveOf(frame[r].ent.tenant) \subseteq {frame[r].id}

\* The columns in which the entity differs from the row that save re-read.
\* tenant and branchCode are never assigned.
Merge(row, base, ent) ==
  [row EXCEPT
     !.isHeadquarters =
       IF ent.isHeadquarters = base.isHeadquarters THEN @
       ELSE ent.isHeadquarters,
     !.status = IF ent.status = base.status THEN @ ELSE ent.status,
     !.isDeleted = IF ent.isDeleted = base.isDeleted THEN @ ELSE ent.isDeleted]

-----------------------------------------------------------------------------
(* First statements *)

Begin(r, handler, statement, call) ==
  /\ handler \in Handlers
  /\ pc' = [pc EXCEPT ![r] = statement]
  /\ frame' = [frame EXCEPT ![r] = call]
  /\ overlapped' = (overlapped \/ InFlight # {})
  /\ UNCHANGED <<branches, audit>>

Create(r, t, c, hq) ==
  Begin(r, "create", "code",
        Call("create", r, [tenant |-> t, branchCode |-> c,
                           isHeadquarters |-> hq, status |-> "ACTIVE",
                           isDeleted |-> FALSE]))

NotFound(r, handler, b) ==
  /\ handler # "create"
  /\ ~Found(b)
  /\ Begin(r, handler, "refused", NoCall)

\* A branch cannot be moved to another tenant.
UpdateElsewhere(r, b, t) ==
  /\ Found(b)
  /\ branches[b].tenant # t
  /\ Begin(r, "update", "refused", NoCall)

\* Mutant: the request's code is copied with its other fields.
UpdateTakesCode(r, b, hq, status) ==
  \E c \in Codes :
    /\ Found(b)
    /\ Begin(r, "update", "reload",
             Call("update", b, [branches[b] EXCEPT !.branchCode = c,
                                                   !.status = status]))

\* An update without isHeadquarters makes the branch an ordinary one; one
\* without a status leaves the status the handler read.
Update(r, b, hq, status) ==
  /\ Found(b)
  /\ Begin(r, "update",
           IF hq /\ ~branches[b].isHeadquarters THEN "headquarters"
           ELSE "reload",
           Call("update", b, [branches[b] EXCEPT !.isHeadquarters = hq,
                                                 !.status = status]))

UpdateStatus(r, b, status) ==
  /\ Found(b)
  /\ Begin(r, "updateStatus", "reload",
           Call("updateStatus", b, [branches[b] EXCEPT !.status = status]))

Delete(r, b) ==
  /\ Found(b)
  /\ Begin(r, "delete",
           IF branches[b].isHeadquarters THEN "others" ELSE "reload",
           Call("delete", b, [branches[b] EXCEPT !.isDeleted = TRUE]))

-----------------------------------------------------------------------------
(* The statements that follow *)

Goto(r, statement) ==
  /\ pc' = [pc EXCEPT ![r] = statement]
  /\ frame' = [frame EXCEPT ![r] = IF statement \in Outcomes THEN NoCall ELSE @]

\* A check: the handler goes on to the next statement or throws.
Check(r, statement, holds, next) ==
  /\ pc[r] = statement
  /\ Goto(r, IF holds THEN next ELSE "refused")
  /\ UNCHANGED <<branches, audit, overlapped>>

CheckCode(r) ==
  Check(r, "code",
        CodeAvailable(frame[r].ent.tenant, frame[r].ent.branchCode), "limit")

CheckLimit(r) ==
  Check(r, "limit", BelowLimit(frame[r].ent.tenant),
        IF frame[r].ent.isHeadquarters THEN "headquarters" ELSE "insert")

CheckHeadquarters(r) ==
  Check(r, "headquarters",
        HeadquartersAvailable(frame[r].ent.tenant,
                              IF frame[r].path = "create" THEN None
                              ELSE frame[r].id),
        IF frame[r].path = "create" THEN "insert" ELSE "reload")

CheckOthers(r) == Check(r, "others", LastBranch(r), "reload")

\* UNIQUE (tenant_id, branch_code) decides again.
Unique(ent) ==
  \A b \in Rows :
    <<branches[b].tenant, branches[b].branchCode>>
      # <<ent.tenant, ent.branchCode>>

Insert(r) ==
  /\ pc[r] = "insert"
  /\ IF Unique(frame[r].ent)
     THEN branches' = [branches EXCEPT ![r] = frame[r].ent] /\ Goto(r, "audit")
     ELSE UNCHANGED branches /\ Goto(r, "conflict")
  /\ UNCHANGED <<audit, overlapped>>

Reload(r) ==
  /\ pc[r] = "reload"
  /\ frame' = [frame EXCEPT ![r].base = branches[frame[r].id]]
  /\ pc' = [pc EXCEPT ![r] = "write"]
  /\ UNCHANGED <<branches, audit, overlapped>>

Write(r) ==
  /\ pc[r] = "write"
  /\ branches' = [branches EXCEPT ![frame[r].id] =
                    Merge(@, frame[r].base, frame[r].ent)]
  /\ Goto(r, "audit")
  /\ UNCHANGED <<audit, overlapped>>

Audit(r) ==
  /\ pc[r] = "audit"
  /\ audit' = audit \cup {r}
  /\ Goto(r, "done")
  /\ UNCHANGED <<branches, overlapped>>

\* A statement fails or the process dies: what was committed stays.
Abort(r) ==
  /\ pc[r] \in Statements
  /\ Goto(r, "aborted")
  /\ UNCHANGED <<branches, audit, overlapped>>

-----------------------------------------------------------------------------
(* The specification *)

Init ==
  /\ branches = [b \in Requests |-> None]
  /\ audit = {}
  /\ pc = [r \in Requests |-> "idle"]
  /\ frame = [r \in Requests |-> NoCall]
  /\ overlapped = FALSE

Request(r) ==
  /\ pc[r] = "idle"
  /\ Cardinality(InFlight) < MaxInFlight
  /\ \/ \E t \in Tenants, c \in Codes, hq \in BOOLEAN : Create(r, t, c, hq)
     \/ \E b \in Requests, handler \in AllHandlers : NotFound(r, handler, b)
     \/ \E b \in Requests, t \in Tenants : UpdateElsewhere(r, b, t)
     \/ \E b \in Rows, hq \in BOOLEAN :
          \E status \in StatusChoices \cup {branches[b].status} :
            Update(r, b, hq, status)
     \/ \E b \in Rows, status \in StatusChoices : UpdateStatus(r, b, status)
     \/ \E b \in Requests : Delete(r, b)

Step(r) ==
  \/ CheckCode(r) \/ CheckLimit(r) \/ CheckHeadquarters(r) \/ CheckOthers(r)
  \/ Insert(r) \/ Reload(r) \/ Write(r) \/ Audit(r)

Next == \E r \in Requests : Request(r) \/ Step(r) \/ Abort(r)

Spec == Init /\ [][Next]_vars

-----------------------------------------------------------------------------
(* Properties *)

\* Every variable has its type, and an entity about to be saved still names
\* the tenant and the code of the row that save will find under its id.
TypeOK ==
  /\ branches \in [Requests -> Branch \cup {None}]
  /\ audit \subseteq Requests
  /\ pc \in [Requests -> {"idle"} \cup Statements \cup Outcomes]
  /\ frame \in [Requests -> Frame]
  /\ overlapped \in BOOLEAN
  /\ \A r \in Requests : pc[r] \in {"reload", "write"} =>
       /\ frame[r].id \in Rows
       /\ branches[frame[r].id].tenant = frame[r].ent.tenant
       /\ branches[frame[r].id].branchCode = frame[r].ent.branchCode

\* How many rows can pass one check before any of them is written, less one.
Excess == IF overlapped THEN MaxInFlight - 1 ELSE 0

\* 'Only one headquarters branch is allowed per tenant': one by one there is
\* one at most; requests that overlap, and the stale saves that restore old
\* headquarters, add one less than can overlap.
HeadquartersBounded ==
  \A t \in Tenants : Cardinality(HeadquartersOf(t)) <= 1 + Excess

\* ensureBranchLimit: one by one the limit holds; it is exceeded by less than
\* the requests that can overlap, the branches that stale saves bring back
\* included.
LimitBounded ==
  \A t \in Tenants :
    MaxBranches # None =>
      Cardinality(LiveOf(t)) <= MaxBranches + Excess

\* Code and tenant identify a branch for good, and the database only has to
\* refuse a row when another request inserted it after this one had checked.
CodeIdentifies ==
  /\ \A a, b \in Rows :
       branches[a].tenant = branches[b].tenant
         /\ branches[a].branchCode = branches[b].branchCode => a = b
  /\ ~overlapped => \A r \in Requests : pc[r] # "conflict"

\* One by one, a deleted branch stays deleted, and the headquarters of a tenant
\* is the last of its branches to be deleted.
DeletionOrder ==
  [][~overlapped =>
       \A b \in Rows :
         /\ branches[b].isDeleted => branches'[b].isDeleted
         /\ ~branches[b].isDeleted /\ branches'[b].isDeleted
              /\ branches[b].isHeadquarters =>
                LiveOf(branches[b].tenant) = {b}]_vars

\* 'Only one headquarters branch is allowed per tenant'
OneHeadquarters ==
  \A t \in Tenants : Cardinality(HeadquartersOf(t)) <= 1

-----------------------------------------------------------------------------
(* The inductive invariant *)

Loaded == {"code", "limit", "headquarters", "others", "insert", "reload", "write"}

\* What a request still has to do agrees with what its handler has read: a
\* creation has no row yet, the other handlers have the row they name.
FrameFits(r) ==
  LET f == frame[r] IN
  /\ f.ent \in Branch
  /\ f.path = "create" =>
       /\ pc[r] \in {"code", "limit", "headquarters", "insert"}
       /\ f.id = r /\ branches[r] = None /\ ~f.ent.isDeleted
  /\ f.path # "create" =>
       /\ pc[r] \in {"headquarters", "others", "reload", "write"}
       /\ f.id \in Rows
       /\ branches[f.id].tenant = f.ent.tenant
       /\ branches[f.id].branchCode = f.ent.branchCode
       /\ (f.path = "delete") <=> f.ent.isDeleted
  /\ pc[r] = "headquarters" => f.ent.isHeadquarters /\ f.path # "delete"
  /\ pc[r] = "others" => f.path = "delete"
  /\ pc[r] = "write" => f.base \in Branch

FramesFit ==
  \A r \in Requests :
    /\ pc[r] \in Loaded => FrameFits(r)
    /\ pc[r] = "idle" => branches[r] = None

InFlightBounded == IsFiniteSet(InFlight) /\ Cardinality(InFlight) <= 1 + Excess

\* A request that may still make branch b of tenant t a headquarters: its
\* entity is one, or it may bring back a row that is.
MayPromote(r, b, t) ==
  /\ pc[r] \in {"others", "insert", "reload", "write"}
  /\ frame[r].id = b /\ frame[r].ent.tenant = t
  /\ \/ frame[r].ent.isHeadquarters
     \/ branches[b] # None /\ branches[b].isHeadquarters

\* A request that may still insert branch b of tenant t, or bring it back.
MayRevive(r, b, t) ==
  /\ pc[r] \in {"headquarters", "insert", "reload", "write"}
  /\ frame[r].id = b /\ frame[r].ent.tenant = t
  /\ ~frame[r].ent.isDeleted

PotentialHeadquarters(t) ==
  HeadquartersOf(t) \cup
    {b \in Requests : \E r \in Requests : MayPromote(r, b, t)}

PotentiallyLive(t) ==
  LiveOf(t) \cup {b \in Requests : \E r \in Requests : MayRevive(r, b, t)}

PotentialBounded ==
  \A t \in Tenants :
    /\ IsFiniteSet(PotentialHeadquarters(t))
    /\ Cardinality(PotentialHeadquarters(t)) <= 1 + Excess
    /\ MaxBranches # None =>
         /\ IsFiniteSet(PotentiallyLive(t))
         /\ Cardinality(PotentiallyLive(t)) <= MaxBranches + Excess

\* What a request has checked or read still holds as long as no other has been
\* under way beside it.
CheckedHolds(r) ==
  LET f == frame[r] IN
  /\ f.path = "create" /\ pc[r] # "code" =>
       CodeAvailable(f.ent.tenant, f.ent.branchCode)
  /\ f.path # "create" => ~branches[f.id].isDeleted
  /\ f.path = "delete" =>
       /\ f.ent.isHeadquarters = branches[f.id].isHeadquarters
       /\ pc[r] # "others" /\ f.ent.isHeadquarters => LastBranch(r)
  /\ pc[r] = "write" => f.base = branches[f.id]

AloneHolds ==
  ~overlapped => \A r \in Requests : pc[r] \in Loaded => CheckedHolds(r)

\* The strengthening from which the safety of the branches is proved.
IInv ==
  /\ TypeOK
  /\ FramesFit
  /\ InFlightBounded
  /\ PotentialBounded
  /\ CodeIdentifies
  /\ AloneHolds
=============================================================================
