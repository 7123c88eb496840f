--------------------------- MODULE BranchesProofs ---------------------------
(***************************************************************************)
(* Theorems about Branches, for every set of tenants, requests and codes   *)
(* and every limit.                                                        *)
(*                                                                         *)
(* The counting argument: the branches that are, or may yet become, a      *)
(* headquarters form a set that only a passing check can enlarge, and a    *)
(* check passes only while there is no headquarters, so afterwards every   *)
(* member of the set is named by a request in flight.  The limit is        *)
(* treated alike.                                                          *)
(***************************************************************************)
EXTENDS Branches, CountingLemmas

-----------------------------------------------------------------------------
(* Rows and frames *)

LEMMA NoneIsNoRow == None \notin Branch
BY BranchesNoneAssumption DEF Branch

LEMMA NoCallType == NoCall \in Frame
BY DEF NoCall, Call, Frame

\* save leaves a row of the same tenant and code, which is a headquarters, or
\* deleted, as the row was or as the entity is.
LEMMA MergeFacts ==
  ASSUME NEW row \in Branch, NEW base \in Branch, NEW ent \in Branch
  PROVE  LET m == Merge(row, base, ent) IN
         /\ m \in Branch
         /\ m.tenant = row.tenant /\ m.branchCode = row.branchCode
         /\ m.isHeadquarters => row.isHeadquarters \/ ent.isHeadquarters
         /\ ~m.isDeleted => ~row.isDeleted \/ ~ent.isDeleted
         /\ base = row => m.isHeadquarters = ent.isHeadquarters
                            /\ m.isDeleted = ent.isDeleted
BY DEF Merge, Branch

\* A loaded frame, and the row it names.
LEMMA LoadedFrame ==
  ASSUME TypeOK, NEW r \in Requests, pc[r] \in Loaded, FrameFits(r)
  PROVE  /\ frame[r] \in Frame
         /\ frame[r].ent \in Branch
         /\ frame[r].id \in Requests
         /\ frame[r].path # "create" =>
              /\ branches[frame[r].id] \in Branch
              /\ branches[frame[r].id].tenant = frame[r].ent.tenant
              /\ branches[frame[r].id].branchCode = frame[r].ent.branchCode
BY DEF TypeOK, FrameFits, Rows

\* The type invariant without the part that FramesFit implies.
Types ==
  /\ branches \in [Requests -> Branch \cup {None}]
  /\ audit \subseteq Requests
  /\ pc \in [Requests -> {"idle"} \cup Statements \cup Outcomes]
  /\ frame \in [Requests -> Frame]
  /\ overlapped \in BOOLEAN

LEMMA TypesFit == Types /\ FramesFit => TypeOK
BY DEF Types, FramesFit, FrameFits, TypeOK, Loaded

LEMMA TypeOKTypes == TypeOK => Types
BY DEF Types, TypeOK

-----------------------------------------------------------------------------
(* How calls begin *)

Opening == {"code", "headquarters", "others", "reload", "refused"}

\* What the first statement of a handler leaves in the frame of request r.
WellFormed(r, st, c) ==
  /\ st \in Opening
  /\ c \in Frame
  /\ st # "refused" =>
       /\ c.ent \in Branch
       /\ c.path = "create" =>
            st = "code" /\ c.id = r /\ ~c.ent.isDeleted
       /\ c.path # "create" =>
            /\ st # "code"
            /\ Found(c.id)
            /\ branches[c.id].tenant = c.ent.tenant
            /\ branches[c.id].branchCode = c.ent.branchCode
            /\ (c.path = "delete") <=> c.ent.isDeleted
            /\ st # "headquarters" /\ c.ent.isHeadquarters =>
                 branches[c.id].isHeadquarters
            /\ c.path = "delete" =>
                 /\ c.ent.isHeadquarters = branches[c.id].isHeadquarters
                 /\ c.ent.isHeadquarters => st = "others"
       /\ st = "headquarters" => c.ent.isHeadquarters /\ c.path # "delete"
       /\ st = "others" =>
            c.path = "delete" /\ branches[c.id].isHeadquarters

\* A step that begins request r.
Begins(r) ==
  /\ pc[r] = "idle"
  /\ Cardinality(InFlight) < MaxInFlight
  /\ \E st \in Opening, c \in Frame :
       /\ WellFormed(r, st, c)
       /\ pc' = [pc EXCEPT ![r] = st]
       /\ frame' = [frame EXCEPT ![r] = c]
  /\ overlapped' = (overlapped \/ InFlight # {})
  /\ UNCHANGED <<branches, audit>>

LEMMA BeginBegins ==
  ASSUME NEW r \in Requests, NEW h, NEW st, NEW c,
         pc[r] = "idle", Cardinality(InFlight) < MaxInFlight,
         WellFormed(r, st, c), Begin(r, h, st, c)
  PROVE  Begins(r)
BY DEF Begin, Begins, WellFormed

LEMMA RefusedCall ==
  ASSUME NEW r \in Requests
  PROVE  WellFormed(r, "refused", NoCall)
BY NoCallType DEF WellFormed, Opening

\* The row of a branch that was found, and what a handler makes of it.
LEMMA FoundRow ==
  ASSUME TypeOK, NEW b, Found(b)
  PROVE  /\ b \in Requests
         /\ branches[b] \in Branch
         /\ ~branches[b].isDeleted
         /\ \A hq \in BOOLEAN, status \in BranchStatus :
              [branches[b] EXCEPT !.isHeadquarters = hq, !.status = status]
                \in Branch
         /\ \A status \in BranchStatus :
              [branches[b] EXCEPT !.status = status] \in Branch
         /\ [branches[b] EXCEPT !.isDeleted = TRUE] \in Branch
<1>1. b \in Requests /\ branches[b] \in Branch /\ ~branches[b].isDeleted
  BY DEF Found, Rows, TypeOK
<1>2. QED
  BY <1>1 DEF Branch

LEMMA CallFrame ==
  ASSUME NEW path \in AllHandlers, NEW id \in Requests, NEW ent \in Branch
  PROVE  /\ Call(path, id, ent) \in Frame
         /\ Call(path, id, ent).path = path
         /\ Call(path, id, ent).id = id
         /\ Call(path, id, ent).ent = ent
BY DEF Call, Frame

LEMMA CreateBegins ==
  ASSUME TypeOK, NEW r \in Requests, NEW t \in Tenants, NEW c \in Codes,
         NEW hq \in BOOLEAN, pc[r] = "idle", Cardinality(InFlight) < MaxInFlight,
         Create(r, t, c, hq)
  PROVE  Begins(r)
<1> DEFINE ent == [tenant |-> t, branchCode |-> c, isHeadquarters |-> hq,
                   status |-> "ACTIVE", isDeleted |-> FALSE]
           call == Call("create", r, ent)
<1>1. ent \in Branch /\ ~ent.isDeleted
  BY DEF Branch, BranchStatus
<1>2. Begin(r, "create", "code", call)
  BY DEF Create
<1> HIDE DEF ent
<1>3. call \in Frame /\ call.path = "create" /\ call.id = r /\ call.ent = ent
  BY <1>1, CallFrame DEF AllHandlers
<1> HIDE DEF call
<1>4. WellFormed(r, "code", call)
  BY <1>1, <1>3 DEF WellFormed, Opening
<1>5. QED
  BY <1>2, <1>4, BeginBegins

LEMMA UpdateBegins ==
  ASSUME TypeOK, NEW r \in Requests, NEW b \in Rows, NEW hq \in BOOLEAN,
         NEW status \in BranchStatus,
         pc[r] = "idle", Cardinality(InFlight) < MaxInFlight,
         Update(r, b, hq, status)
  PROVE  Begins(r)
<1> DEFINE ent == [branches[b] EXCEPT !.isHeadquarters = hq, !.status = status]
           call == Call("update", b, ent)
           st == IF hq /\ ~branches[b].isHeadquarters THEN "headquarters"
                 ELSE "reload"
<1>1. Found(b) /\ Begin(r, "update", st, call)
  BY DEF Update
<1>2. b \in Requests /\ branches[b] \in Branch /\ ent \in Branch
  BY <1>1, FoundRow
<1>3. /\ ent.tenant = branches[b].tenant
      /\ ent.branchCode = branches[b].branchCode
      /\ ent.isHeadquarters = hq
      /\ ent.isDeleted = branches[b].isDeleted
  BY <1>2 DEF Branch
<1> HIDE DEF ent
<1>4. call \in Frame /\ call.path = "update" /\ call.id = b /\ call.ent = ent
  BY <1>2, CallFrame DEF AllHandlers
<1>5. /\ st \in {"headquarters", "reload"}
      /\ st = "headquarters" => hq
      /\ st = "reload" /\ hq => branches[b].isHeadquarters
  OBVIOUS
<1> HIDE DEF call, st
<1>6. WellFormed(r, st, call)
  BY <1>1, <1>2, <1>3, <1>4, <1>5 DEF WellFormed, Opening, Found
<1>7. QED
  BY <1>1, <1>6, BeginBegins

LEMMA UpdateStatusBegins ==
  ASSUME TypeOK, NEW r \in Requests, NEW b \in Rows,
         NEW status \in BranchStatus,
         pc[r] = "idle", Cardinality(InFlight) < MaxInFlight,
         UpdateStatus(r, b, status)
  PROVE  Begins(r)
<1> DEFINE ent == [branches[b] EXCEPT !.status = status]
           call == Call("updateStatus", b, ent)
<1>1. Found(b) /\ Begin(r, "updateStatus", "reload", call)
  BY DEF UpdateStatus
<1>2. b \in Requests /\ branches[b] \in Branch /\ ent \in Branch
  BY <1>1, FoundRow
<1>3. /\ ent.tenant = branches[b].tenant
      /\ ent.branchCode = branches[b].branchCode
      /\ ent.isHeadquarters = branches[b].isHeadquarters
      /\ ent.isDeleted = branches[b].isDeleted
  BY <1>2 DEF Branch
<1> HIDE DEF ent
<1>4. /\ call \in Frame /\ call.path = "updateStatus"
      /\ call.id = b /\ call.ent = ent
  BY <1>2, CallFrame DEF AllHandlers
<1> HIDE DEF call
<1>5. WellFormed(r, "reload", call)
  BY <1>1, <1>2, <1>3, <1>4 DEF WellFormed, Opening, Found
<1>6. QED
  BY <1>1, <1>5, BeginBegins

LEMMA DeleteBegins ==
  ASSUME TypeOK, NEW r \in Requests, NEW b \in Requests,
         pc[r] = "idle", Cardinality(InFlight) < MaxInFlight,
         Delete(r, b)
  PROVE  Begins(r)
<1> DEFINE ent == [branches[b] EXCEPT !.isDeleted = TRUE]
           call == Call("delete", b, ent)
           st == IF branches[b].isHeadquarters THEN "others" ELSE "reload"
<1>1. Found(b) /\ Begin(r, "delete", st, call)
  BY DEF Delete
<1>2. branches[b] \in Branch /\ ent \in Branch
  BY <1>1, FoundRow
<1>3. /\ ent.tenant = branches[b].tenant
      /\ ent.branchCode = branches[b].branchCode
      /\ ent.isHeadquarters = branches[b].isHeadquarters
      /\ ent.isDeleted
  BY <1>2 DEF Branch
<1> HIDE DEF ent
<1>4. call \in Frame /\ call.path = "delete" /\ call.id = b /\ call.ent = ent
  BY <1>2, CallFrame DEF AllHandlers
<1>5. /\ st \in {"others", "reload"}
      /\ (st = "others") <=> branches[b].isHeadquarters
  BY <1>2 DEF Branch
<1> HIDE DEF call, st
<1>6. WellFormed(r, st, call)
  BY <1>1, <1>2, <1>3, <1>4, <1>5 DEF WellFormed, Opening
<1>7. QED
  BY <1>1, <1>6, BeginBegins

LEMMA RequestBegins ==
  ASSUME TypeOK, NEW r \in Requests, Request(r)
  PROVE  Begins(r)
<1>1. pc[r] = "idle" /\ Cardinality(InFlight) < MaxInFlight
  BY DEF Request
<1>2. ASSUME NEW b \in Requests, NEW handler \in AllHandlers,
             NotFound(r, handler, b)
      PROVE  Begins(r)
  BY <1>1, <1>2, RefusedCall, BeginBegins DEF NotFound
<1>3. ASSUME NEW b \in Requests, NEW t \in Tenants, UpdateElsewhere(r, b, t)
      PROVE  Begins(r)
  BY <1>1, <1>3, RefusedCall, BeginBegins DEF UpdateElsewhere
<1>4. ASSUME NEW b \in Rows, NEW hq \in BOOLEAN,
             NEW status \in StatusChoices \cup {branches[b].status},
             Update(r, b, hq, status)
      PROVE  Begins(r)
  <2>1. branches[b] \in Branch
    BY <1>4, FoundRow DEF Update
  <2>2. status \in BranchStatus
    BY <2>1, BranchesChoicesAssumption DEF Branch
  <2>3. QED
    BY <1>1, <1>4, <2>2, UpdateBegins
<1>5. ASSUME NEW b \in Rows, NEW status \in StatusChoices,
             UpdateStatus(r, b, status)
      PROVE  Begins(r)
  BY <1>1, <1>5, UpdateStatusBegins, BranchesChoicesAssumption
<1>6. QED
  BY <1>1, <1>2, <1>3, <1>4, <1>5, CreateBegins, DeleteBegins DEF Request

\* The steps of the specification, as the proofs below go through them.
LEMMA NextCases ==
  ASSUME TypeOK, [Next]_vars
  PROVE  \/ \E r \in Requests :
              \/ Begins(r)
              \/ CheckCode(r) \/ CheckLimit(r) \/ CheckHeadquarters(r)
              \/ CheckOthers(r) \/ Insert(r) \/ Reload(r) \/ Write(r)
              \/ Audit(r) \/ Abort(r)
         \/ UNCHANGED vars
BY RequestBegins DEF Next, Step

-----------------------------------------------------------------------------
(* Types and frames *)

Shape == Types /\ FramesFit

\* The rows of a step: none goes, none changes its tenant or its code, and only
\* request r may have added one.
RowsKept(r) ==
  /\ branches' \in [Requests -> Branch \cup {None}]
  /\ \A x \in Requests \ {r} : branches[x] = None => branches'[x] = None
  /\ \A b \in Rows : /\ b \in Rows'
                     /\ branches'[b].tenant = branches[b].tenant
                     /\ branches'[b].branchCode = branches[b].branchCode

LEMMA SameRowsKept ==
  ASSUME Types, NEW r, branches' = branches
  PROVE  RowsKept(r)
BY DEF RowsKept, Rows, Types

\* A step of request r keeps the shape of everything when it keeps the rows and
\* leaves r a frame that fits its next statement.
LEMMA StepShape ==
  ASSUME Shape, NEW r \in Requests,
         NEW st \in Statements \cup Outcomes, NEW f \in Frame,
         pc' = [pc EXCEPT ![r] = st], frame' = [frame EXCEPT ![r] = f],
         RowsKept(r), audit' \subseteq Requests, overlapped' \in BOOLEAN,
         pc'[r] = st /\ frame'[r] = f /\ st \in Loaded => FrameFits(r)'
  PROVE  Shape'
<1>1. Types'
  BY DEF Shape, Types, RowsKept
<1>2. /\ pc'[r] = st /\ frame'[r] = f
      /\ \A x \in Requests \ {r} : pc'[x] = pc[x] /\ frame'[x] = frame[x]
  BY DEF Shape, Types
<1>3. pc'[r] # "idle"
  BY <1>2 DEF Statements, Outcomes
<1>4. ASSUME NEW x \in Requests \ {r}, pc'[x] \in Loaded
      PROVE  FrameFits(x)'
  <2>1. FrameFits(x)
    BY <1>2, <1>4 DEF Shape, FramesFit
  <2>2. QED
    BY <1>2, <2>1 DEF FrameFits, RowsKept
<1>5. ASSUME NEW x \in Requests \ {r}, pc'[x] = "idle"
      PROVE  branches'[x] = None
  BY <1>2, <1>5 DEF Shape, FramesFit, RowsKept
<1>6. FramesFit'
  BY <1>2, <1>3, <1>4, <1>5 DEF FramesFit
<1>7. QED
  BY <1>1, <1>6 DEF Shape

\* The frame a statement leaves when the request goes on or ends.
LEMMA GotoFrame ==
  ASSUME Types, NEW r \in Requests, NEW st, Goto(r, st)
  PROVE  LET f == IF st \in Outcomes THEN NoCall ELSE frame[r] IN
         /\ pc' = [pc EXCEPT ![r] = st]
         /\ frame' = [frame EXCEPT ![r] = f]
         /\ f \in Frame
         /\ st \notin Outcomes => frame'[r] = frame[r]
BY NoCallType DEF Goto, Types

\* A statement that only moves request r on.
LEMMA GotoShape ==
  ASSUME Shape, NEW r \in Requests, NEW st \in Statements \cup Outcomes,
         Goto(r, st), UNCHANGED <<branches, overlapped>>, audit' \subseteq Requests,
         pc'[r] = st /\ frame'[r] = frame[r] /\ st \in Loaded => FrameFits(r)'
  PROVE  Shape'
<1> DEFINE f == IF st \in Outcomes THEN NoCall ELSE frame[r]
<1>1. /\ pc' = [pc EXCEPT ![r] = st] /\ frame' = [frame EXCEPT ![r] = f]
      /\ f \in Frame
      /\ st \notin Outcomes => frame'[r] = frame[r]
  BY GotoFrame DEF Shape
<1>2. RowsKept(r) /\ overlapped' \in BOOLEAN
  BY SameRowsKept DEF Shape, Types
<1>3. st \in Loaded => st \notin Outcomes
  BY DEF Loaded, Outcomes
<1> HIDE DEF f
<1>4. QED
  BY <1>1, <1>2, <1>3, StepShape

LEMMA BeginsShape ==
  ASSUME Shape, NEW r \in Requests, Begins(r)
  PROVE  Shape'
<1>1. PICK st \in Opening, c \in Frame :
        /\ WellFormed(r, st, c)
        /\ pc' = [pc EXCEPT ![r] = st]
        /\ frame' = [frame EXCEPT ![r] = c]
  BY DEF Begins
<1>2. branches[r] = None
  BY DEF Begins, Shape, FramesFit
<1>3. st \in Statements \cup Outcomes
  BY DEF Opening, Statements, Outcomes
<1>4. RowsKept(r)
  BY SameRowsKept DEF Begins, Shape
<1>5. audit' \subseteq Requests /\ overlapped' \in BOOLEAN
  BY DEF Begins, Shape, Types
<1>6. ASSUME pc'[r] = st, frame'[r] = c, st \in Loaded
      PROVE  FrameFits(r)'
  <2>1. branches' = branches /\ Rows' = Rows
    BY DEF Begins, Rows
  <2>2. QED
    BY <1>1, <1>2, <1>6, <2>1
       DEF WellFormed, FrameFits, Found, Loaded, Opening
<1>7. QED
  BY <1>1, <1>3, <1>4, <1>5, <1>6, StepShape

LEMMA CheckShape ==
  ASSUME Shape, NEW r \in Requests, NEW statement \in Loaded, NEW holds,
         NEW next \in Statements, Check(r, statement, holds, next),
         holds /\ pc'[r] = next /\ frame'[r] = frame[r]
           /\ branches' = branches /\ FrameFits(r) => FrameFits(r)'
  PROVE  Shape'
<1> DEFINE st == IF holds THEN next ELSE "refused"
<1>1. Goto(r, st) /\ UNCHANGED <<branches, audit, overlapped>>
  BY DEF Check
<1>2. st \in Statements \cup Outcomes /\ (st \in Loaded => holds /\ st = next)
  BY DEF Outcomes, Loaded
<1>3. FrameFits(r)
  BY DEF Shape, FramesFit, Check
<1>4. audit' \subseteq Requests
  BY <1>1 DEF Shape, Types
<1> HIDE DEF st
<1>5. QED
  BY <1>1, <1>2, <1>3, <1>4, GotoShape

LEMMA CheckCodeShape ==
  ASSUME Shape, NEW r \in Requests, CheckCode(r)
  PROVE  Shape'
<1>1. pc[r] = "code"
  BY DEF CheckCode, Check
<1>2. ASSUME pc'[r] = "limit", frame'[r] = frame[r], branches' = branches,
             FrameFits(r)
      PROVE  FrameFits(r)'
  BY <1>1, <1>2 DEF FrameFits, Rows
<1>3. QED
  BY <1>2, CheckShape DEF CheckCode, Loaded, Statements

LEMMA CheckLimitShape ==
  ASSUME Shape, NEW r \in Requests, CheckLimit(r)
  PROVE  Shape'
<1> DEFINE next == IF frame[r].ent.isHeadquarters THEN "headquarters"
                   ELSE "insert"
<1>1. pc[r] = "limit" /\ next \in Statements
  BY DEF CheckLimit, Check, Statements
<1>2. ASSUME pc'[r] = next, frame'[r] = frame[r], branches' = branches,
             FrameFits(r)
      PROVE  FrameFits(r)'
  BY <1>1, <1>2 DEF FrameFits, Rows
<1>3. Check(r, "limit", BelowLimit(frame[r].ent.tenant), next)
  BY DEF CheckLimit
<1> HIDE DEF next
<1>4. QED
  BY <1>1, <1>2, <1>3, CheckShape DEF Loaded

LEMMA CheckHeadquartersShape ==
  ASSUME Shape, NEW r \in Requests, CheckHeadquarters(r)
  PROVE  Shape'
<1> DEFINE next == IF frame[r].path = "create" THEN "insert" ELSE "reload"
           except == IF frame[r].path = "create" THEN None ELSE frame[r].id
<1>1. pc[r] = "headquarters" /\ next \in Statements
  BY DEF CheckHeadquarters, Check, Statements
<1>2. ASSUME pc'[r] = next, frame'[r] = frame[r], branches' = branches,
             FrameFits(r)
      PROVE  FrameFits(r)'
  BY <1>1, <1>2 DEF FrameFits, Rows
<1>3. Check(r, "headquarters",
            HeadquartersAvailable(frame[r].ent.tenant, except), next)
  BY DEF CheckHeadquarters
<1> HIDE DEF next, except
<1>4. QED
  BY <1>1, <1>2, <1>3, CheckShape DEF Loaded

LEMMA CheckOthersShape ==
  ASSUME Shape, NEW r \in Requests, CheckOthers(r)
  PROVE  Shape'
<1>1. pc[r] = "others"
  BY DEF CheckOthers, Check
<1>2. ASSUME pc'[r] = "reload", frame'[r] = frame[r], branches' = branches,
             FrameFits(r)
      PROVE  FrameFits(r)'
  BY <1>1, <1>2 DEF FrameFits, Rows
<1>3. QED
  BY <1>2, CheckShape DEF CheckOthers, Loaded, Statements

\* The frame of a request that is about to run statement st.
LEMMA FrameAt ==
  ASSUME Shape, NEW r \in Requests, pc[r] \in Loaded
  PROVE  /\ FrameFits(r)
         /\ frame[r] \in Frame /\ frame[r].ent \in Branch
         /\ frame[r].id \in Requests
         /\ frame[r].path # "create" =>
              /\ branches[frame[r].id] \in Branch
              /\ branches[frame[r].id].tenant = frame[r].ent.tenant
              /\ branches[frame[r].id].branchCode = frame[r].ent.branchCode
         /\ branches[r] \in Branch \cup {None}
<1>1. TypeOK /\ FrameFits(r)
  BY TypesFit DEF Shape, FramesFit
<1>2. QED
  BY <1>1, LoadedFrame DEF TypeOK

\* A statement runs on a creation, or on a branch that has a row.
LEMMA PathAt ==
  ASSUME Shape, NEW r \in Requests
  PROVE  /\ pc[r] \in {"code", "limit", "insert"} =>
              /\ frame[r].path = "create"
              /\ frame[r].id = r /\ branches[r] = None
         /\ pc[r] \in {"others", "reload", "write"} =>
              /\ frame[r].path # "create"
              /\ frame[r].id \in Rows
         /\ pc[r] = "write" => frame[r].base \in Branch
BY DEF Shape, FramesFit, FrameFits, Loaded

LEMMA InsertShape ==
  ASSUME Shape, NEW r \in Requests, Insert(r)
  PROVE  Shape'
<1>1. pc[r] = "insert" /\ UNCHANGED <<audit, overlapped>>
  BY DEF Insert
<1>2. frame[r].ent \in Branch /\ branches[r] = None
  BY <1>1, FrameAt, PathAt DEF Loaded
<1>3. audit' \subseteq Requests /\ overlapped' \in BOOLEAN
  BY <1>1 DEF Shape, Types
<1>4. CASE Unique(frame[r].ent)
  <2>1. branches' = [branches EXCEPT ![r] = frame[r].ent] /\ Goto(r, "audit")
    BY <1>4 DEF Insert
  <2>2. RowsKept(r)
    BY <1>2, <2>1 DEF RowsKept, Rows, Shape, Types
  <2>3. /\ pc' = [pc EXCEPT ![r] = "audit"]
        /\ frame' = [frame EXCEPT ![r] = frame[r]] /\ frame[r] \in Frame
    BY <2>1, GotoFrame DEF Shape, Outcomes
  <2>4. QED
    BY <1>3, <2>2, <2>3, StepShape DEF Statements, Loaded
<1>5. CASE ~Unique(frame[r].ent)
  BY <1>1, <1>3, <1>5, GotoShape DEF Insert, Outcomes, Loaded
<1>6. QED
  BY <1>4, <1>5

LEMMA ReloadShape ==
  ASSUME Shape, NEW r \in Requests, Reload(r)
  PROVE  Shape'
<1> DEFINE f == [frame[r] EXCEPT !.base = branches[frame[r].id]]
<1>1. /\ pc[r] = "reload" /\ pc' = [pc EXCEPT ![r] = "write"]
      /\ UNCHANGED <<branches, audit, overlapped>>
  BY DEF Reload
<1>2. /\ frame[r] \in Frame /\ branches[frame[r].id] \in Branch
      /\ FrameFits(r) /\ frame[r].path # "create"
  BY <1>1, FrameAt, PathAt DEF Loaded
<1>3. /\ f \in Frame /\ f.base \in Branch
      /\ f.path = frame[r].path /\ f.id = frame[r].id /\ f.ent = frame[r].ent
  BY <1>2 DEF Frame
<1>4. frame' = [frame EXCEPT ![r] = f]
  BY <1>2 DEF Reload, Shape, Types
<1>5. RowsKept(r) /\ audit' \subseteq Requests /\ overlapped' \in BOOLEAN
  BY <1>1, SameRowsKept DEF Shape, Types
<1> HIDE DEF f
<1>6. ASSUME pc'[r] = "write", frame'[r] = f
      PROVE  FrameFits(r)'
  BY <1>1, <1>2, <1>3, <1>6 DEF FrameFits, Rows
<1>7. QED
  BY <1>1, <1>3, <1>4, <1>5, <1>6, StepShape DEF Statements

\* The row a save leaves.
LEMMA WrittenRow ==
  ASSUME Shape, NEW r \in Requests, Write(r)
  PROVE  LET i == frame[r].id
             m == Merge(branches[i], frame[r].base, frame[r].ent) IN
         /\ i \in Rows /\ i \in Requests
         /\ branches[i] \in Branch /\ m \in Branch
         /\ branches' = [branches EXCEPT ![i] = m]
         /\ branches[i].tenant = frame[r].ent.tenant
         /\ m.tenant = branches[i].tenant
         /\ m.branchCode = branches[i].branchCode
         /\ m.isHeadquarters =>
              branches[i].isHeadquarters \/ frame[r].ent.isHeadquarters
         /\ ~m.isDeleted => ~branches[i].isDeleted \/ ~frame[r].ent.isDeleted
         /\ frame[r].base = branches[i] =>
              m.isHeadquarters = frame[r].ent.isHeadquarters
                /\ m.isDeleted = frame[r].ent.isDeleted
<1>1. pc[r] = "write"
  BY DEF Write
<1>2. /\ frame[r].id \in Rows /\ frame[r].base \in Branch
      /\ frame[r].ent \in Branch /\ branches[frame[r].id] \in Branch
      /\ branches[frame[r].id].tenant = frame[r].ent.tenant
  BY <1>1, FrameAt, PathAt DEF Loaded
<1>3. branches' = [branches EXCEPT ![frame[r].id] =
                     Merge(branches[frame[r].id], frame[r].base, frame[r].ent)]
  BY DEF Write
<1>4. frame[r].id \in Requests
  BY <1>2 DEF Rows
<1>5. QED
  BY <1>2, <1>3, <1>4, MergeFacts

LEMMA WriteShape ==
  ASSUME Shape, NEW r \in Requests, Write(r)
  PROVE  Shape'
<1> DEFINE i == frame[r].id
           m == Merge(branches[i], frame[r].base, frame[r].ent)
<1>1. /\ i \in Rows /\ i \in Requests /\ m \in Branch
      /\ branches' = [branches EXCEPT ![i] = m]
      /\ m.tenant = branches[i].tenant /\ m.branchCode = branches[i].branchCode
  BY WrittenRow
<1> HIDE DEF i, m
<1>2. RowsKept(r)
  BY <1>1, NoneIsNoRow DEF RowsKept, Rows, Shape, Types
<1>3. /\ pc' = [pc EXCEPT ![r] = "audit"]
      /\ frame' = [frame EXCEPT ![r] = frame[r]] /\ frame[r] \in Frame
  BY GotoFrame DEF Write, Shape, Outcomes
<1>4. audit' \subseteq Requests /\ overlapped' \in BOOLEAN
  BY DEF Write, Shape, Types
<1>5. QED
  BY <1>2, <1>3, <1>4, StepShape DEF Statements, Loaded

LEMMA AuditShape ==
  ASSUME Shape, NEW r \in Requests, Audit(r)
  PROVE  Shape'
<1>1. audit' \subseteq Requests
  BY DEF Audit, Shape, Types
<1>2. QED
  BY <1>1, GotoShape DEF Audit, Outcomes, Loaded

LEMMA AbortShape ==
  ASSUME Shape, NEW r \in Requests, Abort(r)
  PROVE  Shape'
<1>1. audit' \subseteq Requests
  BY DEF Abort, Shape, Types
<1>2. QED
  BY <1>1, GotoShape DEF Abort, Outcomes, Loaded

LEMMA ShapeStep ==
  ASSUME Shape, [Next]_vars
  PROVE  Shape'
<1>1. CASE UNCHANGED vars
  BY <1>1 DEF vars, Shape, Types, FramesFit, FrameFits, Rows
<1>2. TypeOK
  BY TypesFit DEF Shape
<1>3. QED
  BY <1>1, <1>2, NextCases, BeginsShape, CheckCodeShape, CheckLimitShape,
     CheckHeadquartersShape, CheckOthersShape, InsertShape, ReloadShape,
     WriteShape, AuditShape, AbortShape

-----------------------------------------------------------------------------
(* Requests in flight *)

LEMMA ExcessNat ==
  ASSUME Shape
  PROVE  Excess \in Nat /\ MaxInFlight \in Nat /\ MaxInFlight >= 1
BY BranchesBoundsAssumption DEF Excess

\* What every statement after the first does to the requests.
Moves(r) ==
  /\ pc[r] \in Statements
  /\ pc'[r] \in Statements \cup Outcomes
  /\ \A x \in Requests \ {r} : pc'[x] = pc[x] /\ frame'[x] = frame[x]
  /\ overlapped' = overlapped

Statement(r) ==
  \/ CheckCode(r) \/ CheckLimit(r) \/ CheckHeadquarters(r) \/ CheckOthers(r)
  \/ Insert(r) \/ Reload(r) \/ Write(r) \/ Audit(r) \/ Abort(r)

LEMMA StatementMoves ==
  ASSUME Types, NEW r \in Requests, Statement(r)
  PROVE  Moves(r)
<1> USE DEF Moves, Types, Statements, Outcomes, Goto
<1>1. ASSUME NEW statement \in Statements, NEW holds, NEW next \in Statements,
             Check(r, statement, holds, next)
      PROVE  Moves(r)
  BY <1>1 DEF Check
<1>2. CASE CheckCode(r)
  BY <1>1, <1>2 DEF CheckCode
<1>3. CASE CheckLimit(r)
  BY <1>1, <1>3 DEF CheckLimit
<1>4. CASE CheckHeadquarters(r)
  BY <1>1, <1>4 DEF CheckHeadquarters
<1>5. CASE CheckOthers(r)
  BY <1>1, <1>5 DEF CheckOthers
<1>6. CASE Insert(r)
  BY <1>6 DEF Insert
<1>7. CASE Reload(r)
  BY <1>7 DEF Reload
<1>8. CASE Write(r)
  BY <1>8 DEF Write
<1>9. CASE Audit(r)
  BY <1>9 DEF Audit
<1>10. CASE Abort(r)
  BY <1>10 DEF Abort
<1>11. QED
  BY <1>2, <1>3, <1>4, <1>5, <1>6, <1>7, <1>8, <1>9, <1>10 DEF Statement

LEMMA MovesInFlight ==
  ASSUME Shape, InFlightBounded, NEW r \in Requests, Moves(r)
  PROVE  /\ InFlight' \subseteq InFlight
         /\ Excess' = Excess
         /\ InFlightBounded'
<1>1. InFlight' \subseteq InFlight
  BY DEF InFlight, Moves
<1>2. Excess' = Excess
  BY DEF Excess, Moves
<1>3. Excess \in Nat
  BY ExcessNat
<1>4. IsFiniteSet(InFlight') /\ Cardinality(InFlight') <= 1 + Excess
  BY <1>1, <1>3, PartBounded DEF InFlightBounded
<1>5. QED
  BY <1>1, <1>2, <1>4 DEF InFlightBounded

LEMMA BeginsInFlight ==
  ASSUME Shape, InFlightBounded, NEW r \in Requests, Begins(r)
  PROVE  /\ Excess' \in Nat /\ Excess <= Excess'
         /\ InFlightBounded'
         /\ ~overlapped' => ~overlapped /\ InFlight' \subseteq {r}
         /\ \A x \in Requests \ {r} : pc'[x] = pc[x] /\ frame'[x] = frame[x]
<1>1. /\ \A x \in Requests \ {r} : pc'[x] = pc[x] /\ frame'[x] = frame[x]
      /\ overlapped' = (overlapped \/ InFlight # {})
      /\ Cardinality(InFlight) < MaxInFlight
  BY DEF Begins, Shape, Types
<1>2. InFlight' \subseteq InFlight \cup {r}
  BY <1>1 DEF InFlight
<1>3. /\ MaxInFlight \in Nat /\ MaxInFlight >= 1 /\ Excess \in Nat
      /\ Cardinality(InFlight) \in Nat
  BY ExcessNat, FS_CardinalityType DEF InFlightBounded
<1>4. Excess' \in Nat /\ Excess <= Excess'
  <2>1. overlapped => overlapped'
    BY <1>1
  <2>2. CASE overlapped'
    BY <1>3, <2>2 DEF Excess
  <2>3. CASE ~overlapped'
    BY <1>3, <2>1, <2>3 DEF Excess
  <2>4. QED
    BY <2>2, <2>3
<1>5. IsFiniteSet(InFlight') /\ Cardinality(InFlight') <= 1 + Excess'
  <2>1. CASE overlapped'
    <3>1. Excess' = MaxInFlight - 1
      BY <2>1 DEF Excess
    <3>2. Cardinality(InFlight) <= MaxInFlight - 1 /\ MaxInFlight - 1 \in Nat
      BY <1>1, <1>3
    <3>3. /\ IsFiniteSet(InFlight \cup {r})
          /\ Cardinality(InFlight \cup {r}) <= MaxInFlight - 1 + 1
      BY <3>2, OneMoreBounded DEF InFlightBounded
    <3>4. /\ IsFiniteSet(InFlight')
          /\ Cardinality(InFlight') <= MaxInFlight - 1 + 1
      BY <1>2, <1>3, <3>3, PartBounded
    <3>5. QED
      BY <1>3, <3>1, <3>4
  <2>2. CASE ~overlapped'
    <3>1. InFlight' \subseteq {r}
      BY <1>1, <1>2, <2>2
    <3>2. IsFiniteSet({r}) /\ Cardinality({r}) = 1
      BY FS_Singleton
    <3>3. IsFiniteSet(InFlight') /\ Cardinality(InFlight') <= 1
      BY <3>1, <3>2, PartBounded
    <3>4. Cardinality(InFlight') \in Nat
      BY <3>3, FS_CardinalityType
    <3>5. QED
      BY <1>4, <3>3, <3>4
  <2>3. QED
    BY <2>1, <2>2
<1>6. ~overlapped' => ~overlapped /\ InFlight' \subseteq {r}
  BY <1>1, <1>2
<1>7. QED
  BY <1>1, <1>4, <1>5, <1>6 DEF InFlightBounded

\* As long as requests have not overlapped, a request in flight is the only one.
LEMMA AloneInFlight ==
  ASSUME Shape, InFlightBounded, ~overlapped, NEW r \in InFlight
  PROVE  InFlight = {r}
<1>1. Excess = 0
  BY DEF Excess
<1>2. QED
  BY <1>1, OnlyMember DEF InFlightBounded

LEMMA LoadedInFlight ==
  ASSUME NEW x \in Requests, pc[x] \in Loaded
  PROVE  x \in InFlight
BY DEF InFlight, Loaded, Statements

-----------------------------------------------------------------------------
(* What one request alone has checked still holds *)

LEMMA BeginsAlone ==
  ASSUME Shape, InFlightBounded, AloneHolds, NEW r \in Requests, Begins(r)
  PROVE  AloneHolds'
<1> SUFFICES ASSUME ~overlapped', NEW x \in Requests, pc'[x] \in Loaded
             PROVE  CheckedHolds(x)'
  BY DEF AloneHolds
<1>1. x = r
  <2>1. pc'[x] \in Statements
    BY DEF Loaded, Statements
  <2>2. x \in InFlight'
    BY <2>1 DEF InFlight
  <2>3. QED
    BY <2>2, BeginsInFlight
<1>2. PICK st \in Opening, c \in Frame :
        /\ WellFormed(r, st, c)
        /\ pc' = [pc EXCEPT ![r] = st]
        /\ frame' = [frame EXCEPT ![r] = c]
  BY DEF Begins
<1>3. pc'[r] = st /\ frame'[r] = c /\ st # "refused"
  BY <1>1, <1>2 DEF Shape, Types, Loaded
<1>4. branches' = branches
  BY DEF Begins
<1>5. QED
  BY <1>1, <1>2, <1>3, <1>4
     DEF CheckedHolds, WellFormed, Opening, Found, LastBranch

\* When one request runs alone, only its own checks matter.
LEMMA MovesAlone ==
  ASSUME Shape, InFlightBounded, NEW r \in Requests, Moves(r),
         ~overlapped /\ pc'[r] \in Loaded => CheckedHolds(r)'
  PROVE  AloneHolds'
<1> SUFFICES ASSUME ~overlapped', NEW x \in Requests, pc'[x] \in Loaded
             PROVE  CheckedHolds(x)'
  BY DEF AloneHolds
<1>1. ~overlapped /\ r \in InFlight
  BY DEF Moves, InFlight
<1>2. x \in InFlight'
  BY DEF InFlight, Loaded, Statements
<1>3. x = r
  BY <1>1, <1>2, AloneInFlight, MovesInFlight
<1>4. QED
  BY <1>1, <1>3

LEMMA CheckAlone ==
  ASSUME Shape, InFlightBounded, AloneHolds, NEW r \in Requests, Moves(r),
         NEW statement \in Loaded, NEW holds, NEW next \in Statements,
         Check(r, statement, holds, next),
         holds /\ pc'[r] = next /\ frame'[r] = frame[r] /\ branches' = branches
           /\ CheckedHolds(r) => CheckedHolds(r)'
  PROVE  AloneHolds'
<1> SUFFICES ASSUME ~overlapped, pc'[r] \in Loaded
             PROVE  CheckedHolds(r)'
  BY MovesAlone
<1>1. /\ pc'[r] = IF holds THEN next ELSE "refused"
      /\ branches' = branches /\ pc[r] = statement
  BY DEF Check, Goto, Shape, Types
<1>2. holds /\ pc'[r] = next
  BY <1>1 DEF Loaded
<1>3. frame'[r] = frame[r]
  BY <1>2 DEF Check, Goto, Shape, Types, Statements, Outcomes
<1>4. CheckedHolds(r)
  BY <1>1 DEF AloneHolds
<1>5. QED
  BY <1>1, <1>2, <1>3, <1>4

LEMMA StatementAlone ==
  ASSUME Shape, InFlightBounded, AloneHolds, NEW r \in Requests, Statement(r)
  PROVE  AloneHolds'
<1>0. Moves(r)
  BY StatementMoves DEF Shape
<1>1. CASE CheckCode(r)
  <2>1. ASSUME CodeAvailable(frame[r].ent.tenant, frame[r].ent.branchCode),
               pc'[r] = "limit", frame'[r] = frame[r], branches' = branches,
               CheckedHolds(r)
        PROVE  CheckedHolds(r)'
    <3>1. pc[r] = "code"
      BY <1>1 DEF CheckCode, Check
    <3>2. frame[r].path = "create"
      BY <3>1, PathAt
    <3>3. QED
      BY <2>1, <3>2, PathAt DEF CheckedHolds, CodeAvailable, Rows
  <2>2. QED
    BY <1>0, <1>1, <2>1, CheckAlone DEF CheckCode, Loaded, Statements
<1>2. CASE CheckLimit(r)
  <2> DEFINE next == IF frame[r].ent.isHeadquarters THEN "headquarters"
                     ELSE "insert"
  <2>1. pc[r] = "limit" /\ next \in Statements \ {"code", "write"}
    BY <1>2 DEF CheckLimit, Check, Statements
  <2>2. Check(r, "limit", BelowLimit(frame[r].ent.tenant), next)
    BY <1>2 DEF CheckLimit
  <2> HIDE DEF next
  <2>3. ASSUME pc'[r] = next, frame'[r] = frame[r], branches' = branches,
               CheckedHolds(r)
        PROVE  CheckedHolds(r)'
    <3>1. frame[r].path = "create"
      BY <2>1, PathAt
    <3>2. QED
      BY <2>1, <2>3, <3>1 DEF CheckedHolds, CodeAvailable, Rows
  <2>4. QED
    BY <1>0, <2>1, <2>2, <2>3, CheckAlone DEF Loaded
<1>3. CASE CheckHeadquarters(r)
  <2> DEFINE next == IF frame[r].path = "create" THEN "insert" ELSE "reload"
             except == IF frame[r].path = "create" THEN None ELSE frame[r].id
  <2>1. pc[r] = "headquarters" /\ next \in Statements \ {"code", "write"}
    BY <1>3 DEF CheckHeadquarters, Check, Statements
  <2>2. Check(r, "headquarters",
              HeadquartersAvailable(frame[r].ent.tenant, except), next)
    BY <1>3 DEF CheckHeadquarters
  <2> HIDE DEF next, except
  <2>3. ASSUME pc'[r] = next, frame'[r] = frame[r], branches' = branches,
               CheckedHolds(r)
        PROVE  CheckedHolds(r)'
    <3>1. frame[r].path # "delete"
      BY <2>1, FrameAt DEF FrameFits, Loaded
    <3>2. QED
      BY <2>1, <2>3, <3>1 DEF CheckedHolds, CodeAvailable, Rows
  <2>4. QED
    BY <1>0, <2>1, <2>2, <2>3, CheckAlone DEF Loaded
<1>4. CASE CheckOthers(r)
  <2>1. pc[r] = "others"
    BY <1>4 DEF CheckOthers, Check
  <2>2. ASSUME LastBranch(r), pc'[r] = "reload", frame'[r] = frame[r],
               branches' = branches, CheckedHolds(r)
        PROVE  CheckedHolds(r)'
    <3>1. frame[r].path = "delete"
      BY <2>1, FrameAt DEF FrameFits, Loaded
    <3>2. QED
      BY <2>2, <3>1 DEF CheckedHolds, LastBranch, LiveOf, Rows
  <2>3. QED
    BY <1>0, <1>4, <2>2, CheckAlone DEF CheckOthers, Loaded, Statements
<1>5. CASE Reload(r)
  <2> SUFFICES ASSUME ~overlapped
               PROVE  CheckedHolds(r)'
    BY <1>0, MovesAlone
  <2>1. pc[r] = "reload" /\ pc'[r] = "write" /\ branches' = branches
    BY <1>5 DEF Reload, Shape, Types
  <2>2. /\ frame[r] \in Frame /\ CheckedHolds(r)
        /\ frame[r].path # "create"
    BY <2>1, FrameAt, PathAt DEF AloneHolds, Loaded
  <2>3. frame'[r] = [frame[r] EXCEPT !.base = branches[frame[r].id]]
    BY <1>5 DEF Reload, Shape, Types
  <2>4. /\ frame'[r].path = frame[r].path /\ frame'[r].id = frame[r].id
        /\ frame'[r].ent = frame[r].ent
        /\ frame'[r].base = branches[frame[r].id]
    BY <2>2, <2>3 DEF Frame
  <2>5. QED
    BY <2>1, <2>2, <2>4 DEF CheckedHolds, LastBranch, LiveOf, Rows
<1>6. CASE Insert(r) \/ Write(r) \/ Audit(r) \/ Abort(r)
  <2>1. pc'[r] \notin Loaded
    BY <1>6 DEF Insert, Write, Audit, Abort, Goto, Shape, Types, Loaded
  <2>2. QED
    BY <1>0, <2>1, MovesAlone
<1>7. QED
  BY <1>1, <1>2, <1>3, <1>4, <1>5, <1>6 DEF Statement

-----------------------------------------------------------------------------
(* Codes *)

\* A step that adds no row keeps the codes apart.
LEMMA SameCodes ==
  ASSUME CodeIdentifies, NEW r \in Requests, RowsKept(r), Rows' = Rows,
         ~overlapped' => ~overlapped,
         \A x \in Requests : pc'[x] = "conflict" => pc[x] = "conflict"
  PROVE  CodeIdentifies'
BY DEF CodeIdentifies, RowsKept

LEMMA InsertCodes ==
  ASSUME Shape, InFlightBounded, AloneHolds, CodeIdentifies,
         NEW r \in Requests, Insert(r)
  PROVE  CodeIdentifies'
<1>1. /\ pc[r] = "insert" /\ frame[r].ent \in Branch /\ branches[r] = None
      /\ frame[r].path = "create"
  BY FrameAt, PathAt DEF Insert, Loaded
<1>2. Moves(r)
  BY StatementMoves DEF Statement, Shape
<1>3. CASE Unique(frame[r].ent)
  <2>1. branches' = [branches EXCEPT ![r] = frame[r].ent] /\ pc'[r] = "audit"
    BY <1>3 DEF Insert, Goto, Shape, Types
  <2>2. /\ branches'[r] = frame[r].ent
        /\ \A b \in Requests \ {r} : branches'[b] = branches[b]
        /\ Rows' \subseteq Rows \cup {r}
    BY <2>1 DEF Rows, Shape, Types
  <2>3. ASSUME NEW a \in Rows', NEW b \in Rows',
               branches'[a].tenant = branches'[b].tenant,
               branches'[a].branchCode = branches'[b].branchCode
        PROVE  a = b
    <3>1. r \notin Rows
      BY <1>1 DEF Rows
    <3>2. a \in Requests /\ b \in Requests
      BY DEF Rows
    <3>3. QED
      BY <1>3, <2>2, <2>3, <3>1, <3>2 DEF CodeIdentifies, Unique
  <2>4. ~overlapped' => \A x \in Requests : pc'[x] # "conflict"
    BY <1>2, <2>1 DEF CodeIdentifies, Moves
  <2>5. QED
    BY <2>3, <2>4 DEF CodeIdentifies
<1>4. CASE ~Unique(frame[r].ent)
  <2>1. branches' = branches
    BY <1>4 DEF Insert
  <2>2. overlapped
    <3> SUFFICES ASSUME ~overlapped
                 PROVE  FALSE
      BY DEF Shape, Types
    <3>1. CodeAvailable(frame[r].ent.tenant, frame[r].ent.branchCode)
      BY <1>1 DEF AloneHolds, CheckedHolds, Loaded
    <3>2. QED
      BY <1>4, <3>1 DEF Unique, CodeAvailable
  <2>3. overlapped'
    BY <1>2, <2>2 DEF Moves
  <2>4. QED
    BY <2>1, <2>3 DEF CodeIdentifies, Rows
<1>5. QED
  BY <1>3, <1>4

LEMMA StatementCodes ==
  ASSUME Shape, InFlightBounded, AloneHolds, CodeIdentifies,
         NEW r \in Requests, Statement(r)
  PROVE  CodeIdentifies'
<1>0. Moves(r)
  BY StatementMoves DEF Shape
<1>1. CASE Insert(r)
  BY <1>1, InsertCodes
<1>2. CASE ~Insert(r)
  <2>1. RowsKept(r) /\ Rows' = Rows
    <3>1. CASE Write(r)
      <4> DEFINE i == frame[r].id
                 m == Merge(branches[i], frame[r].base, frame[r].ent)
      <4>1. /\ i \in Rows /\ i \in Requests /\ m \in Branch
            /\ branches' = [branches EXCEPT ![i] = m]
            /\ m.tenant = branches[i].tenant
            /\ m.branchCode = branches[i].branchCode
        BY <3>1, WrittenRow
      <4> HIDE DEF i, m
      <4>2. QED
        BY <4>1, NoneIsNoRow DEF RowsKept, Rows, Shape, Types
    <3>2. CASE ~Write(r)
      <4>1. branches' = branches
        BY <1>2, <3>2 DEF Statement, CheckCode, CheckLimit, CheckHeadquarters,
           CheckOthers, Check, Reload, Audit, Abort
      <4>2. QED
        BY <4>1, SameRowsKept DEF Rows, Shape
    <3>3. QED
      BY <3>1, <3>2
  <2>2. pc'[r] # "conflict"
    BY <1>2 DEF Statement, CheckCode, CheckLimit, CheckHeadquarters,
       CheckOthers, Check, Reload, Write, Audit, Abort, Goto, Shape, Types
  <2>3. QED
    BY <1>0, <2>1, <2>2, SameCodes DEF Moves
<1>3. QED
  BY <1>1, <1>2

LEMMA BeginsCodes ==
  ASSUME Shape, InFlightBounded, CodeIdentifies, NEW r \in Requests, Begins(r)
  PROVE  CodeIdentifies'
<1>1. RowsKept(r) /\ Rows' = Rows
  BY SameRowsKept DEF Begins, Rows, Shape
<1>2. pc'[r] # "conflict"
  BY DEF Begins, WellFormed, Opening, Shape, Types
<1>3. QED
  BY <1>1, <1>2, BeginsInFlight, SameCodes

-----------------------------------------------------------------------------
(* Headquarters and live branches, those to come included *)

\* Steps that add no potential headquarters and no potentially live branch.
LEMMA NoNewPotential ==
  ASSUME Shape, PotentialBounded, Excess' \in Nat, Excess <= Excess',
         \A t \in Tenants :
           /\ PotentialHeadquarters(t)' \subseteq PotentialHeadquarters(t)
           /\ PotentiallyLive(t)' \subseteq PotentiallyLive(t)
  PROVE  PotentialBounded'
<1> SUFFICES ASSUME NEW t \in Tenants
             PROVE  /\ IsFiniteSet(PotentialHeadquarters(t)')
                    /\ Cardinality(PotentialHeadquarters(t)') <= 1 + Excess'
                    /\ MaxBranches # None =>
                         /\ IsFiniteSet(PotentiallyLive(t)')
                         /\ Cardinality(PotentiallyLive(t)')
                              <= MaxBranches + Excess'
  BY DEF PotentialBounded
<1>1. Excess \in Nat
  BY ExcessNat
<1>2. /\ IsFiniteSet(PotentialHeadquarters(t)')
      /\ Cardinality(PotentialHeadquarters(t)') <= 1 + Excess
  BY <1>1, PartBounded DEF PotentialBounded
<1>3. Cardinality(PotentialHeadquarters(t)') \in Nat
  BY <1>2, FS_CardinalityType
<1>4. ASSUME MaxBranches # None
      PROVE  /\ IsFiniteSet(PotentiallyLive(t)')
             /\ Cardinality(PotentiallyLive(t)') <= MaxBranches + Excess'
  <2>1. MaxBranches \in Nat
    BY <1>4, BranchesBoundsAssumption
  <2>2. MaxBranches + Excess \in Nat
    BY <1>1, <2>1
  <2>3. /\ IsFiniteSet(PotentiallyLive(t)')
        /\ Cardinality(PotentiallyLive(t)') <= MaxBranches + Excess
    BY <1>4, <2>2, PartBounded DEF PotentialBounded
  <2>4. Cardinality(PotentiallyLive(t)') \in Nat
    BY <2>3, FS_CardinalityType
  <2>5. QED
    BY <1>1, <2>1, <2>3, <2>4
<1>5. QED
  BY <1>1, <1>2, <1>3, <1>4

\* A step that leaves the rows alone adds to the potential headquarters only
\* what request r itself may promote from now on.
LEMMA NewHeadquarters ==
  ASSUME NEW r \in Requests, NEW t \in Tenants, branches' = branches,
         \A x \in Requests \ {r} : pc'[x] = pc[x] /\ frame'[x] = frame[x],
         \A b \in Requests : MayPromote(r, b, t)' =>
           MayPromote(r, b, t) \/ b \in HeadquartersOf(t)
  PROVE  PotentialHeadquarters(t)' \subseteq PotentialHeadquarters(t)
<1> SUFFICES ASSUME NEW b \in PotentialHeadquarters(t)'
             PROVE  b \in PotentialHeadquarters(t)
  OBVIOUS
<1>1. CASE b \in HeadquartersOf(t)'
  BY <1>1 DEF HeadquartersOf, LiveOf, Rows, PotentialHeadquarters
<1>2. ASSUME b \in Requests, NEW x \in Requests, MayPromote(x, b, t)'
      PROVE  b \in PotentialHeadquarters(t)
  <2>1. CASE x = r
    BY <1>2, <2>1 DEF PotentialHeadquarters
  <2>2. CASE x # r
    BY <1>2, <2>2 DEF MayPromote, PotentialHeadquarters
  <2>3. QED
    BY <2>1, <2>2
<1>3. QED
  BY <1>1, <1>2 DEF PotentialHeadquarters

LEMMA NewLive ==
  ASSUME NEW r \in Requests, NEW t \in Tenants, branches' = branches,
         \A x \in Requests \ {r} : pc'[x] = pc[x] /\ frame'[x] = frame[x],
         \A b \in Requests : MayRevive(r, b, t)' =>
           MayRevive(r, b, t) \/ b \in LiveOf(t)
  PROVE  PotentiallyLive(t)' \subseteq PotentiallyLive(t)
<1> SUFFICES ASSUME NEW b \in PotentiallyLive(t)'
             PROVE  b \in PotentiallyLive(t)
  OBVIOUS
<1>1. CASE b \in LiveOf(t)'
  BY <1>1 DEF LiveOf, Rows, PotentiallyLive
<1>2. ASSUME b \in Requests, NEW x \in Requests, MayRevive(x, b, t)'
      PROVE  b \in PotentiallyLive(t)
  <2>1. CASE x = r
    BY <1>2, <2>1 DEF PotentiallyLive
  <2>2. CASE x # r
    BY <1>2, <2>2 DEF MayRevive, PotentiallyLive
  <2>3. QED
    BY <2>1, <2>2
<1>3. QED
  BY <1>1, <1>2 DEF PotentiallyLive

LEMMA BeginsPotential ==
  ASSUME Shape, InFlightBounded, PotentialBounded,
         NEW r \in Requests, Begins(r)
  PROVE  PotentialBounded'
<1>1. PICK st \in Opening, c \in Frame :
        /\ WellFormed(r, st, c)
        /\ pc' = [pc EXCEPT ![r] = st]
        /\ frame' = [frame EXCEPT ![r] = c]
  BY DEF Begins
<1>2. pc'[r] = st /\ frame'[r] = c /\ branches' = branches
  BY <1>1 DEF Begins, Shape, Types
<1>3. /\ Excess' \in Nat /\ Excess <= Excess'
      /\ \A x \in Requests \ {r} : pc'[x] = pc[x] /\ frame'[x] = frame[x]
  BY BeginsInFlight
<1>4. ASSUME NEW t \in Tenants, NEW b \in Requests
      PROVE  /\ MayPromote(r, b, t)' => b \in HeadquartersOf(t)
             /\ MayRevive(r, b, t)' => b \in LiveOf(t)
  <2>1. ASSUME st \in {"headquarters", "others", "reload"}, c.id = b,
               c.ent.tenant = t
        PROVE  b \in LiveOf(t)
    BY <1>1, <2>1 DEF WellFormed, Found, LiveOf
  <2>2. ASSUME st \in {"others", "reload"}, c.id = b,
               c.ent.isHeadquarters \/ branches[b].isHeadquarters
        PROVE  branches[b].isHeadquarters
    BY <1>1, <2>2 DEF WellFormed
  <2>3. QED
    BY <1>1, <1>2, <2>1, <2>2
       DEF MayPromote, MayRevive, HeadquartersOf, Opening
<1>5. QED
  BY <1>2, <1>3, <1>4, NewHeadquarters, NewLive, NoNewPotential

\* A statement that leaves the rows alone and lets request r promote and revive
\* nothing that it could not promote or revive before.
LEMMA QuietPotential ==
  ASSUME Shape, InFlightBounded, PotentialBounded,
         NEW r \in Requests, Moves(r), branches' = branches,
         \A t \in Tenants, b \in Requests :
           /\ MayPromote(r, b, t)' => MayPromote(r, b, t)
           /\ MayRevive(r, b, t)' => MayRevive(r, b, t)
  PROVE  PotentialBounded'
<1>1. Excess' = Excess /\ Excess \in Nat
  BY MovesInFlight, ExcessNat
<1>2. \A t \in Tenants :
        /\ PotentialHeadquarters(t)' \subseteq PotentialHeadquarters(t)
        /\ PotentiallyLive(t)' \subseteq PotentiallyLive(t)
  BY NewHeadquarters, NewLive DEF Moves
<1>3. Excess' \in Nat /\ Excess <= Excess'
  BY <1>1
<1>4. QED
  BY <1>2, <1>3, NoNewPotential

\* The branches that a set of requests in flight names are no more than those
\* requests.
LEMMA InFlightNames ==
  ASSUME Shape, InFlightBounded, NEW S,
         \A b \in S : \E x \in InFlight : frame[x].id = b
  PROVE  IsFiniteSet(S) /\ Cardinality(S) <= 1 + Excess
<1> DEFINE id == [x \in Requests |-> frame[x].id]
<1>1. InFlight \subseteq DOMAIN id
  BY DEF InFlight
<1>2. \A b \in S : \E x \in InFlight : id[x] = b
  BY DEF InFlight
<1> HIDE DEF id
<1>3. IsFiniteSet(S) /\ Cardinality(S) <= Cardinality(InFlight)
  BY <1>1, <1>2, NamedBounded DEF InFlightBounded
<1>4. Cardinality(S) \in Nat /\ Cardinality(InFlight) \in Nat
  BY <1>3, FS_CardinalityType DEF InFlightBounded
<1>5. QED
  BY <1>3, <1>4, ExcessNat DEF InFlightBounded

\* Passing the check of the limit: the live branches were fewer than the limit,
\* and all that may yet be added is named by a request in flight.
LEMMA LimitPassed ==
  ASSUME Shape, InFlightBounded, NEW t, BelowLimit(t),
         MaxBranches # None, IsFiniteSet(LiveOf(t)), NEW S,
         \A b \in S : b \in LiveOf(t) \/ \E x \in InFlight : frame[x].id = b
  PROVE  IsFiniteSet(S) /\ Cardinality(S) <= MaxBranches + Excess
<1> DEFINE old == S \cap LiveOf(t)
           new == {b \in S : \E x \in InFlight : frame[x].id = b}
<1>1. MaxBranches \in Nat \ {0} /\ Excess \in Nat
  BY BranchesBoundsAssumption, ExcessNat
<1>2. Cardinality(LiveOf(t)) \in Nat /\ Cardinality(LiveOf(t)) < MaxBranches
  BY FS_CardinalityType DEF BelowLimit
<1>3. Cardinality(LiveOf(t)) <= MaxBranches - 1 /\ MaxBranches - 1 \in Nat
  BY <1>1, <1>2
<1>4. IsFiniteSet(old) /\ Cardinality(old) <= MaxBranches - 1
  BY <1>3, PartBounded
<1>5. IsFiniteSet(new) /\ Cardinality(new) <= 1 + Excess
  BY InFlightNames
<1>6. S = old \cup new
  OBVIOUS
<1> HIDE DEF old, new
<1>7. 1 + Excess \in Nat
  BY <1>1
<1>8. IsFiniteSet(S) /\ Cardinality(S) <= MaxBranches - 1 + (1 + Excess)
  BY <1>3, <1>4, <1>5, <1>6, <1>7, TogetherBounded
<1>9. Cardinality(S) \in Nat
  BY <1>8, FS_CardinalityType
<1>10. QED
  BY <1>1, <1>8, <1>9

\* The requests that may promote or revive a branch are in flight, and name it.
LEMMA ActorsInFlight ==
  ASSUME NEW x \in Requests, NEW b, NEW t,
         MayPromote(x, b, t) \/ MayRevive(x, b, t)
  PROVE  x \in InFlight /\ frame[x].id = b
BY DEF MayPromote, MayRevive, InFlight, Statements

LEMMA CheckLimitPotential ==
  ASSUME Shape, InFlightBounded, PotentialBounded,
         NEW r \in Requests, CheckLimit(r)
  PROVE  PotentialBounded'
<1>1. Moves(r)
  BY StatementMoves DEF Statement, Shape
<1>2. /\ pc[r] = "limit" /\ branches' = branches
      /\ frame[r].id = r /\ branches[r] = None
  BY PathAt DEF CheckLimit, Check
<1>3. CASE ~BelowLimit(frame[r].ent.tenant)
  <2>1. pc'[r] = "refused"
    BY <1>3 DEF CheckLimit, Check, Goto, Shape, Types
  <2>2. QED
    BY <1>1, <1>2, <2>1, QuietPotential DEF MayPromote, MayRevive
<1>4. CASE BelowLimit(frame[r].ent.tenant)
  <2>1. /\ frame'[r] = frame[r]
        /\ pc'[r] = IF frame[r].ent.isHeadquarters THEN "headquarters"
                    ELSE "insert"
    BY <1>4 DEF CheckLimit, Check, Goto, Shape, Types, Outcomes
  <2>2. ASSUME NEW t \in Tenants, NEW b \in Requests, MayPromote(r, b, t)'
        PROVE  FALSE
    BY <1>2, <2>1, <2>2 DEF MayPromote
  <2>3. Excess' = Excess /\ Excess \in Nat
    BY <1>1, MovesInFlight, ExcessNat
  <2>4. ASSUME NEW t \in Tenants
        PROVE  /\ IsFiniteSet(PotentialHeadquarters(t)')
               /\ Cardinality(PotentialHeadquarters(t)') <= 1 + Excess
    <3>1. PotentialHeadquarters(t)' \subseteq PotentialHeadquarters(t)
      BY <1>1, <1>2, <2>2, NewHeadquarters DEF Moves
    <3>2. QED
      BY <2>3, <3>1, PartBounded DEF PotentialBounded
  <2>5. ASSUME MaxBranches # None, NEW t \in Tenants
        PROVE  /\ IsFiniteSet(PotentiallyLive(t)')
               /\ Cardinality(PotentiallyLive(t)') <= MaxBranches + Excess
    <3>1. MaxBranches + Excess \in Nat
      BY <2>3, <2>5, BranchesBoundsAssumption
    <3>2. CASE frame[r].ent.tenant # t
      <4>1. \A b \in Requests : ~MayRevive(r, b, t)'
        BY <2>1, <3>2 DEF MayRevive
      <4>2. PotentiallyLive(t)' \subseteq PotentiallyLive(t)
        BY <1>1, <1>2, <4>1, NewLive DEF Moves
      <4>3. QED
        BY <2>5, <3>1, <4>2, PartBounded DEF PotentialBounded
    <3>3. CASE frame[r].ent.tenant = t
      <4>1. IsFiniteSet(LiveOf(t))
        <5>1. LiveOf(t) \subseteq PotentiallyLive(t)
          BY DEF PotentiallyLive
        <5>2. QED
          BY <2>5, <5>1, FS_Subset DEF PotentialBounded
      <4>2. ASSUME NEW b \in PotentiallyLive(t)', b \notin LiveOf(t)
            PROVE  \E x \in InFlight : frame[x].id = b
        <5>1. b \notin LiveOf(t)'
          BY <1>2, <4>2 DEF LiveOf, Rows
        <5>2. PICK x \in Requests : MayRevive(x, b, t)'
          BY <4>2, <5>1 DEF PotentiallyLive
        <5>3. CASE x = r
          BY <1>2, <2>1, <5>2, <5>3 DEF MayRevive, InFlight, Statements
        <5>4. CASE x # r
          BY <1>1, <5>2, <5>4, ActorsInFlight DEF MayRevive, Moves
        <5>5. QED
          BY <5>3, <5>4
      <4>3. QED
        BY <1>4, <2>5, <3>3, <4>1, <4>2, LimitPassed
    <3>4. QED
      BY <3>2, <3>3
  <2>6. QED
    BY <2>3, <2>4, <2>5 DEF PotentialBounded
<1>5. QED
  BY <1>3, <1>4

LEMMA CheckHeadquartersPotential ==
  ASSUME Shape, InFlightBounded, PotentialBounded,
         NEW r \in Requests, CheckHeadquarters(r)
  PROVE  PotentialBounded'
<1> DEFINE except == IF frame[r].path = "create" THEN None ELSE frame[r].id
           tenant == frame[r].ent.tenant
<1>1. Moves(r)
  BY StatementMoves DEF Statement, Shape
<1>2. /\ pc[r] = "headquarters" /\ branches' = branches
      /\ ~frame[r].ent.isDeleted
  BY FrameAt DEF CheckHeadquarters, Check, FrameFits, Loaded
<1>3. CASE ~HeadquartersAvailable(tenant, except)
  <2>1. pc'[r] = "refused"
    BY <1>3 DEF CheckHeadquarters, Check, Goto, Shape, Types
  <2>2. QED
    BY <1>1, <1>2, <2>1, QuietPotential DEF MayPromote, MayRevive
<1>4. CASE HeadquartersAvailable(tenant, except)
  <2>1. frame'[r] = frame[r] /\ pc'[r] \in {"insert", "reload"}
    BY <1>4 DEF CheckHeadquarters, Check, Goto, Shape, Types, Outcomes
  <2>2. ASSUME NEW t \in Tenants, NEW b \in Requests, MayRevive(r, b, t)'
        PROVE  MayRevive(r, b, t)
    BY <1>2, <2>1, <2>2 DEF MayRevive
  <2>3. Excess' = Excess /\ Excess \in Nat
    BY <1>1, MovesInFlight, ExcessNat
  <2>4. ASSUME NEW t \in Tenants
        PROVE  /\ IsFiniteSet(PotentialHeadquarters(t)')
               /\ Cardinality(PotentialHeadquarters(t)') <= 1 + Excess
    <3>1. CASE tenant # t
      <4>1. \A b \in Requests : ~MayPromote(r, b, t)'
        BY <2>1, <3>1 DEF MayPromote
      <4>2. PotentialHeadquarters(t)' \subseteq PotentialHeadquarters(t)
        BY <1>1, <1>2, <4>1, NewHeadquarters DEF Moves
      <4>3. QED
        BY <2>3, <4>2, PartBounded DEF PotentialBounded
    <3>2. CASE tenant = t
      <4>1. r \in InFlight
        BY <1>1 DEF Moves, InFlight
      <4>2. ASSUME NEW b \in PotentialHeadquarters(t)'
            PROVE  \E x \in InFlight : frame[x].id = b
        <5>1. CASE b \in HeadquartersOf(t)'
          <6>1. b \in HeadquartersOf(t) /\ b \in Requests
            BY <1>2, <5>1 DEF HeadquartersOf, LiveOf, Rows
          <6>2. b = except
            BY <1>4, <3>2, <6>1 DEF HeadquartersAvailable
          <6>3. b = frame[r].id
            BY <6>1, <6>2, BranchesNoneAssumption
          <6>4. QED
            BY <4>1, <6>3
        <5>2. ASSUME NEW x \in Requests, MayPromote(x, b, t)'
              PROVE  \E y \in InFlight : frame[y].id = b
          <6>1. CASE x = r
            BY <2>1, <4>1, <5>2, <6>1 DEF MayPromote
          <6>2. CASE x # r
            BY <1>1, <1>2, <5>2, <6>2, ActorsInFlight DEF MayPromote, Moves
          <6>3. QED
            BY <6>1, <6>2
        <5>3. QED
          BY <4>2, <5>1, <5>2 DEF PotentialHeadquarters
      <4>3. QED
        BY <4>2, InFlightNames
    <3>3. QED
      BY <3>1, <3>2
  <2>5. ASSUME MaxBranches # None, NEW t \in Tenants
        PROVE  /\ IsFiniteSet(PotentiallyLive(t)')
               /\ Cardinality(PotentiallyLive(t)') <= MaxBranches + Excess
    <3>1. MaxBranches + Excess \in Nat
      BY <2>3, <2>5, BranchesBoundsAssumption
    <3>2. PotentiallyLive(t)' \subseteq PotentiallyLive(t)
      BY <1>1, <1>2, <2>2, NewLive DEF Moves
    <3>3. QED
      BY <2>5, <3>1, <3>2, PartBounded DEF PotentialBounded
  <2>6. QED
    BY <2>3, <2>4, <2>5 DEF PotentialBounded
<1>5. QED
  BY <1>3, <1>4

\* A write only realises what was potential.
LEMMA InsertPotential ==
  ASSUME Shape, InFlightBounded, PotentialBounded,
         NEW r \in Requests, Insert(r), Unique(frame[r].ent)
  PROVE  PotentialBounded'
<1>1. Moves(r)
  BY StatementMoves DEF Statement, Shape
<1>2. /\ pc[r] = "insert" /\ frame[r].ent \in Branch
      /\ frame[r].id = r /\ branches[r] = None
      /\ frame[r].path = "create" /\ ~frame[r].ent.isDeleted
  BY FrameAt, PathAt DEF Insert, Loaded, FrameFits
<1>3. /\ branches'[r] = frame[r].ent /\ pc'[r] = "audit"
      /\ \A b \in Requests \ {r} : branches'[b] = branches[b]
      /\ Rows' \subseteq Rows \cup {r}
  BY DEF Insert, Goto, Shape, Types, Rows
<1>4. \A x \in Requests \ {r} : pc'[x] = pc[x] /\ frame'[x] = frame[x]
  BY <1>1 DEF Moves
<1>5. ASSUME NEW x \in Requests \ {r}, pc[x] \in Loaded
      PROVE  frame[x].id # r
  BY <1>2, <1>5, FrameAt DEF FrameFits, Rows
<1>6. ASSUME NEW t \in Tenants
      PROVE  /\ PotentialHeadquarters(t)' \subseteq PotentialHeadquarters(t)
             /\ PotentiallyLive(t)' \subseteq PotentiallyLive(t)
  <2>1. ASSUME NEW b \in LiveOf(t)'
        PROVE  \/ b \in LiveOf(t) /\ branches'[b] = branches[b]
               \/ b = r /\ MayRevive(r, r, t)
    BY <1>2, <1>3, <2>1 DEF LiveOf, MayRevive, Rows
  <2>2. ASSUME NEW b \in HeadquartersOf(t)'
        PROVE  b \in HeadquartersOf(t) \/ (b = r /\ MayPromote(r, r, t))
    BY <1>2, <1>3, <2>1, <2>2 DEF HeadquartersOf, MayPromote, MayRevive
  <2>3. ASSUME NEW b \in Requests, NEW x \in Requests, MayPromote(x, b, t)'
        PROVE  MayPromote(x, b, t)
    <3>1. x # r
      BY <1>3, <2>3 DEF MayPromote
    <3>2. pc[x] \in Loaded /\ frame[x].id = b
      BY <1>4, <2>3, <3>1 DEF MayPromote, Loaded
    <3>3. b # r
      BY <1>5, <3>1, <3>2
    <3>4. QED
      BY <1>3, <1>4, <2>3, <3>1, <3>3 DEF MayPromote
  <2>4. ASSUME NEW b \in Requests, NEW x \in Requests, MayRevive(x, b, t)'
        PROVE  MayRevive(x, b, t)
    BY <1>3, <1>4, <2>4 DEF MayRevive
  <2>5. QED
    BY <2>1, <2>2, <2>3, <2>4 DEF PotentialHeadquarters, PotentiallyLive
<1>7. Excess' \in Nat /\ Excess <= Excess'
  BY <1>1, MovesInFlight, ExcessNat
<1>8. QED
  BY <1>6, <1>7, NoNewPotential

LEMMA WritePotential ==
  ASSUME Shape, InFlightBounded, PotentialBounded,
         NEW r \in Requests, Write(r)
  PROVE  PotentialBounded'
<1> DEFINE i == frame[r].id
           m == Merge(branches[i], frame[r].base, frame[r].ent)
<1>1. Moves(r)
  BY StatementMoves DEF Statement, Shape
<1>2. /\ i \in Rows /\ i \in Requests
      /\ branches[i].tenant = frame[r].ent.tenant /\ m.tenant = branches[i].tenant
      /\ m.isHeadquarters =>
           branches[i].isHeadquarters \/ frame[r].ent.isHeadquarters
      /\ ~m.isDeleted => ~branches[i].isDeleted \/ ~frame[r].ent.isDeleted
      /\ branches' = [branches EXCEPT ![i] = m]
  BY WrittenRow
<1>3. pc[r] = "write" /\ pc'[r] = "audit"
  BY DEF Write, Goto, Shape, Types
<1> HIDE DEF m
<1>4. /\ branches'[i] = m
      /\ \A b \in Requests \ {i} : branches'[b] = branches[b]
      /\ Rows' \subseteq Rows
  BY <1>2 DEF Shape, Types, Rows
<1>5. \A x \in Requests \ {r} : pc'[x] = pc[x] /\ frame'[x] = frame[x]
  BY <1>1 DEF Moves
<1>6. ASSUME NEW t \in Tenants
      PROVE  /\ PotentialHeadquarters(t)' \subseteq PotentialHeadquarters(t)
             /\ PotentiallyLive(t)' \subseteq PotentiallyLive(t)
  <2>1. ASSUME NEW b \in LiveOf(t)'
        PROVE  b \in LiveOf(t) \/ (b = i /\ MayRevive(r, b, t))
    BY <1>2, <1>3, <1>4, <2>1 DEF LiveOf, MayRevive, Rows
  <2>2. ASSUME m.isHeadquarters, branches[i].tenant = t
        PROVE  MayPromote(r, i, t)
    BY <1>2, <1>3, <2>2 DEF MayPromote, Rows
  <2>3. ASSUME NEW b \in HeadquartersOf(t)'
        PROVE  b \in HeadquartersOf(t) \/ (b = i /\ MayPromote(r, i, t))
    BY <1>2, <1>4, <2>2, <2>3 DEF HeadquartersOf, LiveOf, Rows
  <2>4. ASSUME NEW b \in Requests, NEW x \in Requests, MayPromote(x, b, t)'
        PROVE  MayPromote(x, b, t) \/ MayPromote(r, b, t)
    <3>1. x # r
      BY <1>3, <2>4 DEF MayPromote
    <3>2. /\ pc[x] \in Loaded /\ frame[x].id = b /\ frame[x].ent.tenant = t
      BY <1>5, <2>4, <3>1 DEF MayPromote, Loaded
    <3>3. CASE b # i
      BY <1>4, <1>5, <2>4, <3>1, <3>3 DEF MayPromote
    <3>4. CASE b = i
      <4>1. branches[i].tenant = t
        BY <1>2, <3>2, <3>4, FrameAt DEF FrameFits, Rows
      <4>2. CASE m.isHeadquarters
        BY <2>2, <3>4, <4>1, <4>2
      <4>3. CASE ~m.isHeadquarters
        BY <1>4, <1>5, <2>4, <3>1, <3>4, <4>3 DEF MayPromote
      <4>4. QED
        BY <4>2, <4>3
    <3>5. QED
      BY <3>3, <3>4
  <2>5. ASSUME NEW b \in Requests, NEW x \in Requests, MayRevive(x, b, t)'
        PROVE  MayRevive(x, b, t)
    BY <1>3, <1>5, <2>5 DEF MayRevive
  <2>6. QED
    BY <1>2, <2>1, <2>3, <2>4, <2>5
       DEF PotentialHeadquarters, PotentiallyLive
<1>7. Excess' \in Nat /\ Excess <= Excess'
  BY <1>1, MovesInFlight, ExcessNat
<1>8. QED
  BY <1>6, <1>7, NoNewPotential

LEMMA StatementPotential ==
  ASSUME Shape, InFlightBounded, PotentialBounded,
         NEW r \in Requests, Statement(r)
  PROVE  PotentialBounded'
<1>0. Moves(r)
  BY StatementMoves DEF Shape
<1>1. CASE CheckCode(r)
  <2>1. branches' = branches /\ pc'[r] \in {"limit", "refused"}
    BY <1>1 DEF CheckCode, Check, Goto, Shape, Types
  <2>2. QED
    BY <1>0, <2>1, QuietPotential DEF MayPromote, MayRevive
<1>2. CASE CheckOthers(r)
  <2>1. /\ pc[r] = "others" /\ branches' = branches
        /\ frame[r].ent.isDeleted
    BY <1>2, FrameAt DEF CheckOthers, Check, FrameFits, Loaded
  <2>2. \/ pc'[r] = "refused"
        \/ pc'[r] = "reload" /\ frame'[r] = frame[r]
    BY <1>2 DEF CheckOthers, Check, Goto, Shape, Types, Outcomes
  <2>3. QED
    BY <1>0, <2>1, <2>2, QuietPotential DEF MayPromote, MayRevive
<1>3. CASE Insert(r) /\ ~Unique(frame[r].ent)
  <2>1. branches' = branches /\ pc'[r] = "conflict"
    BY <1>3 DEF Insert, Goto, Shape, Types
  <2>2. QED
    BY <1>0, <2>1, QuietPotential DEF MayPromote, MayRevive
<1>4. CASE Reload(r)
  <2>1. /\ pc[r] = "reload" /\ pc'[r] = "write" /\ branches' = branches
        /\ frame[r] \in Frame
        /\ frame'[r] = [frame[r] EXCEPT !.base = branches[frame[r].id]]
    BY <1>4 DEF Reload, Shape, Types
  <2>2. frame'[r].id = frame[r].id /\ frame'[r].ent = frame[r].ent
    BY <2>1 DEF Frame
  <2>3. QED
    BY <1>0, <2>1, <2>2, QuietPotential DEF MayPromote, MayRevive
<1>5. CASE Audit(r) \/ Abort(r)
  <2>1. branches' = branches /\ pc'[r] \in {"done", "aborted"}
    BY <1>5 DEF Audit, Abort, Goto, Shape, Types
  <2>2. QED
    BY <1>0, <2>1, QuietPotential DEF MayPromote, MayRevive
<1>6. QED
  BY <1>1, <1>2, <1>3, <1>4, <1>5, CheckLimitPotential,
     CheckHeadquartersPotential, InsertPotential, WritePotential DEF Statement

-----------------------------------------------------------------------------
(* The invariant *)

LEMMA InitIInv == Init => IInv
<1> SUFFICES ASSUME Init
             PROVE  IInv
  OBVIOUS
<1> USE DEF Init
<1>1. Rows = {} /\ InFlight = {}
  BY DEF Rows, InFlight, Statements
<1>2. FramesFit /\ AloneHolds
  BY DEF FramesFit, AloneHolds, Loaded
<1>3. Types
  BY NoCallType DEF Types
<1>4. Excess = 0
  BY DEF Excess
<1>5. InFlightBounded
  BY <1>1, <1>4, FS_EmptySet DEF InFlightBounded
<1>6. CodeIdentifies
  BY <1>1 DEF CodeIdentifies
<1>7. PotentialBounded
  <2>1. \A t \in Tenants :
          PotentialHeadquarters(t) = {} /\ PotentiallyLive(t) = {}
    BY <1>1 DEF PotentialHeadquarters, PotentiallyLive, HeadquartersOf, LiveOf,
       MayPromote, MayRevive
  <2>2. MaxBranches # None => MaxBranches + Excess >= 0
    BY <1>4, BranchesBoundsAssumption
  <2>3. QED
    BY <1>4, <2>1, <2>2, FS_EmptySet DEF PotentialBounded
<1>8. QED
  BY <1>2, <1>3, <1>5, <1>6, <1>7, TypesFit DEF IInv

LEMMA NextIInv == IInv /\ [Next]_vars => IInv'
<1> SUFFICES ASSUME IInv, [Next]_vars
             PROVE  IInv'
  OBVIOUS
<1>1. /\ TypeOK /\ Shape /\ InFlightBounded /\ PotentialBounded
      /\ CodeIdentifies /\ AloneHolds
  BY TypeOKTypes DEF IInv, Shape
<1>2. Shape' /\ TypeOK'
  <2>1. Shape'
    BY <1>1, ShapeStep
  <2>2. Types' /\ FramesFit' => TypeOK'
    BY DEF Types, FramesFit, FrameFits, TypeOK, Loaded
  <2>3. QED
    BY <2>1, <2>2 DEF Shape
<1>3. CASE UNCHANGED vars
  <2>1. Rows' = Rows /\ InFlight' = InFlight /\ Excess' = Excess
    BY <1>3 DEF vars, Rows, InFlight, Excess
  <2>2. InFlightBounded' /\ CodeIdentifies'
    BY <1>1, <1>3, <2>1 DEF vars, InFlightBounded, CodeIdentifies
  <2>3. \A t \in Tenants : /\ HeadquartersOf(t)' = HeadquartersOf(t)
                           /\ LiveOf(t)' = LiveOf(t)
    BY <1>3, <2>1 DEF vars, HeadquartersOf, LiveOf
  <2>4. \A t \in Tenants : /\ PotentialHeadquarters(t)' = PotentialHeadquarters(t)
                           /\ PotentiallyLive(t)' = PotentiallyLive(t)
    BY <1>3, <2>3 DEF vars, PotentialHeadquarters, PotentiallyLive, MayPromote,
       MayRevive
  <2>5. PotentialBounded'
    BY <1>1, <2>1, <2>4 DEF PotentialBounded
  <2>6. AloneHolds'
    BY <1>1, <1>3, <2>1 DEF vars, AloneHolds, CheckedHolds, CodeAvailable,
       LastBranch, LiveOf
  <2>7. QED
    BY <1>2, <2>2, <2>5, <2>6 DEF IInv, Shape
<1>4. ASSUME NEW r \in Requests, Begins(r)
      PROVE  IInv'
  BY <1>1, <1>2, <1>4, BeginsInFlight, BeginsPotential, BeginsCodes, BeginsAlone
     DEF IInv, Shape
<1>5. ASSUME NEW r \in Requests, Statement(r)
      PROVE  IInv'
  <2>1. Moves(r)
    BY <1>1, <1>5, StatementMoves DEF Shape
  <2>2. QED
    BY <1>1, <1>2, <1>5, <2>1, MovesInFlight, StatementPotential,
       StatementCodes, StatementAlone DEF IInv, Shape
<1>6. QED
  BY <1>1, <1>3, <1>4, <1>5, NextCases DEF Statement

\* The strengthening is an invariant: for any tenants, requests, codes and
\* limit, whatever overlaps and wherever requests die.
THEOREM BranchesInvariance == Spec => []IInv
BY InitIInv, NextIInv, PTL DEF Spec

\* Every variable keeps its type, and the entity about to be saved still names
\* the tenant and the code of the row that save will find.
THEOREM BranchesTypeCorrect == Spec => []TypeOK
<1>1. IInv => TypeOK
  BY DEF IInv
<1>2. QED
  BY <1>1, BranchesInvariance, PTL

\* One by one a tenant has one headquarters at most, and overlapping requests
\* add one less than can overlap.
THEOREM HeadquartersAreBounded == Spec => []HeadquartersBounded
<1>1. ASSUME IInv
      PROVE  HeadquartersBounded
  <2> SUFFICES ASSUME NEW t \in Tenants
               PROVE  Cardinality(HeadquartersOf(t)) <= 1 + Excess
    BY DEF HeadquartersBounded
  <2>1. Shape
    BY <1>1, TypeOKTypes DEF IInv, Shape
  <2>2. HeadquartersOf(t) \subseteq PotentialHeadquarters(t)
    BY DEF PotentialHeadquarters
  <2>3. 1 + Excess \in Nat
    BY <2>1, ExcessNat
  <2>4. QED
    BY <1>1, <2>2, <2>3, PartBounded DEF IInv, PotentialBounded
<1>2. QED
  BY <1>1, BranchesInvariance, PTL

\* 'Only one headquarters branch is allowed per tenant' is true of a service
\* that answers one request at a time; with two in flight it is violated.
THEOREM AloneOneHeadquarters ==
  ASSUME MaxInFlight = 1
  PROVE  Spec => []OneHeadquarters
<1>1. ASSUME HeadquartersBounded
      PROVE  OneHeadquarters
  <2>1. 1 + Excess = 1
    BY DEF Excess
  <2>2. QED
    BY <1>1, <2>1 DEF HeadquartersBounded, OneHeadquarters
<1>2. QED
  BY <1>1, HeadquartersAreBounded, PTL

\* One by one the limit on branches holds, and it is exceeded by less than the
\* requests that can overlap.
THEOREM LimitIsBounded == Spec => []LimitBounded
<1>1. ASSUME IInv
      PROVE  LimitBounded
  <2> SUFFICES ASSUME NEW t \in Tenants, MaxBranches # None
               PROVE  Cardinality(LiveOf(t)) <= MaxBranches + Excess
    BY DEF LimitBounded
  <2>1. Shape
    BY <1>1, TypeOKTypes DEF IInv, Shape
  <2>2. LiveOf(t) \subseteq PotentiallyLive(t)
    BY DEF PotentiallyLive
  <2>3. MaxBranches + Excess \in Nat
    BY <2>1, ExcessNat, BranchesBoundsAssumption
  <2>4. QED
    BY <1>1, <2>2, <2>3, PartBounded DEF IInv, PotentialBounded
<1>2. QED
  BY <1>1, BranchesInvariance, PTL

\* Tenant and code name one branch for good, and the database refuses none as
\* long as requests do not overlap.
THEOREM CodesIdentify == Spec => []CodeIdentifies
<1>1. IInv => CodeIdentifies
  BY DEF IInv
<1>2. QED
  BY <1>1, BranchesInvariance, PTL

\* One by one, deletion is final and the headquarters goes last.
THEOREM DeletedInOrder == Spec => DeletionOrder
<1> DEFINE Ordered ==
      ~overlapped =>
        \A b \in Rows :
          /\ branches[b].isDeleted => branches'[b].isDeleted
          /\ ~branches[b].isDeleted /\ branches'[b].isDeleted
               /\ branches[b].isHeadquarters =>
                 LiveOf(branches[b].tenant) = {b}
<1>1. ASSUME IInv, [Next]_vars
      PROVE  [Ordered]_vars
  <2> SUFFICES ASSUME ~overlapped, NEW b \in Rows, branches' # branches
               PROVE  /\ branches[b].isDeleted => branches'[b].isDeleted
                      /\ ~branches[b].isDeleted /\ branches'[b].isDeleted
                           /\ branches[b].isHeadquarters =>
                             LiveOf(branches[b].tenant) = {b}
    OBVIOUS
  <2>1. Shape /\ TypeOK
    BY <1>1, TypeOKTypes DEF IInv, Shape
  <2>2. PICK r \in Requests : Insert(r) \/ Write(r)
    BY <1>1, <2>1, NextCases DEF Begins, CheckCode, CheckLimit,
       CheckHeadquarters, CheckOthers, Check, Reload, Audit, Abort, vars
  <2>3. b \in Requests
    BY DEF Rows
  <2>4. CASE Insert(r)
    <3>1. branches[r] = None
      BY <2>1, <2>4, PathAt DEF Insert
    <3>2. branches'[b] = branches[b]
      BY <2>1, <2>3, <2>4, <3>1 DEF Insert, Rows, Shape, Types
    <3>3. QED
      BY <3>2
  <2>5. CASE Write(r)
    <3> DEFINE i == frame[r].id
               m == Merge(branches[i], frame[r].base, frame[r].ent)
    <3>1. /\ i \in Requests /\ branches' = [branches EXCEPT ![i] = m]
          /\ branches[i].tenant = frame[r].ent.tenant
          /\ frame[r].base = branches[i] => m.isDeleted = frame[r].ent.isDeleted
      BY <2>1, <2>5, WrittenRow
    <3>2. /\ pc[r] = "write" /\ frame[r].path # "create"
          /\ FrameFits(r) /\ CheckedHolds(r)
      BY <1>1, <2>1, <2>5, PathAt, FrameAt DEF Write, IInv, AloneHolds, Loaded
    <3>3. m.isDeleted = frame[r].ent.isDeleted /\ ~branches[i].isDeleted
      BY <3>1, <3>2 DEF CheckedHolds
    <3> HIDE DEF m
    <3>4. CASE b # i
      BY <2>1, <2>3, <3>1, <3>4 DEF Shape, Types
    <3>5. CASE b = i
      <4>1. branches'[b] = m
        BY <2>1, <2>3, <3>1, <3>5 DEF Shape, Types
      <4>2. ASSUME branches'[b].isDeleted, branches[b].isHeadquarters
            PROVE  LiveOf(branches[b].tenant) = {b}
        <5>1. frame[r].ent.isDeleted
          BY <3>3, <4>1, <4>2
        <5>2. LastBranch(r)
          BY <3>2, <3>5, <4>2, <5>1 DEF CheckedHolds, FrameFits
        <5>3. b \in LiveOf(branches[b].tenant)
          BY <3>3, <3>5 DEF LiveOf
        <5>4. QED
          BY <3>1, <3>5, <5>2, <5>3 DEF LastBranch
      <4>3. QED
        BY <3>3, <3>5, <4>2
    <3>6. QED
      BY <3>4, <3>5
  <2>6. QED
    BY <2>2, <2>4, <2>5
<1>2. QED
  BY <1>1, BranchesInvariance, PTL DEF Spec, DeletionOrder
=============================================================================
