--------------------------- MODULE DbSetupProofs ---------------------------
(***************************************************************************)
(* Theorems about DbSetup, for any number of runs, migrations and seed     *)
(* files.                                                                  *)
(*                                                                         *)
(* Versions are worked through from the first on, so that what has run,    *)
(* what is recorded and what a run knows are the first so many versions;   *)
(* and a migration that must not run twice has one run, at most, that is   *)
(* about to record it.  That holds whatever overlaps.  Without overlaps a  *)
(* run knows the whole history and its next rank is its next version.      *)
(***************************************************************************)
EXTENDS DbSetup, FiniteSetTheorems, TLAPS

-----------------------------------------------------------------------------
(* Prefixes of the natural numbers *)

LEMMA MinIs ==
  ASSUME NEW S, NEW k \in Nat, S \subseteq Nat, k \in S, \A y \in S : k =< y
  PROVE  Min(S) = k
<1> DEFINE P(x) == x \in S /\ \A y \in S : x =< y
<1>1. P(k)
  OBVIOUS
<1>2. P(CHOOSE x \in S : \A y \in S : x =< y)
  BY <1>1
<1> HIDE DEF P
<1>3. PICK m : m = Min(S) /\ P(m)
  BY <1>2 DEF Min
<1>4. m \in Nat /\ m =< k /\ k =< m
  BY <1>3 DEF P
<1>5. m = k
  BY <1>4
<1>6. QED
  BY <1>3, <1>5

LEMMA MaxIs ==
  ASSUME NEW S, NEW k \in Nat, S \subseteq Nat, k \in S, \A y \in S : k >= y
  PROVE  Max(S) = k
<1> DEFINE P(x) == x \in S /\ \A y \in S : x >= y
<1>1. P(k)
  OBVIOUS
<1>2. P(CHOOSE x \in S : \A y \in S : x >= y)
  BY <1>1
<1> HIDE DEF P
<1>3. PICK m : m = Max(S) /\ P(m)
  BY <1>2 DEF Max
<1>4. m \in Nat /\ m >= k /\ k >= m
  BY <1>3 DEF P
<1>5. m = k
  BY <1>4
<1>6. QED
  BY <1>3, <1>5

\* What comes after a prefix extends it, and every longer prefix has it.
LEMMA NextOfPrefix ==
  ASSUME NEW n \in Nat, NEW S \in Prefixes(n), S # 1 .. n
  PROVE  LET m == Min((1 .. n) \ S) IN
         /\ m \in 1 .. n /\ m \notin S
         /\ S = 1 .. m - 1 /\ S \cup {m} = 1 .. m
         /\ S \cup {m} \in Prefixes(n)
<1>1. PICK k \in 0 .. n : S = 1 .. k
  BY DEF Prefixes
<1> DEFINE R == (1 .. n) \ S
<1>2. /\ k + 1 \in R /\ k + 1 \in Nat /\ R \subseteq Nat
      /\ k + 1 \in 1 .. n /\ \A y \in R : k + 1 =< y
  BY <1>1
<1> HIDE DEF R
<1>3. Min(R) = k + 1
  BY <1>2, MinIs
<1>4. S \cup {k + 1} = 1 .. k + 1
  BY <1>1
<1>5. k + 1 \notin S /\ S = 1 .. (k + 1) - 1
  BY <1>1
<1>6. S \cup {k + 1} \in Prefixes(n)
  BY <1>2, <1>4 DEF Prefixes
<1>7. QED
  BY <1>2, <1>3, <1>4, <1>5, <1>6 DEF R

LEMMA PrefixGrows ==
  ASSUME NEW n \in Nat, NEW S \in Prefixes(n), S # 1 .. n,
         NEW T \in Prefixes(n), S \subseteq T
  PROVE  T \cup {Min((1 .. n) \ S)} \in Prefixes(n)
<1> DEFINE m == Min((1 .. n) \ S)
<1>1. PICK k \in 0 .. n : T = 1 .. k
  BY DEF Prefixes
<1>2. m \in 1 .. n /\ S = 1 .. m - 1
  BY NextOfPrefix
<1> HIDE DEF m
<1>3. m =< k + 1
  BY <1>1, <1>2
<1>4. CASE m \in T
  <2>1. T \cup {m} = T
    BY <1>4
  <2>2. QED
    BY <2>1 DEF m
<1>5. CASE m \notin T
  <2>1. m = k + 1
    BY <1>1, <1>2, <1>3, <1>5
  <2>2. T \cup {m} = 1 .. m /\ m \in 0 .. n
    BY <1>1, <1>2, <2>1
  <2>3. QED
    BY <2>2 DEF Prefixes, m
<1>6. QED
  BY <1>4, <1>5

LEMMA PrefixClosed ==
  ASSUME NEW n \in Nat, NEW S \in Prefixes(n)
  PROVE  S \subseteq 1 .. n /\ \A m \in S : 1 .. m \subseteq S
BY DEF Prefixes

LEMMA EmptyPrefix == \A n \in Nat : {} \in Prefixes(n)
<1>1. 1 .. 0 = {}
  OBVIOUS
<1>2. QED
  BY <1>1 DEF Prefixes

\* Ranks are given out without gaps.
LEMMA NextRankIs ==
  ASSUME HistoryFits, TypeOK
  PROVE  /\ Cardinality(Ranks) \in Nat
         /\ NextRank = Cardinality(Ranks) + 1
<1> DEFINE c == Cardinality(Ranks)
<1>1. Ranks \subseteq Nat /\ Ranks = 1 .. c
  BY DEF HistoryFits, TypeOK, Ranks
<1>2. IsFiniteSet(Ranks)
  BY DEF HistoryFits
<1>3. c \in Nat
  BY <1>2, FS_CardinalityType
<1>4. history = {} <=> Ranks = {}
  BY DEF Ranks
<1> HIDE DEF c
<1>5. CASE history = {}
  <2>1. c = 0
    BY <1>1, <1>3, <1>4, <1>5
  <2>2. QED
    BY <1>5, <2>1 DEF NextRank, c
<1>6. CASE history # {}
  <2>1. c \in Ranks
    BY <1>1, <1>3, <1>4, <1>6
  <2>2. \A y \in Ranks : c >= y
    BY <1>1, <1>3
  <2>3. Max(Ranks) = c
    BY <1>1, <1>3, <2>1, <2>2, MaxIs
  <2>4. QED
    BY <1>3, <1>6, <2>3 DEF NextRank, c
<1>7. QED
  BY <1>3, <1>5, <1>6 DEF c
-----------------------------------------------------------------------------
(* Quiet steps: no migration runs and none is recorded *)

\* The types of everything but the runs' own variables.
RestTypes ==
  /\ env \in Env \cup {None}
  /\ server \in {"down", "starting", "up"}
  /\ {admin, role, database, overlapped} \subseteq BOOLEAN
  /\ applied \subseteq Versions /\ usable \subseteq applied
  /\ history \subseteq (Nat \ {0}) \X Versions
  /\ seeded \subseteq Files
  /\ cut \subseteq CriticalSteps /\ denied \subseteq Runs

\* What is recorded has run, once at most unless it may run twice.
TrueHistory ==
  /\ Recorded \subseteq applied
  /\ \A e, f \in history : e[2] = f[2] /\ e[2] \notin Rerunnable => e = f

\* The part of the invariant that overlaps do not disturb.
Shape ==
  /\ TypeOK /\ HistoryFits /\ SeedsFit /\ FramesFit /\ OneRecorder
  /\ TrueHistory

LEMMA TypeOKRest ==
  TypeOK <=> /\ RestTypes
             /\ pc \in [Runs -> {"idle"} \cup Steps \cup Outcomes]
             /\ frame \in [Runs -> Frame]
BY DEF TypeOK, RestTypes

LEMMA NoRunType ==
  /\ NoRun \in Frame /\ NoRun.known = {} /\ NoRun.file = 1
  /\ NoRun.command = "setup"
<1>1. 1 \in Files /\ 0 \in 0 .. MaxPolls
  BY DbSetupAssumption DEF Files
<1>2. QED
  BY <1>1 DEF NoRun, Frame, Commands, Versions

LEMMA ChildType ==
  ASSUME NEW f \in Frame
  PROVE  /\ Child(f) \in Frame /\ Child(f).known = {} /\ Child(f).file = 1
         /\ Child(f).command = f.command
<1>1. NoRun \in Frame /\ f.command \in Commands /\ f.reseed \in BOOLEAN
  BY NoRunType DEF Frame
<1>2. QED
  BY <1>1, NoRunType DEF Child, Frame

\* Another run's knowledge stays true while no history is lost and no one
\* records the migration it is about to record.
LEMMA OthersFit ==
  ASSUME NEW q \in Runs, FrameFits(q), frame'[q] = frame[q], pc'[q] = pc[q],
         applied \subseteq applied', Recorded \subseteq Recorded',
         Cardinality(Ranks) \in Nat, Cardinality(Ranks') \in Nat,
         Cardinality(Ranks) =< Cardinality(Ranks'),
         server = "up" => server' = "up",
         pc[q] \in Recording /\ NextVersion(q) \in Recorded' =>
           NextVersion(q) \in Recorded \cup Rerunnable
  PROVE  FrameFits(q)'
<1>1. NextVersion(q)' = NextVersion(q)
  BY DEF NextVersion, Pending
<1>2. /\ frame[q].known \in Prefixes(Migrations)
      /\ frame[q].known \subseteq Recorded'
  BY DEF FrameFits
<1>3. pc[q] = "record" => frame[q].rank \in 1 .. Cardinality(Ranks') + 1
  BY DEF FrameFits
<1>4. QED
  BY <1>1, <1>2, <1>3 DEF FrameFits

LEMMA QuietShape ==
  ASSUME Shape, NEW r \in Runs, UNCHANGED <<applied, history>>, RestTypes',
         SeedsFit',
         NEW st \in {"idle"} \cup Steps \cup Outcomes, NEW f \in Frame,
         pc' = [pc EXCEPT ![r] = st], frame' = [frame EXCEPT ![r] = f],
         st \notin {"sql"} \cup Recording,
         f.known \in {frame[r].known, {}},
         server = "up" => server' = "up",
         st # "load" => f.file = 1,
         st \in Creating => server' = "up",
         st \in {"applied", "grant"} => f.command # "seed",
         st \in {"count", "truncate", "load"} => f.command # "migrate"
  PROVE  Shape'
<1>1. /\ TypeOK /\ HistoryFits /\ FramesFit /\ OneRecorder /\ TrueHistory
      /\ pc'[r] = st /\ frame'[r] = f
      /\ \A q \in Runs \ {r} : pc'[q] = pc[q] /\ frame'[q] = frame[q]
      /\ pc' \in [Runs -> {"idle"} \cup Steps \cup Outcomes]
      /\ frame' \in [Runs -> Frame]
  BY DEF Shape, TypeOK
<1>2. TypeOK'
  BY <1>1 DEF TypeOK, RestTypes
<1>3. Recorded' = Recorded /\ Ranks' = Ranks /\ Cardinality(Ranks) \in Nat
  BY <1>1, NextRankIs DEF Recorded, Ranks
<1>4. HistoryFits' /\ TrueHistory'
  BY <1>1, <1>3 DEF HistoryFits, TrueHistory
<1>5. FramesFit'
  <2> SUFFICES ASSUME NEW q \in Runs
               PROVE  FrameFits(q)'
    BY DEF FramesFit
  <2>1. CASE q # r
    BY <1>1, <1>3, <2>1, OthersFit DEF FramesFit
  <2>2. CASE q = r
    <3>1. f.known \in Prefixes(Migrations) /\ f.known \subseteq Recorded
      BY <1>1, EmptyPrefix, DbSetupAssumption DEF FramesFit, FrameFits
    <3>2. st \notin Recording /\ st # "sql" /\ st # "record"
      BY DEF Recording
    <3>3. QED
      BY <1>1, <1>3, <2>2, <3>1, <3>2 DEF FrameFits
  <2>3. QED
    BY <2>1, <2>2
<1>6. OneRecorder'
  <2> SUFFICES ASSUME NEW p \in Runs, NEW q \in Runs,
                      pc'[p] \in Recording, pc'[q] \in Recording,
                      NextVersion(p)' = NextVersion(q)',
                      NextVersion(q)' \notin Rerunnable
               PROVE  p = q
    BY DEF OneRecorder
  <2>1. p # r /\ q # r
    BY <1>1
  <2>2. NextVersion(p)' = NextVersion(p) /\ NextVersion(q)' = NextVersion(q)
    BY <1>1, <2>1 DEF NextVersion, Pending
  <2>3. pc[p] \in Recording /\ pc[q] \in Recording
    BY <1>1, <2>1
  <2>4. NextVersion(p) = NextVersion(q) /\ NextVersion(q) \notin Rerunnable
    BY <2>2
  <2>5. QED
    BY <1>1, <2>3, <2>4 DEF OneRecorder
<1>7. QED
  BY <1>2, <1>4, <1>5, <1>6 DEF Shape

\* A step that leaves the runs' own variables and the migrations alone.
LEMMA IdleShape ==
  ASSUME Shape, UNCHANGED <<applied, history, pc, frame>>, RestTypes',
         SeedsFit', server = "up" => server' = "up"
  PROVE  Shape'
<1>1. 1 \in Runs
  BY DbSetupAssumption DEF Runs
<1>2. /\ pc' = [pc EXCEPT ![1] = pc[1]] /\ frame' = [frame EXCEPT ![1] = frame[1]]
      /\ TypeOK /\ HistoryFits /\ FramesFit /\ OneRecorder /\ TrueHistory
  BY <1>1 DEF Shape, TypeOK
<1>3. TypeOK'
  BY <1>2 DEF TypeOK, RestTypes
<1>4. Recorded' = Recorded /\ Ranks' = Ranks /\ Cardinality(Ranks) \in Nat
  BY <1>2, NextRankIs DEF Recorded, Ranks
<1>5. \A q \in Runs : NextVersion(q)' = NextVersion(q)
  BY DEF NextVersion, Pending
<1>6. HistoryFits' /\ TrueHistory' /\ OneRecorder'
  BY <1>2, <1>4, <1>5 DEF HistoryFits, TrueHistory, OneRecorder
<1>7. FramesFit'
  BY <1>2, <1>4, OthersFit DEF FramesFit
<1>8. QED
  BY <1>3, <1>6, <1>7 DEF Shape

\* What Goto leaves in the variables of run r.
LEMMA GotoFrame ==
  ASSUME TypeOK, NEW r \in Runs, NEW st \in Steps \cup Outcomes, Goto(r, st)
  PROVE  LET f == FrameAt(st, frame[r]) IN
         /\ pc' = [pc EXCEPT ![r] = st] /\ frame' = [frame EXCEPT ![r] = f]
         /\ f \in Frame /\ pc'[r] = st /\ frame'[r] = f
         /\ f.known \in {frame[r].known, {}} /\ f.file \in {frame[r].file, 1}
         /\ st \in Outcomes => f.file = 1
         /\ st \in Steps => f.command = frame[r].command
         /\ st \in Steps \ {"connect"} => f = frame[r]
<1>1. /\ frame[r] \in Frame
      /\ st \in Steps => st \notin Outcomes
  BY DEF TypeOK, Frame, Steps, Outcomes
<1>2. LET f == FrameAt(st, frame[r]) IN
      /\ f \in Frame
      /\ f.known \in {frame[r].known, {}} /\ f.file \in {frame[r].file, 1}
      /\ st \in Outcomes => f.file = 1
      /\ st \in Steps => f.command = frame[r].command
      /\ st \in Steps \ {"connect"} => f = frame[r]
  <2>1. CASE st \in Outcomes
    <3>1. FrameAt(st, frame[r]) = NoRun /\ st \notin Steps
      BY <1>1, <2>1 DEF FrameAt, Steps, Outcomes
    <3>2. QED
      BY <3>1, NoRunType
  <2>2. CASE st = "connect"
    <3>1. st \notin Outcomes
      BY <2>2 DEF Outcomes
    <3>2. FrameAt(st, frame[r]) = Child(frame[r])
      BY <2>2, <3>1 DEF FrameAt, Outcomes
    <3>3. QED
      BY <1>1, <2>2, <3>1, <3>2, ChildType
  <2>3. CASE st # "connect" /\ st \notin Outcomes
    <3>1. FrameAt(st, frame[r]) = frame[r]
      BY <2>3 DEF FrameAt
    <3>2. QED
      BY <1>1, <2>3, <3>1
  <2>4. QED
    BY <2>1, <2>2, <2>3
<1>3. QED
  BY <1>2 DEF Goto, TypeOK

LEMMA GotoShape ==
  ASSUME Shape, NEW r \in Runs, UNCHANGED <<applied, history>>, RestTypes',
         SeedsFit', NEW st \in Steps \cup Outcomes, Goto(r, st),
         st \notin {"sql"} \cup Recording,
         server = "up" => server' = "up",
         st \in Outcomes \/ pc[r] # "load",
         st \in Creating => server' = "up",
         st \in {"applied", "grant"} => frame[r].command # "seed",
         st \in {"count", "truncate", "load"} => frame[r].command # "migrate"
  PROVE  Shape'
<1> DEFINE f == FrameAt(st, frame[r])
<1>1. TypeOK /\ FrameFits(r)
  BY DEF Shape, FramesFit
<1>2. /\ pc' = [pc EXCEPT ![r] = st] /\ frame' = [frame EXCEPT ![r] = f]
      /\ f \in Frame /\ f.known \in {frame[r].known, {}}
      /\ f.file \in {frame[r].file, 1} /\ (st \in Outcomes => f.file = 1)
      /\ st \in Steps => f.command = frame[r].command
  BY <1>1, GotoFrame
<1>3. f.file = 1
  BY <1>1, <1>2 DEF FrameFits
<1>4. /\ st \in {"applied", "grant"} => f.command # "seed"
      /\ st \in {"count", "truncate", "load"} => f.command # "migrate"
  BY <1>2 DEF Steps
<1> HIDE DEF f
<1>5. QED
  BY <1>2, <1>3, <1>4, QuietShape

LEMMA StartShape ==
  ASSUME Shape, NEW r \in Runs, NEW wrapped \in BOOLEAN, NEW reseed \in BOOLEAN,
         NEW command \in Commands, Start(r, wrapped, command, reseed)
  PROVE  Shape'
<1> DEFINE st == IF wrapped THEN "env" ELSE "loadEnv"
           f == [NoRun EXCEPT !.wrapped = wrapped, !.command = command,
                              !.reseed = reseed]
<1>1. /\ pc' = [pc EXCEPT ![r] = st] /\ frame' = [frame EXCEPT ![r] = f]
      /\ UNCHANGED <<env, server, admin, db>>
      /\ overlapped' = (overlapped \/ UnderWay # {})
      /\ cut' \in {cut, {}} /\ denied' \in {denied, {}}
  BY DEF Start
<1>2. f \in Frame /\ f.known = {} /\ f.file = 1
  BY NoRunType DEF Frame
<1>3. /\ st \in Steps /\ st \in {"env", "loadEnv"}
      /\ st \notin {"sql"} \cup Recording \cup Creating
  BY DEF Steps, Recording, Creating
<1>4. RestTypes' /\ SeedsFit' /\ UNCHANGED <<applied, history>>
  BY <1>1 DEF Shape, TypeOK, RestTypes, SeedsFit, db
<1> HIDE DEF st, f
<1>5. QED
  BY <1>1, <1>2, <1>3, <1>4, QuietShape

LEMMA EnvTypes ==
  /\ Example \in Env /\ Example.password
  /\ \A b \in BOOLEAN : Torn(b) \subseteq Env
<1>1. \A secret \in Runs \cup {Placeholder, None}, b \in BOOLEAN :
        [secret |-> secret, password |-> b] \in Env
  BY DEF Env
<1>2. \A b \in BOOLEAN : Torn(b) \subseteq Env
  BY DEF Torn, Env
<1>3. QED
  BY <1>1, <1>2 DEF Example

LEMMA CopyEnvShape ==
  ASSUME Shape, NEW r \in Runs, FindNoEnv(r) \/ CopyEnv(r) \/ FillCopy(r)
  PROVE  Shape'
<1>1. PICK st \in {"copyEnv", "fillCopy", "env"} : Goto(r, st)
  BY DEF FindNoEnv, CopyEnv, FillCopy
<1>2. env' \in Env \cup {None}
  BY EnvTypes DEF FindNoEnv, CopyEnv, FillCopy, Shape, TypeOK
<1>3. /\ RestTypes' /\ SeedsFit' /\ UNCHANGED <<applied, history, server>>
      /\ pc[r] # "load"
  BY <1>2 DEF FindNoEnv, CopyEnv, FillCopy, Shape, TypeOK, RestTypes, SeedsFit, db
<1>4. QED
  BY <1>1, <1>3, GotoShape DEF Steps, Outcomes, Recording, Creating

LEMMA ReadEnvShape ==
  ASSUME Shape, NEW r \in Runs, ReadEnv(r)
  PROVE  Shape'
<1> DEFINE st == IF SecretIsGood(r) THEN "loadEnv" ELSE "clearEnv"
           f == [frame[r] EXCEPT !.password = env.password]
<1>1. /\ pc[r] = "env" /\ frame[r] \in Frame /\ FrameFits(r)
      /\ pc' = [pc EXCEPT ![r] = st] /\ frame' = [frame EXCEPT ![r] = f]
      /\ env.password \in BOOLEAN
  BY DEF ReadEnv, Shape, FramesFit, TypeOK, Env
<1>2. f \in Frame /\ f.known = frame[r].known /\ f.file = 1
  BY <1>1 DEF Frame, FrameFits
<1>3. /\ st \in Steps /\ st \in {"loadEnv", "clearEnv"}
      /\ st \notin {"sql"} \cup Recording \cup Creating
  BY DEF Steps, Recording, Creating
<1>4. RestTypes' /\ SeedsFit' /\ UNCHANGED <<applied, history, server>>
  BY DEF ReadEnv, Shape, TypeOK, RestTypes, SeedsFit, db
<1> HIDE DEF st, f
<1>5. QED
  BY <1>1, <1>2, <1>3, <1>4, QuietShape

LEMMA WriteEnvShape ==
  ASSUME Shape, NEW r \in Runs, ClearEnv(r) \/ FillEnv(r)
  PROVE  Shape'
<1>1. PICK st \in {"fillEnv", "loadEnv"} : Goto(r, st)
  BY DEF ClearEnv, FillEnv
<1>2. env' \in Env
  <2>1. frame[r].password \in BOOLEAN
    BY DEF Shape, TypeOK, Frame
  <2>2. \A b \in BOOLEAN : [secret |-> r, password |-> b] \in Env
    BY DEF Env
  <2>3. QED
    BY <2>1, <2>2, EnvTypes DEF ClearEnv, FillEnv, Upserted
<1>3. RestTypes' /\ SeedsFit' /\ UNCHANGED <<applied, history, server>>
  BY <1>2 DEF ClearEnv, FillEnv, Shape, TypeOK, RestTypes, SeedsFit, db
<1>4. pc[r] # "load"
  BY DEF ClearEnv, FillEnv
<1>5. QED
  BY <1>1, <1>3, <1>4, GotoShape DEF Steps, Recording, Creating

LEMMA LoadEnvShape ==
  ASSUME Shape, NEW r \in Runs, LoadEnv(r)
  PROVE  Shape'
<1>1. PICK st \in {"refused", "probe", "connect"} : Goto(r, st)
  BY DEF LoadEnv
<1>2. /\ RestTypes' /\ SeedsFit' /\ UNCHANGED <<applied, history, server>>
      /\ pc[r] # "load"
  BY DEF LoadEnv, Shape, TypeOK, RestTypes, SeedsFit, db
<1>3. QED
  BY <1>1, <1>2, GotoShape DEF Steps, Outcomes, Recording, Creating

LEMMA ProbeShape ==
  ASSUME Shape, NEW r \in Runs, Probe(r)
  PROVE  Shape'
<1>1. PICK st \in {"connect", "refused", "poll"} : Goto(r, st)
  BY DEF Probe
<1>2. /\ RestTypes' /\ SeedsFit' /\ UNCHANGED <<applied, history>>
      /\ server = "up" => server' = "up"
      /\ pc[r] # "load"
  BY DEF Probe, Shape, TypeOK, RestTypes, SeedsFit, db
<1>3. QED
  BY <1>1, <1>2, GotoShape DEF Steps, Outcomes, Recording, Creating

LEMMA PollShape ==
  ASSUME Shape, NEW r \in Runs, Poll(r)
  PROVE  Shape'
<1>1. /\ RestTypes' /\ SeedsFit' /\ UNCHANGED <<applied, history, server>>
      /\ pc[r] = "poll"
  BY DEF Poll, Shape, TypeOK, RestTypes, SeedsFit, db
<1>2. ASSUME Goto(r, "connect") \/ Goto(r, "refused")
      PROVE  Shape'
  BY <1>1, <1>2, GotoShape DEF Steps, Outcomes, Recording, Creating
<1>3. ASSUME TimeIsLeft(r), frame' = [frame EXCEPT ![r].polls = @ + 1],
             pc' = pc
      PROVE  Shape'
  <2> DEFINE f == [frame[r] EXCEPT !.polls = frame[r].polls + 1]
  <2>1. /\ frame[r] \in Frame /\ FrameFits(r)
        /\ pc' = [pc EXCEPT ![r] = "poll"] /\ frame' = [frame EXCEPT ![r] = f]
    BY <1>1, <1>3 DEF Shape, FramesFit, TypeOK
  <2>2. f \in Frame /\ f.known = frame[r].known /\ f.file = 1
    BY <1>1, <1>3, <2>1, DbSetupAssumption DEF Frame, FrameFits, TimeIsLeft
  <2> HIDE DEF f
  <2>3. QED
    BY <1>1, <2>1, <2>2, QuietShape DEF Steps, Recording, Creating
<1>4. QED
  BY <1>2, <1>3 DEF Poll

LEMMA ServerUpShape ==
  ASSUME Shape, ServerUp
  PROVE  Shape'
<1>1. RestTypes' /\ SeedsFit' /\ UNCHANGED <<applied, history, pc, frame>>
  BY DEF ServerUp, Shape, TypeOK, RestTypes, SeedsFit
<1>2. QED
  BY <1>1, IdleShape DEF ServerUp

LEMMA ConnectShape ==
  ASSUME Shape, NEW r \in Runs, Connect(r)
  PROVE  Shape'
<1>1. PICK st \in {"refused", "findDatabase", "work"} :
        Goto(r, st) /\ (st = "findDatabase" => server = "up")
  BY DEF Connect
<1>2. /\ RestTypes' /\ SeedsFit' /\ UNCHANGED <<applied, history, server>>
      /\ pc[r] # "load"
  BY DEF Connect, Shape, TypeOK, RestTypes, SeedsFit, db
<1>3. QED
  BY <1>1, <1>2, GotoShape DEF Steps, Outcomes, Recording, Creating

LEMMA CreateShape ==
  ASSUME Shape, NEW r \in Runs,
         \/ FindDatabase(r) \/ FindRole(r) \/ CreateRole(r) \/ CreateDatabase(r)
  PROVE  Shape'
<1>1. PICK st \in {"findRole", "createRole", "createDatabase", "work", "conflict"} :
        Goto(r, st)
  BY DEF FindDatabase, FindRole, CreateRole, CreateDatabase
<1>2. /\ RestTypes' /\ SeedsFit' /\ UNCHANGED <<applied, history, server>>
      /\ pc[r] # "load"
  BY DEF FindDatabase, FindRole, CreateRole, CreateDatabase, Shape, TypeOK,
     RestTypes, SeedsFit, db
<1>3. server = "up"
  BY DEF FindDatabase, FindRole, CreateRole, CreateDatabase, Shape, FramesFit,
     FrameFits, Creating
<1>4. QED
  BY <1>1, <1>2, <1>3, GotoShape DEF Steps, Outcomes, Recording, Creating

\* The frame of a run that has opened the connection it works with.
LEMMA WorkFrame ==
  ASSUME TypeOK, NEW r \in Runs, ConnectForWork(r)
  PROVE  \E f \in Frame :
           /\ frame' = [frame EXCEPT ![r] = f] /\ frame'[r] = f
           /\ f.known = frame[r].known /\ f.file = frame[r].file
           /\ f.command = frame[r].command
<1>1. PICK asAdmin \in BOOLEAN : frame' = [frame EXCEPT ![r].asAdmin = asAdmin]
  BY DEF ConnectForWork, TypeOK
<1> DEFINE f == [frame[r] EXCEPT !.asAdmin = asAdmin]
<1>2. /\ f \in Frame /\ f.known = frame[r].known /\ f.file = frame[r].file
      /\ f.command = frame[r].command
  BY DEF TypeOK, Frame
<1>3. frame' = [frame EXCEPT ![r] = f] /\ frame'[r] = f
  BY <1>1 DEF TypeOK
<1>4. QED
  BY <1>2, <1>3

LEMMA ConnectForWorkShape ==
  ASSUME Shape, NEW r \in Runs, ConnectForWork(r)
  PROVE  Shape'
<1> DEFINE st == IF frame[r].command = "seed" THEN "count" ELSE "applied"
<1>1. TypeOK /\ FrameFits(r)
  BY DEF Shape, FramesFit
<1>2. PICK f \in Frame :
        /\ frame' = [frame EXCEPT ![r] = f]
        /\ f.known = frame[r].known /\ f.file = frame[r].file
        /\ f.command = frame[r].command
  BY <1>1, WorkFrame
<1>3. /\ RestTypes' /\ SeedsFit' /\ UNCHANGED <<applied, history, server>>
      /\ pc[r] = "work" /\ pc' = [pc EXCEPT ![r] = st]
  BY DEF ConnectForWork, Shape, TypeOK, RestTypes, SeedsFit, db
<1>4. f.file = 1
  BY <1>1, <1>2, <1>3 DEF FrameFits
<1>5. /\ st \in Steps /\ st \in {"count", "applied"}
      /\ st = "count" => f.command = "seed"
      /\ st = "applied" => f.command # "seed"
  BY <1>2 DEF Steps
<1> HIDE DEF st
<1>6. st \notin {"sql"} \cup Recording /\ st \notin Creating
  BY <1>5 DEF Recording, Creating
<1>7. QED
  BY <1>2, <1>3, <1>4, <1>5, <1>6, QuietShape

LEMMA GrantShape ==
  ASSUME Shape, NEW r \in Runs, Grant(r) \/ GrantInVain(r)
  PROVE  Shape'
<1>1. PICK st \in {"count", "done"} :
        Goto(r, st) /\ (st = "count" => frame[r].command = "setup")
  BY DEF Grant, GrantInVain, AfterGrant
<1>2. /\ RestTypes' /\ SeedsFit' /\ UNCHANGED <<applied, history, server>>
      /\ pc[r] # "load"
  BY DEF Grant, GrantInVain, Noted, Shape, TypeOK, RestTypes, SeedsFit
<1>3. QED
  BY <1>1, <1>2, GotoShape DEF Steps, Outcomes, Recording, Creating

LEMMA CountShape ==
  ASSUME Shape, NEW r \in Runs, Count(r)
  PROVE  Shape'
<1>1. PICK st \in {"done", "truncate", "load"} : Goto(r, st)
  BY DEF Count
<1>2. /\ RestTypes' /\ SeedsFit' /\ UNCHANGED <<applied, history, server>>
      /\ pc[r] = "count"
  BY DEF Count, Shape, TypeOK, RestTypes, SeedsFit, db
<1>3. frame[r].command # "migrate"
  BY <1>2 DEF Shape, FramesFit, FrameFits
<1>4. QED
  BY <1>1, <1>2, <1>3, GotoShape DEF Steps, Outcomes, Recording, Creating

LEMMA TruncateShape ==
  ASSUME Shape, NEW r \in Runs, Truncate(r)
  PROVE  Shape'
<1>1. PICK st \in {"load", "conflict"} : Goto(r, st)
  BY DEF Truncate
<1>2. /\ RestTypes' /\ SeedsFit' /\ UNCHANGED <<applied, history, server>>
      /\ pc[r] = "truncate"
  BY DEF Truncate, Shape, TypeOK, RestTypes, SeedsFit
<1>3. frame[r].command # "migrate"
  BY <1>2 DEF Shape, FramesFit, FrameFits
<1>4. QED
  BY <1>1, <1>2, <1>3, GotoShape DEF Steps, Outcomes, Recording, Creating

LEMMA LoadShape ==
  ASSUME Shape, NEW r \in Runs, Load(r)
  PROVE  Shape'
<1> DEFINE k == frame[r].file
           f == [frame[r] EXCEPT !.file = k + 1]
<1>1. /\ pc[r] = "load" /\ frame[r] \in Frame /\ k \in Files
      /\ frame[r].command # "migrate"
      /\ UNCHANGED <<env, server, admin, role, database, applied, history, usable,
                     cut, denied, overlapped>>
  BY DEF Load, Shape, FramesFit, FrameFits, TypeOK, Frame
<1>2. /\ seeded' \subseteq Files /\ SeedsFit'
      /\ \/ k < SeedFiles /\ frame' = [frame EXCEPT ![r].file = k + 1] /\ pc' = pc
         \/ Goto(r, "done") \/ Goto(r, "conflict")
  BY <1>1 DEF Load, Shape, TypeOK, SeedsFit
<1>3. RestTypes'
  BY <1>1, <1>2 DEF Shape, TypeOK, RestTypes
<1>4. ASSUME Goto(r, "done") \/ Goto(r, "conflict")
      PROVE  Shape'
  BY <1>1, <1>2, <1>3, <1>4, GotoShape DEF Steps, Outcomes, Recording, Creating
<1>5. ASSUME k < SeedFiles, frame' = [frame EXCEPT ![r].file = k + 1], pc' = pc
      PROVE  Shape'
  <2>1. /\ pc' = [pc EXCEPT ![r] = "load"] /\ frame' = [frame EXCEPT ![r] = f]
    BY <1>1, <1>5 DEF Shape, TypeOK
  <2>2. f \in Frame /\ f.known = frame[r].known /\ f.command = frame[r].command
    BY <1>1, <1>5, DbSetupAssumption DEF Frame, Files
  <2> HIDE DEF f, k
  <2>3. QED
    BY <1>1, <1>2, <1>3, <2>1, <2>2, QuietShape DEF Steps, Recording, Creating
<1>6. QED
  BY <1>2, <1>4, <1>5

LEMMA AbortShape ==
  ASSUME Shape, NEW r \in Runs, Abort(r)
  PROVE  Shape'
<1>1. /\ RestTypes' /\ SeedsFit' /\ UNCHANGED <<applied, history, server>>
      /\ Goto(r, "aborted")
  BY DEF Abort, Noted, Shape, TypeOK, RestTypes, SeedsFit, db
<1>2. QED
  BY <1>1, GotoShape DEF Outcomes, Recording, Creating
-----------------------------------------------------------------------------
(* Migrations *)

LEMMA NextVersionIs ==
  ASSUME Shape, NEW r \in Runs, frame[r].known # Versions
  PROVE  LET m == NextVersion(r) IN
         /\ m \in Versions /\ m \notin frame[r].known
         /\ frame[r].known = 1 .. m - 1
         /\ frame[r].known \cup {m} = 1 .. m
         /\ frame[r].known \cup {m} \in Prefixes(Migrations)
         /\ applied \cup {m} \in Prefixes(Migrations)
         /\ Recorded \cup {m} \in Prefixes(Migrations)
<1>1. /\ frame[r].known \in Prefixes(Migrations)
      /\ frame[r].known \subseteq Recorded /\ Recorded \subseteq applied
      /\ applied \in Prefixes(Migrations) /\ Recorded \in Prefixes(Migrations)
      /\ Migrations \in Nat
  BY DbSetupAssumption
     DEF Shape, FramesFit, FrameFits, HistoryFits, TrueHistory
<1>2. QED
  BY <1>1, NextOfPrefix, PrefixGrows DEF NextVersion, Pending, Versions

\* A step that moves run r on among the migrations and records none.
LEMMA MigrationShape ==
  ASSUME Shape, NEW r \in Runs, RestTypes', SeedsFit',
         history' = history, server' = server, applied \subseteq applied',
         applied' \in Prefixes(Migrations),
         NEW st \in {"sql", "grant"} \cup Recording, NEW f \in Frame,
         pc' = [pc EXCEPT ![r] = st], frame' = [frame EXCEPT ![r] = f],
         f.known \in Prefixes(Migrations), f.known \subseteq Recorded,
         st # "grant" => f.known # Versions,
         f.file = 1, f.command # "seed",
         st \in Recording =>
           LET m == Min(Versions \ f.known) IN
           /\ m \in applied' /\ (m \in Recorded => m \in Rerunnable)
           /\ \A q \in Runs \ {r} : pc[q] \in Recording /\ m = NextVersion(q) =>
                m \in Rerunnable,
         st = "record" => f.rank \in 1 .. Cardinality(Ranks) + 1
  PROVE  Shape'
<1>1. /\ TypeOK /\ HistoryFits /\ FramesFit /\ OneRecorder /\ TrueHistory
      /\ pc'[r] = st /\ frame'[r] = f
      /\ \A q \in Runs \ {r} : pc'[q] = pc[q] /\ frame'[q] = frame[q]
      /\ st \in Steps
      /\ pc' \in [Runs -> {"idle"} \cup Steps \cup Outcomes]
      /\ frame' \in [Runs -> Frame]
  BY DEF Shape, TypeOK, Steps, Recording
<1>2. TypeOK'
  BY <1>1 DEF TypeOK, RestTypes
<1>3. Recorded' = Recorded /\ Ranks' = Ranks /\ Cardinality(Ranks) \in Nat
  BY <1>1, NextRankIs DEF Recorded, Ranks
<1>4. HistoryFits' /\ TrueHistory'
  BY <1>1, <1>3 DEF HistoryFits, TrueHistory
<1>5. \A q \in Runs \ {r} : NextVersion(q)' = NextVersion(q)
  BY <1>1 DEF NextVersion, Pending
<1>6. NextVersion(r)' = Min(Versions \ f.known)
  BY <1>1 DEF NextVersion, Pending
<1>7. FramesFit'
  <2> SUFFICES ASSUME NEW q \in Runs
               PROVE  FrameFits(q)'
    BY DEF FramesFit
  <2>1. CASE q # r
    BY <1>1, <1>3, <2>1, OthersFit DEF FramesFit
  <2>2. CASE q = r
    <3>1. /\ pc'[r] \notin Creating
          /\ pc'[r] \notin {"count", "truncate", "load"}
      BY <1>1 DEF Recording, Creating
    <3>2. pc'[r] \in {"sql"} \cup Recording => f.known # Versions
      BY <1>1 DEF Recording
    <3>3. FrameFits(r)'
      BY <1>1, <1>3, <1>6, <3>1, <3>2 DEF FrameFits
    <3>4. QED
      BY <2>2, <3>3
  <2>3. QED
    BY <2>1, <2>2
<1>8. OneRecorder'
  <2> SUFFICES ASSUME NEW p \in Runs, NEW q \in Runs,
                      pc'[p] \in Recording, pc'[q] \in Recording,
                      NextVersion(p)' = NextVersion(q)',
                      NextVersion(q)' \notin Rerunnable
               PROVE  p = q
    BY DEF OneRecorder
  <2>1. CASE p # r /\ q # r
    <3>1. pc[p] \in Recording /\ pc[q] \in Recording
      BY <1>1, <2>1
    <3>2. NextVersion(p) = NextVersion(q) /\ NextVersion(q) \notin Rerunnable
      BY <1>5, <2>1
    <3>3. QED
      BY <1>1, <3>1, <3>2 DEF OneRecorder
  <2>2. CASE p = r /\ q # r
    <3>1. pc[q] \in Recording /\ st \in Recording
      BY <1>1, <2>2
    <3>2. Min(Versions \ f.known) = NextVersion(q) /\ NextVersion(q) \notin Rerunnable
      BY <1>5, <1>6, <2>2
    <3>3. QED
      BY <2>2, <3>1, <3>2
  <2>3. CASE p # r /\ q = r
    <3>1. pc[p] \in Recording /\ st \in Recording
      BY <1>1, <2>3
    <3>2. Min(Versions \ f.known) = NextVersion(p) /\ NextVersion(p) \notin Rerunnable
      BY <1>5, <1>6, <2>3
    <3>3. QED
      BY <2>3, <3>1, <3>2
  <2>4. QED
    BY <2>1, <2>2, <2>3
<1>9. QED
  BY <1>2, <1>4, <1>7, <1>8 DEF Shape

LEMMA ReadAppliedShape ==
  ASSUME Shape, NEW r \in Runs, ReadApplied(r)
  PROVE  Shape'
<1> DEFINE f == [frame[r] EXCEPT !.known = Recorded]
           st == NextMigration(Recorded)
<1>1. /\ pc[r] = "applied" /\ frame[r] \in Frame /\ FrameFits(r)
      /\ pc' = [pc EXCEPT ![r] = st] /\ frame' = [frame EXCEPT ![r] = f]
      /\ UNCHANGED <<env, server, admin, db, cut, denied, overlapped>>
  BY DEF ReadApplied, Shape, FramesFit, TypeOK
<1>2. /\ RestTypes' /\ SeedsFit' /\ history' = history /\ server' = server
      /\ applied' = applied
  BY <1>1 DEF Shape, TypeOK, RestTypes, SeedsFit, db
<1>3. Recorded \in Prefixes(Migrations) /\ applied \in Prefixes(Migrations)
  BY DEF Shape, HistoryFits
<1>4. Recorded \subseteq Versions
  BY <1>3, PrefixClosed, DbSetupAssumption DEF Versions
<1>5. /\ f \in Frame /\ f.known = Recorded /\ f.file = 1 /\ f.command # "seed"
  BY <1>1, <1>4 DEF Frame, FrameFits
<1>6. st \in {"sql", "grant"} /\ (st = "sql" => Recorded # Versions)
  BY DEF NextMigration
<1> HIDE DEF f, st
<1>7. st \notin Recording /\ st \in {"sql", "grant"} \cup Recording
  BY <1>6 DEF Recording
<1>8. QED
  BY <1>1, <1>2, <1>3, <1>5, <1>6, <1>7, MigrationShape

LEMMA RunSqlShape ==
  ASSUME Shape, NEW r \in Runs, RunSql(r)
  PROVE  Shape'
<1> DEFINE m == NextVersion(r)
<1>1. /\ pc[r] = "sql" /\ frame[r] \in Frame /\ FrameFits(r)
      /\ UNCHANGED <<env, server, admin, role, database, history, seeded, cut,
                     denied, overlapped>>
  BY DEF RunSql, Shape, FramesFit, TypeOK
<1>2. /\ frame[r].known # Versions /\ frame[r].command # "seed"
      /\ frame[r].file = 1 /\ frame[r].known \in Prefixes(Migrations)
      /\ frame[r].known \subseteq Recorded
  BY <1>1 DEF FrameFits
<1>3. CASE applied' = applied /\ usable' = usable /\ Goto(r, "conflict")
  <2>1. RestTypes' /\ SeedsFit'
    BY <1>1, <1>3 DEF Shape, TypeOK, RestTypes, SeedsFit
  <2>2. QED
    BY <1>1, <1>3, <2>1, GotoShape DEF Outcomes, Recording, Creating
<1>4. CASE /\ m \notin applied \ Rerunnable /\ applied' = applied \cup {m}
           /\ usable' \in {usable, usable \cup {m}}
           /\ Goto(r, "rank")
  <2>1. m \in Versions /\ applied \cup {m} \in Prefixes(Migrations)
    BY <1>2, NextVersionIs
  <2>2. RestTypes' /\ SeedsFit'
    BY <1>1, <1>4, <2>1 DEF Shape, TypeOK, RestTypes, SeedsFit
  <2>3. pc' = [pc EXCEPT ![r] = "rank"] /\ frame' = [frame EXCEPT ![r] = frame[r]]
    BY <1>4, GotoFrame DEF Shape, Steps
  <2>4. m = Min(Versions \ frame[r].known)
    BY DEF NextVersion, Pending
  <2>5. m \in Recorded => m \in Rerunnable
    BY <1>4 DEF Shape, TrueHistory
  <2>6. \A q \in Runs \ {r} : pc[q] \in Recording /\ m = NextVersion(q) =>
          m \in Rerunnable
    BY <1>4 DEF Shape, FramesFit, FrameFits
  <2> HIDE DEF m
  <2>7. QED
    BY <1>1, <1>2, <1>4, <2>1, <2>2, <2>3, <2>4, <2>5, <2>6, MigrationShape
       DEF Recording
<1>5. QED
  BY <1>3, <1>4 DEF RunSql

LEMMA ReadRankShape ==
  ASSUME Shape, NEW r \in Runs, ReadRank(r)
  PROVE  Shape'
<1> DEFINE m == NextVersion(r)
           f == [frame[r] EXCEPT !.rank = NextRank]
<1>1. /\ pc[r] = "rank" /\ frame[r] \in Frame /\ FrameFits(r)
      /\ pc' = [pc EXCEPT ![r] = "record"] /\ frame' = [frame EXCEPT ![r] = f]
      /\ UNCHANGED <<env, server, admin, db, cut, denied, overlapped>>
  BY DEF ReadRank, Shape, FramesFit, TypeOK
<1>2. /\ RestTypes' /\ SeedsFit' /\ history' = history /\ server' = server
      /\ applied' = applied
  BY <1>1 DEF Shape, TypeOK, RestTypes, SeedsFit, db
<1>3. Cardinality(Ranks) \in Nat /\ NextRank = Cardinality(Ranks) + 1
  BY NextRankIs DEF Shape
<1>4. /\ f \in Frame /\ f.known = frame[r].known /\ f.file = frame[r].file
      /\ f.command = frame[r].command /\ f.rank \in 1 .. Cardinality(Ranks) + 1
  BY <1>1, <1>3 DEF Frame
<1>5. /\ frame[r].known # Versions /\ frame[r].command # "seed"
      /\ frame[r].file = 1 /\ frame[r].known \in Prefixes(Migrations)
      /\ frame[r].known \subseteq Recorded
      /\ m \in applied /\ (m \in Recorded => m \in Rerunnable)
  BY <1>1 DEF FrameFits, Recording
<1>6. m = Min(Versions \ frame[r].known)
  BY DEF NextVersion, Pending
<1>7. \A q \in Runs \ {r} : pc[q] \in Recording /\ m = NextVersion(q) =>
        m \in Rerunnable
  BY <1>1 DEF Shape, OneRecorder, Recording
<1>8. applied \in Prefixes(Migrations)
  BY DEF Shape, HistoryFits
<1> HIDE DEF m, f
<1>9. QED
  BY <1>1, <1>2, <1>4, <1>5, <1>6, <1>7, <1>8, MigrationShape DEF Recording

\* What a record adds.
LEMMA RecordAdds ==
  ASSUME Shape, NEW r \in Runs, pc[r] = "record", frame[r].rank \notin Ranks,
         history' = history \cup {<<frame[r].rank, NextVersion(r)>>}
  PROVE  /\ frame[r].rank = Cardinality(Ranks) + 1
         /\ Recorded' = Recorded \cup {NextVersion(r)}
         /\ Ranks' = 1 .. Cardinality(Ranks) + 1
         /\ Ranks' = Ranks \cup {frame[r].rank}
         /\ IsFiniteSet(Ranks')
         /\ Cardinality(Ranks') = Cardinality(Ranks) + 1
         /\ history' \subseteq (Nat \ {0}) \X Versions
<1> DEFINE c == Cardinality(Ranks)
           m == NextVersion(r)
           rank == frame[r].rank
<1>1. c \in Nat /\ Ranks = 1 .. c /\ history \subseteq (Nat \ {0}) \X Versions
  BY NextRankIs DEF Shape, HistoryFits, TypeOK
<1>2. rank \in 1 .. c + 1 /\ frame[r].known # Versions
  BY DEF Shape, FramesFit, FrameFits, Recording
<1>3. m \in Versions
  BY <1>2, NextVersionIs
<1>4. /\ Recorded' = Recorded \cup {m}
      /\ Ranks' = Ranks \cup {rank}
  <2> DEFINE new == <<rank, m>>
  <2>1. new[1] = rank /\ new[2] = m /\ history' = history \cup {new}
    OBVIOUS
  <2> HIDE DEF new, rank, m
  <2>2. Recorded' = Recorded \cup {m}
    BY <2>1 DEF Recorded
  <2>3. Ranks' = Ranks \cup {rank}
    BY <2>1 DEF Ranks
  <2>4. QED
    BY <2>2, <2>3
<1> HIDE DEF c, m, rank
<1>5. rank = c + 1
  BY <1>1, <1>2 DEF c, rank
<1>6. Ranks' = 1 .. c + 1
  BY <1>1, <1>4, <1>5
<1>7. IsFiniteSet(1 .. c + 1) /\ Cardinality(1 .. c + 1) = c + 1
  BY <1>1, FS_Interval
<1>8. history' \subseteq (Nat \ {0}) \X Versions
  <2>1. <<rank, m>> \in (Nat \ {0}) \X Versions
    BY <1>1, <1>3, <1>5
  <2>2. QED
    BY <1>1, <2>1 DEF m, rank
<1>9. QED
  BY <1>4, <1>5, <1>6, <1>7, <1>8 DEF c, m, rank

LEMMA RecordShape ==
  ASSUME Shape, NEW r \in Runs, Record(r)
  PROVE  Shape'
<1> DEFINE m == NextVersion(r)
           known == frame[r].known \cup {m}
           f == [frame[r] EXCEPT !.known = known, !.rank = 0]
           st == NextMigration(known)
<1>1. /\ pc[r] = "record" /\ frame[r] \in Frame /\ FrameFits(r)
      /\ UNCHANGED <<env, server, admin, role, database, applied, usable, seeded,
                     cut, denied, overlapped>>
  BY DEF Record, Shape, FramesFit, TypeOK
<1>2. /\ frame[r].known # Versions /\ frame[r].command # "seed"
      /\ frame[r].file = 1
      /\ m \in applied /\ (m \in Recorded => m \in Rerunnable)
  BY <1>1 DEF FrameFits, Recording
<1>3. /\ m \in Versions /\ known \in Prefixes(Migrations)
      /\ Recorded \cup {m} \in Prefixes(Migrations)
  BY <1>2, NextVersionIs
<1>4. CASE history' = history /\ Goto(r, "conflict")
  <2>1. RestTypes' /\ SeedsFit'
    BY <1>1, <1>4 DEF Shape, TypeOK, RestTypes, SeedsFit
  <2>2. QED
    BY <1>1, <1>4, <2>1, GotoShape DEF Outcomes, Recording, Creating
<1>5. CASE /\ frame[r].rank \notin Ranks
           /\ history' = history \cup {<<frame[r].rank, m>>}
           /\ pc' = [pc EXCEPT ![r] = st]
           /\ frame' = [frame EXCEPT ![r].known = @ \cup {m}, ![r].rank = 0]
  <2>1. /\ Recorded' = Recorded \cup {m}
        /\ frame[r].rank = Cardinality(Ranks) + 1
        /\ Ranks' = 1 .. Cardinality(Ranks) + 1
        /\ Ranks' = Ranks \cup {frame[r].rank}
        /\ IsFiniteSet(Ranks')
        /\ Cardinality(Ranks') = Cardinality(Ranks) + 1
        /\ history' \subseteq (Nat \ {0}) \X Versions
    BY <1>1, <1>5, RecordAdds
  <2>2. /\ HistoryFits /\ FramesFit /\ OneRecorder /\ TrueHistory
        /\ Cardinality(Ranks) \in Nat
        /\ pc \in [Runs -> {"idle"} \cup Steps \cup Outcomes]
        /\ frame \in [Runs -> Frame]
    BY NextRankIs DEF Shape, TypeOK
  <2>3. /\ frame' = [frame EXCEPT ![r] = f]
    BY <1>1, <1>5, <2>2
  <2>4. /\ f \in Frame /\ f.known = known /\ f.file = 1 /\ f.command # "seed"
    <3>1. known \in SUBSET Versions /\ 0 \in Nat
      BY <1>1, <1>3 DEF Frame
    <3> HIDE DEF known
    <3>2. QED
      BY <1>1, <1>2, <3>1 DEF Frame
  <2>5. st \in {"sql", "grant"} /\ (st = "sql" => known # Versions)
    BY DEF NextMigration
  <2> HIDE DEF f, st, known
  <2>6. /\ pc'[r] = st /\ frame'[r] = f
        /\ \A q \in Runs \ {r} : pc'[q] = pc[q] /\ frame'[q] = frame[q]
        /\ pc' \in [Runs -> {"idle"} \cup Steps \cup Outcomes]
        /\ frame' \in [Runs -> Frame]
        /\ st \notin Recording
    BY <1>5, <2>2, <2>3, <2>4, <2>5 DEF Steps, Recording
  <2>7. TypeOK' /\ SeedsFit'
    BY <1>1, <2>1, <2>6 DEF Shape, TypeOK, SeedsFit
  <2>8. HistoryFits'
    <3>1. \A e \in history : e[1] # frame[r].rank
      BY <1>5 DEF Ranks
    <3>2. \A e, g \in history' : e[1] = g[1] => e = g
      BY <1>5, <2>2, <3>1 DEF HistoryFits
    <3>3. QED
      BY <1>1, <1>3, <2>1, <2>2, <3>2 DEF HistoryFits
  <2>9. TrueHistory'
    <3>1. \A e \in history : e[2] = m => m \in Rerunnable
      BY <1>2 DEF Recorded
    <3>2. \A e, g \in history' : e[2] = g[2] /\ e[2] \notin Rerunnable => e = g
      BY <1>5, <2>2, <3>1 DEF TrueHistory
    <3>3. QED
      BY <1>1, <1>2, <2>1, <2>2, <3>2 DEF TrueHistory
  <2>10. FramesFit'
    <3> SUFFICES ASSUME NEW q \in Runs
                 PROVE  FrameFits(q)'
      BY DEF FramesFit
    <3>1. CASE q # r
      <4>1. pc[q] \in Recording /\ NextVersion(q) \in Recorded' =>
              NextVersion(q) \in Recorded \cup Rerunnable
        BY <1>1, <2>1, <2>2, <3>1 DEF OneRecorder, Recording
      <4>2. applied \subseteq applied' /\ Recorded \subseteq Recorded'
        BY <1>1, <2>1
      <4>3. QED
        BY <1>1, <2>1, <2>2, <2>6, <3>1, <4>1, <4>2, OthersFit DEF FramesFit
    <3>2. CASE q = r
      <4>1. known \subseteq Recorded'
        BY <1>1, <2>1 DEF FrameFits, known
      <4>2. pc'[r] \in {"sql", "grant"} /\ pc'[r] # "record"
        BY <2>5, <2>6
      <4>3. FrameFits(r)'
        BY <1>3, <2>4, <2>5, <2>6, <4>1, <4>2 DEF FrameFits, Creating
      <4>4. QED
        BY <3>2, <4>3
    <3>3. QED
      BY <3>1, <3>2
  <2>11. OneRecorder'
    <3>1. \A q \in Runs \ {r} : NextVersion(q)' = NextVersion(q)
      BY <2>6 DEF NextVersion, Pending
    <3> SUFFICES ASSUME NEW p \in Runs, NEW q \in Runs,
                        pc'[p] \in Recording, pc'[q] \in Recording,
                        NextVersion(p)' = NextVersion(q)',
                        NextVersion(q)' \notin Rerunnable
                 PROVE  p = q
      BY DEF OneRecorder
    <3>2. p # r /\ q # r
      BY <2>6
    <3>3. pc[p] \in Recording /\ pc[q] \in Recording
      BY <2>6, <3>2
    <3>4. NextVersion(p) = NextVersion(q) /\ NextVersion(q) \notin Rerunnable
      BY <3>1, <3>2
    <3>5. QED
      BY <2>2, <3>3, <3>4 DEF OneRecorder
  <2>12. QED
    BY <2>7, <2>8, <2>9, <2>10, <2>11 DEF Shape
<1>6. QED
  BY <1>4, <1>5 DEF Record

LEMMA NextCases ==
  ASSUME [Next]_vars
  PROVE  \/ \E r \in Runs :
              \/ \E wrapped, reseed \in BOOLEAN, command \in Commands :
                   Start(r, wrapped, command, reseed)
              \/ Step(r) \/ Abort(r)
         \/ ServerUp
         \/ UNCHANGED vars
BY DEF Next

LEMMA ShapeStep ==
  ASSUME Shape, [Next]_vars
  PROVE  Shape'
<1>1. CASE UNCHANGED vars
  <2>1. RestTypes' /\ SeedsFit' /\ UNCHANGED <<applied, history, pc, frame, server>>
    BY <1>1 DEF vars, db, Shape, TypeOK, RestTypes, SeedsFit
  <2>2. QED
    BY <2>1, IdleShape
<1>2. QED
  BY <1>1, NextCases, StartShape, CopyEnvShape, ReadEnvShape, WriteEnvShape,
     LoadEnvShape, ProbeShape, PollShape, ServerUpShape, ConnectShape, CreateShape,
     ConnectForWorkShape,
     GrantShape, CountShape, TruncateShape, LoadShape, AbortShape,
     ReadAppliedShape, RunSqlShape, ReadRankShape, RecordShape DEF Step
-----------------------------------------------------------------------------
(* One by one *)

\* What holds as long as run r is the only one under way.
Solo(r) ==
  /\ KnowsAlone(r)
  /\ \A e \in history : e[1] = e[2]
  /\ env # None /\ ~env.password => cut \cap Filling # {} \/ pc[r] \in Filling
  /\ cut \cap Recording = {} =>
       \A m \in applied :
         m \in Recorded \/ (pc[r] \in Recording /\ NextVersion(r) = m)
  /\ "load" \notin cut /\ pc[r] # "load" => seeded \in {{}, Files}

\* A step that touches neither .env nor the database.
LEMMA PlainSolo ==
  ASSUME NEW r \in Runs, Solo(r),
         UNCHANGED <<env, applied, history, seeded, cut>>,
         pc[r] \notin {"load"} \cup Filling \cup Recording,
         pc'[r] \notin {"copyEnv", "clearEnv", "sql", "grant", "load"} \cup Filling
                         \cup Creating \cup Recording,
         pc'[r] \in {"count", "truncate"} => frame'[r].command # "setup"
  PROVE  Solo(r)'
<1>1. Recorded' = Recorded
  BY DEF Recorded
<1>2. KnowsAlone(r)'
  BY DEF KnowsAlone, Recording, Filling, Creating
<1>3. cut \cap Recording = {} => \A m \in applied : m \in Recorded
  BY DEF Solo
<1>4. QED
  BY <1>1, <1>2, <1>3 DEF Solo

\* What Goto does to the variables of run r.
LEMMA GoesTo ==
  ASSUME TypeOK, NEW r \in Runs, NEW st \in Steps \cup Outcomes, Goto(r, st)
  PROVE  /\ pc'[r] = st
         /\ st \in Steps => frame'[r].command = frame[r].command
         /\ st \in Steps \ {"connect"} => frame'[r] = frame[r]
BY GotoFrame

LEMMA CopyEnvSolo ==
  ASSUME Shape, NEW r \in Runs, Solo(r),
         FindNoEnv(r) \/ CopyEnv(r) \/ FillCopy(r)
  PROVE  Solo(r)'
<1>1. PICK st \in {"copyEnv", "fillCopy", "env"} :
        /\ Goto(r, st)
        /\ st = "copyEnv" => env' = None
        /\ st = "fillCopy" => env' \in Torn(TRUE)
        /\ st = "env" => env' = Example
  BY EnvTypes DEF FindNoEnv, CopyEnv, FillCopy
<1>2. /\ pc'[r] = st
      /\ pc[r] \in {"env", "copyEnv", "fillCopy"}
      /\ UNCHANGED <<applied, history, seeded, cut>>
  BY <1>1, GoesTo DEF FindNoEnv, CopyEnv, FillCopy, db, Shape, Steps
<1>3. Example.password /\ (st = "fillCopy" => env'.secret \notin Runs)
  BY <1>1, EnvTypes, DbSetupAssumption DEF Torn
<1>4. KnowsAlone(r)' /\ Recorded' = Recorded
  BY <1>1, <1>2, <1>3 DEF KnowsAlone, Recording, Creating, Recorded
<1>5. cut \cap Recording = {} => \A m \in applied : m \in Recorded
  BY <1>2 DEF Solo, Recording
<1>6. env' # None /\ ~env'.password => pc'[r] \in Filling
  BY <1>1, <1>2, <1>3 DEF Filling
<1>7. QED
  BY <1>2, <1>4, <1>5, <1>6 DEF Solo

LEMMA ReadEnvSolo ==
  ASSUME Shape, NEW r \in Runs, Solo(r), ReadEnv(r)
  PROVE  Solo(r)'
<1>1. /\ pc[r] = "env" /\ env # None /\ env' = env
      /\ pc'[r] = IF env.secret \in Runs THEN "loadEnv" ELSE "clearEnv"
      /\ frame'[r].password = env.password
      /\ UNCHANGED <<applied, history, seeded, cut>>
  BY DEF ReadEnv, SecretIsGood, db, Shape, TypeOK, Frame
<1>2. ~env.password => cut \cap Filling # {}
  BY <1>1 DEF Solo, Filling
<1>3. KnowsAlone(r)' /\ Recorded' = Recorded
  BY <1>1, <1>2 DEF KnowsAlone, Recording, Creating, Recorded
<1>4. cut \cap Recording = {} => \A m \in applied : m \in Recorded
  BY <1>1 DEF Solo, Recording
<1>5. pc[r] # "load"
  BY <1>1
<1>6. QED
  BY <1>1, <1>2, <1>3, <1>4, <1>5 DEF Solo

LEMMA ClearEnvSolo ==
  ASSUME Shape, NEW r \in Runs, Solo(r), ClearEnv(r)
  PROVE  Solo(r)'
<1>1. /\ pc[r] = "clearEnv" /\ pc'[r] = "fillEnv" /\ frame'[r] = frame[r]
      /\ env'.secret = None
      /\ UNCHANGED <<applied, history, seeded, cut>>
  BY GoesTo DEF ClearEnv, Torn, db, Shape, Steps
<1>2. frame[r].password \/ cut \cap Filling # {}
  BY <1>1 DEF Solo, KnowsAlone
<1>3. KnowsAlone(r)' /\ Recorded' = Recorded
  BY <1>1, <1>2, DbSetupAssumption DEF KnowsAlone, Recording, Creating, Recorded
<1>4. cut \cap Recording = {} => \A m \in applied : m \in Recorded
  BY <1>1 DEF Solo, Recording
<1>5. pc'[r] \in Filling
  BY <1>1 DEF Filling
<1>6. QED
  BY <1>1, <1>3, <1>4, <1>5 DEF Solo

LEMMA FillEnvSolo ==
  ASSUME Shape, NEW r \in Runs, Solo(r), FillEnv(r)
  PROVE  Solo(r)'
<1>1. /\ pc[r] = "fillEnv" /\ pc'[r] = "loadEnv"
      /\ env'.password = frame[r].password
      /\ UNCHANGED <<applied, history, seeded, cut>>
  BY GoesTo DEF FillEnv, Upserted, db, Shape, Steps
<1>2. frame[r].password \/ cut \cap Filling # {}
  BY <1>1 DEF Solo, KnowsAlone
<1>3. KnowsAlone(r)' /\ Recorded' = Recorded
  BY <1>1 DEF KnowsAlone, Recording, Creating, Recorded
<1>4. cut \cap Recording = {} => \A m \in applied : m \in Recorded
  BY <1>1 DEF Solo, Recording
<1>5. QED
  BY <1>1, <1>2, <1>3, <1>4 DEF Solo

\* Steps that only look at .env or at the server.
LEMMA LookSolo ==
  ASSUME Shape, NEW r \in Runs, Solo(r), LoadEnv(r) \/ Probe(r) \/ Poll(r)
  PROVE  Solo(r)'
<1>1. /\ pc[r] \in {"loadEnv", "probe", "poll"}
      /\ UNCHANGED <<env, applied, history, seeded, cut>>
  BY DEF LoadEnv, Probe, Poll, db
<1>2. pc'[r] \in {"refused", "probe", "connect", "poll"}
  <2>1. ASSUME NEW st \in {"refused", "probe", "connect", "poll"}, Goto(r, st)
        PROVE  pc'[r] \in {"refused", "probe", "connect", "poll"}
    BY <2>1, GoesTo DEF Shape, Steps, Outcomes
  <2>2. QED
    BY <2>1 DEF LoadEnv, Probe, Poll
<1>3. QED
  BY <1>1, <1>2, PlainSolo DEF Recording, Creating, Filling

\* Steps on the way to the database.
LEMMA CreateSolo ==
  ASSUME Shape, NEW r \in Runs, Solo(r),
         Connect(r) \/ FindDatabase(r) \/ FindRole(r) \/ CreateRole(r)
  PROVE  Solo(r)'
<1>1. /\ pc[r] \in {"connect"} \cup Creating
      /\ UNCHANGED <<env, applied, history, seeded, cut, database>>
  BY DEF Connect, FindDatabase, FindRole, CreateRole, Creating, db
<1>2. PICK st \in {"refused", "work", "conflict"} \cup Creating :
        /\ Goto(r, st)
        /\ st \in Creating => ~database
        /\ st = "createRole" => role' = role /\ ~role
  BY DEF Connect, FindDatabase, FindRole, CreateRole, Creating, db, Solo,
         KnowsAlone, Shape, TypeOK
<1>3. pc'[r] = st
  BY <1>2, GoesTo DEF Shape, Steps, Outcomes, Creating
<1>4. KnowsAlone(r)' /\ Recorded' = Recorded
  BY <1>1, <1>2, <1>3 DEF KnowsAlone, Recording, Creating, Recorded
<1>5. cut \cap Recording = {} => \A m \in applied : m \in Recorded
  BY <1>1 DEF Solo, Recording, Creating
<1>6. pc[r] \notin {"load"} \cup Filling /\ pc'[r] # "load"
  BY <1>1, <1>2, <1>3 DEF Creating, Filling
<1>7. QED
  BY <1>1, <1>4, <1>5, <1>6 DEF Solo

LEMMA CreateDatabaseSolo ==
  ASSUME Shape, NEW r \in Runs, Solo(r), CreateDatabase(r)
  PROVE  Solo(r)'
<1>1. /\ pc[r] = "createDatabase"
      /\ UNCHANGED <<env, applied, history, seeded, cut>>
  BY DEF CreateDatabase
<1>2. PICK st \in {"conflict", "work"} : Goto(r, st)
  BY DEF CreateDatabase
<1>3. pc'[r] = st
  BY <1>2, GoesTo DEF Shape, Steps, Outcomes
<1>4. QED
  BY <1>1, <1>3, PlainSolo DEF Recording, Creating, Filling

LEMMA ConnectForWorkSolo ==
  ASSUME Shape, NEW r \in Runs, Solo(r), ConnectForWork(r)
  PROVE  Solo(r)'
<1>1. /\ pc[r] = "work"
      /\ UNCHANGED <<env, applied, history, seeded, cut>>
      /\ pc'[r] = IF frame[r].command = "seed" THEN "count" ELSE "applied"
  BY DEF ConnectForWork, db, Shape, TypeOK
<1>2. frame'[r].command = frame[r].command
  BY WorkFrame DEF Shape
<1>3. pc'[r] \in {"count", "applied"} /\ (pc'[r] = "count" => frame'[r].command = "seed")
  BY <1>1, <1>2
<1>4. QED
  BY <1>1, <1>3, PlainSolo DEF Recording, Creating, Filling

\* Without overlaps a version's rank is the version.
LEMMA RanksAreVersions ==
  ASSUME \A e \in history : e[1] = e[2]
  PROVE  Ranks = Recorded
BY DEF Ranks, Recorded

LEMMA ReadAppliedSolo ==
  ASSUME Shape, NEW r \in Runs, Solo(r), ReadApplied(r)
  PROVE  Solo(r)'
<1>1. /\ pc[r] = "applied" /\ frame'[r].known = Recorded
      /\ pc'[r] \in {"sql", "grant"}
      /\ pc'[r] = "grant" => Recorded = Versions
      /\ UNCHANGED <<env, applied, history, seeded, cut>>
  BY DEF ReadApplied, NextMigration, db, Shape, TypeOK, Frame
<1>2. KnowsAlone(r)' /\ Recorded' = Recorded
  BY <1>1 DEF KnowsAlone, Recording, Creating, Recorded
<1>3. cut \cap Recording = {} => \A m \in applied : m \in Recorded
  BY <1>1 DEF Solo, Recording
<1>4. QED
  BY <1>1, <1>2, <1>3 DEF Solo, Filling

LEMMA RunSqlSolo ==
  ASSUME Shape, NEW r \in Runs, Solo(r), RunSql(r)
  PROVE  Solo(r)'
<1> DEFINE m == NextVersion(r)
<1>1. /\ pc[r] = "sql"
      /\ UNCHANGED <<env, history, seeded, cut>>
  BY DEF RunSql
<1>2. /\ frame[r].known = Recorded /\ Recorded' = Recorded
  BY <1>1 DEF Solo, KnowsAlone, Recorded
<1>3. cut \cap Recording = {} => \A v \in applied : v \in Recorded
  BY <1>1 DEF Solo, Recording
<1>4. CASE applied' = applied /\ Goto(r, "conflict")
  <2>1. pc'[r] = "conflict"
    BY <1>4, GoesTo DEF Shape, Outcomes
  <2>2. KnowsAlone(r)'
    BY <2>1 DEF KnowsAlone, Recording, Creating
  <2>3. QED
    BY <1>1, <1>2, <1>3, <1>4, <2>1, <2>2 DEF Solo, Filling
<1>5. CASE applied' = applied \cup {m} /\ Goto(r, "rank")
  <2>1. pc'[r] = "rank" /\ frame'[r] = frame[r]
    BY <1>5, GoesTo DEF Shape, Steps
  <2>2. NextVersion(r)' = m
    BY <2>1 DEF NextVersion, Pending
  <2>3. KnowsAlone(r)'
    BY <1>2, <2>1 DEF KnowsAlone, Recording, Creating
  <2> HIDE DEF m
  <2>4. cut \cap Recording = {} => \A v \in applied' : v \in Recorded \/ m = v
    BY <1>3, <1>5
  <2>5. pc'[r] \in Recording
    BY <2>1 DEF Recording
  <2>6. QED
    BY <1>1, <1>2, <2>1, <2>2, <2>3, <2>4, <2>5 DEF Solo, Filling
<1>6. QED
  BY <1>4, <1>5 DEF RunSql

LEMMA SameLength ==
  ASSUME NEW a \in Nat, NEW b \in Nat, 1 .. a = 1 .. b
  PROVE  a = b
<1>1. \A x : x \in 1 .. a <=> x \in 1 .. b
  OBVIOUS
<1> DEFINE In(x, n) == x \in 1 .. n
<1>2. \A x \in Nat, n \in Nat : In(x, n) <=> 1 =< x /\ x =< n
  OBVIOUS
<1>3. \A x \in Nat : In(x, a) <=> In(x, b)
  BY <1>1
<1> HIDE DEF In
<1>4. (a >= 1 => a =< b) /\ (b >= 1 => b =< a)
  BY <1>2, <1>3
<1>5. QED
  BY <1>4

\* What a run under way by itself has before it when it records.
LEMMA NextAlone ==
  ASSUME Shape, NEW r \in Runs, Solo(r), pc[r] \in Recording
  PROVE  /\ NextVersion(r) \in Versions /\ NextVersion(r) \notin Ranks
         /\ NextRank = NextVersion(r)
         /\ Ranks = Recorded /\ frame[r].known = Recorded
<1> DEFINE m == NextVersion(r)
           c == Cardinality(Ranks)
<1>1. /\ frame[r].known = Recorded /\ Ranks = Recorded
  BY RanksAreVersions DEF Solo, KnowsAlone
<1>2. frame[r].known # Versions
  BY DEF Shape, FramesFit, FrameFits
<1>3. m \in Versions /\ frame[r].known = 1 .. m - 1
  BY <1>2, NextVersionIs
<1>4. c \in Nat /\ NextRank = c + 1 /\ Ranks = 1 .. c
  BY NextRankIs DEF Shape, HistoryFits
<1>5. m \in Nat \ {0}
  BY <1>3, DbSetupAssumption DEF Versions
<1> HIDE DEF m, c
<1>6. 1 .. c = 1 .. m - 1
  BY <1>1, <1>3, <1>4
<1>7. c = m - 1
  BY <1>4, <1>5, <1>6, SameLength
<1>8. QED
  BY <1>1, <1>3, <1>4, <1>5, <1>7 DEF m

LEMMA ReadRankSolo ==
  ASSUME Shape, NEW r \in Runs, Solo(r), ReadRank(r)
  PROVE  Solo(r)'
<1>1. /\ pc[r] = "rank" /\ pc'[r] = "record"
      /\ frame'[r].rank = NextRank /\ frame'[r].known = frame[r].known
      /\ UNCHANGED <<env, applied, history, seeded, cut>>
  BY DEF ReadRank, db, Shape, TypeOK, Frame
<1>2. pc[r] \in Recording /\ pc'[r] \in Recording
  BY <1>1 DEF Recording
<1>3. NextRank = NextVersion(r) /\ frame[r].known = Recorded
  BY <1>2, NextAlone
<1>4. NextVersion(r)' = NextVersion(r) /\ Recorded' = Recorded
  BY <1>1 DEF NextVersion, Pending, Recorded
<1>5. KnowsAlone(r)'
  BY <1>1, <1>3, <1>4 DEF KnowsAlone, Recording, Creating
<1>6. QED
  BY <1>1, <1>2, <1>4, <1>5 DEF Solo, Filling

LEMMA RecordSolo ==
  ASSUME Shape, NEW r \in Runs, Solo(r), Record(r)
  PROVE  Solo(r)' /\ pc'[r] # "conflict"
<1> DEFINE m == NextVersion(r)
           known == frame[r].known \cup {m}
<1>1. /\ pc[r] = "record" /\ pc[r] \in Recording
      /\ UNCHANGED <<env, applied, seeded, cut>>
  BY DEF Record, Recording
<1>2. /\ m \notin Ranks /\ frame[r].known = Recorded /\ frame[r].rank = m
  BY <1>1, NextAlone DEF Solo, KnowsAlone
<1>3. /\ history' = history \cup {<<frame[r].rank, m>>}
      /\ pc' = [pc EXCEPT ![r] = NextMigration(known)]
      /\ frame' = [frame EXCEPT ![r].known = @ \cup {m}, ![r].rank = 0]
  BY <1>2 DEF Record
<1>4. /\ pc'[r] \in {"sql", "grant"} /\ (pc'[r] = "grant" => known = Versions)
      /\ frame'[r].known = known
  BY <1>3 DEF NextMigration, Shape, TypeOK, Frame
<1>5. Recorded' = Recorded \cup {m}
  BY <1>1, <1>2, <1>3, RecordAdds
<1>6. \A e \in history' : e[1] = e[2]
  BY <1>2, <1>3 DEF Solo
<1>7. cut \cap Recording = {} => \A v \in applied : v \in Recorded'
  BY <1>5 DEF Solo
<1>8. frame'[r].known = Recorded' /\ (pc'[r] = "grant" => Recorded' = Versions)
  BY <1>2, <1>4, <1>5
<1>9. KnowsAlone(r)'
  BY <1>4, <1>8 DEF KnowsAlone, Recording, Creating
<1>10. QED
  BY <1>1, <1>4, <1>6, <1>7, <1>9 DEF Solo, Filling

LEMMA GrantSolo ==
  ASSUME Shape, NEW r \in Runs, Solo(r), Grant(r) \/ GrantInVain(r), ~overlapped
  PROVE  /\ Solo(r)'
         /\ Recorded' = Versions /\ (usable' = Versions \/ r \in denied')
         /\ frame[r].command # "setup" => frame[r].command = "migrate"
<1>1. /\ pc[r] = "grant"
      /\ UNCHANGED <<env, applied, history, seeded, cut>>
  BY DEF Grant, GrantInVain
<1>2. /\ Recorded = Versions /\ Recorded' = Recorded
  BY <1>1 DEF Solo, KnowsAlone, Recorded
<1>3. applied = Versions
  BY <1>2 DEF Shape, TypeOK, TrueHistory
<1>4. /\ frame[r].command \in {"setup", "migrate"}
  BY <1>1 DEF Shape, TypeOK, FramesFit, FrameFits, Frame, Commands
<1>5. PICK st \in {"count", "done"} : Goto(r, st)
  BY DEF Grant, GrantInVain, AfterGrant
<1>6. pc'[r] = st
  BY <1>5, GoesTo DEF Shape, Steps, Outcomes
<1>7. usable' = Versions \/ r \in denied'
  BY <1>3 DEF Grant, GrantInVain, Noted
<1>8. KnowsAlone(r)'
  BY <1>1, <1>2, <1>6, <1>7 DEF KnowsAlone, Recording, Creating
<1>9. cut \cap Recording = {} => \A m \in applied : m \in Recorded
  BY <1>1 DEF Solo, Recording
<1>10. pc[r] \notin {"load"} \cup Filling /\ pc'[r] # "load"
  BY <1>1, <1>6 DEF Filling
<1>11. QED
  BY <1>1, <1>2, <1>4, <1>7, <1>8, <1>9, <1>10 DEF Solo, Filling

LEMMA CountSolo ==
  ASSUME Shape, NEW r \in Runs, Solo(r), Count(r)
  PROVE  Solo(r)'
<1>1. /\ pc[r] = "count"
      /\ UNCHANGED <<env, applied, history, seeded, usable, cut, denied>>
  BY DEF Count, db
<1>2. PICK st \in {"done", "truncate", "load"} :
        Goto(r, st) /\ (st = "load" => 1 \notin seeded)
  BY DEF Count, SeedIsDue
<1>3. pc'[r] = st /\ (st # "done" => frame'[r] = frame[r])
  BY <1>2, GoesTo DEF Shape, Steps, Outcomes
<1>4. st = "load" => seeded = {} /\ frame[r].file = 1
  BY <1>1, <1>2 DEF Shape, SeedsFit, FramesFit, FrameFits
<1>5. /\ Recorded' = Recorded
      /\ frame[r].command = "setup" =>
           Recorded = Versions /\ (usable = Versions \/ r \in denied)
  BY <1>1 DEF Recorded, Solo, KnowsAlone
<1>6. KnowsAlone(r)'
  <2>1. st = "load" => seeded' = 1 .. frame'[r].file - 1
    <3>1. 1 .. 1 - 1 = {}
      OBVIOUS
    <3>2. QED
      BY <1>1, <1>3, <1>4, <3>1
  <2>2. KnowsAlone(r)'
    BY <1>1, <1>3, <1>5, <2>1 DEF KnowsAlone, Recording, Creating
  <2>3. QED
    BY <2>2
<1>7. cut \cap Recording = {} => \A m \in applied : m \in Recorded
  BY <1>1 DEF Solo, Recording
<1>8. QED
  BY <1>1, <1>3, <1>5, <1>6, <1>7 DEF Solo, Filling

LEMMA TruncateSolo ==
  ASSUME Shape, NEW r \in Runs, Solo(r), Truncate(r)
  PROVE  Solo(r)'
<1>1. /\ pc[r] = "truncate" /\ seeded' \in {seeded, {}}
      /\ UNCHANGED <<env, applied, history, usable, cut, denied>>
  BY DEF Truncate
<1>2. PICK st \in {"conflict", "load"} :
        Goto(r, st) /\ (st = "load" => seeded' = {})
  BY DEF Truncate
<1>3. pc'[r] = st /\ (st # "conflict" => frame'[r] = frame[r])
  BY <1>2, GoesTo DEF Shape, Steps, Outcomes
<1>4. frame[r].file = 1
  BY <1>1 DEF Shape, FramesFit, FrameFits
<1>5. /\ Recorded' = Recorded
      /\ frame[r].command = "setup" =>
           Recorded = Versions /\ (usable = Versions \/ r \in denied)
  BY <1>1 DEF Recorded, Solo, KnowsAlone
<1>6. KnowsAlone(r)'
  <2>1. st = "load" => seeded' = 1 .. frame'[r].file - 1
    <3>1. 1 .. 1 - 1 = {}
      OBVIOUS
    <3>2. QED
      BY <1>1, <1>2, <1>3, <1>4, <3>1
  <2>2. KnowsAlone(r)'
    BY <1>1, <1>3, <1>5, <2>1 DEF KnowsAlone, Recording, Creating
  <2>3. QED
    BY <2>2
<1>7. cut \cap Recording = {} => \A m \in applied : m \in Recorded
  BY <1>1 DEF Solo, Recording
<1>8. QED
  BY <1>1, <1>3, <1>5, <1>6, <1>7 DEF Solo, Filling

\* What Load does when the run that loads is the only one under way.
LEMMA LoadAlone ==
  ASSUME Shape, NEW r \in Runs, Solo(r), Load(r)
  PROVE  \/ /\ pc'[r] = "conflict" /\ seeded' = {} /\ applied = {}
         \/ /\ pc'[r] = "done" /\ seeded' = Files
         \/ /\ pc'[r] = "load" /\ frame'[r].command = frame[r].command
            /\ seeded' = 1 .. frame'[r].file - 1
<1> DEFINE k == frame[r].file
<1>1. /\ pc[r] = "load" /\ frame[r] \in Frame
      /\ seeded = 1 .. k - 1
  BY DEF Load, Shape, TypeOK, Solo, KnowsAlone
<1>2. k \in 1 .. SeedFiles /\ SeedFiles \in Nat \ {0}
  BY <1>1, DbSetupAssumption DEF Frame, Files
<1> HIDE DEF k
<1>3. k \notin seeded /\ (k = 1 \/ 1 \in seeded)
  BY <1>1, <1>2
<1>4. seeded \cup {k} = 1 .. k
  BY <1>1, <1>2
<1>5. CASE 1 \notin applied
  <2>1. seeded' = seeded /\ Goto(r, "conflict")
    BY <1>5 DEF Load
  <2>2. applied = {}
    <3>1. applied \in Prefixes(Migrations) /\ Migrations \in Nat
      BY DbSetupAssumption DEF Shape, HistoryFits
    <3>2. PICK n \in 0 .. Migrations : applied = 1 .. n
      BY <3>1 DEF Prefixes
    <3>3. QED
      BY <1>5, <3>1, <3>2
  <2>3. seeded = {}
    BY <2>2 DEF Shape, SeedsFit
  <2>4. pc'[r] = "conflict"
    BY <2>1, GoesTo DEF Shape, Outcomes
  <2>5. QED
    BY <2>1, <2>2, <2>3, <2>4
<1>6. CASE 1 \in applied
  <2>1. seeded' = 1 .. k
    BY <1>3, <1>4, <1>6 DEF Load, k
  <2>2. CASE k < SeedFiles
    <3>1. pc' = pc /\ frame' = [frame EXCEPT ![r].file = k + 1]
      BY <1>3, <1>6, <2>2 DEF Load, k
    <3>2. frame'[r].file = k + 1 /\ frame'[r].command = frame[r].command
      BY <3>1 DEF Shape, TypeOK, Frame
    <3>3. (k + 1) - 1 = k
      BY <1>2
    <3>4. QED
      BY <1>1, <2>1, <3>1, <3>2, <3>3
  <2>3. CASE ~(k < SeedFiles)
    <3>1. Goto(r, "done")
      BY <1>3, <1>6, <2>3 DEF Load, k
    <3>2. pc'[r] = "done"
      BY <3>1, GoesTo DEF Shape, Outcomes
    <3>3. k = SeedFiles
      BY <1>2, <2>3
    <3>4. QED
      BY <2>1, <3>2, <3>3 DEF Files
  <2>4. QED
    BY <2>2, <2>3
<1>7. QED
  BY <1>5, <1>6

LEMMA LoadSolo ==
  ASSUME Shape, NEW r \in Runs, Solo(r), Load(r)
  PROVE  Solo(r)'
<1>1. /\ pc[r] = "load"
      /\ UNCHANGED <<env, applied, history, usable, cut, denied>>
  BY DEF Load
<1>2. Recorded' = Recorded
  BY <1>1 DEF Recorded
<1>3. /\ pc'[r] \in {"conflict", "done", "load"}
      /\ pc'[r] = "load" => /\ frame'[r].command = frame[r].command
                            /\ seeded' = 1 .. frame'[r].file - 1
      /\ pc'[r] # "load" => seeded' \in {{}, Files}
  BY LoadAlone
<1>4. KnowsAlone(r)'
  BY <1>1, <1>2, <1>3 DEF Solo, KnowsAlone, Recording, Creating
<1>5. cut \cap Recording = {} => \A m \in applied : m \in Recorded
  BY <1>1 DEF Solo, Recording
<1>6. QED
  BY <1>1, <1>2, <1>3, <1>4, <1>5 DEF Solo, Filling

LEMMA AbortSolo ==
  ASSUME Shape, NEW r \in Runs, Solo(r), Abort(r), ~overlapped
  PROVE  Solo(r)'
<1>1. /\ pc[r] \in Steps /\ cut' = cut \cup ({pc[r]} \cap CriticalSteps)
      /\ UNCHANGED <<env, applied, history, usable, seeded>>
  BY DEF Abort, Noted, db
<1>2. pc'[r] = "aborted"
  BY GoesTo DEF Abort, Shape, Outcomes
<1>3. /\ cut \cap Filling # {} \/ pc[r] \in Filling => cut' \cap Filling # {}
      /\ pc[r] \in Recording => cut' \cap Recording # {}
      /\ pc[r] = "load" => "load" \in cut'
  BY <1>1 DEF CriticalSteps, Recording
<1>4. KnowsAlone(r)' /\ Recorded' = Recorded
  BY <1>1, <1>2 DEF KnowsAlone, Recording, Creating, Recorded
<1>5. cut' \cap Recording = {} => \A m \in applied : m \in Recorded
  BY <1>1, <1>3 DEF Solo
<1>6. QED
  BY <1>1, <1>2, <1>3, <1>4, <1>5 DEF Solo, Filling

LEMMA StepSolo ==
  ASSUME Shape, NEW r \in Runs, Solo(r), Step(r) \/ Abort(r), ~overlapped
  PROVE  Solo(r)'
BY CopyEnvSolo, ReadEnvSolo, ClearEnvSolo, FillEnvSolo, LookSolo, CreateSolo,
   ConnectForWorkSolo, CreateDatabaseSolo, ReadAppliedSolo, RunSqlSolo, ReadRankSolo,
   RecordSolo, GrantSolo, CountSolo, TruncateSolo, LoadSolo, AbortSolo DEF Step
-----------------------------------------------------------------------------
(* The invariant *)

\* The part of the invariant that is about runs one by one.
Serial ==
  /\ OneByOne
  /\ ~overlapped => \A e \in history : e[1] = e[2]
  /\ SettingsSurvive /\ AloneKnown /\ WholeUnlessCut

LEMMA IInvParts == IInv <=> Shape /\ Serial
<1>1. HistoryFits => \A m \in applied : 1 .. m \subseteq applied
  BY PrefixClosed, DbSetupAssumption DEF HistoryFits
<1>2. HistoryFits =>
        (HistoryIsTrue <=>
           TrueHistory /\ (~overlapped => \A e \in history : e[1] = e[2]))
  BY <1>1 DEF HistoryIsTrue, TrueHistory
<1>3. QED
  BY <1>2 DEF IInv, Shape, Serial

LEMMA SoloIn ==
  ASSUME Serial, ~overlapped, NEW r \in Runs, pc[r] \in Steps
  PROVE  Solo(r)
<1>1. \A q \in Runs : pc[q] \in Steps => q = r
  BY DEF Serial, OneByOne, UnderWay
<1>2. KnowsAlone(r)
  BY DEF Serial, AloneKnown, UnderWay
<1>3. \A q \in Runs : pc[q] \in {"load"} \cup Filling \cup Recording => q = r
  BY <1>1 DEF Steps, Recording, Filling
<1>4. env # None /\ ~env.password => cut \cap Filling # {} \/ pc[r] \in Filling
  BY <1>3 DEF Serial, SettingsSurvive
<1>5. cut \cap Recording = {} =>
        \A m \in applied :
          m \in Recorded \/ (pc[r] \in Recording /\ NextVersion(r) = m)
  BY <1>3 DEF Serial, WholeUnlessCut
<1>6. "load" \notin cut /\ pc[r] # "load" => seeded \in {{}, Files}
  BY <1>3 DEF Serial, WholeUnlessCut
<1>7. QED
  BY <1>2, <1>4, <1>5, <1>6 DEF Solo, Serial

LEMMA SoloOut ==
  ASSUME NEW r \in Runs, Solo(r)', \A q \in Runs \ {r} : pc'[q] \notin Steps
  PROVE  Serial'
<1>1. \A q \in UnderWay' : q = r
  BY DEF UnderWay
<1>2. OneByOne'
  BY <1>1 DEF OneByOne
<1>3. AloneKnown'
  <2> SUFFICES ASSUME NEW q \in UnderWay'
               PROVE  KnowsAlone(q)'
    BY DEF AloneKnown
  <2>1. q = r
    BY <1>1
  <2>2. QED
    BY <2>1 DEF Solo
<1>4. SettingsSurvive'
  BY DEF SettingsSurvive, Solo
<1>5. WholeUnlessCut'
  BY DEF WholeUnlessCut, Solo
<1>6. QED
  BY <1>2, <1>3, <1>4, <1>5 DEF Serial, Solo

\* Overlaps are not forgotten, and leave nothing of this part to show.
LEMMA OverlapSerial ==
  ASSUME overlapped'
  PROVE  Serial'
BY DEF Serial, OneByOne, SettingsSurvive, AloneKnown, WholeUnlessCut

LEMMA GotoOthers ==
  ASSUME TypeOK, NEW r \in Runs, NEW st, Goto(r, st)
  PROVE  \A q \in Runs \ {r} : pc'[q] = pc[q]
BY DEF Goto, TypeOK

LEMMA StepOfOne ==
  ASSUME TypeOK, NEW r \in Runs, Step(r) \/ Abort(r)
  PROVE  /\ pc[r] \in Steps /\ overlapped' = overlapped
         /\ \A q \in Runs \ {r} : pc'[q] = pc[q]
<1> DEFINE Facts ==
      /\ pc[r] \in Steps /\ overlapped' = overlapped
      /\ \A q \in Runs \ {r} : pc'[q] = pc[q]
<1>0. /\ pc \in [Runs -> {"idle"} \cup Steps \cup Outcomes]
  BY DEF TypeOK
<1>1. /\ FindNoEnv(r) \/ CopyEnv(r) \/ FillCopy(r) => Facts
      /\ ReadEnv(r) \/ ClearEnv(r) \/ FillEnv(r) => Facts
  BY <1>0, GotoOthers
     DEF FindNoEnv, CopyEnv, FillCopy, ReadEnv, ClearEnv, FillEnv, Steps
<1>2. LoadEnv(r) \/ Probe(r) \/ Poll(r) \/ Connect(r) => Facts
  BY <1>0, GotoOthers DEF LoadEnv, Probe, Poll, Connect, Steps
<1>3. /\ FindDatabase(r) \/ FindRole(r) \/ CreateRole(r) \/ CreateDatabase(r) => Facts
      /\ ConnectForWork(r) => Facts
  BY <1>0, GotoOthers
     DEF FindDatabase, FindRole, CreateRole, CreateDatabase, ConnectForWork, Steps
<1>4. /\ ReadApplied(r) \/ RunSql(r) \/ ReadRank(r) \/ Record(r) => Facts
      /\ Grant(r) \/ GrantInVain(r) => Facts
  BY <1>0, GotoOthers
     DEF ReadApplied, RunSql, ReadRank, Record, Grant, GrantInVain, Steps
<1>5. Count(r) \/ Truncate(r) \/ Load(r) \/ Abort(r) => Facts
  BY <1>0, GotoOthers DEF Count, Truncate, Load, Abort, Steps
<1> HIDE DEF Facts
<1>6. Facts
  BY <1>1, <1>2, <1>3, <1>4, <1>5 DEF Step
<1>7. QED
  BY <1>6 DEF Facts

LEMMA StepSerial ==
  ASSUME Shape, Serial, NEW r \in Runs, Step(r) \/ Abort(r)
  PROVE  Serial'
<1>1. /\ pc[r] \in Steps /\ overlapped' = overlapped
      /\ \A q \in Runs \ {r} : pc'[q] = pc[q]
  BY StepOfOne DEF Shape
<1>2. CASE overlapped
  BY <1>1, <1>2, OverlapSerial
<1>3. CASE ~overlapped
  <2>1. Solo(r)'
    BY <1>1, <1>3, SoloIn, StepSolo
  <2>2. \A q \in Runs \ {r} : pc'[q] \notin Steps
    BY <1>1, <1>3 DEF Serial, OneByOne, UnderWay
  <2>3. QED
    BY <2>1, <2>2, SoloOut
<1>4. QED
  BY <1>2, <1>3

LEMMA StartSerial ==
  ASSUME Shape, Serial, NEW r \in Runs, NEW wrapped \in BOOLEAN,
         NEW reseed \in BOOLEAN, NEW command \in Commands,
         Start(r, wrapped, command, reseed)
  PROVE  Serial'
<1>1. /\ UNCHANGED <<env, applied, history, usable, seeded>>
      /\ overlapped' \/ cut' = cut
      /\ pc'[r] \in {"env", "loadEnv"}
      /\ \A q \in Runs \ {r} : pc'[q] = pc[q]
      /\ overlapped' = (overlapped \/ UnderWay # {})
  BY DEF Start, db, Shape, TypeOK
<1>2. CASE overlapped'
  BY <1>2, OverlapSerial
<1>3. CASE ~overlapped'
  <2>1. ~overlapped /\ \A q \in Runs : pc[q] \notin Steps
    BY <1>1, <1>3 DEF UnderWay
  <2>2. \A q \in Runs : pc[q] \notin {"load"} \cup Filling \cup Recording
    BY <2>1 DEF Steps, Recording, Filling
  <2>3. KnowsAlone(r)' /\ Recorded' = Recorded
    BY <1>1 DEF KnowsAlone, Recording, Creating, Recorded
  <2>4. env # None /\ ~env.password => cut \cap Filling # {}
    BY <2>1, <2>2 DEF Serial, SettingsSurvive
  <2>5. cut \cap Recording = {} => \A m \in applied : m \in Recorded
    BY <2>1, <2>2 DEF Serial, WholeUnlessCut
  <2>6. "load" \notin cut => seeded \in {{}, Files}
    BY <2>1, <2>2 DEF Serial, WholeUnlessCut
  <2>7. \A e \in history : e[1] = e[2]
    BY <2>1 DEF Serial
  <2>8. Solo(r)'
    BY <1>1, <1>3, <2>3, <2>4, <2>5, <2>6, <2>7 DEF Solo
  <2>9. \A q \in Runs \ {r} : pc'[q] \notin Steps
    BY <1>1, <2>1
  <2>10. QED
    BY <2>8, <2>9, SoloOut
<1>4. QED
  BY <1>2, <1>3

\* Steps in which no run takes part.
LEMMA IdleSerial ==
  ASSUME Shape, Serial, ServerUp \/ UNCHANGED vars
  PROVE  Serial'
<1>1. /\ UNCHANGED <<env, applied, history, usable, seeded, pc, frame, cut,
                     denied, overlapped>>
      /\ server = "up" => UNCHANGED <<role, database>>
  BY DEF ServerUp, vars, db
<1>2. \A q \in Runs : NextVersion(q)' = NextVersion(q)
  BY <1>1 DEF NextVersion, Pending
<1>3. Recorded' = Recorded /\ UnderWay' = UnderWay
  BY <1>1 DEF Recorded, UnderWay
<1>4. AloneKnown'
  <2> SUFFICES ASSUME ~overlapped', NEW q \in UnderWay'
               PROVE  KnowsAlone(q)'
    BY DEF AloneKnown
  <2>1. q \in Runs /\ KnowsAlone(q) /\ FrameFits(q)
    BY <1>1, <1>3 DEF UnderWay, Serial, AloneKnown, Shape, FramesFit
  <2>2. pc[q] \in Creating => UNCHANGED <<role, database>>
    BY <1>1, <2>1 DEF FrameFits
  <2>3. QED
    BY <1>1, <1>2, <1>3, <2>1, <2>2 DEF KnowsAlone, Creating
<1>5. OneByOne' /\ SettingsSurvive'
  BY <1>1, <1>3 DEF Serial, OneByOne, SettingsSurvive
<1>6. WholeUnlessCut'
  BY <1>1, <1>2, <1>3 DEF Serial, WholeUnlessCut
<1>7. QED
  BY <1>1, <1>4, <1>5, <1>6 DEF Serial

LEMMA InitIInv == Init => IInv
<1> SUFFICES ASSUME Init
             PROVE  IInv
  OBVIOUS
<1>1. /\ pc = [r \in Runs |-> "idle"] /\ frame = [r \in Runs |-> NoRun]
      /\ applied = {} /\ history = {} /\ usable = {} /\ seeded = {}
      /\ cut = {} /\ denied = {} /\ overlapped = FALSE
      /\ Recorded = {} /\ Ranks = {} /\ UnderWay = {}
  BY DEF Init, Recorded, Ranks, UnderWay, Steps
<1>2. TypeOK
  <2>1. env \in Env \cup {None}
    BY EnvTypes DEF Init
  <2>2. /\ server \in {"down", "starting", "up"}
        /\ {admin, role, database, overlapped} \subseteq BOOLEAN
    BY <1>1 DEF Init
  <2>3. pc \in [Runs -> {"idle"} \cup Steps \cup Outcomes] /\ frame \in [Runs -> Frame]
    BY <1>1, NoRunType
  <2>4. QED
    BY <1>1, <2>1, <2>2, <2>3 DEF TypeOK
<1>3. HistoryFits
  <2>1. IsFiniteSet({}) /\ Cardinality({}) = 0
    BY FS_EmptySet
  <2>2. {} = 1 .. 0
    OBVIOUS
  <2>3. QED
    BY <1>1, <2>1, <2>2, EmptyPrefix, DbSetupAssumption DEF HistoryFits
<1>4. SeedsFit /\ TrueHistory /\ OneRecorder
  BY <1>1 DEF SeedsFit, TrueHistory, OneRecorder, Recording
<1>5. FramesFit
  <2> SUFFICES ASSUME NEW r \in Runs
               PROVE  FrameFits(r)
    BY DEF FramesFit
  <2>1. pc[r] = "idle" /\ frame[r] = NoRun
    BY <1>1
  <2>2. QED
    BY <1>1, <2>1, NoRunType, EmptyPrefix, DbSetupAssumption
       DEF FrameFits, Recording, Creating
<1>6. OneByOne /\ AloneKnown /\ WholeUnlessCut
  BY <1>1 DEF OneByOne, AloneKnown, WholeUnlessCut
<1>7. SettingsSurvive
  BY DEF Init, Example, SettingsSurvive
<1>8. QED
  BY <1>1, <1>2, <1>3, <1>4, <1>5, <1>6, <1>7, IInvParts DEF Shape, Serial

LEMMA NextParts == Shape /\ Serial /\ [Next]_vars => Shape' /\ Serial'
<1> SUFFICES ASSUME Shape, Serial, [Next]_vars
             PROVE  Shape' /\ Serial'
  OBVIOUS
<1>1. Shape'
  BY ShapeStep
<1>2. Serial'
  BY NextCases, StepSerial, StartSerial, IdleSerial
<1>3. QED
  BY <1>1, <1>2

\* The strengthening holds throughout.
THEOREM DbSetupInvariance == Spec => []IInv
<1>1. Init => Shape /\ Serial
  BY InitIInv, IInvParts
<1>2. (Shape /\ Serial) /\ [Next]_vars => (Shape /\ Serial)'
  BY NextParts
<1>3. Shape /\ Serial => IInv
  BY IInvParts
<1>4. QED
  BY <1>1, <1>2, <1>3, PTL DEF Spec

\* Every variable has its type.
THEOREM DbSetupTypeCorrect == Spec => []TypeOK
<1>1. IInv => TypeOK
  BY DEF IInv
<1>2. QED
  BY <1>1, DbSetupInvariance, PTL

\* What the history lists has run, and what must not run twice is listed once.
THEOREM HistoryStaysTrue == Spec => []HistoryIsTrue
<1>1. IInv => HistoryIsTrue
  BY DEF IInv
<1>2. QED
  BY <1>1, DbSetupInvariance, PTL

\* One by one, .env keeps its password, unless a run died copying the example
\* or rewriting the file.
THEOREM SettingsAreKept == Spec => []SettingsSurvive
<1>1. IInv => SettingsSurvive
  BY DEF IInv
<1>2. QED
  BY <1>1, DbSetupInvariance, PTL

-----------------------------------------------------------------------------
(* What a step may never do *)

LEMMA GotoIs ==
  ASSUME TypeOK, NEW r \in Runs, NEW st, Goto(r, st)
  PROVE  pc'[r] = st
BY DEF Goto, TypeOK

\* Only the steps on .env change it, and only the run that is to replace the
\* secret writes one over another.
LEMMA EnvStep ==
  ASSUME IInv, [Next]_vars
  PROVE  SecretStays
<1> SUFFICES ASSUME ~overlapped, env # None, env # env'
             PROVE  env.secret \notin Runs
  BY DEF SecretStays
<1>1. Shape /\ Serial
  BY IInvParts
<1>2. PICK r \in Runs : ClearEnv(r) \/ FillEnv(r) \/ CopyEnv(r) \/ FillCopy(r)
  <2>1. ~ UNCHANGED vars /\ ~ServerUp
    BY DEF vars, ServerUp
  <2>2. \A r \in Runs, wrapped \in BOOLEAN, reseed \in BOOLEAN, command \in Commands :
          ~Start(r, wrapped, command, reseed)
    BY DEF Start
  <2>3. PICK r \in Runs : Step(r) \/ Abort(r)
    BY <2>1, <2>2, NextCases
  <2>4. /\ ~FindNoEnv(r) /\ ~ReadEnv(r) /\ ~LoadEnv(r) /\ ~Probe(r) /\ ~Poll(r)
        /\ ~Connect(r) /\ ~FindDatabase(r) /\ ~ConnectForWork(r)
    BY DEF FindNoEnv, ReadEnv, LoadEnv, Probe, Poll, Connect, FindDatabase,
           ConnectForWork
  <2>5. ~FindRole(r) /\ ~CreateRole(r) /\ ~CreateDatabase(r) /\ ~ReadApplied(r)
        /\ ~RunSql(r) /\ ~ReadRank(r) /\ ~Record(r) /\ ~Grant(r) /\ ~GrantInVain(r)
    BY DEF FindRole, CreateRole, CreateDatabase, ReadApplied, RunSql, ReadRank,
           Record, Grant, GrantInVain
  <2>6. ~Count(r) /\ ~Truncate(r) /\ ~Load(r) /\ ~Abort(r)
    BY DEF Count, Truncate, Load, Abort
  <2>7. QED
    BY <2>3, <2>4, <2>5, <2>6 DEF Step
<1>3. pc[r] \in {"copyEnv", "fillCopy", "clearEnv", "fillEnv"} /\ pc[r] \in Steps
  BY <1>2 DEF CopyEnv, FillCopy, ClearEnv, FillEnv, Steps
<1>4. KnowsAlone(r)
  BY <1>1, <1>3, SoloIn DEF Solo
<1>5. QED
  BY <1>3, <1>4 DEF KnowsAlone

\* The steps that end in a conflict or in success, and which run ends so.
LEMMA Endings ==
  ASSUME IInv, [Next]_vars, ~overlapped, NEW r \in Runs, pc[r] # pc'[r],
         pc'[r] \in {"conflict", "done"}
  PROVE  /\ Shape /\ Solo(r)
         /\ \/ CreateRole(r) \/ CreateDatabase(r) \/ RunSql(r) \/ Record(r)
            \/ Grant(r) \/ GrantInVain(r) \/ Count(r) \/ Truncate(r) \/ Load(r)
<1>1. Shape /\ Serial /\ TypeOK
  BY IInvParts DEF Shape
<1>2. Step(r) \/ Abort(r)
  <2>1. ~ UNCHANGED vars /\ ~ServerUp
    BY DEF vars, ServerUp
  <2>2. \A q \in Runs, wrapped \in BOOLEAN, reseed \in BOOLEAN, command \in Commands :
          ~Start(q, wrapped, command, reseed)
    BY <1>1 DEF Start, TypeOK
  <2>3. PICK q \in Runs : Step(q) \/ Abort(q)
    BY <2>1, <2>2, NextCases
  <2>4. q = r
    BY <1>1, <2>3, StepOfOne
  <2>5. QED
    BY <2>3, <2>4
<1>3. Solo(r)
  BY <1>1, <1>2, StepOfOne, SoloIn
<1>4. /\ ~FindNoEnv(r) /\ ~CopyEnv(r) /\ ~FillCopy(r)
      /\ ~ReadEnv(r) /\ ~ClearEnv(r) /\ ~FillEnv(r)
  <2>1. ~ReadEnv(r)
    BY <1>1 DEF ReadEnv, TypeOK
  <2>2. QED
    BY <1>1, <2>1, GotoIs DEF FindNoEnv, CopyEnv, FillCopy, ClearEnv, FillEnv
<1>5. ~LoadEnv(r) /\ ~Connect(r) /\ ~FindDatabase(r)
  BY <1>1, GotoIs DEF LoadEnv, Connect, FindDatabase
<1>6. ~Probe(r) /\ ~Poll(r)
  BY <1>1, GotoIs DEF Probe, Poll
<1>7. ~FindRole(r) /\ ~Abort(r)
  BY <1>1, GotoIs DEF FindRole, Abort
<1>8. ~ConnectForWork(r) /\ ~ReadApplied(r) /\ ~ReadRank(r)
  BY <1>1 DEF ConnectForWork, ReadApplied, NextMigration, ReadRank, TypeOK
<1>9. QED
  BY <1>1, <1>2, <1>3, <1>4, <1>5, <1>6, <1>7, <1>8 DEF Step

LEMMA ConflictStep ==
  ASSUME IInv, [Next]_vars
  PROVE  ConflictsHaveCause
<1> SUFFICES ASSUME NEW r \in Runs, pc[r] # pc'[r], pc'[r] = "conflict",
                    ~overlapped
             PROVE  BlockedByTornRun(r)
  BY DEF ConflictsHaveCause
<1>1. /\ Shape /\ TypeOK /\ Solo(r)
      /\ \/ CreateRole(r) \/ CreateDatabase(r) \/ RunSql(r) \/ Record(r)
         \/ Grant(r) \/ GrantInVain(r) \/ Count(r) \/ Truncate(r) \/ Load(r)
  BY Endings DEF Shape
<1>2. ~CreateRole(r)
  BY <1>1, GotoIs DEF CreateRole, Solo, KnowsAlone, Creating
<1>3. ~CreateDatabase(r)
  BY <1>1, GotoIs DEF CreateDatabase, Solo, KnowsAlone, Creating
<1>4. ~Record(r)
  BY <1>1, RecordSolo
<1>5. ~Grant(r) /\ ~GrantInVain(r) /\ ~Count(r)
  BY <1>1, GotoIs DEF Grant, GrantInVain, AfterGrant, Count
<1>6. CASE RunSql(r)
  <2> DEFINE m == NextVersion(r)
  <2>1. /\ pc[r] = "sql" /\ m \in applied
    BY <1>1, <1>6, GotoIs DEF RunSql
  <2>2. frame[r].known = Recorded /\ frame[r].known # Versions
    BY <1>1, <2>1 DEF Solo, KnowsAlone, Shape, FramesFit, FrameFits
  <2>3. m \notin Recorded
    BY <1>1, <2>2, NextVersionIs
  <2>4. cut \cap Recording # {}
    BY <1>1, <2>1, <2>3 DEF Solo, Recording
  <2>5. QED
    BY <2>1, <2>4 DEF BlockedByTornRun, Recording
<1>7. CASE Truncate(r)
  <2>1. pc[r] = "truncate" /\ 1 \notin applied
    BY <1>1, <1>7, GotoIs DEF Truncate
  <2>2. PICK n \in 0 .. Migrations : applied = 1 .. n
    BY <1>1 DEF Shape, HistoryFits, Prefixes
  <2>3. applied = {}
    BY <2>1, <2>2, DbSetupAssumption
  <2>4. QED
    BY <2>1, <2>3 DEF BlockedByTornRun
<1>8. CASE Load(r)
  <2>1. pc[r] = "load" /\ applied = {}
    BY <1>1, <1>8, LoadAlone DEF Load
  <2>2. QED
    BY <2>1 DEF BlockedByTornRun
<1>9. QED
  BY <1>1, <1>2, <1>3, <1>4, <1>5, <1>6, <1>7, <1>8

LEMMA SuccessStep ==
  ASSUME IInv, [Next]_vars
  PROVE  SuccessIsComplete
<1> SUFFICES ASSUME NEW r \in Runs, pc[r] # pc'[r], pc'[r] = "done",
                    ~overlapped
             PROVE  LeavesComplete(r)
  BY DEF SuccessIsComplete
<1>1. /\ Shape /\ TypeOK /\ Solo(r)
      /\ \/ CreateRole(r) \/ CreateDatabase(r) \/ RunSql(r) \/ Record(r)
         \/ Grant(r) \/ GrantInVain(r) \/ Count(r) \/ Truncate(r) \/ Load(r)
  BY Endings DEF Shape
<1>2. ~CreateRole(r) /\ ~CreateDatabase(r) /\ ~RunSql(r) /\ ~Truncate(r)
  BY <1>1, GotoIs DEF CreateRole, CreateDatabase, RunSql, Truncate
<1>3. ~Record(r)
  BY <1>1, GotoIs DEF Record, NextMigration, TypeOK
<1>4. frame[r].command \in {"setup", "migrate", "seed"}
  BY <1>1 DEF TypeOK, Frame, Commands
<1>5. 1 \in Files
  BY DbSetupAssumption DEF Files
<1>6. pc[r] \in {"count", "load"} /\ frame[r].command # "seed"
      /\ UNCHANGED <<history, usable, denied>> =>
        /\ frame[r].command # "migrate" /\ Recorded' = Versions
        /\ usable' = Versions \/ r \in denied'
  <2> SUFFICES ASSUME pc[r] \in {"count", "load"}, frame[r].command # "seed",
                      UNCHANGED <<history, usable, denied>>
               PROVE  /\ frame[r].command # "migrate" /\ Recorded' = Versions
                      /\ usable' = Versions \/ r \in denied'
    OBVIOUS
  <2>1. frame[r].command = "setup"
    BY <1>1, <1>4 DEF Shape, FramesFit, FrameFits
  <2>2. Recorded = Versions /\ (usable = Versions \/ r \in denied)
    BY <1>1, <2>1 DEF Solo, KnowsAlone
  <2>3. QED
    BY <2>1, <2>2 DEF Recorded
<1>7. CASE Grant(r) \/ GrantInVain(r)
  <2>1. frame[r].command # "setup"
    BY <1>1, <1>7, GotoIs DEF Grant, GrantInVain, AfterGrant
  <2>2. QED
    BY <1>1, <1>7, <2>1, GrantSolo DEF LeavesComplete
<1>8. CASE Count(r)
  <2>1. /\ pc[r] = "count" /\ 1 \in seeded /\ ~frame[r].reseed
        /\ UNCHANGED <<history, usable, denied, seeded>>
    BY <1>1, <1>8, GotoIs DEF Count, SeedIsDue, db
  <2>2. seeded = Files \/ "load" \in cut
    BY <1>1, <2>1 DEF Solo
  <2>3. QED
    BY <1>6, <2>1, <2>2 DEF LeavesComplete
<1>9. CASE Load(r)
  <2>1. /\ pc[r] = "load" /\ seeded' = Files
        /\ UNCHANGED <<history, usable, denied>>
    BY <1>1, <1>9, LoadAlone DEF Load
  <2>2. QED
    BY <1>5, <1>6, <2>1 DEF LeavesComplete
<1>10. QED
  BY <1>1, <1>2, <1>3, <1>7, <1>8, <1>9

\* No run replaces a secret that an earlier run generated.
THEOREM SecretsAreStable == Spec => SecretIsStable
<1>1. IInv /\ [Next]_vars => SecretStays
  BY EnvStep
<1>2. QED
  BY <1>1, DbSetupInvariance, PTL DEF Spec, SecretIsStable

\* One by one, the set-up is safe to run repeatedly: PostgreSQL rejects a run
\* only for what a run that died left behind, or for want of a schema.
THEOREM RunsBlockOnlyWhenTorn == Spec => OnlyTornRunsBlock
<1>1. IInv /\ [Next]_vars => ConflictsHaveCause
  BY ConflictStep
<1>2. QED
  BY <1>1, DbSetupInvariance, PTL DEF Spec, OnlyTornRunsBlock

\* One by one, a run that reports success has left what it is for: every
\* migration recorded and, unless one of its own GRANTs failed, open to the
\* application; the first seed file loaded, and the others too unless a run
\* died between two of them and this one was not to reseed.
THEOREM SuccessMeansComplete == Spec => DoneMeansComplete
<1>1. IInv /\ [Next]_vars => SuccessIsComplete
  BY SuccessStep
<1>2. QED
  BY <1>1, DbSetupInvariance, PTL DEF Spec, DoneMeansComplete
=============================================================================
