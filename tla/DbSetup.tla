------------------------------ MODULE DbSetup ------------------------------
(***************************************************************************)
(* The set-up scripts: src/scripts/setup.js, which prepares .env and waits *)
(* for PostgreSQL, and src/scripts/db-setup.js, which creates the database, *)
(* migrates and seeds it.  A run of a script may die at any point, be      *)
(* repeated, and overlap another run.                                      *)
(*                                                                         *)
(* A step is one SQL statement, one SQL file or one operation on .env, and *)
(* the code that runs on its answer.  PostgreSQL runs the statements of a  *)
(* file as one transaction; no other two steps share one.                  *)
(***************************************************************************)
EXTENDS Naturals, FiniteSets, FiniteSetsExt

CONSTANTS
  MaxRuns,          \* bound: the runs of a behaviour
  Migrations,       \* how many migrations there are
  Rerunnable,       \* migrations that do no harm if they run again
  SeedFiles,        \* how many seed files there are; the first has the users
  RerunnableSeeds,  \* seed files that do no harm if they are loaded again
  None,             \* no file, no secret
  Placeholder,      \* the secret of .env.example
  MaxPolls,         \* how often waitUntilReady polls before its time is up
  Overlapping       \* bound: this many runs, the first, may overlap

\* The runs, in the order in which they start.
Runs == 1 .. MaxRuns

Versions == 1 .. Migrations

Files == 1 .. SeedFiles

ASSUME DbSetupAssumption ==
  /\ Migrations \in Nat \ {0} /\ Rerunnable \subseteq Versions
  /\ SeedFiles \in Nat \ {0} /\ RerunnableSeeds \subseteq Files \ {1}
  /\ MaxPolls \in Nat /\ MaxRuns \in Nat \ {0} /\ Overlapping \in Nat
  /\ None # Placeholder /\ None \notin Runs /\ Placeholder \notin Runs

VARIABLES
  env,         \* .env: what it says, or None
  server,      \* PostgreSQL: "down", "starting" or "up"
  admin,       \* whether DB_ADMIN_PASSWORD is set
  role,        \* whether the application's role exists
  database,    \* whether its database exists
  applied,     \* the migrations whose objects are in the database
  history,     \* core.flyway_schema_history: <<rank, version>>
  usable,      \* the migrations whose objects the application may use
  seeded,      \* the seed files whose rows are in the database
  pc,          \* the step a run takes next, or how it ended
  frame,       \* its local variables
  overlapped,  \* history: two runs have been under way at a time
  cut,         \* history, until then: the critical steps at which runs died
  denied       \* history, until then: the runs that went on after a GRANT
               \* had failed

db == <<role, database, applied, history, usable, seeded>>
vars == <<env, server, admin, db, pc, frame, cut, denied, overlapped>>

\* The secret a run generates goes by the run's name.
Env == [secret : Runs \cup {Placeholder, None}, password : BOOLEAN]

Commands == {"setup", "migrate", "seed"}

Steps ==
  {"env", "copyEnv", "fillCopy", "clearEnv", "fillEnv", "loadEnv", "probe",
   "poll", "connect", "findDatabase", "findRole", "createRole",
   "createDatabase", "work", "applied", "sql", "rank", "record", "grant",
   "count", "truncate", "load"}

\* The steps before which .env is there, but not the whole of it.
Filling == {"fillCopy", "fillEnv"}

\* Those whose loss a later run does not make good.
CriticalSteps == Filling \cup {"rank", "record", "load"}

\* refused: the script itself gave up; conflict: a statement contradicts what
\* the database holds; aborted: the run died, of whatever cause.
Outcomes == {"done", "refused", "conflict", "aborted"}

\* known: the versions found in the history, and those added since; file: the
\* seed file to load next.
Frame ==
  [wrapped : BOOLEAN, command : Commands, reseed : BOOLEAN, password : BOOLEAN,
   polls : 0 .. MaxPolls, asAdmin : BOOLEAN, known : SUBSET Versions,
   rank : Nat, file : Files]

NoRun ==
  [wrapped |-> FALSE, command |-> "setup", reseed |-> FALSE,
   password |-> FALSE, polls |-> 0, asAdmin |-> FALSE, known |-> {},
   rank |-> 0, file |-> 1]

UnderWay == {r \in Runs : pc[r] \in Steps}

Recorded == {entry[2] : entry \in history}

Ranks == {entry[1] : entry \in history}

Pending(r) == Versions \ frame[r].known

-----------------------------------------------------------------------------
(* Mutants: one plausible bug each, for the properties at the end *)

NewSecretEachTime(r) == FALSE

OnlyTheSecret(r) == [secret |-> r, password |-> FALSE]

OnePollMore(r) == frame[r].polls <= MaxPolls

LastFirst(r) == Max(Pending(r))

RankNotRaised == IF history = {} THEN 1 ELSE Max(Ranks)

SeedWhenForced(r) == frame[r].reseed

-----------------------------------------------------------------------------
(* Local steps *)

\* setup.js runs db-setup.js as a process of its own.
Child(f) == [NoRun EXCEPT !.command = f.command, !.reseed = f.reseed]

FrameAt(step, f) ==
  CASE step \in Outcomes -> NoRun
    [] step = "connect" -> Child(f)
    [] OTHER -> f

Goto(r, step) ==
  /\ pc' = [pc EXCEPT ![r] = step]
  /\ frame' = [frame EXCEPT ![r] = FrameAt(step, @)]

\* What is noted in a history, as long as runs come one by one.
Noted(past, new) == IF overlapped THEN past ELSE past \cup new

\* The process starts: npm run setup, or db-setup.js itself.
Start(r, wrapped, command, reseed) ==
  /\ pc[r] = "idle" /\ \A q \in 1 .. r - 1 : pc[q] # "idle"
  /\ UnderWay = {} \/ r <= Overlapping
  /\ wrapped => command = "setup"
  /\ command = "migrate" => ~reseed
  /\ pc' = [pc EXCEPT ![r] = IF wrapped THEN "env" ELSE "loadEnv"]
  /\ frame' = [frame EXCEPT ![r] = [NoRun EXCEPT !.wrapped = wrapped,
                                                 !.command = command,
                                                 !.reseed = reseed]]
  /\ overlapped' = (overlapped \/ UnderWay # {})
  /\ cut' = (IF overlapped' THEN {} ELSE cut)
  /\ denied' = (IF overlapped' THEN {} ELSE denied)
  /\ UNCHANGED <<env, server, admin, db>>

-----------------------------------------------------------------------------
(* .env *)

\* The example has a password and a placeholder for the secret.
Example == [secret |-> Placeholder, password |-> TRUE]

\* While it is written, a file has nothing, or what comes before the secret.
Torn(password) == [secret : {None}, password : {FALSE, password}]

FindNoEnv(r) ==
  /\ pc[r] = "env" /\ env = None
  /\ Goto(r, "copyEnv")
  /\ UNCHANGED <<env, server, admin, db, cut, denied, overlapped>>

\* copyFileSync and writeFileSync open the file, which empties it, and then
\* fill it.
CopyEnv(r) ==
  /\ pc[r] = "copyEnv"
  /\ env' \in Torn(Example.password)
  /\ Goto(r, "fillCopy")
  /\ UNCHANGED <<server, admin, db, cut, denied, overlapped>>

FillCopy(r) ==
  /\ pc[r] = "fillCopy"
  /\ env' = Example
  /\ Goto(r, "env")
  /\ UNCHANGED <<server, admin, db, cut, denied, overlapped>>

SecretIsGood(r) == env.secret \in Runs

ReadEnv(r) ==
  /\ pc[r] = "env" /\ env # None
  /\ pc' = [pc EXCEPT ![r] = IF SecretIsGood(r) THEN "loadEnv" ELSE "clearEnv"]
  /\ frame' = [frame EXCEPT ![r].password = env.password]
  /\ UNCHANGED <<env, server, admin, db, cut, denied, overlapped>>

ClearEnv(r) ==
  /\ pc[r] = "clearEnv"
  /\ env' \in Torn(frame[r].password)
  /\ Goto(r, "fillEnv")
  /\ UNCHANGED <<server, admin, db, cut, denied, overlapped>>

\* upsertEnvValue: the contents that were read, with a new secret.
Upserted(r) == [secret |-> r, password |-> frame[r].password]

FillEnv(r) ==
  /\ pc[r] = "fillEnv"
  /\ env' = Upserted(r)
  /\ Goto(r, "loadEnv")
  /\ UNCHANGED <<server, admin, db, cut, denied, overlapped>>

\* Either script needs DB_PASSWORD.
LoadEnv(r) ==
  /\ pc[r] = "loadEnv"
  /\ Goto(r, CASE env = None -> "refused"
               [] env # None /\ ~env.password -> "refused"
               [] OTHER -> IF frame[r].wrapped THEN "probe" ELSE "connect")
  /\ UNCHANGED <<env, server, admin, db, cut, denied, overlapped>>

-----------------------------------------------------------------------------
(* PostgreSQL *)

\* postgresStatus: the application can log in.
Ready == server = "up" /\ role

\* ensurePostgres: a server that rejects the application is left alone, and
\* there may be no Docker to start one with.
Probe(r) ==
  /\ pc[r] = "probe"
  /\ \/ /\ Ready
        /\ Goto(r, "connect") /\ UNCHANGED server
     \/ /\ ~Ready
        /\ Goto(r, "refused") /\ UNCHANGED server
     \/ /\ server # "up"
        /\ server' = "starting" /\ Goto(r, "poll")
  /\ UNCHANGED <<env, admin, db, cut, denied, overlapped>>

TimeIsLeft(r) == frame[r].polls < MaxPolls

\* Mutant: there is no limit to the wait.
PollsOn(r) ==
  /\ pc[r] = "poll" /\ Ready
  /\ Goto(r, "connect")
  /\ UNCHANGED <<env, server, admin, db, cut, denied, overlapped>>

\* waitUntilReady
Poll(r) ==
  /\ pc[r] = "poll"
  /\ IF ~Ready /\ TimeIsLeft(r)
     THEN /\ frame' = [frame EXCEPT ![r].polls = @ + 1]
          /\ UNCHANGED pc
     ELSE Goto(r, IF Ready THEN "connect" ELSE "refused")
  /\ UNCHANGED <<env, server, admin, db, cut, denied, overlapped>>

\* The container comes up, with the role and the database; it may never.
ServerUp ==
  /\ server = "starting"
  /\ server' = "up" /\ role' = TRUE /\ database' = TRUE
  /\ UNCHANGED <<env, admin, applied, history, usable, seeded, pc, frame, cut, denied,
                 overlapped>>

\* ensureDatabase: the application may reach it already.
Connect(r) ==
  /\ pc[r] = "connect"
  /\ Goto(r, CASE server # "up" -> "refused"
               [] server = "up" /\ database -> "work"
               [] OTHER -> IF admin THEN "findDatabase" ELSE "refused")
  /\ UNCHANGED <<env, server, admin, db, cut, denied, overlapped>>

FindDatabase(r) ==
  /\ pc[r] = "findDatabase"
  /\ Goto(r, IF database THEN "work" ELSE "findRole")
  /\ UNCHANGED <<env, server, admin, db, cut, denied, overlapped>>

FindRole(r) ==
  /\ pc[r] = "findRole"
  /\ Goto(r, IF role THEN "createDatabase" ELSE "createRole")
  /\ UNCHANGED <<env, server, admin, db, cut, denied, overlapped>>

CreateRole(r) ==
  /\ pc[r] = "createRole"
  /\ role' = TRUE
  /\ Goto(r, IF role THEN "conflict" ELSE "createDatabase")
  /\ UNCHANGED <<env, server, admin, database, applied, history, usable, seeded,
                 cut, denied, overlapped>>

CreateDatabase(r) ==
  /\ pc[r] = "createDatabase"
  /\ database' = TRUE
  /\ Goto(r, IF database THEN "conflict" ELSE "work")
  /\ UNCHANGED <<env, server, admin, role, applied, history, usable, seeded,
                 cut, denied, overlapped>>

\* connectForWork: the administrator, if there is one and the server lets it in.
ConnectForWork(r) ==
  /\ pc[r] = "work"
  /\ \E asAdmin \in {admin, FALSE} :
       frame' = [frame EXCEPT ![r].asAdmin = asAdmin]
  /\ pc' = [pc EXCEPT ![r] = IF frame[r].command = "seed" THEN "count"
                             ELSE "applied"]
  /\ UNCHANGED <<env, server, admin, db, cut, denied, overlapped>>

-----------------------------------------------------------------------------
(* Migrations *)

NextMigration(known) == IF known = Versions THEN "grant" ELSE "sql"

\* prepareSchema and ensureFlywayHistory create what is missing; the versions
\* are read once, before the loop.
ReadApplied(r) ==
  /\ pc[r] = "applied"
  /\ frame' = [frame EXCEPT ![r].known = Recorded]
  /\ pc' = [pc EXCEPT ![r] = NextMigration(Recorded)]
  /\ UNCHANGED <<env, server, admin, db, cut, denied, overlapped>>

\* collectMigrations sorts by version.
NextVersion(r) == Min(Pending(r))

\* Objects belong to who creates them: to the application unless the
\* administrator migrates.
RunSql(r) ==
  LET m == NextVersion(r) IN
  /\ pc[r] = "sql"
  /\ IF m \in applied \ Rerunnable
     THEN Goto(r, "conflict") /\ UNCHANGED <<applied, usable>>
     ELSE /\ applied' = applied \cup {m}
          /\ usable' = IF frame[r].asAdmin \/ m \in applied THEN usable
                      ELSE usable \cup {m}
          /\ Goto(r, "rank")
  /\ UNCHANGED <<env, server, admin, role, database, history, seeded, cut, denied,
                 overlapped>>

NextRank == IF history = {} THEN 1 ELSE Max(Ranks) + 1

ReadRank(r) ==
  /\ pc[r] = "rank"
  /\ frame' = [frame EXCEPT ![r].rank = NextRank]
  /\ pc' = [pc EXCEPT ![r] = "record"]
  /\ UNCHANGED <<env, server, admin, db, cut, denied, overlapped>>

\* The rank is the table's key.
Record(r) ==
  LET m == NextVersion(r) IN
  /\ pc[r] = "record"
  /\ IF frame[r].rank \in Ranks
     THEN Goto(r, "conflict") /\ UNCHANGED history
     ELSE /\ history' = history \cup {<<frame[r].rank, m>>}
          /\ pc' = [pc EXCEPT ![r] = NextMigration(frame[r].known \cup {m})]
          /\ frame' = [frame EXCEPT ![r].known = @ \cup {m}, ![r].rank = 0]
  /\ UNCHANGED <<env, server, admin, role, database, applied, usable, seeded,
                 cut, denied, overlapped>>

\* Only their owner can grant objects to the application.
CanGrant(r) == frame[r].asAdmin \/ usable = applied

AfterGrant(r) == IF frame[r].command = "setup" THEN "count" ELSE "done"

\* grantAppUser, of all the tables there are, whoever created them.
Grant(r) ==
  /\ pc[r] = "grant" /\ CanGrant(r)
  /\ usable' = applied
  /\ Goto(r, AfterGrant(r))
  /\ UNCHANGED <<env, server, admin, role, database, applied, history, seeded,
                 cut, denied, overlapped>>

\* tryQuery: a GRANT may fail, and the run goes on all the same.
GrantInVain(r) ==
  /\ pc[r] = "grant"
  /\ \E granted \in SUBSET applied :
       /\ granted # {} => CanGrant(r)
       /\ usable' = usable \cup granted
  /\ denied' = Noted(denied, {r})
  /\ Goto(r, AfterGrant(r))
  /\ UNCHANGED <<env, server, admin, role, database, applied, history, seeded,
                 cut, overlapped>>

-----------------------------------------------------------------------------
(* Seeds *)

\* userCount, which is 0 too if there is no table.
SeedIsDue(r) == frame[r].reseed \/ 1 \notin seeded

Count(r) ==
  /\ pc[r] = "count"
  /\ Goto(r, CASE ~SeedIsDue(r) -> "done"
               [] SeedIsDue(r) /\ frame[r].reseed -> "truncate"
               [] OTHER -> "load")
  /\ UNCHANGED <<env, server, admin, db, cut, denied, overlapped>>

Truncate(r) ==
  /\ pc[r] = "truncate"
  /\ IF 1 \in applied THEN seeded' = {} /\ Goto(r, "load")
     ELSE UNCHANGED seeded /\ Goto(r, "conflict")
  /\ UNCHANGED <<env, server, admin, role, database, applied, history, usable,
                 cut, denied, overlapped>>

\* The later files attach their rows to those of the first.
Load(r) ==
  LET k == frame[r].file IN
  /\ pc[r] = "load"
  /\ IF 1 \in applied /\ k \notin seeded \ RerunnableSeeds
     THEN /\ seeded' = IF k = 1 \/ 1 \in seeded THEN seeded \cup {k} ELSE seeded
          /\ IF k < SeedFiles
             THEN /\ frame' = [frame EXCEPT ![r].file = k + 1]
                  /\ UNCHANGED pc
             ELSE Goto(r, "done")
     ELSE UNCHANGED seeded /\ Goto(r, "conflict")
  /\ UNCHANGED <<env, server, admin, role, database, applied, history, usable,
                 cut, denied, overlapped>>

\* A step fails or the process dies: what was written and committed stays.
Abort(r) ==
  /\ pc[r] \in Steps
  /\ cut' = Noted(cut, {pc[r]} \cap CriticalSteps)
  /\ Goto(r, "aborted")
  /\ UNCHANGED <<env, server, admin, db, denied, overlapped>>

-----------------------------------------------------------------------------
(* The specification *)

\* A fresh checkout, or one whose .env a user has copied; a server that runs
\* has the database only if it has the role.
Init ==
  /\ env \in {None, Example}
  /\ server \in {"down", "up"} /\ admin \in BOOLEAN
  /\ role \in BOOLEAN /\ database \in BOOLEAN /\ (database => role)
  /\ applied = {} /\ history = {} /\ usable = {} /\ seeded = {}
  /\ pc = [r \in Runs |-> "idle"]
  /\ frame = [r \in Runs |-> NoRun]
  /\ cut = {} /\ denied = {} /\ overlapped = FALSE

Step(r) ==
  \/ FindNoEnv(r) \/ CopyEnv(r) \/ FillCopy(r)
  \/ ReadEnv(r) \/ ClearEnv(r) \/ FillEnv(r) \/ LoadEnv(r)
  \/ Probe(r) \/ Poll(r) \/ Connect(r)
  \/ FindDatabase(r) \/ FindRole(r) \/ CreateRole(r) \/ CreateDatabase(r)
  \/ ConnectForWork(r)
  \/ ReadApplied(r) \/ RunSql(r) \/ ReadRank(r) \/ Record(r)
  \/ Grant(r) \/ GrantInVain(r)
  \/ Count(r) \/ Truncate(r) \/ Load(r)

Next ==
  \/ \E r \in Runs :
       \/ \E wrapped, reseed \in BOOLEAN, command \in Commands :
            Start(r, wrapped, command, reseed)
       \/ Step(r) \/ Abort(r)
  \/ ServerUp

\* A script that runs goes on running; nothing makes PostgreSQL come up.
Spec == Init /\ [][Next]_vars /\ \A r \in Runs : WF_vars(Step(r))

-----------------------------------------------------------------------------
(* Properties *)

\* Every variable has its type.
TypeOK ==
  /\ env \in Env \cup {None}
  /\ server \in {"down", "starting", "up"}
  /\ {admin, role, database, overlapped} \subseteq BOOLEAN
  /\ applied \subseteq Versions /\ usable \subseteq applied
  /\ history \subseteq (Nat \ {0}) \X Versions
  /\ seeded \subseteq Files
  /\ pc \in [Runs -> {"idle"} \cup Steps \cup Outcomes]
  /\ frame \in [Runs -> Frame]
  /\ cut \subseteq CriticalSteps /\ denied \subseteq Runs

\* Whatever overlaps or dies, the history lists only migrations that have run,
\* those that must not run twice once at most, and the migrations that have
\* run are the first ones; without overlaps a version's rank is the version.
HistoryIsTrue ==
  /\ Recorded \subseteq applied
  /\ \A m \in applied : 1 .. m \subseteq applied
  /\ \A e, f \in history : e[2] = f[2] /\ e[2] \notin Rerunnable => e = f
  /\ ~overlapped => \A e \in history : e[1] = e[2]

\* One by one, .env is without the password only while a run copies the
\* example or writes the secret, or once a run has died doing either.
SettingsSurvive ==
  ~overlapped /\ env # None /\ ~env.password =>
    cut \cap Filling # {} \/ \E r \in Runs : pc[r] \in Filling

SecretStays == ~overlapped /\ env # None /\ env # env' => env.secret \notin Runs

\* A run does not replace the secret that an earlier run generated, as this
\* would void every token that was signed with it.
SecretIsStable == [][SecretStays]_vars

BlockedByTornRun(r) ==
  \/ pc[r] = "sql" /\ {"rank", "record"} \cap cut # {}
  \/ pc[r] \in {"truncate", "load"} /\ applied = {}

ConflictsHaveCause ==
  \A r \in Runs :
    pc[r] # pc'[r] /\ pc'[r] = "conflict" /\ ~overlapped => BlockedByTornRun(r)

\* 'Migrations and demo seed. Safe to run repeatedly' (.cursor/install.sh:5,
\* which runs db-setup.js): one by one, what is in the database stands in the
\* way of a run only if a migration that must not run twice lost its record
\* to a run that died, or if there is no schema to seed.
OnlyTornRunsBlock == [][ConflictsHaveCause]_vars

LeavesComplete(r) ==
  /\ frame[r].command # "seed" =>
       Recorded' = Versions /\ (usable' = Versions \/ r \in denied')
  /\ frame[r].command # "migrate" =>
       /\ 1 \in seeded'
       /\ seeded' = Files \/ ("load" \in cut /\ ~frame[r].reseed)

SuccessIsComplete ==
  \A r \in Runs :
    pc[r] # pc'[r] /\ pc'[r] = "done" /\ ~overlapped => LeavesComplete(r)

\* One by one, a run that reports success leaves behind what it is for,
\* whatever earlier runs left undone: every migration recorded and open to
\* the application, unless one of its own GRANTs failed without its telling;
\* and every seed file loaded, unless an earlier run died between two of them
\* and this one was not to reseed.
DoneMeansComplete == [][SuccessIsComplete]_vars

\* Every run that starts ends, though PostgreSQL may never come up.
EveryRunEnds ==
  \A r \in Runs : pc[r] \in Steps ~> pc[r] \in Outcomes

-----------------------------------------------------------------------------
(* The inductive invariant *)

\* Migrations and seed files are worked through from the first on.
Prefixes(n) == {1 .. k : k \in 0 .. n}

\* A migration is recorded after it has run, under the next rank.
HistoryFits ==
  /\ applied \in Prefixes(Migrations) /\ Recorded \in Prefixes(Migrations)
  /\ IsFiniteSet(Ranks) /\ Ranks = 1 .. Cardinality(Ranks)
  /\ \A e, f \in history : e[1] = f[1] => e = f

\* The later seed files need the first, and that one the schema.
SeedsFit == (1 \notin seeded => seeded = {}) /\ (seeded # {} => applied # {})

Recording == {"rank", "record"}

Creating == {"findDatabase", "findRole", "createRole", "createDatabase"}

\* What a run knows stays true whatever other runs do.
FrameFits(r) ==
  /\ frame[r].known \in Prefixes(Migrations) /\ frame[r].known \subseteq Recorded
  /\ pc[r] \in {"sql"} \cup Recording => frame[r].known # Versions
  /\ pc[r] \in Recording =>
       /\ NextVersion(r) \in applied
       /\ NextVersion(r) \in Recorded => NextVersion(r) \in Rerunnable
  /\ pc[r] = "record" => frame[r].rank \in 1 .. Cardinality(Ranks) + 1
  /\ pc[r] # "load" => frame[r].file = 1
  /\ pc[r] \in Creating => server = "up"
  /\ pc[r] \in {"applied", "sql", "grant"} \cup Recording =>
       frame[r].command # "seed"
  /\ pc[r] \in {"count", "truncate", "load"} => frame[r].command # "migrate"

FramesFit == \A r \in Runs : FrameFits(r)

\* Of the runs that have run a migration that must not run twice, one at most
\* is about to record it.
OneRecorder ==
  \A q, r \in Runs :
    /\ pc[q] \in Recording /\ pc[r] \in Recording
    /\ NextVersion(q) = NextVersion(r) /\ NextVersion(r) \notin Rerunnable
    => q = r

OneByOne == ~overlapped => \A q, r \in UnderWay : q = r

\* What a run knows of what others may change, while there are no others.
KnowsAlone(r) ==
  /\ pc[r] = "copyEnv" => env = None
  /\ pc[r] = "fillCopy" => env.secret \notin Runs
  /\ pc[r] \in {"clearEnv", "fillEnv"} =>
       env.secret \notin Runs /\ (frame[r].password \/ cut \cap Filling # {})
  /\ pc[r] \in Creating => ~database
  /\ pc[r] = "createRole" => ~role
  /\ pc[r] \in {"sql"} \cup Recording => frame[r].known = Recorded
  /\ pc[r] = "record" => frame[r].rank = NextVersion(r)
  /\ pc[r] = "grant" => Recorded = Versions
  /\ pc[r] \in {"count", "truncate", "load"} /\ frame[r].command = "setup" =>
       Recorded = Versions /\ (usable = Versions \/ r \in denied)
  /\ pc[r] = "load" => seeded = 1 .. frame[r].file - 1

AloneKnown == ~overlapped => \A r \in UnderWay : KnowsAlone(r)

\* Runs that nothing cuts short leave no migration unrecorded and no seed file
\* out.
WholeUnlessCut ==
  ~overlapped =>
    /\ cut \cap Recording = {} =>
         \A m \in applied :
           m \in Recorded \/ \E r \in Runs : pc[r] \in Recording /\ NextVersion(r) = m
    /\ "load" \notin cut /\ (\A r \in Runs : pc[r] # "load") =>
         seeded \in {{}, Files}

\* The strengthening from which the safety of the set-up is proved.
IInv ==
  /\ TypeOK
  /\ HistoryFits
  /\ SeedsFit
  /\ FramesFit
  /\ OneRecorder
  /\ OneByOne
  /\ HistoryIsTrue
  /\ SettingsSurvive
  /\ AloneKnown
  /\ WholeUnlessCut
=============================================================================
