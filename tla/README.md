# Sunbird core backend: specifications and proofs

TLA+ modules for the NestJS service in `src/`: what its handlers do to the
PostgreSQL tables when HTTP requests interleave, fail or die, checked by TLC on
small instances. The safety of every module is also proved by TLAPS for all
instances.

Paths below are those of the repository; `auth.service.ts:220` stands for
`src/src/auth/auth.service.ts:220`.

## 1. The system

The service keeps no state in memory: everything is in PostgreSQL (READ
COMMITTED), and no transaction spans more than one `save`. A handler is a
sequence of SQL statements separated by `await`. At every `await` other requests
run; what was read before may be stale after. Most rules ("one headquarters per
tenant", "at most max_users accounts") are a SELECT some statements before the
write they allow. `Repository.save` of a loaded entity is itself two statements:
it reads the row again, compares, and writes **every column in which the entity
differs from the row it has just read**, so a stale entity writes old values back.

| component | state | operations | interacts with | what is hard | what makes it correct |
|---|---|---|---|---|---|
| Authentication and sessions (`auth/`) | `core.users` (status, password, failure count, lock), `core.refresh_sessions` | register, login, refresh, logout, change-password; the access-token guard | users (administration revokes sessions), effective access, audit | rotation races, revocation against insertion, stale saves, lockout counting, death between revoke and insert | a token rotates once; one live session per login; nothing revoked returns; no live session opened with an old password; the lock comes at the fifth failure |
| Users: administration (`users/`) | the same two tables | update, status, bulk status, reset, delete, terminate one or all sessions | sessions, audit | save and revocation are two statements; stale saves | deactivated accounts have no live session |
| Users: provisioning (`users/`, register) | `core.users`, `core.user_roles`, `tenants.max_users` | create, register, update, delete, assign and revoke a role | tenants, roles | count-then-insert, check-then-insert against different constraints, account without role, `ON CONFLICT DO NOTHING` | the limit; unique usernames; an audited creation has stored its role |
| Roles and grants (`roles/`) | `core.roles`, `core.role_permissions` | create, update, status, delete, batchPermissions | permissions, users, groups | delete leaves grants and assignments; batches applied item by item | a deleted role grants nothing; codes unique in their scope |
| Groups (`groups/`) | `core.groups`, `group_members`, `group_roles` | create, update, delete, members, roles | roles, users | delete in three statements, none repeatable; rows of a join table revived | no link joins two tenants; a deleted group is empty; access grows only when asked |
| Permissions and modules | `core.permissions`, `core.modules` | create, update, delete; a module's delete cascades in three saves | roles | check-then-delete; cascade over rows read earlier | no live grant of a deleted permission |
| Effective access (`effective-access.query.ts`, `resolvePermissions`) | none | the roles and permissions of a user, in the token and in the administrator's listing | all of the above | the two queries differ; the token is a snapshot | both compute the same set |
| Branches (`branches/`) | `core.branches`, `tenants.max_branches` | create, update, status, delete | tenants, audit | check-then-write, revived rows | one headquarters, deleted last; the limit; codes unique |
| Tenants (`tenants/`) | `core.tenants` | create, update, status, delete | everything hangs from a tenant | delete touches nothing else | nobody enters a deleted tenant; none comes back |
| Audit trail and dashboard (`audit/`) | `core.audit_logs` (written by all) | listings, statistics | all | order of the audit row and the change it reports | what changed is audited |
| Migration and seeding (`scripts/setup.js`, `scripts/db-setup.js`) | `.env`, the role, the database, `flyway_schema_history`, the schema, the seed rows | setup, migrate, seed, dump | PostgreSQL, Docker | a crash between the SQL and its history row, between seed files, or while `.env` is being written; a GRANT that fails unseen; two runs at once | the history is true; a repetition repairs all but what three kinds of death lose; secrets stay; every run ends |
| Cookies, configuration, bootstrap, filters, health | none | | | | |

Each hazard of this code, its line and the properties that would catch it are
listed in `PROJECT.json`. Many of the promises of the catalogue, the accounts, the
branches and the groups hold only while calls do not overlap; where the code breaks such
a promise as soon as they do, the hazard names no property and its note says so.
Those are: duplicate codes and operations of permissions, stale saves that revive
a permission or a role, a grant beside a deletion, a username taken in two tenants
at once, and a headquarters demoted or joined by a branch while it is deleted. Four
more have no property because the code does what the hazard says even of one call
(an update or a failed handler that revokes no session, a role that stays
revoked, the grants of a deleted role), one because the model could not show it (the
save of a session), and one because no module models it (the contents of audit
rows).

## 2. The modules

| module | what it is |
|---|---|
| `AuthSessions` | accounts, sessions and the eleven handlers that change them, one SQL statement per action |
| `SessionLedger` | the abstract specification of `core.refresh_sessions`: open, consume, exchange, forfeit, revoke |
| `AuthSessionsProofs` | theorems and proofs about `AuthSessions` whatever overlaps, the refinement of `SessionLedger` included |
| `AuthApartProofs` | theorems and proofs about `AuthSessions` as long as requests on one account do not overlap |
| `CountingLemmas` | the facts about cardinalities that the proofs about limits share |
| `MCAuthSessions` | symmetry for the TLC instances |
| `Branches` | the branch handlers and their checks, one SQL statement per action |
| `BranchesProofs` | theorems and proofs about `Branches` |
| `MCBranches` | symmetry for the TLC instances |
| `PermissionCatalog` | modules, permissions, roles and grants: the handlers of three services, the cascade of a module's deletion, and the permissions a role gives as the token and as the listing compute them |
| `PermissionCatalogProofs` | theorems and proofs about `PermissionCatalog` |
| `MCPermissionCatalog` | symmetry for the TLC instances |
| `Membership` | groups, their members and roles, the roles of users, the status of roles, the tenant scope of the caller, and the roles an account has in force |
| `MembershipProofs` | theorems and proofs about `Membership` |
| `MCMembership` | symmetry for the TLC instances |
| `Accounts` | tenants and the accounts in them: create, update, delete and register with their checks, the account limit, the platform roles, and the tenant handlers |
| `AccountsProofs` | theorems and proofs about `Accounts` |
| `MCAccounts` | symmetry for the TLC instances |
| `DbSetup` | the two set-up scripts: `.env`, the wait for PostgreSQL, the database, migrations and seeds, with deaths and overlapping runs |
| `DbSetupProofs` | theorems and proofs about `DbSetup` |
| `MCDbSetup` | which migrations and seed files of the repository may run twice |

The modules are views of one database that overlap in a table or two: the status,
password and sessions of an account are `AuthSessions`', its names, tenant and
platform role `Accounts`', its roles and groups `Membership`'s, and what a role
permits `PermissionCatalog`'s. No handler of one view waits for or calls a handler
of another; where a call touches two views (deleting an account, updating a
role) each has its part of the call.

### How the code maps to the state

A **request** is one HTTP call and is used once. `pc[r]` is the statement it runs
next (or its outcome), `frame[r]` its local variables: the entity it will `save`
(`ent`), the row `save` re-read (`base`), the token, the accounts. A row inserted
by request `r` is named `r`, as its key is a fresh UUID. An action is one SQL statement
with the JavaScript that runs on its answer, up to the next statement:

* *First statements* (`LoginPermitted`, `RefreshRead`, `Delete`, ...) are the
  SELECT a handler starts with and all its checks on what it read. For
  change-password it is the guard's SELECT: the handler works on the account the
  guard loaded. The outcome of the checks is chosen by separate actions or by
  `"refused"`.
* `Reload` and `Write` are the two halves of a `save`. `Merge` is the difference
  `save` computes.
* `ClaimWon` / `ClaimLost` is refresh's conditional UPDATE
  (`auth.service.ts:220`), `RevokeOne` the save of a session by logout and
  terminateSession, `RevokeAll` the bulk UPDATE of `revokeAllSessions`, `Issue`
  the INSERT of `buildSession`, `Audit` the INSERT of `writeAudit`.
* In `Branches`, `CheckCode`, `CheckLimit`, `CheckHeadquarters` and `CheckOthers`
  are the SELECTs of the `ensure...` functions and of delete, and `Insert` the
  INSERT with the UNIQUE constraint behind it.
* In `PermissionCatalog`, `RequireModule`, `CheckCode`, `CheckOperation` and
  `CheckRoleCount` are the checks before a permission is written; `FindChildren`,
  `FindGrants`, `SaveGrants`, `Reload`, `Write` and `SaveModule` are, in this order,
  the cascade of `deleteModule`; `FindPermission`, `FindExisting`, `InsertGrant` and
  `SaveGrants` are `upsertGrant` for one permission after the other of a batch.
* In `Membership`, `CheckCode`, `CheckUser` and `CheckRole` are the checks of
  create, addMember and the assignments; `FindLink` reads the row of the join table,
  `InsertLink` or `SaveLink` writes it; `Write`, `DropMembers` and `DropRoles` are the
  three statements of a group's deletion. `ActiveRoles` is
  `ACTIVE_ROLE_SOURCES_SQL`.
* In `Accounts`, `CheckEmail`, `FindTenant` and `CheckSeats` follow the username
  check, `InsertUser` has the constraints behind it, `AssignRole` is the
  `INSERT ... ON CONFLICT DO NOTHING`. `WriteUser` and `WriteTenant` are the second half of a
  `save`.
* In `DbSetup` a step is a statement, a file of SQL (one transaction) or an
  operation on `.env`. `FindNoEnv`, `CopyEnv` and `FillCopy` are `existsSync` and the two
  halves of `copyFileSync`, `ReadEnv`, `ClearEnv` and `FillEnv` the read and the two halves
  of `writeFileSync`: between the halves the file is `Torn`, empty or ending before
  the secret. `Probe` and `Poll` go by `postgresStatus` (`Ready`); a server that is up
  and rejects the application is a refusal. `Connect`, `FindDatabase`, `FindRole`,
  `CreateRole` and `CreateDatabase` are `ensureDatabase`, `ConnectForWork` is
  `connectForWork`. `setup.js` runs `db-setup.js` as a process of its own, so that going
  to `Connect` leaves a new frame (`Child`). The four GRANTs of `grantAppUser` are one
  step, with two outcomes: `Grant`, when all succeed, and `GrantInVain`, when one or
  more fail. `tryQuery` swallows the failure, so the run goes on either way and
  ends in "done".
  `cut` remembers at which steps runs died and `denied` which of them had a GRANT
  fail, both until runs overlap.
* `Abort` covers both a failing statement and the death of the process: what was
  committed stays and nothing more happens. There is no compensation in the code.

### Abstractions

* A session row keeps its account, the two revocation flags and its expiry;
  `root`, the login at the start of its chain of rotations, is history. Tokens are
  their session; the hash comparison is that identity. Cookies are left out.
* The save of a session entity (`RevokeOne`) is one statement: the entity differs
  from any row the table may hold only in the flags it sets, so the two halves
  amount to one idempotent write.
* `accountLockedUntil = 0` is SQL NULL. Passwords are model values that satisfy the
  complexity rule; a hash is its password. A temporary password is never the
  current one.
* Time is a bounded clock. `rememberMe`, which lengthens the refresh expiry, is
  left out, as are login's last-login columns, names and contact columns.
* In `AuthSessions` administrators are outside `Users`, and tenant scope, which only
  turns a found row into a "not found", is left out (`Membership` and `Accounts`
  have it). `LoginUnknown` stands for usernames that never existed too. Of `update`
  it has the status; the email and the role are in `Accounts`, as is
  register. The session that register opens, for an account nobody else knows
  yet, is left out.
* In `Branches` no tenant is deleted, and names, type and contact columns are
  left out: they take part in no check.
* In `PermissionCatalog` a module is its code, which is UNIQUE and which no handler
  changes; the permission or role that request `r` creates is named `r`. The save of
  an entity that can differ from its row in `is_deleted` only (modules, roles, grants)
  is one write; permissions, where stale columns matter, have `Reload`, `Write` and
  `Merge`. `deleteModule` reads its permissions without their module, so that the
  save leaves `module_id` alone. Local variables are cleared when a request ends.
  `overlapped` is history: a promise that holds only of calls one after the other
  is stated of the states before two of them overlap, so that one run checks those
  promises and the ones that survive every overlap. Names and descriptions, the
  status of roles, permissions and modules, and the administrator's tenant scope
  are left out here.
* In `Membership` roles are custom ones and no tenant is deleted. A link is a pair and
  its presence (`none`, `live`, `deleted`): the three join tables have a UNIQUE
  pair. The codes are trimmed and in upper case, as create stores them.
* In `Accounts` a username is the value of its column (login and the checks compare it
  as it is), an email a word and whether it is in lower case, as create and
  update lower it and register does not. `core.users.tenant_id` is NOT NULL
  (`V001:534`), whatever `user.entity.ts:18` says, so no account is without a tenant.
  A limit that is NULL cannot be asked for, so only tenants at the start have
  none. The accounts at the start have an administrator's role that was revoked, the
  case in which assigning it again matters. Platform roles are system roles,
  which cannot be deleted. The status of a tenant is read by nothing and is left
  out; so is delete's refusal to delete oneself. Sessions are in `AuthSessions`.
* In `DbSetup` the administrator's password is there or not for a whole behaviour. A
  server that does not let the administrator in sends `ConnectForWork` to the
  application's account; a wrong password elsewhere, and what PostgreSQL denies
  the account a run works under, is a step that fails (`Abort`). Docker brings the
  role and the database with the server. Of `.env` the model has the secret and whether
  there is a database password, which comes first in the file. What a GRANT opens is
  the objects of whole migrations: after a failure any of the migrations may have been
  opened, none if the account owns less than all of them. `Rerunnable` are migrations written to run twice (V002
  has IF NOT EXISTS, V001 has not).

## 3. What the runs check

| run | instance | shows |
|---|---|---|
| `auth_rotation` | 1 account, 4 requests, 3 in flight; login, refresh, logout, terminations | the safety of rotation under every interleaving and death: `TokenRotatesOnce`, `OneLiveSessionPerLogin`, `RevocationIsFinal`, `LoginAuditedFirst`; the inductive invariant `IInv`; `ImplementsLedger` |
| `auth_apart` | 2 accounts, 3 requests, 2 in flight but not on one account (`CONSTRAINT Apart`), all handlers | what the code promises as long as calls on one account do not overlap: `SessionsMatchPassword`, `DeactivatedHaveNoSessions`, `FailedLoginsLock` |
| `auth_revocation` | 1 account, 3 requests, fair | `RevocationCompletes`: a session live while a revoking handler is under way is dead in the end |
| `auth_surviving_session` | 3 requests, 2 in flight | *violated*: `SessionsMatchPassword` |
| `auth_lost_attempt` | 2 requests in flight | *violated*: `FailedLoginsLock` |
| `auth_reverted_password` | 3 requests, 2 in flight | *violated*: `PasswordChangeSticks` |
| `branches` | 2 tenants, 4 requests, 2 in flight, limit 2 | one by one: one headquarters, deleted last (`DeletionOrder`), the limit, codes that identify (`CodeIdentifies`); and how far overlapping calls exceed the rules: `HeadquartersBounded`, `LimitBounded` |
| `branches_second_headquarters` | 2 requests in flight | *violated*: `OneHeadquarters` |
| `catalog` | 2 modules (1 system), 1 system and 1 custom role, 1 seeded permission, 2 requests, every handler | of overlapping calls: `GrantsAreAskedFor`; before calls overlap, also in the middle of a handler or after one was cut short: `TokenMatchesListing`, `NoDanglingGrants`, `DuplicatesAreRefused`, `DeletedForGood` |
| `membership` | 2 tenants, 1 group (and those created), 1 account, 1 role, 2 requests, every handler | whatever overlaps: `TenantIsolation`, `ScopedChangesOwnTenant`; before calls overlap, also after one was cut short: `AuditedDeletionIsComplete`, `AccessGrowsWhenAsked`, `DuplicatesAreRefused` |
| `accounts` | 2 tenants, 1 account, 2 requests, limit 1 or none, every handler | whatever overlaps: `SeatsBounded`, `ReportedRoleIsStored`; one by one: `NamesStayDistinct`, `ConflictsExplained`, `DeletedIsFinal` |
| `db_setup` | 3 runs, the first 2 may overlap, 2 migrations, 2 seed files, fair | whatever overlaps or dies: `HistoryIsTrue`, `EveryRunEnds`; one by one, after any death and any failed GRANT: `SettingsSurvive`, `SecretIsStable`, `OnlyTornRunsBlock`, `DoneMeansComplete` |

The passing runs and the violation runs belong together: the first show that a
promise holds of the handlers as written, one after the other on an account or in
the service, the second that the same promise fails as soon as two of them overlap.
`auth_rotation`, `branches`, `catalog`, `membership`, `accounts` and `db_setup` also
check `IInv`, the inductive invariant of their module, of which the type invariant
`TypeOK` is a conjunct; the proofs start from what those runs confirm. `ApartIInv`, the inductive
invariant behind the promises of `auth_apart`, holds on that instance too (add
`INVARIANT ApartIInv` to its configuration). The violations are

1. **A session survives a password change** (`auth.service.ts:292` against
   `:436`). A login or refresh that passed its checks inserts its session after
   the revocation. `README.md:51-52` says change-password "invalidates all sessions".
2. **Failed logins are lost** (`:151`). Two failed logins read the same count and
   write the same successor. `README.md:49`: "Five failed logins lock an account".
3. **A password change is undone** (`:178`). A login saves the entity it read
   before the change; `save` writes the old hash back.
4. **Two headquarters** (`branches.service.ts:354`). Both creations count none;
   `idx_branches_hq` is not unique.
The run `branches` gives the other side of the fourth: the excess is bounded by the
number of overlapping calls. A tenant has at most `MaxInFlight` headquarters and
fewer than `MaxBranches + MaxInFlight` branches, although a stale save can also
bring back a deleted one.

Other things the models show, stated in the properties as the cases they leave out:

* Two permission creations that overlap save the same code: `permission_code` has an
  index, not a UNIQUE constraint (`permissions.service.ts:201`). One by one they
  do not (`DuplicatesAreRefused`).
* A registration without a tenant code passes every check and ends in a 500
  (`ConflictsExplained`); so do a deleted account's username or email, and a
  deleted tenant's code. Updating a tenant does not check its code at all.
* An update that only lowers the case of an email skips the check, and two live
  accounts of two tenants end up with one email (`NamesStayDistinct`).
* A role that was revoked is not given again by update, although the answer and the
  audit row say so (`ReportedRoleIsStored` allows "revoked"). Registration ignores
  the limit (`SeatsBounded` does not count who registered).
* A group's deletion that was cut short leaves links in a deleted group, and cannot
  be repeated (`AuditedDeletionIsComplete` speaks of the audited ones); the links
  never give access again (`AccessGrowsWhenAsked`).
* A death between a migration's SQL and its record blocks every later run at V001; one
  between two seed files leaves the second out until a run reseeds; one while `.env` is
  copied or rewritten loses the database password, and as the file is there no later
  run copies the example again. `OnlyTornRunsBlock`, `DoneMeansComplete` and
  `SettingsSurvive` say that, one by one, nothing else does (but a run that is to seed
  a database without a schema conflicts, too). `.cursor/install.sh:5` calls the scripts
  "Safe to run repeatedly".
* A GRANT that fails is not noticed: the run reports "Done" and what the administrator
  has migrated stays closed to the application (`DoneMeansComplete` leaves out the
  run whose own GRANTs failed). The next run whose GRANTs succeed opens it.

### Bounds

`Requests` bounds the calls of a behaviour, `MaxInFlight` how many overlap,
`MaxTime` the clock, `Handlers` and `StatusChoices` what is called. Four requests
are enough for a login, two refreshes of the same token and a revocation, and for a
chain of two rotations raced by a logout; three in flight let the third act between
the two statements of a race. Times of one and two ticks distinguish expired from
not expired, and `MaxFailedAttempts = 2` makes the boundary reachable. For branches
four requests give create, stale reader, delete and a second create, the shortest
history that revives a branch past the limit. Overlaps are history in `Branches`,
`PermissionCatalog`, `Membership`, `Accounts` and `DbSetup` (`overlapped`): what
holds one by one is stated of the states before two calls overlap, so one run checks
both kinds. The catalogue starts from any small set of rows without deleted ones for
which the handlers' rules hold, so one call (a cascade of five saves included) and
its continuation by a second reach what longer histories from an empty table would.
`Membership` starts in the same way, from any links the handlers would have made.
`Accounts` needs two tenants for names that differ per tenant and limit 1 to reach
it with one account and one creation; two creations exceed it. In `DbSetup` two runs
race and a third finds what they left; one poll distinguishes the wait that succeeds
from the one that gives up; the first GRANT may fail and the third run find what it
left closed. Larger instances, which take too long to run each time,
hold too: two accounts in `Membership` (4.2 million states) and in `Accounts` (3.5
million), two seeded permissions in the catalogue (2.7 million). The safety
properties are proved beyond their bounds (section 4). `auth_apart` has two accounts
and two requests in flight, so that calls on different accounts overlap, and a third
request for what a login opens and a change ends. Its constraint stops a behaviour at
the first state in which two requests concern one account: from there on nothing is
promised. Deadlock is not checked: when all calls have been made and answered the
system stops. Symmetry is used in safety runs only.

### Fairness

`FairSpec` adds weak fairness on `Step(r)` for each request: once a statement
is sent, PostgreSQL answers and the event loop runs the continuation; no statement
waits for another request (no locks are held across statements). Nothing is assumed
about requests arriving, about `Tick`, or about `Abort`, and `RevocationCompletes`
excuses the handler that is cut short. `DbSetup` has the same fairness for the steps
of a run, the polls included; `ServerUp`, `Start` and `Abort` have none, so that
`EveryRunEnds` does not rest on a server that comes up.

## 4. What is proved

Every invariant and every action property of the passing runs, for all values of
the constants: any sets of rows, requests, names and passwords, any limits, and any
choice of handlers. Unless a theorem says otherwise, any number of requests may be in
flight and may die anywhere. The assumptions are those of the modules (`ASSUME`): a
sentinel such as `None` is not a member of the sets it stands outside of, ids of
different tables or of old and new rows differ, bounds are naturals, and the accounts
at the start of `Accounts` are finitely many. TLC evaluates them in every run.

Each component's module ends with its inductive invariant, and its proof module has
one layout: lemmas about rows and frames; a lemma that classifies the steps
(`NextCases`); per action what it preserves; `Init => IInv`, the step, and the
theorems of which `IInv` is the strengthening.

### Sessions, whatever overlaps (`AuthSessionsProofs`)

| theorem | says |
|---|---|
| `Invariance` | `Spec => []IInv` |
| `TypeCorrect` | the types; the flags `is_revoked` and `is_active` agree, although different handlers test different ones |
| `RefreshTokensAreOneShot` | a refresh token gives at most one successor |
| `OneLivePerLogin` | of the descendants of one login at most one is live |
| `LoginsAreAudited` | a session opened by a login has its audit row |
| `RevokedForGood` | no step revives a revoked session or moves one to another account |
| `LedgerImplemented` | `AuthSessions` implements `SessionLedger` |

`TokenRotatesOnce` is not inductive: winning a claim needs the
token to be live, and nothing in it says that a live token has not been claimed
before, that the frames are still what the handler put there, or that an `issue` step is
taken by a login or a refresh only. `IInv` adds `FramesFit`, what each statement
relies on in its handler's variables, and `OneHolderPerLogin`: the right to a login's
chain is held by exactly one thing at a time, its live session, or the refresh
that revoked one session and has not inserted the next, or the login request itself.
A rotation moves the right, a revocation or a death drops it, and nothing duplicates it.
Rotation is untouched by steps that leave sessions and claims alone (`QuietRotation`)
and by steps that only revoke (`RevokingRotation`); the two steps that matter are
`ClaimWonRotation` and `IssueRotation`.

The refinement maps `issued` to the rows, `live` to the rows whose flags are up, and
`owed` to the tokens claimed by a refresh at its INSERT. A won claim is a
`Consume`, the INSERT an `Open` or an `Exchange`, an abort between them a
`Forfeit`, the revocations a `Revoke`, everything else a stutter (`StepMaps`). That `owed`
loses exactly one token needs `TokenRotatesOnce` (`OwedOnce`).

### Sessions, requests on one account one at a time (`AuthApartProofs`)

| theorem | says, as long as requests under way together concern different accounts (`Spec /\ []Apart => ...`) |
|---|---|
| `ApartInvariance` | `[]ApartIInv` |
| `SessionsKnowThePassword` | `SessionsMatchPassword`: changing or resetting a password ends the sessions opened with the old one |
| `DeactivationEndsSessions` | `DeactivatedHaveNoSessions`: so do deletion, locking and deactivation |
| `DenialsLock` | `FailedLoginsLock`: so many denied logins leave a lock, also when requests die |
| `PasswordsAreSet` | `PasswordChangeSticks`: only a request to set a password changes one |
| `OneByOneIsApart` | under `MaxInFlight = 1`, `Spec => []Apart`: one request at a time is enough |

The hypothesis is needed: `auth_surviving_session`, `auth_lost_attempt` and
`auth_reverted_password` violate three of the four properties with two requests on one
account, and `DeactivatedHaveNoSessions` fails as the first does, with a deletion in
place of the password change. So no handler is wrong by itself, and calls on other
accounts do no harm. `ApartIInv` says that a request under way finds its accounts as
it read them (`StillHolds`), so that `save` writes exactly its entity (`MergeFresh`,
`WriteSaves`); that an entity which makes sessions stale belongs to a handler that
revokes next (`EntityHolds`), and until it has, its accounts are `Pending` and promise
nothing (`SessionsHold`); and that the failure count is at least the number of
denials saved (`CountsHold`). Roots of sessions are finished requests (`RootsDone`), so
no later step changes the password they gave. The requests that a step does not
belong to are `OtherHolds`.

### Branches (`BranchesProofs`)

| theorem | says |
|---|---|
| `BranchesInvariance`, `BranchesTypeCorrect` | `IInv`; the types |
| `HeadquartersAreBounded` | one headquarters before calls overlap, at most `MaxInFlight` after |
| `AloneOneHeadquarters` | under `MaxInFlight = 1`, `OneHeadquarters`: what the second violation refutes of two |
| `LimitIsBounded` | the limit, and less than `MaxInFlight` above it |
| `CodesIdentify` | tenant and code name one branch |
| `DeletedInOrder` | one by one, deletion is final and the headquarters goes last |

A bound on the rows is not inductive: several requests may have passed the check and not
yet written. `PotentialBounded` counts the rows together with the rows that a
request in flight may still insert, promote or revive. Only a passing check adds to
that set, and it passes when the rows alone are below the limit; all the other members
are then named by requests in flight, of which there are at most `MaxInFlight`
(`InFlightBounded`, `NamedBounded`).

### Catalogue (`PermissionCatalogProofs`)

| theorem | says |
|---|---|
| `CatalogInvariance`, `CatalogTypeCorrect` | `IInv`; the types |
| `GrantsOnlyOnRequest` | whatever overlaps, grants are asked for, and never on a system role |
| `TokensMatchListings` | before calls overlap, token and listing agree, in the middle of a cascade too |
| `GrantsNeverDangle` | no live grant of a deleted permission, wherever a cascade is cut short |
| `CatalogDuplicatesRefused` | the checks cover the database's constraints, and the codes that have none |
| `DeletionsAreForGood` | nothing deleted comes back |

Whatever overlaps, frames fit their statement and rows are never taken out. `AloneHolds`
collects the rest: the request under way still finds what it checked
(`CheckedHolds`), modules of live permissions are live, and nothing dangles. A cascade
keeps them because it deletes from the leaves: grants, permissions, module.

### Groups and roles of users (`MembershipProofs`)

| theorem | says |
|---|---|
| `MembershipInvariance`, `MembershipTypeCorrect` | `IInv`; the types |
| `TenantsAreIsolated` | whatever overlaps, no link joins two tenants |
| `ScopedChangesStayHome` | whatever overlaps, a confined caller changes rows of its tenant only |
| `AuditedDeletionsAreComplete` | one by one, an audited deletion has emptied its group |
| `MembershipDuplicatesAreRefused` | one by one, the checks cover the constraints |
| `AccessIsAskedFor` | one by one, access grows in a request that asked for it |

Rows keep their tenant and no group or link loses its row, so what a handler found
about tenants stays true whatever overlaps (`LinksFit`, `FramesFit`). Everything else
it found is in `AloneHolds`.

### Accounts and tenants (`AccountsProofs`)

| theorem | says |
|---|---|
| `AccountsInvariance`, `AccountsTypeCorrect` | `IInv`; the types |
| `SeatsAreBounded` | whatever overlaps, less than `MaxInFlight` accounts above the highest limit a tenant has had |
| `ReportedRolesAreStored` | whatever overlaps, a reported role is stored |
| `LiveNamesStayDistinct` | one by one, two live accounts never come to share a name |
| `DeletionsAreFinal` | one by one, what is deleted stays deleted, and accounts enter a live tenant in their creator's scope |
| `ConflictsAreExplained` | one by one, the database refuses only where the checks look away |

`SeatsPotential` counts as `PotentialBounded` does, against the highest limit so far
(`peak`), since a limit may be lowered under the accounts that exist.

### Set-up scripts (`DbSetupProofs`)

| theorem | says |
|---|---|
| `DbSetupInvariance`, `DbSetupTypeCorrect` | `IInv`; the types |
| `HistoryStaysTrue` | whatever overlaps or dies, what is recorded was applied |
| `SettingsAreKept` | one by one, `.env` has its password unless a run died copying or rewriting it |
| `SecretsAreStable` | one by one, no run replaces a generated secret |
| `RunsBlockOnlyWhenTorn` | one by one, only a death between a migration and its record blocks later runs, or seeding without a schema |
| `SuccessMeansComplete` | one by one, a run that reports success leaves every migration recorded and, unless its own GRANTs failed, open to the application, and every seed file loaded that no death left out |

Versions are worked through from the first on, so `applied`, the record and what a run
knows are prefixes (`HistoryFits`); a migration that must not run twice has at most
one run about to record it (`OneRecorder`), since a second application conflicts.
`AloneKnown` and `WholeUnlessCut` say what a run knows while no other overlaps: that
a torn `.env` is its own, or was left by a run that died (`cut`), and, once it has granted,
that every migration is open unless its own GRANTs failed (`denied`).

### Model-checked only

Liveness is out of the prover's reach: `RevocationCompletes` and `EveryRunEnds`.
`SessionsMatchPassword`, `FailedLoginsLock`, `PasswordChangeSticks` and
`OneHeadquarters` are false of overlapping requests, as the violation runs show; they are
proved under the hypotheses above.

## 5. Plan

Every module of the plan is written and checked, and its safety is proved. What is
left is an abstract specification of what another component promises, with the
refinement proved as for `SessionLedger`: the links of a tenant for `Membership`, or the
migrated database as a prefix of versions for `DbSetup`.

### Not modelled

* The listings: paging, sorting and filters of every service, the audit trail and
  the dashboard. They change nothing and return what one SELECT finds.
* Cookies, configuration, bootstrap, the exception filter and health: no state.
* `db:dump`, which writes the output of `pg_dump` to a file.
* The contents of audit rows, names, contact columns and the status of a tenant: no
  handler decides by them.
* Tables of the schema that no handler uses (`user_sessions`, `user_tenant_access`,
  and others).

## 6. Running

    tlc -workers 2 -config AuthRotation.cfg MCAuthSessions
    tlc -workers 2 -config AuthApart.cfg MCAuthSessions
    tlc -workers 2 -config Branches.cfg MCBranches
    tlc -workers 2 -config Catalog.cfg MCPermissionCatalog
    tlc -workers 2 -config Membership.cfg MCMembership
    tlc -workers 2 -config Accounts.cfg MCAccounts
    tlc -workers 2 -config DbSetup.cfg MCDbSetup
    tlapm AuthSessionsProofs.tla

and `tlapm` in the same way for `AuthApartProofs`, `BranchesProofs`,
`PermissionCatalogProofs`, `MembershipProofs`, `AccountsProofs`, `DbSetupProofs` and
`CountingLemmas`.

`PROJECT.json` lists every run with its configuration, the lines each definition
translates, and for each property a mutated definition that violates it.
