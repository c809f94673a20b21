# Verification of the finance dashboard backend

TLA+ models of the FastAPI backend in this repository (`src/app`), TLC
configurations that check them on small instances, and TLAPS proofs of the
properties that matter most for instances of any size. Every definition is
translated from the code; `PROJECT.json` names the lines each one stands for.

## 1. The system

A FastAPI application runs as several gunicorn/uvicorn workers (one asyncio
event loop each), with PostgreSQL through an async SQLAlchemy engine and one
shared Redis. A request resolves its caller from a JWT (`core/dependencies.py`),
runs one use case (`application/use_cases/*`), and answers. A use case opens a
unit of work (`infrastructure/database/uow.py`): one database session, its
repositories, `commit`, and `rollback` when an exception leaves the block.

The workers share nothing but PostgreSQL and Redis. Every `await` is a point
where another request, of the same or another worker, can run; PostgreSQL runs
at READ COMMITTED and no query of the application takes a row lock. So the unit
of interleaving in all models is one Redis command, one SQL statement or one
COMMIT.

### Inventory

| Component | State it keeps | Operations that change it | What is hard |
|---|---|---|---|
| Dashboard queries and cache (`use_cases/dashboard`, `cached_repo.py`) | Redis keys `dashboard:<kind>:scope:<owner or all>:*`, 300 s | two look-ups and two SETs per miss; KEYS + DELETE per record write, before and after COMMIT | readers that overlap writers; which scopes a writer invalidates; category totals carry names that no rename invalidates; Redis failures are swallowed |
| Record writes (`use_cases/records`, `record_repo.py`) | `financial_records` | create, update, soft delete | two writers of one record; the category can be deactivated in between |
| Access to routes (`core/dependencies.py`, `api/v1/*`, `get_user.py`, the ownership checks) | none: the claims of the access token | - | the token's rights and its user's status are as old as the token; some routes load the caller, some do not; two notions of a user's permissions |
| Sessions (`token_service.py`, `login.py`, `refresh.py`, `logout.py`) | `refresh_tokens`, Redis blacklist of access-token ids | issue, rotate, revoke, blacklist | the token service commits in sessions of its own; overlapping rotations; requests lost between two commits; users disabled meanwhile |
| Failed-attempt counter (`login.py`) | Redis key `login_attempts:<e-mail>`, 900 s | GET, INCR, EXPIRE, DELETE | check and count are apart, and INCR and EXPIRE are two commands |
| User status and deletion (`change_status.py`, `delete_user.py`) | `users.status`, `deleted_at` | activate, deactivate, soft delete | race with login and refresh |
| Roles and permissions (`manage_roles.py`, `use_cases/roles`) | `roles`, `user_roles`, `role_permissions` | assign, remove, create, update, soft delete | guards on a list loaded earlier; roles that vanish under their members; several rows written one by one, in any order, in one transaction |
| User creation (`create_user.py`, `register.py`) | `users` | insert | e-mail check before the insert; roles that are never stored |
| Names of users, roles and categories (`exists_by_email`, `exists_by_name`, unique indexes) | `users.email`, `roles.name`, `categories.name` | create, rename, soft delete | the look-up ignores case and deleted rows, the index does neither; empty names |
| Entity write-back (`user_repo.py`, `role_permission_repo.py`, `category_repo.py`, `record_repo.py`) | every table | `update` copies a domain entity onto the row | lost updates |
| Audit log (`audit_repo.py`) | `audit_logs` | insert in the use case's transaction | rolled back together with it |
| Connection pool (`session.py`) | pooled connections | check-out, check-in | login and refresh hold one and wait for a second |
| Value objects (`money.py`, `date_range.py`, `email.py`, `password.py`) | none | pure | boundaries |
| Middleware, health, wiring, migration, seed script | none of their own | - | - |

How they interact: login, refresh and logout call the token service, which opens
its own session, while their unit of work is open, and the Redis cache service,
whose failures are swallowed and look like a missing key. The unit of work wraps
the record repository in the caching decorator. The administrative use cases
change rows that login, refresh and every ownership check read; the route's own
permission check reads the token, which was filled from those rows at its issue.

What makes each part correct:

- cache: no uncommitted aggregate is visible; a write of a record removes what it made
  stale; what it leaves, and the names a rename leaves, disappear in the end;
- sessions: a revoked token stays revoked and yields nothing; a disabled user gets
  nothing; what a client holds is audited;
- counter: the number of guesses per window is bounded, and no lockout is endless;
- roles: a user keeps a role; what the administrator assigned is what is granted;
- access: a token carries its user's rights, ends with its logout, and outlives a
  user's deactivation by one lifetime at most; another user's record takes a right
  that an active role grants;
- role permissions: the audit row shows what the table holds; no request waits for ever;
- connections: none leaks, and requests that need two never wait for each other
  for ever;
- write-back: an update changes what its request asked for and nothing else;
- names: no two live rows share one, case ignored; built-in rows keep theirs.

`PROJECT.json`, "hazards", lists where each of these is at risk, by line.

## 2. Modules

| Module | What it models | Proof module | Abstract specification |
|---|---|---|---|
| `DashboardCache` | dashboard requests, record writes and renames of categories around the Redis cache | `DashboardCacheProofs` | `ScopedCache` |
| `AuthSessions` | login, refresh and logout beside administrators who disable users | `AuthSessionsProofs` | `TokenLedger` |
| `LoginThrottle` | the failed-attempt counter and the audit row of a failed login | `LoginThrottleProofs` | |
| `EntityUpdates` | update and soft deletion of a user, role, category or record | `EntityUpdatesProofs` | `AtomicRow` |
| `UserRoles` | assignment and removal of roles, creation of users, deletion of roles | `UserRolesProofs` | |
| `UniqueNames` | names of users, roles and categories: creation, rename, deletion, the look-up and the unique index | `UniqueNamesProofs` | |
| `ConnectionPool` | the pooled connections and the sessions that requests of every kind open | `ConnectionPoolProofs` | |
| `RolePermissions` | administrators who change the permissions of roles | in `AccessRightsProofs` | |
| `AccessRights` | what an access token lets a request do, beside changes of users, roles and permissions; extends `RolePermissions` | `AccessRightsProofs` | |

Each `MC...` module names the model values of its runs, and their symmetry sets
where the run has no liveness property. Where one run asks a question under
several conditions, the module has a constant `Settings`, a set of records (which
faults, how many requests at once, who takes part), and a variable `setting` that
`Init` chooses from it and nothing changes: one run explores all of them, and a
property that holds under a condition names it (`Calm`, `setting.atOnce <= 1`).

All modules share one shape. `Procs` (in `AccessRights`: `Callers` and `Managers`)
is a set of slots for requests in flight;
`pc[p]` is the step that the request in slot `p` is about to take, `"idle"` when
there is none. An action is what the code does between two awaits that touch
shared state: one Redis command, one SQL statement or one COMMIT. A `Begin...`
action starts a request with any input it can have, `Refuse`, `NotFound`,
`...Refused` are the early returns and exceptions, and `Abort`, `RollBack`,
`Crash` a request that is lost. An operator called `...Unset`, `...Any`, `...Unchecked`
and so on beside an action, marked "Variant", is a plausible mistake in that
action, part of no specification; `PROJECT.json` says which property each of them
breaks.

### DashboardCache and ScopedCache

An aggregate depends on the committed records of its scope and, if it is the category
totals (`Named`), on the names of the categories, which the query joins and the cached
rows carry. Both are abstracted to counters: `version[s]`, the commits that have touched
the records of scope `s` (an owner, or `Global`), and `names`, the committed renames.
`Current(k)` is what the query of key `k` would return now. A cached entry carries the
aggregate it was computed as (`data`), the version when it was set (`at`, history) and
whether the key has an expiry. A reader does GET in the use case, GET in the repository,
the query, SET in the repository, SET in the use case (`UcHit`/`UcMiss`,
`RepoHit`/`RepoMiss`, `DbRead`, `RepoSet`, `UcSet`). A writer flushes, lists and deletes
the keys of the OWNER and the global ones (`PreListUser`, `PreListGlobal`, `PreDelete`),
commits, and lists and deletes the keys of the ACTOR and the global ones
(`PostListUser`, `PostListGlobal`, `PostDelete`). KEYS and DELETE are apart. A rename
(`BeginRename`, `CommitRename`) has no such steps: `update_category.py` commits at line
82 and returns. So two notions: an entry is `Stale` when it misses a write of a record,
`Outdated` when it misses that or a rename. Every rename counts for the totals of every
scope; that it changes nothing for an owner without records in the category is left out.
`get_summary` has one key for a scope; the keys of totals and trends carry more
parameters, which share their scope and so their fate.

`ScopedCache` is what the cache promises without requests, Redis commands and
transactions: records of a scope move to a new version in one step (`Write`), names to new
names (`Rename`), a key is filled with a version and names that were reached (`Store`), and
entries go at any time (`Drop`). `exact`, the image of `NoWriteMissed`'s condition (one
request at a time, Redis up), promises more: only what is current is stored, and records
move on only when no key of their scopes holds anything. Names move on without asking,
also then. A dashboard request's two SETs are two `Store`s, its invalidations are `Drop`s,
its COMMIT is the `Write` or the `Rename`, and every other step is a stutter.

### AuthSessions and TokenLedger

A pair of an access and a refresh token is one element of `Tokens`: they are
issued together. `row` is the `refresh_tokens` table, `blacklist` the Redis keys,
`audited` the committed audit rows of issues, `handed` the pairs that reached a
client. The token service opens a session of its own, so `Issue`, `Rotate` and
`Revoke` commit at once while the use case's unit of work is still open and
`LoginAudit`/`RefreshAudit`/`LogoutAudit` commits later. The answer of a login or refresh
is one more step, `Respond`: a request that is lost before it (`Abort`) has stored and
audited a pair that no client has, and after a refresh the client has only the revoked
parent, which it may present again (`BeginRefresh`). A refused request stores nothing, so
it may begin when no token is left. `Rotate` is one step because the
revocation and the insert are in one transaction. `raced`, `grace`, `closed`,
`spent` and `dropped` are history: who was in flight when a token was revoked or
a user disabled, what answered logouts have ended, and blacklist entries Redis
lost. Expiry of a refresh token appears only as a refusal that may happen.
`TokenLedger` is what the table promises without requests: a token is issued
live, revoked once and for ever, and a successor appears in the step that leaves
its parent revoked; with `SingleUse`, only a live token is rotated.

### LoginThrottle

One address. `count` and `ttl` are the Redis key and its expiry. `Check` is the
GET, `Incr` and `SetExpiry` the two commands of a failed attempt, `Clear` the
DELETE after a good password, `AuditFailure` the insert of the audit row and
`Raise` the exception that rolls it back. `AuditRejected` is the foreign key that
refuses the random actor id of an unknown address. `tries` counts the failed
verifications of a window, `lost` the EXPIREs that did not happen.

### EntityUpdates and AtomicRow

One row of any of four tables, with the columns requests can write. The entity
is loaded (`Load`), changed in memory, and handed to the repository's `update`,
which SELECTs the row again (`Reselect`), copies EVERY attribute of the entity
onto it, and lets SQLAlchemy send an UPDATE of the attributes that differ from
that SELECT (`Dirty`, `Flush`). The UPDATE takes the row lock until `Commit`.
`AtomicRow` is what the use cases promise: while the row is not deleted, a
request changes exactly the columns it provides.

### UserRoles

`member[u]` is the `user_roles` table. Guards are evaluated on the roles loaded
with the user (`AssignUser`, `RemoveUser`); the insert is preceded by a count
(`Exists`) and refused by the primary key if another request committed the row
first (`InsertRefused`). `Effective` leaves out roles that are soft-deleted, as
`map_user` does. The two creations store the user without its roles. `raced`
remembers the requests whose user lost or gained a role under them.

### UniqueNames

One table, chosen by `Init`: `users` (by e-mail), `roles` or `categories`. A name
is a word and a case: two names of one word differ in case or surrounding blanks
only, and the word `Blank` is the empty name. E-mails and role names are stored in lower
case, category names as typed (`Normalise`). `Check` is `exists_by_name` or
`exists_by_email`, which look at live rows and ignore case; `Write` is the INSERT
or UPDATE, which waits for another transaction with the same row or name (`Waits`)
and is refused by the unique index (`Clashes`), which compares exactly and over deleted
rows as well. An update loads its row, looks a name up only if it differs and is
not empty (`AsksName`), and writes the entity back as in `EntityUpdates`
(`Reselect`, `After`); here the columns are `name` and `is_deleted`. `Protected`
is what guards the rows of the seed script. `overtaken` and `tainted` are history:
requests whose row or name another request committed between their check and
their COMMIT, and rows last written by such a request.

### ConnectionPool

`free` counts the connections that can still be handed out, `DB_POOL_SIZE` plus
`DB_MAX_OVERFLOW` of them at first; `held` says which session of which request has
one. A session takes its connection at its first statement (`Take`), not when it
is opened, and gives it back at its commit or close (`Give`); `__aexit__` of every
open block gives back all of them (`Unwind`). A login or refresh has read the user
in its unit of work (`TakeUow`, `Lookup`) when the token service opens a session of its
own (`TakeToken`, `Store`). A logout revokes first and only then uses its unit of
work. Every other route loads the caller in one unit of work, closes it
(`TakeActor`, `LoadActor`), and works in a second. What the statements say is left
out. `committed` remembers who has a commit of theirs in the database.

### RolePermissions and AccessRights

`RolePermissions` is the `role_permissions` table. A request loads the role with
its permissions (`LoadRole`), then takes the permissions asked for one by one
(`Each`): it changes the entity, looks the row up, and writes it if need be
(`Write`). A statement on a row that another open transaction has written waits
(`Blocks`); a circle of waits ends because the database aborts one member
(`Victim`). `did` is what the open transaction has written, `entity` what the
audit row will say. `mraced` is history: requests whose role's rows another
request has changed since the load.

`AccessRights` adds users, their roles, and tokens. `carries[t]` is the claim
`permissions` of token `t`: what `get_all_permissions` returned (`Rights`), which
counts inactive roles. `ActiveRights` is what `has_permission` looks at. A token is
issued in two steps after the look-up of its user (`BeginIssue`, `LoadRoles`, `Mint`):
refresh reads the roles again in the token service's session, login in the
session that has them already. A request passes the expiry (`Decode`), the blacklist
and `require_permission` (`Lookup`), loads the caller unless it is a GET of users,
roles or categories (`LoadActor`), and acts (`Act`). `op` tells apart what the code
treats differently: `view` (the caller is not loaded), `manage` (loaded, nothing
more is asked), `own` and `others` (a record of the caller or of another user) and
`overview` (a listing or a dashboard of everybody's records, which shows the caller's
own if `records:read` is missing, whatever permission the route has required).
A logout computes the remaining time and stores the blacklist entry in two steps
(`Remaining`, `Store`).

The clock has seconds and parts of a second: `exp` is a whole second, as is the
comparison with it, while Redis ends an entry at the instant it was set plus
whole seconds. Administrators commit in one step (`ChangeRole`, `ChangeMember`,
`ChangeStatus`); those who change permissions take the steps of `RolePermissions`.
`stale` and `overtaken` are history: requests whose user's rights, or status, changed
since they were read; `late` are the tokens issued by an overtaken request, `closed`
those whose logout is through, `offSec` is when a user was last disabled.

## 3. Runs

| Run | Shows |
|---|---|
| `Dashboard` | Four settings. Reads and writes overlap without faults: `EntriesFollowWrites`, an entry that was in Redis when a write of its scope committed does not outlive that write's request; `OnlyOverlapLeavesStale`, a stale entry that stays comes from a reader that overlapped a write; both of the keys every writer invalidates after its COMMIT (`Covered`). Reads of category totals overlap renames. In these two, `EventuallyFresh`: once writes and renames stop, every key is finally absent or current, in its totals and its names. Reads and one write overlap with failing Redis commands and dying workers. One at a time, summaries and category totals, a rename and dying workers: `NoWriteMissed`, no entry ever misses a committed write of a record, not even if a worker dies between COMMIT and the invalidation after it; this is what the first invalidation is for. In all four, `ImplementsScopedCache`: nothing computed from uncommitted data is ever cached, and with one request at a time the COMMIT of a record finds no entry of its scope, so that only a rename outdates one. |
| `AuthFaults` | Refinement of `TokenLedger`; a revoked token yields a successor only to a refresh that had already found it live; a disabled user gets tokens only from requests past their checks at that moment; an answered logout stays in force; a client holds only pairs whose issue is audited (`HandedAreAudited`), wherever a request is lost among the COMMIT of the token, that of the audit row and the answer. All with overlap, Redis failures and lost requests. |
| `AuthDoubleRotation` | Violation: two overlapping refreshes of one token both succeed, so it has two live successors. |
| `Throttle` | Two settings. Three logins while Redis answers: `AttemptsBounded`, at most one failed attempt per request in flight goes beyond the limit; `LockoutEnds`, a lockout ends whatever requests arrive. Two logins with failing commands and lost requests: `EndlessLockoutNeedsLosses`, a counter at the limit without an expiry has lost as many EXPIREs as the limit. |
| `ThrottleFailureAudit` | Violation: the audit row of a failed login never commits. |
| `EntityOverlap` | `RevertsOnlyBetweenSelects`: a COMMIT changes only columns its request provides and columns that another request changed between its two SELECTs. `StatusFlagAgrees`: whatever two requests undo of each other's, `users.is_active` agrees with the status of a live user. |
| `RolesOverlap` | `AnsweredIsStored`: a committed assignment is there and a committed removal is gone, and the primary key refuses no assignment, unless another request interfered. `LastRoleNeedsRace`: the last role goes only by such a race or with the role itself. |
| `RolesOnCreation` | Violation: a created or registered user has no `user_roles` row. |
| `NamesOverlap` | Two overlapping requests in each of the three tables. `SharedNamesNeedRace`: live rows share a name only after an overlap. `FoldedNamesUnique`: e-mails and role names never do. `IndexRefusesNeedsCause`: why the index can refuse a name that passed the check. `BuiltinKept`: what can change a built-in row. |
| `Pool` | Three requests, two connections, two settings: all three may log in and the pool's timeout ends waits, or one may and nothing does. `ConnectionsAccounted`: no way a request can end leaves a connection checked out. `OnlyTokenIssueHoldsAndWaits`: no request but a login or refresh waits with a connection in hand. `ProgressBelowCapacity`: with fewer of these than connections there is never a circle of waits. `WaitsBeforeItCommits`: a request that times out can be repeated, a logout excepted. `RequestsEnd`: every request ends, by the timeout in the first setting and without it in the second. |
| `Access` | Five settings: two requests on a running clock; a user disabled on a running clock; three changes of roles, memberships and status during the issue and use of a token; a role's permissions changed meanwhile; two administrators on the same roles. `LoggedOutStaysOut`: after a logout the token opens nothing before the second of its expiry. `DisabledWithinLifetime`: a disabled user is out one lifetime later, except with a token whose issue the administrator overtook. `FreshTokens`: a token carries its user's rights as of its issue. `OthersNeedActiveRole`: what an inactive role put in the token is not enough for another user's record. `AuditMatchesTable`: the audit row of a change of permissions is true, unless requests overlapped. `ManagersEnd`: two of them that wait for each other end. |
| `AccessViewers` | Violation: a viewer reads another user's record. |

The violations are differences between the code and its own docstrings; the
statement, its line and the line of the code are in `PROJECT.json`, "findings".

Some more facts came out of the models without a run of their own:

- login commits the refresh token before the audit row, so a login lost in
  between leaves a live row without an audit row; the client never got that token,
  which is what `HandedAreAudited` says;
- a refresh whose answer is lost after the rotation has committed leaves the client with
  a revoked token: the retry is refused, and the live successor is held by nobody;
- a rename of a category invalidates no dashboard key: with one request at a time and
  Redis up, cached category totals show the old name for up to 300 s, and a use case's
  second SET can prolong that. `NoWriteMissed` is about records only, therefore;
- a change of a user's name that overlaps a deactivation can write the old status
  back, although `update_user.py:14` says "Only updates provided fields";
  `RevertsOnlyBetweenSelects` says exactly when;
- two overlapping deletions of one user both commit, the second replacing
  `deleted_by`, although `delete_user.py:14` says "Cannot delete already deleted
  user";
- two overlapping removals can leave a user without a role, although
  `manage_roles.py:70` says a user must always have one; `LastRoleNeedsRace`
  says that nothing else can, except the deletion of the role;
- with three requests `users.is_active` and `users.status` can disagree in a live
  row, which `get_active_by_id` and login then answer differently; with two they
  cannot (`StatusFlagAgrees`), and it takes a COMMIT that revives a deleted row
  (`FlagParts`);
- the invalidation after the COMMIT of an update or deletion names the actor's
  keys: when an editor writes another user's record, an aggregate of that owner
  stored between the first invalidation and the COMMIT stays until it expires, hence
  `Covered` in `EntriesFollowWrites` and `OnlyOverlapLeavesStale`; `EventuallyFresh` is
  about that key too;
- two overlapping creations leave the live categories "Food" and "food", although
  `create_category.py:18` says "Name must be unique (case-insensitive)"; the names of
  users and roles are safe, because they are stored in lower case;
- a soft-deleted name cannot be used again: the look-up finds it free, the index
  refuses it, and the client gets a 500;
- `PATCH` of a role with the name "" renames a built-in role to "", although
  `roles/dtos.py:5` says system roles cannot be renamed: `if dto.name` (`update.py:37`)
  takes the empty name for none, `is not None` (line 57) stores it. The role
  is no longer in `SYSTEM_ROLES` then, and can be deleted;
- `get_all_permissions` counts inactive roles: a user whose role was deactivated goes
  on getting tokens with its permissions, and `require_permission` accepts them; only
  the ownership checks of records ask the active roles;
- a deactivated user whose token has not expired passes every route: nothing but login
  and refresh looks at the status;
- `GET /records` and the dashboard load the caller outside a `try` (`api/v1/records.py:52`,
  `api/v1/dashboard.py:34`): for a deleted caller they answer 500;
- the permissions of built-in roles can be changed: `manage_permissions.py` does not look
  at `SYSTEM_ROLES`;
- an access token that is logged out can be accepted again in its last second, when the
  blacklist entry has ended and `exp`, a whole second, has not passed;
- with at least as many logins and refreshes at a time as the pool has connections, all
  can wait for each other's connections until `pool_timeout`; one of them then answers
  500, and its connection lets the others go on;
- `readiness` cannot report Redis as down, although `health.py:25` says it does:
  the cache's `get` swallows every failure (`cache_service.py:19-23`);
- while writers keep rolling back, overlapping readers can hand a stale aggregate
  on for ever: each reads it from the one layer and stores it in the other. Hence
  the premise of `EventuallyFresh`.

### Bounds

| Constant | Value in the runs | Why it is enough |
|---|---|---|
| `Procs` | 2; 3 for the counter and the pool; `atOnce` 1 where a setting is about requests without overlap | every race in the code is between one request that has read and one that commits; the counter is a sum, where 3 shows more than one excess; 3 requests on 2 connections are enough to exhaust the pool, and for a third to wait while two wait for each other |
| `Users` (cache) | 2, one of them with `records:read` and an editor | an owner, and an actor who writes another's records |
| `kinds` (of a setting) | the summary beside writes, category totals beside renames, trends with faults; summary and category totals one at a time | each kind has its own key; they interact only through KEYS patterns. Totals depend on names, the others do not; totals and trends may miss on a key that is present, the summary may not |
| `writes` (of a setting) | 2, 1 with faults, 0 beside renames | bounds `version`; two commits give an entry that is older than another |
| `renames` (of a setting) | 2 where they overlap reads, 1 one at a time | bounds `names`; likewise |
| `Tokens` | 2, and 3 for the double rotation; 1 in `Access` | a token and its successor, and retries with the revoked one; two successors need three; nothing about an access token depends on another one |
| `PoolSize`, `MaxOverflow` | 1, 1 | the sum is what counts; a pool of one is always exhausted by a login |
| `nested` (of a setting) | all 3, or 1 | more logins than connections, with the timeout; fewer, without |
| `Lifetime`, `Parts`, `horizon` | 1 s, 2, up to 3 s | a token expires, and an administrator overtakes its issue; whether an instant is before or after another within its second is all that the blacklist depends on |
| `changes` (of a setting) | 0 to 3, counting requests of managers | three give a right that is taken and given back, or a role emptied, deactivated and deleted |
| `Users`, `Callers`, `Managers` (access) | 1; up to 2; up to 2 | rights are those of one user; a logout and a use of one token overlap; two transactions on the same rows |
| `Perms`, `Roles` (access) | 2, 2, one built in | two rows give two orders; a role that can be deactivated and one that cannot |
| `MaxAttempts` | 2 | reached, exceeded and reset; the code's 5 behaves alike |
| `MaxCount` | 4 with faults | a failing GET lets any number of attempts through; this many are counted, twice the limit. `tries` and `lost` saturate at the limit plus the requests |
| `Roles` | 3, one of them a system role | a last role, another, and one that cannot be deleted |
| `Data` | 2 values | what was there and what is written |
| `Ids`, `MaxRows` | 3, of which creations fill 2 in `users` and `roles`, 3 in `categories` | a category is built in and stays, two others come to share a name; a built-in role can be renamed to the empty name, so a second row is enough |
| `Words` | 3: the empty name, a built-in one, another; each in 2 cases | a race is about one name; the three kinds are treated differently |
| `Asked` | every name but the built-in one | once the built-in name is free, a request for it is like one for another name |

The theorems of the next section hold for every value of these constants.

Deadlock is checked, except in the runs of `AuthSessions` and `AccessRights`: tokens,
changes and the clock are used up there, and then nothing may be left to do.

### Timing

Redis expires a cached aggregate 300 s and the counter 900 s after the last SET
or EXPIRE. A request is shorter than that: a worker that does not answer is
replaced after gunicorn's `--timeout` of 60 s, a connection is waited for 30 s at
most, and a Redis command fails after 2 s. So `Expire` and `WindowEnds` wait for the requests that
were in flight when the expiry was set (`pinned`). Without that the models would
let a reader hold a value for longer than the time to live.

### Fairness

Weak fairness of the steps of each request that has begun (an event loop resumes
every task whose await is done, and every await has a time limit), and of the
expiry of each Redis key. That requests arrive, succeed, or stop is not
assumed; lost requests and failing commands are not fair, and the settings that
liveness is about do without them.

Connections are waited for in a queue that the pool serves in order, so no request
is passed over for ever while connections come and go: strong fairness of each
check-out. The pool's timer runs on meanwhile: strong fairness of `Timeout`, where
the setting has it. In `RolePermissions` the database answers every statement and
looks for circles of waits: weak fairness of each manager's steps, those of `Victim`
among them.

## 4. Proofs

All theorems hold for any number of users, tokens, roles, requests and data
values, under the named assumptions of the modules: the null values are not
elements of the sets they stand beside, rights are given to users, faults are
the two named ones, `Procs` (counter, pool, sessions, sequential cache), `Roles`, `Perms` and `Managers` are finite, the
empty name is not built in, the pool has at least one connection, and `Settings` is
any set of settings of the right type.

| Theorem | Statement | Argument |
|---|---|---|
| `TypeCorrect` (in each proof module) | `Spec => []TypeOK` | `TypeInv` adds to the types what a request holds at each step (a reader has a key, a writer an owner, a rotation a stored token); without it `EXCEPT` and record access are untyped |
| `NoDirtyReads` | `[]NoDirtyRead` | the totals and names in hand are at most the committed ones, which only grow |
| `InvalidationComplete` | `[]EntriesFollowWrites`, of settings without faults | a writer after COMMIT has found, or is still to find, every entry that precedes the COMMIT |
| `OverlapIsTheOnlySource` | `[]OnlyOverlapLeavesStale`, of settings without faults | `OverlapInv`: unless a read of the key has overlapped a write, what readers have in hand is current |
| `SequentialWritesNotMissed` | `[]NoWriteMissed`, of settings with one request at a time and Redis up | `SequentialInv`: what the request has listed and deleted at each step before its COMMIT; staleness alone is not inductive, since the COMMIT makes every left-over entry stale. A rename makes none stale: the versions stay |
| `CacheRefinement` | `Spec => ImplementsScopedCache` | each SET, DELETE, expiry and COMMIT maps to `Store`, `Drop`, `Write` or `Rename`, by `NoDirtyRead` for what a SET may store; where `exact` holds, by `SequentialInv`: a reader alone that has missed has what is current in hand, names included, though it may have hit an outdated entry before; and a writer alone has emptied its scope before it commits |
| `ExpiredStayAway` | `ExpiryIsFinal` | `PinnedInv`: a request past its look-up of a key that is present was in flight when the key was last set, so it keeps the key from expiring |
| `HandedOnlyAudited` | `[]HandedAreAudited` | `TypeInv`: a request that is about to answer has its pair stored and audited, since it comes from the COMMIT of its audit row; nothing takes either back |
| `LedgerRefinement` | `Spec => ImplementsLedger` | each action maps to `Issue`, `Rotate`, `Revoke` or a stutter |
| `RevokedMints` | `RevokedMintsNothing` | `RaceInv`: a refresh past its check holds a live token or one that was revoked under it |
| `SequentialSingleUse` | one request at a time `=> ImplementsSingleUse` | `RaceInv` with nothing ever raced: the ledger's chain property is lost to overlap only |
| `SuccessorsOfOne` | `[]SuccessorsBounded` | `SuccessorsInv`: the successors of a token and the refreshes that still hold it as live are together no more than the requests, each successor having used up one that was in flight at the first rotation |
| `DisabledUsers` | `DisabledUsersMintNothing` | `GraceInv`: who is past the checks of a disabled user was in flight at that moment |
| `LogoutIsFinal` | `[]LogoutEndsBoth` | `LogoutInv`: what a logout has achieved at each of its steps |
| `LimitHolds` | `[]AttemptsBounded`, of settings without faults | `BudgetInv`: the counter plus the logins past the check stay below the limit plus the requests; counted with cardinalities of sets of requests |
| `EndlessLockout` | `[]EndlessLockoutNeedsLosses` | `OwedInv`: each increment of a key without expiry is owed an EXPIRE, to come or lost |
| `LockoutProlonged` | `LockoutNotProlonged` | by actions, from the types: during a lockout `Check` lets nobody join those who may still set the expiry, and each of them sets it once |
| `RevertsBounded` | `RevertsOnlyBetweenSelects` | `WindowInv`: `changed` holds every column in which the two SELECTs differ |
| `AloneIsAtomic` | one request at a time `=> ImplementsAtomicRow` | `AloneInv`: the request has the committed, live row in hand |
| `StatusFlag` | `[]StatusFlagAgrees` | `RevivalInv`: of two requests, one that finds the row deleted is alone with it until its COMMIT, because the other has committed the deletion and cannot load the row again; agreement of the row alone is not inductive |
| `FlagParts` | `FlagPartsOnRevival` | a COMMIT recomputes the column from the status, so the two part only where one is written and the other was equal to what the SELECT had given |
| `Answered`, `LastRole` | `[]AnsweredIsStored`, `LastRoleNeedsRace` | `KnownInv`: what a request that nobody raced still knows about its user's roles |
| `CreationStoresNone` | `[]CreatedWithoutRoles` | `CreationInv`: the user of an uncommitted INSERT is absent and no other transaction has inserted it, and an absent user has no row in `user_roles`. It makes the finding of `RolesOnCreation` general: every creation that asks for a role breaks the docstring |
| `TypeCorrect` (of `UniqueNames`) | types, and no two rows have equal names | `HeldOK`: statements that wait for their COMMIT hold different rows and give different new names, which no other row has |
| `FoldedUnique` | `[]FoldedNamesUnique` | `StoredInv`: what is stored or loaded is in lower case, so the index compares likewise |
| `SharedNames`, `IndexRefuses` | `[]SharedNamesNeedRace`, `IndexRefusesNeedsCause` | `RaceInv`: a request that nobody has overtaken has its row as committed, and after its check no other live row has its name unless an earlier race left it |
| `BuiltinStay` | `BuiltinKept` | `PassedInv`: who passed the protection of a built-in row does not rename it |
| `NamesUniqueAlone`, `RefusalsAlone`, `BuiltinAlone` | one request at a time `=>` `[]NamesUnique`, `RefusedForDeleted`, `BuiltinFixed` | from the three above, since nobody is ever overtaken: the duplicates need an overlap, the 500 for a deleted row's name and the rename to "" do not |
| `NoLeak`, `HoldAndWait`, `RetryFindsNothing` | `[]ConnectionsAccounted`, `[]OnlyTokenIssueHoldsAndWaits`, `[]WaitsBeforeItCommits` | `IInv`: the kind and the step of a request settle which of its sessions hold a connection, and `free` plus the cardinality of `held` is the capacity; the count alone is not inductive, since `Give` must know that its connection was held |
| `PoolProgress` | `[]ProgressBelowCapacity` | from `IInv`: if nothing is free and every holder waits, each holder is a login or refresh with one connection, and there would be as many of them as connections |
| `RequestsGoOn` | `RequestsAdvance` | from `IInv`: the kind of a request settles the step that follows, and `Ahead` goes down along each of the orders |
| `SnapshotIsTrue` | `[]AuditMatchesTable` | `RPInv`: for a manager that nobody raced, the entity is the committed rows with its own writes (`Snapshot`), and the write under way is the one still missing (`Pending`) |
| `WaitsAreResolved` | `[]WaitsResolve` | from `RPInv`: who is waited for has written a row, so its request is not over; if every busy request of a set waits, all of them form a ring |
| `ManagersGoOn` | `ManagersAdvance` | `Left`, twice the permissions still to be handled plus the steps of the one in hand, goes down with each step of its own; finiteness of `Perms` |
| `TypeCorrect` (of `AccessRights`) | `[]TypeOK` | `Typed`: the types, and `Shape`: whom a request acts for at each step, and that the token it presents is that user's |
| `TokensAreFresh`, `RoleIsActive` | `FreshTokens`, `OthersNeedActiveRole` | `ReadsInv`, `RightsRead`: the rights a request has read are its user's, unless they changed since |
| `DeletedStopped` | `DeletedActsNoMore` | `ReadsInv`, `StatusRead`: so is the status |
| `LogoutHolds`, `DisabledLockedOut` | `LoggedOutStaysOut`, `DisabledWithinLifetime` | `TimeInv`: the remaining time in hand is at least what is left (`LogoutTime`), the entry of a closed token lasts into its last second (`ClosedTime`), and a token of a user who is disabled expires within a lifetime of that, unless it is `late` (`TokenTime`) |

`SequentialSingleUse`, `AloneIsAtomic` and the three `...Alone` of `UniqueNames` have no
run: they are the counterparts of the races that the runs show, proved for one request
at a time. Nor have
`NoDirtyReads`, which `CacheRefinement` builds on and implies for what is cached,
`DeletedStopped`, `SuccessorsOfOne`, `FlagParts`, `CreationStoresNone`, and the safety cores of
the liveness properties named next; TLC has checked each of these on the instance of
its component's run.

Only model-checked: the liveness properties `EventuallyFresh`, `LockoutEnds`,
`RequestsEnd` and `ManagersEnd`, which need fairness, out of reach of the proof
system; and the four violations. What each rests on besides fairness is proved, as
an invariant or an action property:

| Liveness property | Proved | What is left to fairness |
|---|---|---|
| `EventuallyFresh` | `ExpiryIsFinal`: an entry that expires is not put back by a request that knew it | that keys expire, and that requests end |
| `LockoutEnds` | `LockoutNotProlonged`: the requests that can renew the expiry only become fewer | that they end, and that the key expires |
| `RequestsEnd` | `RequestsAdvance`: no request goes back a step or asks twice for a connection; `ProgressBelowCapacity`: some holder does not wait | that steps, waits and timeouts happen |
| `ManagersEnd` | `ManagersAdvance`: no request goes back; `WaitsResolve`: where requests wait, one of those they wait for can go on or is in a ring | that it goes on, and that rings are broken |

## 5. Not modelled

- The recycling and pre-ping of connections (`session.py:21-22`): the pool does both
  inside a check-out. `get_session` has no caller.
- The refresh token's 7 days: an expired one is a refusal that may happen. The
  issue of an access token and the response that carries it are one instant.
- Signing, hashing, formatting, DTOs, schemas, response mappers: no state.
- Filters, search and pagination of the listings (`record_repo.py`, `get_all` of the
  others): pure SQL over one table. The total and the page are two statements, so a
  commit between them shows in one only.
- The category of a record: `create_record` and `update_record` check that it is active, and
  it may be deactivated before their COMMIT. It may be at any later time too, since
  `delete_category` looks at no record, so no state tells the race from a sequence.
- `Money`, `DateRange`, `Password`: checks of one argument, within reach of unit tests.
- Middleware, wiring, health: I/O or construction. Of the migration and the seed script
  only the unique indexes and the seeded rows are used (`UniqueNames`, `RolePermissions`).
- Administrators in `AuthSessions` and `AccessRights` commit in one step: what they do
  between their own statements is the subject of `EntityUpdates` and `UserRoles`. What
  Redis loses of a logout is in `AuthSessions`; in `AccessRights` Redis answers.
- The permission ids of a request are taken to exist, and permissions to be undeleted:
  no use case deletes one.
- The labels of enumerated columns. The models take every statement to be accepted. In
  the code `SAEnum` (`database/models/*.py`) sends the names of the enumerations' members
  (`INACTIVE`), while the migration creates the types with the members' values
  (`inactive`); on tables created by it PostgreSQL refuses the names. No model shows this.
- The date filters and periods of dashboard keys, and which categories an owner's records
  are in: see `DashboardCache` in section 2.
- The counter is per address as typed; the model has one address.

## 6. Plan

Done, in this order: `DashboardCache` (and later `ScopedCache`), `AuthSessions` with `TokenLedger`,
`LoginThrottle`, `EntityUpdates` with `AtomicRow`, `UserRoles`, `UniqueNames`,
`ConnectionPool`, `RolePermissions` with `AccessRights`, and the proofs of each. The times
to live planned as a module of their own are part of `AccessRights`, where the requests
that race with them are.

What could follow:

1. The composition of `AuthSessions` and `AccessRights` under Redis failures: a lost
   blacklist entry against what the token still opens.
2. An abstract specification of `UserRoles` for requests that do not overlap, as
   `TokenLedger`, `AtomicRow` and `ScopedCache` are for theirs, and its refinement.
3. A pure module for the listing filters and the pagination arithmetic, checked
   against reference definitions.
