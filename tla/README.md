# OpsFlow: models, checks and proofs

OpsFlow is a NestJS service for the cash operations of organizations with
several branches: operators record cash movements, managers approve and deliver
them, administrators manage users, and everything is scoped to an organization
(tenant). State lives in PostgreSQL, through Prisma, and in part in Redis or in
the process. This directory holds TLA+ models of the parts whose correctness
depends on the order in which things happen, TLC configurations that check them
on small instances, and proofs that the safety properties hold of every instance.

Paths below are relative to `src/` unless they start with `tla/`.

1. [Inventory](#1-inventory)
2. [How the models relate to the code](#2-how-the-models-relate-to-the-code)
3. [Modules](#3-modules)
4. [Runs, bounds and what they show](#4-runs-bounds-and-what-they-show)
5. [Disagreements found](#5-disagreements-found)
6. [Proofs](#6-proofs)
7. [What is not modelled](#7-what-is-not-modelled)
8. [Plan](#8-plan)

## 1. Inventory

A request passes the global `JwtGlobalGuard`, then the guards of its route
(`JwtGlobalGuard` once more and `PermissionsGuard`, or `CsrfGuard` and
`RateLimitGuard`). Behind them are the interceptors (logging with metrics
outside, audit inside), and inside those the validation pipe and the handler.
An error goes to the global exception filter: one of a guard directly, one of
pipe or handler past the interceptors. Handlers talk to each other only through
the tables.

| Component | State | Operations | Hard parts |
|---|---|---|---|
| Cash movements (`src/cashflow/cash-movements.*`) | table CashMovement | create, list, approve, reject, deliver | read, check, then update by id alone; roles read up to three times in one request |
| Role based access control (`src/auth/guards/permissions.guard.ts`, `prisma/seed.ts`) | Role, Permission, RolePermission (constant at run time), UserRole | the guard's decision | the decision is several awaits old when the handler writes |
| Tenancy (`src/common/tenant`, `jwt.strategy.ts`) | claims of the access token | `withOrganizationScope`, `requireUserBranchId` | updates by id are not scoped |
| Sessions and passwords (`src/auth/auth.service.ts`) | User, AuthSession, PasswordResetToken | register, login, refresh, logout, forgot, reset, change | rotation without a transaction; password replacement races with logins and refreshes |
| Login lock (`src/auth/login-attempt.service.ts`) | a Map, or two Redis keys per key | assertNotLocked, recordFailure, recordSuccess | concurrent attempts, expiry, different windows in the two stores |
| User administration (`src/users`) | User, UserRole | list, read, create, update, remove | roles are replaced by two statements; checks are read before the writes |
| Rate limit (`src/common/guards/rate-limit.guard.ts`) | a Map per process, Redis counters | one count and one decision per request | fixed windows that meet, replies of Redis that come late or never |
| Cash flow statistics (`src/cashflow/cashflow-stats.service.ts`) | none | two sums and a count of CashMovement, sent together | reads of different moments in one answer |
| Branches, organizations (`src/branches`, `src/organizations`) | Branch, Organization | create, list | unique names and slugs, no look-up before the insert |
| Request pipeline (`src/main.ts`, `src/app.module.ts`, guards, filter) | none | order of guards, pipe, interceptors, filter | what a refused request still passes; four places that work out a status |
| Audit log (`src/audit`) | AuditLog | one insert per mutating request | not awaited; its failure ends the process |
| Metrics, health (`src/common/metrics`, `src/health`) | counters in the process | count, render, ping | counted before the response exists; lost at a restart |
| Configuration, database access, scripts | none, or at start-up | parsing, connecting | nothing that interleaves |
| Schema and migrations (`prisma/`) | all tables | unique indexes, foreign keys | `ON DELETE SET NULL` of the rotation chain |

What makes each component correct:

- **Cash movements.** A movement and everybody in its history belong to one
  organization; who never holds a deciding role never decides; `approvedBy`
  names somebody who took that decision; a decided movement never is pending
  again; each movement goes through its life cycle once; a listing shows only
  what its caller may see.
- **Sessions.** One token opens one session; a session that was replaced is
  revoked; replacing the password ends every earlier session; a refresh never
  crosses a replaced password; a reset token works once.
- **Login lock.** A lock is earned by failures, is set when the limit is
  reached, does not get shorter by more failures as long as they are counted, and
  ends.
- **User administration.** Only administrators of the same organization change
  an account; an account keeps at least one role; an e-mail names one account.
- **Cash flow statistics.** Figures are of the caller's organization and branch;
  those of one answer differ only about movements that changed while they were
  read.
- **Branches and organizations.** No two of one name, however written.
- **Pipeline, audit, metrics.** The audit log and the counters say what the
  client was told and what is in the tables, once per request.
- **Rate limit.** Admissions are bounded, refusals have a reason, and a
  refused client is let in again.

`PROJECT.json` lists every hazard at its line with the properties aimed at it.

## 2. How the models relate to the code

**Steps.** An async handler is a chain of awaits. One action is one database
statement (or one Redis command) with the synchronous code up to the next
await; `pc[r]` is the await at which request `r` is suspended. Whatever another
request does between two awaits is a step of its own. A Prisma `findFirst` with
`include` counts as one read: Prisma may issue several queries for it, of rows
that no handler deletes and whose links do not change.

**Transactions.** One statement takes effect at one instant. The only
transactions are those of resetPassword and changePassword: their `DELETE` sees
the sessions committed when it begins (READ COMMITTED, PostgreSQL's default),
the effects become visible at COMMIT, the user's row stays locked against a
second such transaction, and an update of a session row the `DELETE` has
locked, or a foreign key check against it, waits for the COMMIT (`RowLocked`).

**Crashes.** `Restart` (`StopAll`, `Stop`) loses the requests in progress between
two statements; tables stay. In RequestPipeline it also loses the counters and the
audit statements on their way, and a failed audit statement causes it. In-process maps are lost too; LoginAttempts and RateLimit start
from empty maps anyway and have no restart.

**Conditional waiting.** Apart from those row locks no request waits for
another, so there is no other blocking to model.

**Role tables.** `Role`, `Permission` and `RolePermission` are written by the
seed only: `Rbac` holds them as definitions, including the roles that end with
no permission (USER).

**Guards twice.** `UsersController` carries `PermissionsGuard` on the class and
on its methods: the guard runs twice there and `UserDirectory` has it twice.

**Abstracted.** Amounts, dates, texts, hashes, response bodies beyond their
status; a refresh token is the session id it carries. One token is signed per
session id, so the stored hash always matches the token presented, and the
branch under "reuse detection" (`src/auth/auth.service.ts`) is never taken.

**History variables.** `decided`; `epoch`, `bornIn`, `verifiedIn`, `verifying`,
`origin`, `overlaps`, `resets`; `recent`, `unbroken`; `by`, `admins`, `cut`;
`hits`, `admitted`, `elapsed`, `behind`; `had`; `stopped`, `dropped`. `incomes` (CashflowStats) is the
type of each movement, chosen at the start. No guard of the code reads them, with two exceptions that
are bounds: `epoch` limits how often clients ask for a new password, and `hits`
how many requests are sent to a store in one tick (`Room`).

**Variants.** A definition that stands uncommented before a namesake
(`FoundById` before `Found`) is a plausible mistake in that piece of code. No
module uses it; putting it in the place of its namesake makes the property
named in `PROJECT.json` ("mutants") fail, which shows that the property depends
on that piece of code.

## 3. Modules

| Module | Models | Extends / used by |
|---|---|---|
| `Rbac` | roles, permissions, decorators of the routes, the guard's decision `Admits` and its refusals | by CashMovements, UserDirectory, RequestPipeline |
| `MovementLifecycle` | abstract: a movement is created, decided once, delivered once | refined by CashMovements (one request at a time) |
| `CashMovements` | the five cash movement routes | extends Rbac |
| `CashMovementsProofs` | theorems about CashMovements | extends CashMovements |
| `CashflowStatsProofs` | theorems about CashflowStats | extends CashflowStats, CashMovementsProofs |
| `AuthSessionsProofs`, `LoginAttemptsProofs`, `UserDirectoryProofs`, `RateLimitProofs`, `RequestPipelineProofs` | theorems about the module each is named for | extend that module |
| `SessionLifecycle` | abstract: sessions are opened once, revoked for good, end with the password | refined by AuthSessions |
| `AuthSessions` | the seven operations of AuthService | |
| `LoginAttempts` | LoginAttemptService in the process and in Redis | |
| `UserDirectory` | UsersService behind both guards | extends Rbac |
| `RateLimit` | RateLimitGuard for one route and client | |
| `CashflowStats` | the statistics route beside the cash movement routes | extends CashMovements |
| `HttpOutcomes` | what a guard, pipe or handler ends with, and the statuses made of it | by OrganizationDirectory, RequestPipeline |
| `OrganizationDirectory` | branches and organizations under their unique indexes | extends HttpOutcomes, by RequestPipeline |
| `RequestPipeline` | guards, pipe, handler, interceptors, filter; audit log, counters | extends OrganizationDirectory, Rbac |
| `MC*` | instances for TLC: who exists, which calls are offered | |

**CashMovements.** `movements`, `roles`, `active` are the tables; `pc`, `call`,
`scope`, `asOperator`, `seen`, `listed`, `answer` the local variables of each
request. `GuardUser` and `GuardRoles` are the two reads of `PermissionsGuard`;
`ReadRolesToCreate` and `ReadRolesToList` are `getUserRoles` with the choice of
the branch; `CheckBranch` is `assertBranchInOrganization`; `Insert`, `Query`,
`Load`, `Write` are the statements on the table. `Write` updates by id alone, as
the code does. `Administration` gives the statements of UsersService that
change roles and `isActive`, any time; the two statements that replace roles are
separate steps, so a request may see a user without roles.

**AuthSessions.** Each operation starts at `FirstPoint`. login: `AssertNotLocked`,
`FindUser`, `CheckActive`, `InsertSession`. refresh: `LoadSession`, `Rotate`,
`CheckActive`, `InsertSession`. logout: `LoadToLogout`, `Logout`. forgot:
`LookupUser`, `IssueToken`. reset and change: `CheckToken` or `CheckPassword`,
then `BeginReplace` and `CommitReplace`. The login lock appears as the choice to
refuse a login; LoginAttempts has it in detail.

**LoginAttempts, RateLimit.** Time is a `Tick` that ages counters, locks and
history; it is relative, so the models have finite state and no last moment.
A command to Redis may fail before it has taken effect or after, when its reply is
lost. The two stores differ as in the code: in the process the failure window runs
from the last failure, in Redis from the first. Which one is used is settled
when the process starts (LoginAttempts), or given up for good when Redis fails
(RateLimit).

In LoginAttempts a lock in Redis begins when the script was sent and not when it
is executed, so it may be up to all of its length late (`Lateness`).

In RateLimit the script is a round trip: any time may pass before Redis executes it
("eval") and before the process has the reply ("reply"), and a request whose reply is
lost is counted in both stores. The Map's entry on the other hand is returned
itself and read one turn of the microtask queue later (`ReadCount` at "entry"): no
time passes, but a request may be refused for what was counted after it. The
histories `hits` and `admitted` are cumulative: for each age, the requests counted
so long ago or later, and those of them that were admitted, whenever that was
decided; so the number in any stretch of one window is one of their values.
`elapsed` and `behind` are what a request needs to enter its decision there.

**UserDirectory.** `FindFirst` is the scoped read that answers 404, used three
times in update and remove (the target of `assertCanAccessUser`, then the read
of the operation itself). `UpdateData`, `DeleteRoles`, `GrantRoles` are the
three writes of update, without a transaction. `Taken` is the look-up before a
creation, `Clash` the unique index under each write; a role name in a call that is
no role of the table, or is given twice, is "unknown", which is what the
comparison of lengths refuses.

**CashflowStats.** `readerPc`, `query`, `within`, `operatorRead`, `figures`, `reply`
are a reader's local variables; `StatsGuardUser` to `StatsCheckBranch` follow the
listing's. `ReadFigure` is one of the three statements of `Promise.all`, which
PostgreSQL may execute in any order. A figure is the set of movements it sums
up. `Others` is any step of CashMovements, so the composition adds no behaviour
to it; `StopAll` stops both kinds of requests.

**RequestPipeline.** A request passes `Guards[op]` one at a time (`Guard`); a
refusal, or a failing read of the guard, is answered by the filter. `Validate` is the pipe, `Handle` the handler's
one statement, which may fail (`Break`) or take effect and lose its
acknowledgement (`Create`). `Settle` is the synchronous stretch in which audit,
metrics and filter look at the outcome; `AuditStatus`, `LoggedStatus` and
`Response` are three functions in three files that have to agree. `WriteAudit`
is the insert that nobody awaits; when it fails (`AuditFails`) Node ends the
process on the unhandled rejection. Nine routes are in it; of refresh and logout
only the outcome, AuthSessions has the rest.

**OrganizationDirectory.** A creation is one insert; `StoredName` and `StoredSlug`
are the conversions before it, given as functions on the texts of the instance.

## 4. Runs, bounds and what they show

| Run | Bounds | Checks | Shows |
|---|---|---|---|
| CashDecisions | 2 requests, 1 movement, 4 users of 2 organizations | TypeOK, RowsInTenant, ApproverIsDecider, SeparationOfDuties, ListedInScope, FactsFrozen | what survives although checks and writes are separate |
| CashStatistics | 1 request, 1 reader, 1 movement of either type, 3 branches | FiguresInScope, FiguresAreWitnessed, LifecycleSpec | what one answer's figures have in common; the handlers one at a time implement the life cycle |
| CashOnlyPendingIsDecided | as CashDecisions | OnlyPendingIsDecided, violated | the double decision |
| AuthRotation | 2 requests, 3 sessions, 1 user, 1 reset | LinkIsRevoked, RefreshStaysInEpoch, SessionLifecycleSpec | the table stays sound under races |
| AuthSerial | 1 request, 3 sessions, 2 users, 2 updates | AuthTypeOK, RotationOnce, ResetTokenOnce, ForcedRelogin | the promises hold one request at a time |
| AuthRotationOnce | 2 requests, 3 sessions | RotationOnce, violated | two rotations of one token |
| AuthReuse | 1 request, 3 sessions | ReuseRevokesSessions, violated | reuse is refused and revokes nothing |
| AuthForcedRelogin | 2 requests, 2 sessions | ForcedRelogin, violated | a login overtakes a password change |
| LoginLock | 4 requests, 1 key, limit 2, window 1, locks 1 to 4 | LockFollowsFailures, LimitLocks, LockIsProgressive, LockEnds | the lock, in both stores |
| UserAdministration | 2 requests, 5 accounts of 2 organizations | DirectoryTypeOK, ChangedByAdmins, RolelessOnlyIfCut | what survives overlapping updates |
| RateWindow | 3 requests, limit 2, window 2 | AdmittedBounded, RefusedOverLimit, CounterResets | the fixed window, late and lost replies, the fallback |
| RequestTrail | 2 requests, 20 calls of 9 routes, 3 users, 3 texts | PipelineTypeOK, TrailIsTrue, TrailIsComplete, CountersMatch, NamesStayApart | audit log and counters against answers and tables |

**Why these bounds are enough.** Requests interact only through the tables, and
each race here is between a read of one request and a write of another, so two
requests show it; RateWindow has three because its limit is two. A chain of
rotations needs three sessions to have a middle. Two organizations, with a user
whose branch belongs to the other one (the foreign keys of `User` are
independent), exercise every comparison of organizations. Movements do not
interact and every figure is a set of movements, each put in or left out by
itself, so one movement that may be of either type and in every branch is enough,
and so is one reader: readers write nothing. The refinement of the life cycle only
holds for one request, which is the point of CashOnlyPendingIsDecided. LoginLock
has locks that outlive the window by more than a lock, and four requests: two to
raise the lock and two to start a new count under it. The processes of a rate
limited service share the Redis counter and nothing else; a second process is more
requests to that counter, so RateWindow has one. In RequestTrail a request is sent
once; a second one can conflict with the first, repeat it, or be in progress when
its audit statement fails, and nothing there relates three.

Named bounds in guards: `Submit` sends a create only while an id is left for
its row (CashMovements, UserDirectory, and `Possible` in AuthSessions, which
also bounds password updates by `MaxUpdates`); `CountBound` and `Old` in
LoginAttempts and RateLimit merge counts and ages that behave alike;
RateLimit's `Room` has at most `CountBound` requests sent to a store per tick.

Symmetry is used for requests in CashDecisions and UserAdministration, and for
requests, sessions and tokens in the Auth runs with safety properties; never in
a run with a liveness property.

**Fairness.** The two liveness properties need that time goes on (`WF(Tick)`) in
LoginAttempts and RateLimit, and in RateLimit that the microtask queue is emptied
(`WF(DecideOnEntry)`), without which no time passes there. That Redis answers, that
clients, administrators or particular failures act is never assumed; LockEnds and
CounterResets hold against clients that try all the time. CashMovements and
AuthSessions state that the event loop resumes a request whose statement has
returned (weak fairness of its next step), so that the counterexamples of
section 5 are behaviours of a system that does not just stop. That a handler comes
to an end is not stated as a property: the handlers are straight lines, and one
waits for nothing but its own statements and the row locks of section 2.

Notes on single properties:

- `LockIsProgressive` is stated for every configuration. Where a lock may outlive
  the window, as with the defaults (window 15 minutes, maximal lock 30), a failure
  may find the count given up while the lock still lasts, and lock for less; the
  property says that this, time and a success are all that shortens a lock. The
  exception is met in LoginLock; the theorem covers limits without it
  (`MaxLock <= Window`) too.
- `LimitLocks` and `LockIsProgressive` are promises of the process's store. In
  Redis the counter lives for one window from its first failure, so the
  configured number of failures within one window, across the end of the
  counter's life, does not lock; and a script that arrives late sets a lock that
  is nearly over.
- `AdmittedBounded` bounds each store by twice the limit in the time of one
  window, the known price of fixed windows. Requests count by when and where the
  store counted them, however much later they are let in: when replies of Redis
  are held up and come together, more handlers may start in one window's time. A
  request whose reply was lost counts where it was counted last, so after a
  fallback a client may use up the process's counter on top of what Redis admitted.
- `RefusedOverLimit` looks for the reason of a refusal where the count is taken: for
  Redis in the window up to the moment the request was counted, for the process in
  the window up to the decision. By the time Redis's reply arrives the requests
  behind it may be older than a window.
- `RefreshStaysInEpoch` and `SessionLifecycleSpec` except sessions a login
  inserted while the password transaction was open (`overlaps`): the `DELETE`
  did not see them. No statement of refresh looks at the password; that a
  refresh does not cross a change is due to the missing row in `Rotate` and to
  the foreign key of `replacedById` in `InsertSession`.
- `FiguresAreWitnessed` is what is left of consistency without a transaction: a
  movement approved between the reads may be counted as pending and as income,
  or as neither; one that kept its status is counted where it belongs. The
  balance is computed from the two totals and inherits this.
- `TrailIsTrue` takes a creation recorded with 500 to say nothing: its insert may
  have taken effect. With 201 it is in the table, with 400 or 409 it is not.
- `TrailIsComplete` says both who has an entry and who has none: a mutating
  request that a guard refused has none.
- `CountersMatch` compares with the answers given since the process started; it
  is an equality until the first restart.
- `NamesStayApart` also says that a conflict is never with the request's own row. A
  client that repeats a creation whose answer was lost is another request, and
  is told of a conflict with what it created before.
- `ListedInScope` and `FiguresInScope` take a caller for what the service took him
  for, and that may be wrong of an operator whose roles are being rewritten
  (section 5).
- `DirectoryTypeOK` has one part that relates rows: no two accounts have one
  e-mail. The look-up before a creation does not give it, the unique index does.
- `RotationOnce`, `ResetTokenOnce` and `ForcedRelogin` are checked for one request at
  a time, where they hold through restarts, expiry and repeated calls. For two the
  first and the last are violated by runs of their own, and the second fails in
  the same way (section 5).
- `SeparationOfDuties` speaks of roles a user ever holds: the guard's reading
  may be out of date at the write, and the property says no more than that it
  once was true.

## 5. Disagreements found

Each is the counterexample of a run above; `PROJECT.json` quotes the text the
code disagrees with.

- A movement can be decided twice (CashOnlyPendingIsDecided): `updateStatus`
  and `deliver` check the status on the row they read and update by id alone.
  The same holds of a delivery that has read APPROVED.
- A refresh token can be rotated twice (AuthRotationOnce).
- Reuse of a rotated token revokes nothing (AuthReuse): the check of
  `revokedAt` comes first.
- A login that has compared the old password stays logged in after the change
  (AuthForcedRelogin).

The models contain further behaviour a reader should know of, which no run
singles out: a restart between the two statements of a role rewrite leaves an
account without roles, for good, although "User must have at least one role"
(`src/users/users/users.service.ts:176`; `RolelessOnlyIfCut` shows that nothing
else does); mutating requests that a guard refuses leave no audit entry, although
"Errores también auditan" (`docs/BACKEND_TEST_PLAN.md:231-232`; `TrailIsComplete`
shows that these and the lost ones are all); an operator whose roles are being
rewritten is taken for no operator, and lists the movements of every branch or
gets the figures of another one (`ReadRolesToList`, `StatsReadRoles`); two resets with
one token may both set the password (`CheckToken` and `CommitReplace` are apart); a
restart between `Rotate` and `InsertSession` leaves neither session;
`replacedById` is stored in the new session and names the old one; two overlapping
role rewrites may leave the union of both sets; an update refused for an unknown
role has already written e-mail and `isActive`; a request that Redis has counted is
counted again by the process when the reply is lost.

## 6. Proofs

Every invariant and every action property that a passing run checks is also a
theorem, for every value of the constants: any number of requests, users,
sessions, keys, rows and readers, every set of calls offered. Both refinements
are theorems too. A run shows that a property can be reached and can be broken
(its mutants); the theorem shows that the instance was not too small.

| Module | Theorem | States |
|---|---|---|
| CashMovementsProofs | TypeCorrect | `Spec => []TypeOK`: every stored row is a complete row |
| | TenantIsolation | `Spec => []RowsInTenant` |
| | TrailIsTrue | `Spec => []ApproverIsDecider` |
| | FactsStayFrozen | `Spec => FactsFrozen` |
| | DutiesSeparated | `Spec => []SeparationOfDuties` |
| | ListingsInScope | `Spec => []ListedInScope` |
| | SerialLifecycle | `Serial` implies `Spec => LifecycleSpec` |
| CashflowStatsProofs | MovementsBesideReaders | `StatsSpec => Init /\ [][Next]_vars` of CashMovements |
| | FiguresScoped | `StatsSpec => []FiguresInScope` |
| | FiguresWitnessed | `StatsSpec => []FiguresAreWitnessed` |
| | LifecycleBesideReaders | `Serial` implies `StatsSpec => LifecycleSpec` |
| AuthSessionsProofs | AuthTypeCorrect | `Spec => []AuthTypeOK` |
| | ChainIsRevoked | `Spec => []LinkIsRevoked` |
| | RefreshInEpoch | `Spec => []RefreshStaysInEpoch` |
| | SessionsFollowLifecycle | `Spec => SessionLifecycleSpec` |
| | SerialRotation, SerialReset, SerialRelogin | `Serial` implies `Spec => []RotationOnce`, `[]ResetTokenOnce`, `[]ForcedRelogin` |
| LoginAttemptsProofs | LockIsEarned | `Spec => []LockFollowsFailures` |
| | LimitIsNotPassed | `Spec => LimitLocks` |
| | LockGrows | `Spec => LockIsProgressive` |
| UserDirectoryProofs | DirectoryTypeCorrect | `Spec => []DirectoryTypeOK`, with one account per e-mail |
| | AdministeredFromWithin | `Spec => []ChangedByAdmins` |
| | RolelessAfterCutOnly | `Spec => []RolelessOnlyIfCut` |
| RateLimitProofs | AdmissionIsBounded | `Spec => []AdmittedBounded` |
| | RefusalHasReason | `Spec => RefusedOverLimit` |
| RequestPipelineProofs | PipelineTypeCorrect | `PipelineSpec => []PipelineTypeOK` |
| | TrailTellsTruth | `PipelineSpec => []TrailIsTrue` |
| | TrailLeavesNothingOut | `PipelineSpec => []TrailIsComplete` |
| | CountersCountAnswers | `PipelineSpec => []CountersMatch` |
| | NamesKeptApart | `PipelineSpec => []NamesStayApart` |

**Assumptions.** Those on the constants are declared in the modules and evaluated
by TLC in every run. They give constants their types, say that sentinels are no
values, and that what is counted or enumerated is finite; that there is at least
one question a reader may ask (`StatsAssumption`), account (UserDirectory's
`DirectoryAssumption`) and call (`PipelineAssumption`), because those initialize a
variable; that an account of the start has a role and an e-mail of its own, and a creation
asks for a role (`DirectoryAssumption`, as the seed, the unique index and the DTO have it); that limits, windows and
locks are not zero (`LoginAssumption`, as `src/config/env.validation.ts` has it;
`RateAssumption`, as the decorators of the routes have it). Nothing relates a user's branch to the user's organization.

One hypothesis belongs to single theorems. `Serial` says that there is one request
at a time, which is not what the code enforces: the runs CashOnlyPendingIsDecided,
AuthRotationOnce and AuthForcedRelogin show what fails without it, so
these theorems say exactly that the overlap is to blame, and that restarts,
expiries, deactivations and role rewrites in the middle of a request are not.

**CashMovements.** `TypeOK` is not inductive: that `Insert` stores a complete row
depends on the branch having been chosen and checked before, and that `Write`
writes to a row depends on `Load`. `Placed` adds, for each request, what its
program point implies (`WellPlaced`): at "insert" the branch is one of the
user's organization; at "write" the row read exists and belongs to the user's
organization. `PlacedNext` has one step per action.

Tenancy needs `Untouched` besides: an id without a row has no history, so an
insert starts with an empty one. A write changes neither branch nor creator
(`WriteEffect`), and its user is of the row's organization because `Placed` says
so at "write", although the update does not look; organizations never change.

The trail needs `Carried`: a delivery about to be written carries an approver
who did approve, because it read a row for which the trail was true and the
history only grows. With that a late or repeated write stores a true
`approvedBy`, whatever the row has become.

`FactsStayFrozen` follows from `Placed` and the effects of the two steps that
touch the table (`TableSteps`); as a fact about one step it is `FrozenNext`.

Separation of duties needs `RolesEverHeld` (the role table never leaves what was
held at the start or granted) and `Authorized`: a request past the guard has a
caller who at some time held a role of its route (`AdmitsARole`). Both survive
any rewrite of the roles between the guard and the write, because they speak of
`EverHeld`, a constant. `StepMoves` says once which program points follow which.

The scope of listings needs `Scoped`: between the choice of the branch and the
query the branch obeys what was asked, is the operator's own for someone taken
for an operator, and nothing is listed before the query. That the rows stay in
scope afterwards is `FrozenNext`.

The refinement needs that the status a decision has read is still the row's when
it writes, which is so when nobody else writes in between.

**CashflowStats.** `BesideMovements` maps each step of the composition to a step
of CashMovements or a stutter, so the theorems about CashMovements hold beside
readers and are cited, not repeated. `FiguresInScope` rests on `Chosen` (the
branch chosen for the statements) and on `FrozenNext`: a row once counted stays
of its branch. `FiguresAreWitnessed` rests on `Watched` (the present status of a
row is among those in `had` while figures are read) and `Read` (a figure counts a
row only in a status it had, and misses none that had it all the time).

**AuthSessions.** `Placed` says what a request has established at each point. The
chain (`ChainInv`) needs, besides the links, what a transaction between its two
steps is about to delete (`Sweeps`): the sessions of its user, all but the late
ones; otherwise a COMMIT could leave a session of an earlier epoch, or delete one
end of a link. `Timely` relates a session's epoch to its user's and to the
session it replaced. The refinement of SessionLifecycle goes by the effects a
step may have on the table (`NextEffect`: insert, mark, register, commit, or
none), each of which maps to one abstract step or a stutter. For `Serial`,
`SerialInv` adds that the check a request passes on is still the present one
(`OwnRefresh`, `OwnReset`).

**LoginAttempts.** Locks double, so the powers of two are needed as numbers
(`Powers`, from the number of subsets of a set). `Earned` bounds what is counted by
what happened; `Remembered` says that the process, which counts from the last
failure, has not forgotten one within the window, and gives `LimitLocks`.
For `LockIsProgressive`, `Counting` says what is left of a lock: no more than the
count behind it sets, less the time since the last failure, unless that count was
given up. So a failure that still finds the count sets a lock as long or longer
(`LockLengths`, `CountingNext`), and where a lock is never longer than the window
the count is never given up under it.

**UserDirectory.** `DirectoryInv` says what a request has established
(`WellPlaced`), that who holds ADMIN is in `admins`, that who changed an account
was one and of its organization (`ChangedFromWithin`), and that an account without
a role is between the two statements of a rewrite, or was cut there
(`RoleKept`). The last is what any number of overlapping rewrites preserves: each
deletes and then grants, so after the last grant there is a role.

**RateLimit.** The bound on admissions is not inductive without the requests that
have been counted and not decided yet (`Passing`), for a reply may come in any
later window. `Granted` adds them, by age, to those already admitted: a decision
changes it by nothing, so it speaks of what a store has counted and not of when
the process hears of it. `Windowed` bounds what is granted of the present window by
the counter and by the limit, and what is granted of the stretch before it by the
limit; `CountWindowed`, `DecideWindowed` and `TickWindowed` keep it. `HitsBehind` gives a
refusal its reason when it is counted, and `Underway` carries it, in `behind`, to
the decision.

**RequestPipeline.** The tables of guards, statuses and codes are expanded in a
few lemmas (`GuardLists`, `OutcomeTable`, `RefusalTable`) and nowhere else:
`OutcomeTable` is where audit, metrics and filter are shown to agree on every
outcome. `StepKinds` reduces the actions to what the invariant can tell apart.
The invariant `IInv` describes each request by where it is: how many guards it has
passed and what that says of its sender (`Progress`), what its outcome says of the
tables (`Truthful`), what it was told (`Replied`), and which of its one entry is
where (`Trailed`); and the rows by their requests and by the unique indexes
(`Tables`). `CountersMatch` is inductive with these: `SettlingHandles` and
`NothingElseHandles` say that a request becomes a counted one once, when it
settles. TLC has checked `IInv` on the instance of RequestTrail.

**Only model-checked.** Liveness (LockEnds, CounterResets), because the prover has
no rule for fairness and ENABLED. The four violations are counterexamples, for TLC
to find.

## 7. What is not modelled

- The middleware before the guards (body parser, cookies, helmet, CORS, request
  id) and requests for routes that do not exist: they end before anything is
  counted, audited or stored.
- Durations, the text of `/metrics`, response headers, `resetForTests`: output
  only, or for tests.
- Configuration, start-up, connecting to the database, scripts: no state that
  several actors share over several steps.
- `logoutAll` and `assertSameOrganization`: nothing calls them.
- `getSession`, `GET /users/me`: reads without effect.
- Cascades of deletes that no handler performs.
- Failing database statements other than those that a constraint refuses, except
  in RequestPipeline, where the reads of guards and the statements of handlers fail: to the tables a failed statement is a request that stops
  there, which `Restart` covers.
- Several processes, except where they matter to a counter: they share the
  database as concurrent requests do.

## 8. Plan

Modelled, in this order: Rbac, MovementLifecycle, CashMovements with its proofs;
AuthSessions with SessionLifecycle; LoginAttempts; UserDirectory; RateLimit;
CashflowStats; HttpOutcomes, OrganizationDirectory and RequestPipeline. What section 7
leaves out has no behaviour for a model to add.

Proved, in this order: CashMovements, CashflowStats, UserDirectory, AuthSessions,
LoginAttempts, RateLimit, RequestPipeline. What could be added: in place of
`Serial`, the weaker hypothesis that no two requests present one session or one
token at a time, which is what a conditional update would give; and a shorter
common form of the lemmas on who moves (`StepMoves`), which several proof modules
state for their own points.
