# A TLA+ model of the HRMS back end

This directory holds a verification project for the HRMS back end, a
multi-tenant human-resources server written for Node.js with Express, Prisma
over PostgreSQL, Redis and BullMQ. It consists of TLA+ modules translated from
`src/src/`, TLC configurations that check them on small instances, and proofs
that TLAPS checks for every value of the constants. `PROJECT.json` is the
machine-readable index: components, runs, mutants, the map from definitions to
source lines, findings, hazards and theorems.

All paths below are relative to the repository; `auth.service.js` and the like
are short for the file of that name under `src/src/modules/`.

## 1. The system

One or more Node.js processes serve an HTTP API; a separate worker process
sends mails. Every handler is an `async` function: between two `await`s other
handlers run, in the same process or in another, and nothing in the code takes
a lock. The database is shared by all of them. Most handlers read a row, decide
on it, and then **write by id without looking again**; few use a transaction,
and those that do use it to make several writes atomic, not to make a read and
a write atomic. This one pattern is behind most of what can go wrong here, and
most of what the modules explore.

### 1.1 Components

| Component | State it keeps | Operations | Where |
|---|---|---|---|
| Sessions and tokens | rows of `sessions` (revokedAt, refreshTokenHash, expiresAt), Redis keys `bl:access:<jti>`, tokens with clients | login's insert, refresh with rotation and reuse detection, logout, kill, logout everywhere, password change and reset | `auth/auth.tokens.js`, `auth.service.js`, `utils/jwt.js`, `middlewares/auth.middleware.js` |
| Login gates | `users.failedLoginCount`, `lockedUntil`, `status` | login up to the session; administrator's status change | `auth.service.js` |
| Two-factor authentication | `users.mfaEnabled`, `mfaSecret`; rows of `otp_codes` | setup, enable, disable, challenge, verify | `auth.service.js`, `auth.mfa.js` |
| Tenant suspension | `companies.status`, `deletedAt`; Redis keys `company:suspended:<id>` | status update, archive, administrator reset; the checks in login, refresh and the middleware | `company.service.js`, `auth.middleware.js` |
| User directory | rows of `users` and `user_roles` | hire, re-hire, update, remove, restore, assign roles, resend invite, import, export | `user.service.js`, `user.repository.js` |
| Roles and permissions | rows of `roles` | create, update, remove; the guards on platform permissions; `authorize` on every route | `role.service.js`, `rbac.middleware.js` |
| Verification tokens | rows of `verification_tokens` | forgot and reset password, send and verify email | `auth.service.js` |
| Email queue and worker | BullMQ jobs | enqueue with a direct fallback; send with three attempts | `queues/index.js`, `worker.js`, `mail.service.js` |
| Leave workflow and balance | rows of `leaves`, `leave_policies` | apply, approve, reject, cancel, edit, delete; balance | `hr/leaveWorkflow.js`, `hr/leaveBalance.js`, `hr/index.js` |
| Onboarding checklist | rows of `onboardings`, `onboarding_tasks` | create with defaults, add, tick, remove tasks, recompute, PUT, delete | `hr/onboardingTasks.js`, `hr/index.js` |
| CRUD factory | - | list, get, create, update, soft delete, export for any model | `core/crudModule.js`, `core/BaseRepository.js` |
| Other HR resources | one table each; a reference is an id and the name read beside it | the CRUD factory with references to resolve, derived fields, and a hook of departments into user profiles | `hr/index.js`, `hr/helpers.js` |
| Devices | rows of `devices` | upsert at login, list, trust, remove with its sessions | `auth.tokens.js`, `auth.service.js` |
| Documents and storage | rows of `documents`, files | upload, list, delete | `document.routes.js`, `storage.service.js` |
| Notifications | rows of `notifications` | notify, mark read, delete | `notify.js`, `notification.routes.js` |
| Audit trail | rows of `audit_logs` | one insert after most operations | `audit.service.js`, `audit.middleware.js` |
| Realtime socket | rooms in memory | authenticate, join, emit | `realtime/socket.js` |
| AI assistant | - | calls of an external API | `ai.service.js` |
| HTTP layer | rate-limit counters | validation, errors, uploads, request context | `app.js`, `middlewares/` |
| Server life cycle | connections | boot, shutdown, configuration; the in-memory Redis | `server.js`, `config/` |
| Seed, utilities | - | seeding, Excel, pagination, Swagger | `prisma/seed.js`, `utils/` |

### 1.2 How they interact

* **The user row is shared by everything.** Login gates, MFA, password flows,
  the user directory and email verification all write columns of the same row,
  each with its own read before it. `resetPassword` and `verifyEmail` reach the
  row through a token, whether the account is removed or not.
* **Sessions are ended from many places**: logout, kill, password change,
  reset, invite, removal of a user, suspension of a company. Only logout also
  puts the access token on the blacklist; the other callers pass no `jti`. A
  re-hire sets a password and ends nothing: it relies on the removal before it.
* **Two stores.** A suspension is a row in PostgreSQL that login and refresh
  read, and a flag in Redis that the middleware reads on every request. They
  are written one after the other. The middleware lets a request pass when
  Redis does not answer (it *fails open*).
* **Copies instead of joins.** HR records store the name of whom they refer to
  beside the id, an onboarding the manager of its hire, a user the name of
  their department. Access tokens store the company and the permissions their
  user had. Nothing but the next write of the record, or the next refresh,
  renews a copy.
* **Calls that are best effort**: audit records, notifications, mails. Their
  errors are swallowed by their callers; the state change before them stands.
* **A process may die at any await.** What it has written stays, the rest of
  the handler does not happen, and nothing resumes it.

### 1.3 What is hard here

1. Read-then-write by id (every component).
2. A state change and its consequence in two statements: password and eviction,
   removal and eviction, status and flag, task and recomputation, row and mail.
3. One-time tokens (refresh tokens, MFA challenges, reset and verification
   tokens) whose check and use are separate calls.
4. Time: whole-second issue times in JWTs, Redis keys that outlive or do not
   outlive the token they stand for, locks that run out but stay in the row.
5. Redis that fails, or forgets (the in-memory variant at a restart).
6. Guards over sums (the leave balance) with no lock on what is summed.
7. Copies of names, managers and permissions that are older than what they
   copy, and hooks that follow a write in a statement of their own.

### 1.4 What makes each component correct

* *Sessions*: a revoked session yields no token, except to a refresh already
  past its check; a new password ends the sessions opened with the old one; a
  logged-out token stays refused; a detected reuse ends all sessions; a removed
  user gets no token; a removed device is signed out.
* *Login gates*: failures are counted; a lock keeps everyone out until it runs
  out, a disabled status until it is lifted, but for those past the gates
  already or with an MFA challenge in hand.
* *MFA*: the secret in force is one a code was shown for; no session without
  the second factor; a challenge opens one session.
* *Tenant suspension*: flag and status agree; a suspension ends the sessions,
  also when Redis does not answer, and yields no new token until it is lifted.
* *Accounts, roles, tokens*: a tenant hands out no platform ownership, but by a
  role it names SUPER_ADMIN; a removed role is held by nobody; a hire does not
  touch an account in use; the last welcome mail carries the password; a token
  takes effect once.
* *Leaves*: the leaves the guard admitted fit the allowance of then; a leave is
  decided once, by somebody else, and told to the applicant; a deleted one is
  frozen.
* *Onboarding*: progress and status follow the checklist; a hold is kept.
* *HR records*: a name stored beside an id is one that row has had; the head of
  a department is a member of it; an onboarding is not given its own hire as a
  buddy; what is removed stays removed.
* *Permissions*: a right that is withdrawn runs out, on every route, with the
  access tokens signed before.

Each of these holds only with exceptions. The properties name the exceptions,
by history variables or by the control state of requests under way, so that a
reader can see exactly how far each promise goes, and the mutants in
`PROJECT.json` show that each would notice a plausible bug.

## 2. How the modules are written

* **A request is a record.** `req[r]` holds the step the handler of request `r`
  is at and what it has read so far. Every `await` that touches shared state
  ends an action; the next action is what follows it. Reads that nothing else
  depends on, and pure checks, belong to the action before them.
* **Each request id is used once** and lends its identity to what it creates:
  request `r` opens session `r`, issues token `r`, inserts leave `r`. This
  replaces `randomUUID()`, `cuid()` and row counters, and bounds the instance.
* **`Abort`** ends a request between two of its steps: a process killed, a
  database error, an unhandled rejection. What it wrote remains.
* **Transactions** (`prisma.$transaction`) are single actions.
* **Passwords, secrets and hashes** are the request or version that set them;
  argon2, TOTP and JWT signatures are assumed to do their job.
* **History variables** record what happened that no row shows: sessions a
  password write did not reach (`astray`), companies two writers were at at once
  (`crossed`), accounts written from a row that had changed (`raced`), roles
  removed and handed out at once (`clashed`), roles a request named SUPER_ADMIN
  (`posed`). No action's guard reads one. A property that excepts one does not
  catch the race it stands for, which the code has; it says that nothing else
  breaks the promise.
* **Mutations** stand beside the definition they mutate and are used by nothing.

### 2.1 Modules

| Module | Models | Variables that stand for code |
|---|---|---|
| `Sessions` | endpoints that open, rotate or end sessions, devices and their removal, Redis blacklist, the check of access tokens | `user` (password version, soft-delete mark), `session`, `device`, `openedOn` (`sessions.deviceId`), `refreshTokens`, `accessTokens`, `blacklist`, `now` |
| `SessionLifecycle` | abstract: none, live, draining, dead; who may yield tokens | `phase`, `minted` |
| `SessionsProofs` | theorems about `Sessions` | |
| `TenantSuspension` | company status, Redis flag, logins, MFA verification and refreshes against them | `company`, `flag`, `session`, `challenge`, `tokens` |
| `TenantSuspensionProofs` | theorems about `TenantSuspension` | |
| `LoginGate` | account resolution, lockout, status, portals; the MFA challenge as a way in | `user`, `challenge`, `opened`, `now` |
| `LoginGateProofs` | theorems about `LoginGate` | |
| `Mfa` | setup, enable, disable, login challenge, verification | `user`, `challenge`, `scanned`, `sessions` |
| `MfaProofs` | theorems about `Mfa` | |
| `OneTimeToken` | abstract: a token takes effect once, but for redemptions that had found it open | `phase`, `effects` |
| `Leaves` | leave requests from body to outcome, balance guard, policy, year, notifications | `leave`, `policy`, `year`, `asked`, `told` |
| `LeaveLifecycle` | abstract: the decisions a leave may go through | `phase`, `owner`, `decider` |
| `Onboarding` | the record, its checklist, the recomputation; its names carry its own, so that one module of theorems can extend it beside `Leaves` | `onboarding`, `task` |
| `HrWorkflowProofs` | theorems about the two workflows of HR, `Leaves` and `Onboarding`, both of which it extends | |
| `Accounts` | hire, removal, roles with their names, invites and mails, reset and verification tokens | `user`, `role`, `token`, `outbox`, `mailbox` |
| `AccountsProofs` | theorems about `Accounts` | |
| `Directory` | the CRUD factory over the declarations of 17 HR resources and documents, and the HR profile of users: references and the names stored beside them | `row`, `files` |
| `DirectoryProofs` | theorems about `Directory` | |
| `Access` | the catalogue of permissions, the system roles, the routes and what each asks for, the snapshot in access tokens, `authorize` | `account`, `role`, `token` |
| `AccessProofs` | theorems about `Access` | |
| `MC*` | instances for TLC | |

The modules cut the system along the rows that interact. `Sessions`,
`TenantSuspension`, `LoginGate` and `Mfa` each contain the part of login they
need: the gates and the challenge that goes around them in `LoginGate`, how the
second factor is switched on and used in `Mfa`, the company's status
in `TenantSuspension`, and in `Sessions` the password check followed by the
insert. Where one module abbreviates what another details, it lets it happen at
any time (a login that passes the gates, a reset whose token is good), so that
what is shown for the abbreviation holds for the detail.

`Directory` and `Access` cut across the others. `Directory` is the factory
itself: what a resource declares (`mapInput`, its schema) is a constant record,
and one set of actions runs over it, as one function runs over it in the code;
`Leaves` and `Onboarding` are two of its instances with the workflow that is
their own. `Access` is the layer in front of all handlers.

Composition is by refinement. `Sessions` instantiates `SessionLifecycle`,
`Leaves` instantiates `LeaveLifecycle`, and both `Mfa` and `Accounts`
instantiate `OneTimeToken`, one for login challenges and one for reset and
verification tokens: the same abstract promise kept by two unrelated pieces of
code with the same shape.

### 2.2 From code to actions

| Code | Actions |
|---|---|
| `AuthService.login` | `Sessions`: `LoginVerify` (rows read, password compared), `UpsertDevice` (and, its row come back, tokens signed), `LoginInsert` (`issueTokens`) or `LoginRefused` (the device is gone: the foreign key of `deviceId`). `LoginGate`: find and compare, register a failure, gate, clear the counters, then `Open` or `Challenge`. `Mfa`: challenge or open. `TenantSuspension`: gate on the company's status, insert |
| `AuthService.refresh` | `RefreshRead`, `RefreshReuse` (reuse: all sessions), `RefreshUser` (user row), `RefreshRotate` (`rotateSession`, by id) |
| `removeDevice` | `RemoveDevice` (request with a token), `FindDevice`, `EndSessions` (one `updateMany`), `DeleteDevice` (sessions on it keep no device) |
| `logout`, `revokeSessionById` | `Logout`/`KillFind`, then `RevokeSession`, then `BlacklistJti` if a jti was passed |
| `changePassword`, `resetPassword`, `resendInvite` | `UpdatePassword`, then `EvictSessions` |
| `userService.remove`, `restore` | `SoftDelete` then `EvictSessions`; `Undelete`; in `Accounts`, where sessions do not matter, `Remove` and `Restore` |
| `userService.create` for a removed account (re-hire) | `Sessions`: `RehireUser` (row found), `Rehire` (written by id, nothing evicted); `Accounts`: `Insert`; `Access`: `Rehire`, rows of an import included |
| `authenticate` (middleware) | the operator `Accepted`, evaluated when a request needs a token |
| `platformUpdate`, `archive`, `resetAdmin` | a read, `UpdateCompany`/`ArchiveCompany`, `WriteFlag`, revocation |
| `setupMfa`, `enableMfa`, `disableMfa`, `verifyMfa` | a read and a write each; `verifyMfa` looks up, marks used, opens; in `LoginGate`, among lock and status, `VerifyMfa` and `UseChallenge` |
| POST/PUT/DELETE `/leaves`, `/approve`, `/reject`, `/cancel` | read and guard, sum, notify the manager, insert; read, guard, write, notify the applicant |
| POST and PUT `/leave-types` | `SetPolicy`: active or not, and daysPerYear |
| onboarding tasks | task written, tasks counted, status read, row written: four actions |
| `userService.create`, `assignRoles` | `Hire`/`AssignRoles`, `CheckExist`, `CheckAssignable`, `Insert`/`EmailTaken`/`Assign`, `EnqueueEmail` |
| `roleService.create`, `update`, `remove` | `CreateRole`/`UpdateRole`, then `WriteRole` or, by the unique index, `RoleNameTaken`; `RemoveRole`, `DeleteRole` |
| `forgotPassword`, `sendVerificationEmail`, `resetPassword`, `verifyEmail` | `Forgot`, `Issue`; `FindToken`, `Redeem`; `Expire` |
| `emailWorker` | `Deliver`: any order, repetition, loss after three attempts |
| `defineCrudModule`: POST, PUT, DELETE | `Directory`: `Create`/`Update` (guard, row found), `Resolve` (one lookup of `mapInput` each), `Write` (by id), `Reflect` (`afterWrite`), `Remove` |
| `userService.create`, `update`, `updateProfile` as HR records | `Hire`/`Update`, `Resolve` (manager, department, designation), `Write` |
| POST and PUT `/documents` | `Create`/`Update`, `Resolve` (the file is stored), `Write` |
| `findWithPermissions`, `issueTokens`, `rotateSession` | `Access`: `Read` (the user with roles), `Sign` (the snapshot becomes a token) |
| `authenticate`, `authorize` | `Admit`, with the operators `Authorize`, `HasPermission` |
| `assignRoles`, `roleService.update`, `userService.update`, `remove`, `restore` as changes of rights | `AssignRoles`, `UpdateRole`, `MoveUser`, `RemoveUser`, `RestoreUser`, and `Rehire`, after `Admit` |

## 3. What the runs show

All runs together take about twenty minutes on two cores.

| Run | Distinct states | Instance |
|---|---|---|
| `sessions` | 775 000 | one user, two sessions on two devices, three requests, clock to 2, all endpoints |
| `sessions_live` | 73 000 | the same with refresh, logout, logout everywhere; Redis may fail; fairness |
| `sessions_spent_token` | violation | two refreshes of one session |
| `suspension` | 221 000 | one company; a user with a session, one with MFA, a platform owner with a session; three requests; in-memory Redis that restarts; fairness |
| `suspension_instant` | violation | one user, three updates, nothing fails |
| `login_gate` | 253 000 | two users with one email, one of them with MFA, a platform administrator, three requests, limit 2, clock to 1 |
| `mfa` | 25 000 | two users, four requests; or one user and five requests |
| `leaves` | 294 000 | employee, manager, HR; one old leave; three requests; daysPerYear 2, raised to 3 and lowered again; years 0 and 1 |
| `onboarding` | 449 000 | two default tasks, four requests |
| `accounts` | 669 000 | an account and a free email, a role of the company, one it has yet to create and the seeded SUPER_ADMIN, three requests |
| `directory` | 205 000 | two people of two companies with one email, an email of nobody, two rows of any resource, three requests, two at a time |
| `access` | 520 000 | the platform's owner, an administrator whose role, its name, roles, company and account change, two tokens, two requests, tokens live one tick |

### 3.1 Sessions (`sessions`, `sessions_live`)

`ImplementsLifecycle` shows that the rows, the requests under way and the
tokens with clients implement `SessionLifecycle`: a session, once revoked, is
*draining* while a refresh that read it before is under way, and then *dead*; a
dead session yields no token and never comes back, although `rotateSession`
writes by id without looking at `revokedAt`. `RevokedSessionGoesQuiet` says the
same as an action property; it is proved (section 4) and not run again.
`PasswordChangeEvictsOldSessions` relates the password a session was opened
with to the one in the row. A re-hire writes a password and ends no session;
that it leaves none behind depends on the removal before it, so the property
also says that a removal which ran to its end has ended the sessions the
re-hire would have to end. A session of an old password survives in three ways:
its writer is between its statements or died there; its login had read the row
before (`astray`); or a re-hire found it live, because the removal died
half-way, is not over, or was undone by a restore (`astray` too).
`LoggedOutTokenStaysRefused` compares the lifetime of the Redis key with that
of the JWT. `DeletedUserGetsNoToken` covers refreshes with sessions that
outlive `remove`'s second statement. `RemovedDeviceIsSignedOut` says that a
live session stands on a device its user can find and remove, and that a
removal past its first statement has left none on the device, except for the
session of a login that had its device already and was inserted between the
statements (`slipped`): such a session lives on with no device.

Liveness: `ReuseEndsAllSessions` (after a detected reuse there is a moment in
which the user has no live session) and `RevocationTakesEffect` (draining ends).

**Fairness.** `FairSpec` adds weak fairness of `Continue(r)` for each request:
a handler whose awaited call has settled is resumed by the event loop, and
calls settle (Prisma and argon2 calls end or fail; the models let a Redis
command fail). No fairness is assumed of arrivals, of the clock or of deaths,
and a request that dies is excepted by the properties. The assumption is
generous for Redis: with the offline queue a command can wait as long as Redis
is down (`config/redis.js:31`), see section 6.

### 3.2 Tenant suspension (`suspension`)

`FlagFollowsStatus`: flag and status agree, except while a writer is between
its two writes, for companies whose flag was lost with the in-memory Redis or
not written by the last writer (`unflagged`), and for those two writers have
been at at once (`crossed`). `SuspensionEvictsSessions` does not depend on
Redis: failed flag writes and restarts are not excepted, so an update that gave
up the revocation when Redis does not answer would break it. Crossing writers
are excepted: one of two may write SUSPENDED over a reactivation it has not
seen, take its own write for no change and revoke nothing. Excepted are also a
request still at work or dead, and sessions of logins that had passed the gate
before. `SuspendedTenantGetsNoToken` excepts nothing about Redis or crossing
writers, since refresh and login ask the database, but is claimed only once
nothing is under way and no challenge issued before the suspension is open, as
`verifyMfa` does not look at the company. `SuspensionTakesHold` is its
liveness: under the fairness above a recorded suspension reaches a moment
without live sessions, Redis or not.

### 3.3 Login gates and MFA (`login_gate`, `mfa`)

`FailuresAreCounted` ties the counter and the lock to the number of failures,
for accounts whose counters are not written from an old row (parallel failures
of one account lose counts: `registerFailedLogin` writes what it read plus
one). `LockSealsAccount` and `DisabledAccountStaysOut` are action properties
about the ways into an account. `verifyMfa` reads the row, but neither its lock
nor its status, so there are two kinds of ways in: a login past the gates, or
with an old row before them, and an MFA challenge that is open or being
verified (`WayIn`). Once an account is locked or disabled and none of these is
left, nobody enters, and no new way in comes into being until the lock runs out
or the status changes. `EnabledSecretWasProved`,
`SecondFactorRequired` and `ChallengeIsOneTime` (a refinement of
`OneTimeToken`) do the same for the second factor; the abstract token makes the
exception explicit that `findFirst` and the update of `usedAt` leave open: a
redemption that had found the token open may still take effect.

### 3.4 Leaves (`leaves`)

`AdmittedLeavesFit`: the leaves the guard admitted, and that nothing else has
changed since, fit the daysPerYear that one of them was admitted under. HR may
change daysPerYear with PUT /leave-types at any time, between the guard's read
and the insert too; leaves already admitted are not looked at again, so nothing
is said of the daysPerYear of today. Leaves the guard could not judge are
excepted (`unchecked`): applications that crossed, for another year than the
current, without a type or without an active policy, and leaves HR edited.
`ImplementsWorkflow` refines `LeaveLifecycle`: decided once, not by the
employee, final when rejected or cancelled. `OutcomeIsTold`: the applicant has
heard of the stored outcome unless the notification failed.
`DeletedLeaveIsFrozen` covers crossing decisions and deletions.

### 3.5 Onboarding (`onboarding`)

`ChecklistRules`: with no recomputation under way, progress and status are what
the checklist says. `HoldIsKept`: only PUT, or a recomputation of a request
that was under way when the hold was set, takes a record off hold. Their
exceptions (`adrift`, `early`) are the recomputations that cross (see the
hazards in `PROJECT.json`) and the requests that die between task and
recomputation.

### 3.6 Accounts (`accounts`)

`NoEscalation`: whoever comes to be a platform owner by a role got it from a
platform owner. Ownership is what `isSuperAdmin` makes of it: platform
permissions, or a role *named* SUPER_ADMIN. Two exceptions: the owner raised
the role while a tenant was handing it out (`overtaken`), and a role that has
the name without the permissions because a request gave it the name (`posed`).
Nothing in the code restricts names, so the second is open to every tenant that
may edit roles (section 6); what the property says of names is that there is no
other way, as the seeded role cannot be changed or handed out by a tenant.
`RemovedRoleIsUnheld`: a removed role is held by no account, not even a removed
one that may be restored. `HireSparesAccountsInUse`: a hire that is about to
write has an account before it that is not in use, unless that came into use
after the hire's look at the email. `MailedPasswordWorks`: the password of the
last welcome mail received is the account's or has been replaced by one that
has not come by mail; the exception is a user with two such mails on the way,
which the worker may deliver in either order. `TokenIsOneTime` refines
`OneTimeToken`.

### 3.7 HR records (`directory`)

`SnapshotsWereTrue`: the name stored beside an id is one that very row has had.
The code looks names up by id or email, in any company, among removed people
too, and a body may be partial, so the id and the name of a reference come from
different places; that they are of one row is what a reader without a join
relies on. It also says that an onboarding's manager has been the manager of
its hire, and that a document's file is in storage. `HeadIsMember` follows the
hook of departments through crossing writes, partial bodies, another company's
head with the same email and removed heads; `excused` lists the departments and
heads that need not agree (a hook not yet run or never run, a profile changed
since). `OwnBuddyIsRefused` and `RemovedStaysRemoved` are about the write, which
goes by id whatever became of the row since it was found. The first compares
the buddy with the hire's id and, if the hire had an account when the id was
stored, with their email, since a body may give either and a reference to
nobody is stored as it was typed. Three cases are excepted, which the code
accepts: a body that names the hire alone, another write of the hire in
between, and a hire stored as the email of nobody, who gets an account later
and is then named as the buddy by id.

The row `one` is a department or a candidate and `two` anything that may refer
to it; `Scenario` says which pairs are mixed, and lets a third request in for
departments and onboardings, where a hook or an earlier row matters. All
eighteen resources occur. Bodies give at most two references (attendance three,
a profile one).

### 3.8 Permissions (`access`)

`RightsRunOut` quantifies over the whole route table (`Routes`, translated from
the routers): whoever a token lets in had an account, in the company the token
names, and every permission the route asks for, now or within the life of an
access token ago; and whoever a token makes the platform's owner had what makes
them one, a permission or a role of that name (`Title`), as lately. The
exception is the token of a login or refresh that had read the user before the
withdrawal and signed after it (`late`). An administrator with the rights to
assign roles, edit roles and hire, edit and remove users loses them by an
assignment, an edit of their role, a move, a removal, or a removal and re-hire
with other roles, while signing in and calling the routes; the property does
not depend on which of these it was. Deadlock is
checked in this run: the requests are used again and again.

### 3.9 Bounds, and why they are enough

Every property speaks of one row, or one row and the requests that touch it.
The races of this code are between a read and a write of two requests; a third
shows the effect (a login after the crossing of a change and an eviction), and
three requests with two or three steps each are what the runs allow, four in
`onboarding` (a creation has to come first) and five in `mfa` (setup, enable,
login and two verifications). Two users, or two sessions of one, are enough
for a step to touch the wrong one.

Where three requests over all endpoints are too many states, a state constraint
(`Scenario` in the MC module) splits the endpoints into overlapping families
(four in `MCSessions`): a behaviour mixes the operations of one family. The
families follow the rows the operations share; they are listed in the MC
modules. Families are used in runs of safety and refinement properties only.

Symmetry is declared over request ids, over the default tasks of `Onboarding`
and over the tokens of `Access`, in safety runs only.

Clock: `Sessions` has lifetimes of 1 (safety) or 1 and 2 (liveness) with the
clock to 2 or 1, so tokens expire before, with and after their sessions;
`LoginGate` has locks of one tick. `CHECK_DEADLOCK FALSE` is set everywhere but
in `access`: the instances use each request once, or bound their number, and
then stop, as a server without clients does.

### 3.10 Where the code and its own text differ

Two runs expect a violation; TLC's trace is the evidence, and `PROJECT.json`
quotes the text.

1. `sessions_spent_token`: "a stolen refresh token is invalidated the moment
   the legitimate client refreshes" (`auth/auth.tokens.js:11`). A rotation in
   the same second as the issue signs the same JWT, so the spent token remains
   the valid one.
2. `suspension_instant`: "Instant tenant-suspension enforcement for still-valid
   access tokens" (`middlewares/auth.middleware.js:36`). Two overlapping status
   updates can leave the company suspended without a flag.

## 4. What is proved

Every safety property and every refinement that a run checks is also a theorem,
for any number of users, companies, sessions, roles, rows and requests, any
lifetimes, with or without Redis failures and deaths; only liveness is left to
TLC. The theorems are in eight modules: `SessionsProofs`,
`TenantSuspensionProofs`, `LoginGateProofs`, `MfaProofs`, `HrWorkflowProofs`,
`AccountsProofs`, `DirectoryProofs` and `AccessProofs`.

Their assumptions are the named ASSUMEs on constants in the modules they are
about; TLC evaluates them in every run of these modules. Most say which
constants are sets of what. Those that say more:

* `LeavesAssumption`: requests and starting leaves are finite (a balance is a
  sum over rows of a table), and the leaves an employee starts with, a day
  each, fit the first daysPerYear: they stand for leaves the guard has admitted
  before. daysPerYear is counted in whole days.
* `AccountsAssumption`: a role named SUPER_ADMIN at the start is the seeded one,
  a system role of the platform; roles yet to be created are of no other kind
  and held by nobody.
* `DirectoryAssumption`: requests are finite (they pay for files); `Texts` says
  for every kind of reference what a body may give, and a typed text is `Typed`
  or empty; `Nil` is no row, request or resource; an email is not the id of a
  person.
* `AccessAssumption`: a custom role is of a company or of the platform, and the
  permissions and the name that make platform owners are among those watched.
* `OnboardingAssumption`: a checklist is finite, its defaults not empty, and a
  progress in a body is between 0 and 100 (the schema's bounds).

| Theorem | States | Argument |
|---|---|---|
| `TypeCorrect` | `Spec => []TypeOK` (Sessions) | `TypeOK` is not inductive: a step may use a field an earlier one has filled. `IInv` adds `RequestsWellFormed` (what a request carries at each step: its user, an existing session, a jti) and `RowsWellFormed` (sessions that exist have users, tokens name sessions that exist). One lemma for arrivals, one for continuations, with a case per action |
| `RevokedGoesQuiet` | `Spec => RevokedSessionGoesQuiet` | revocation is stable (`RevokedStays`); only two steps mint tokens (`WhoMints`) and both need a request that holds the session (`HoldingIsReading`) |
| `LifecycleImplemented` | `Spec => ImplementsLifecycle` | initial states map to initial states, each step to a step or a stutter of `SessionLifecycle`: one lemma for idle steps, for revocations, for the login's insert and for the rotation |
| `PasswordChangeEvicts` | `Spec => []PasswordChangeEvictsOldSessions` | from `IInv`, step by step: who raises the password is between its statements, who inserts a session with an old password is in `astray`. A re-hire raises it and evicts nothing: `RemovalsEvict` says that a removed account has live sessions only if its removal is at work or died, or they are in `astray`, and is carried along (`RemovalsStep`, `EvictStep`) |
| `RemovedDevicesSignedOut` | `Spec => []RemovedDeviceIsSignedOut` | `DInv` adds `DevicesKnown`: a device nobody has begun to use is not in the table, and a login about to insert holds a device that is its user's or has been deleted, so the row it inserts beside is not somebody else's. `DeviceQuietStep` covers every step that leaves devices and sessions alone, five cases the others |
| `DeletedUsersGetNothing` | `Spec => DeletedUserGetsNoToken` | an action property. `HoldersMatch`: a request that is about to insert or rotate holds a session of its own user, so the row it looked at is the one of the user whose tokens it brings; then each way to become committed (`CommittedHow`) reads the row first |
| `LogoutsHold` | `Spec => []LoggedOutTokenStaysRefused` | not inductive: it compares an expiry in Redis with one in a JWT. `TokensDated`: a token was signed no later than now; `JtisSpent`: nobody signs with a jti again once its logout has begun; `KeysOutlive`: a key written at the logout lives as long as the token. `LogoutQuietStep` covers the steps that neither sign nor blacklist |
| `TenantTypeCorrect` | `Spec => []TypeOK` (TenantSuspension) | part of `Shape`, which adds what a request carries at each step and that live sessions and open challenges have accounts |
| `FlagFollows` | `Spec => []FlagFollowsStatus` | the property is not inductive: the writer between its writes must be about to write the right value. `WritersTakeTurns` adds that the writers of an undisturbed company come one after the other and that the one at work knows the row |
| `SuspensionEvicts` | `Spec => []SuspensionEvictsSessions` | a suspended company's live session is late or its writer still at work or dead, if writers came one after the other (`WritersTakeTurns`, which says nothing of the flag) |
| `NoTokenWhileSuspended` | `Spec => SuspendedTenantGetsNoToken` | an action property from `Shape` alone: none of the steps that mint tokens is enabled for a company that is shut down |
| `TypeCorrect` | `Spec => []TypeOK` (LoginGate) | `IInv` is `TypeOK` with what a request carries and `FailuresAreCounted` itself |
| `FailuresCounted` | `Spec => []FailuresAreCounted` | inductive once requests are well formed: the row of an account not in `raced` is the row the writer read. `OneMore` is the arithmetic of counting modulo the limit |
| `LocksHold`, `DisabledStayOut` | `Spec => LockSealsAccount`, `Spec => DisabledAccountStaysOut` | action properties: `WhoEnters` (only a login past the gates or a verification opens), `VerifyHow` (a verification starts from an open challenge of the same account) and `NoNewWay` (no step of a request makes a way in where the gate would refuse), then a case for each step of a request, another's and the clock's |
| `TypeCorrect`, `SecretsProved` | `Spec => []TypeOK`, `Spec => []EnabledSecretWasProved` (Mfa) | `IInv` adds `RowsRead`: a request about to enable MFA has seen a right code for the secret in the row it read, one about to store a secret read that MFA is off |
| `SecondFactorAsked` | `Spec => SecondFactorRequired` | an action property, from `SessionsEnded` (whoever opened a session has ended, so its account does not change) and `WhoEnters` |
| `ChallengeOneTime` | `Spec => ChallengeIsOneTime` | refinement of `OneTimeToken`: issue, expiry, use and opening map to their abstract steps (a lemma each), the rest to a stutter (`IdleStepRefines`) |
| `SpentChallengesOpenNothing` | an action property of the rows | a consequence of `ChallengeOneTime`: a token that `OneTimeToken` calls dead stays so and has no effect (`DeadStaysDead`) |
| `TypeCorrect` | `Spec => []TypeOK` (Leaves) | part of `IInv`, with what a request carries at each step (`RequestsCarry`) and that a leave nobody filed is empty. `DaysNat`: a sum of days is a number |
| `AllowanceHolds` | `Spec => []AdmittedLeavesFit` | rests on four facts about the sum (`DaysTake`, `DaysMonotone`, `DaysSame`, `DaysOfOne`). They are proved for the fold itself: unfolded at a set, it is a function on its subsets; that such a function exists, is unique and does not depend on the set are shown from a smallest counterexample, which a finite set of finite sets has (`Smallest`). Then: daysPerYear changes, and leaves go in any order, so the invariant is `EveryPartFits`: every set of admitted leaves fits what one of its members was admitted under. An insert adds one judged beside all the others, every other step leaves a part of what was there, and what a leave was admitted under stays (`AllowanceStays`) |
| `WorkflowHolds` | `Spec => ImplementsWorkflow` | refinement of `LeaveLifecycle`: four actions write leaves (`WritersOnly`); inserts and decisions map to abstract steps, edits and deletions to leaving the workflow |
| `NobodyDecidesTheirOwn`, `OutcomesAreFinal` | what `LeaveLifecycle` promises, said of the rows | consequences of `WorkflowHolds`, from the steps of `LeaveLifecycle` alone: who decides a leave is not its employee (`OthersDecide` adds that nobody is its decider before), and a rejected or cancelled leave keeps its status, as long as nothing takes it out of the workflow |
| `OutcomesTold` | `Spec => []OutcomeIsTold` | the decision leaves its request at "tell"; `StillHeard` carries the property over every other step |
| `DeletedStayPut` | `Spec => DeletedLeaveIsFrozen` | an action property: writers have read the leave (`LaterReadsNone`), and what is deleted is not found |
| `ChecklistTypeCorrect` | `OnboardingSpec => []OnboardingTypeOK` | part of `BoardIInv`: what a request carries, one creation at most, nothing but it before the record exists. `PercentIsNearest`: the rounded share of tasks done is a percentage, and no other is nearer |
| `ChecklistFollowed` | `OnboardingSpec => []ChecklistRules` | the property is silent while a recomputation runs; `CountHolds` says that one not overtaken carries what the checklist says, so the record agrees again when it ends |
| `HoldsKept` | `OnboardingSpec => HoldIsKept` | `HoldSeen`: a recomputation about to write another status onto a record on hold was under way before the hold |
| `ShareTellsStatus` | a theorem about the operators `Percent` and `StatusOf` | up to 199 tasks, the progress is 100 exactly when the status is `COMPLETED`, and 0 exactly when it is `NOT_STARTED`. From 200 tasks on it is not so: rounding makes 199 of 200 done 100 %, and `IN_PROGRESS` |
| `AccountsTypeCorrect` | `Spec => []TypeOK` (Accounts) | part of `Shape`, with `RequestsWellFormed` (what a request carries at each step) and `TokensWellFormed` (an open token has a user). A lemma for each kind of arrival says what the new request is, `GoToFields` what a step keeps |
| `HiresSpare` | `Spec => []HireSparesAccountsInUse` | the property speaks of the last step of a hire only; `HiresAreFree` says it of all its steps. `WhoAppears`: an account comes into use by an insert or a restore, which put the hires under way in `caught` |
| `TenantsDoNotEscalate` | `Spec => NoEscalation` | `TenantsOfferNone`: a tenant's request past its check offers no role of the platform, unless overtaken; `NamesAreGuarded`: a role has the name from the seed, and then cannot be changed, or from a request; then the ways to become an owner, a role raised or named (`WhoWritesRoles`) or handed out (`WhoHandsOut`) |
| `RemovedRolesUnheld` | `Spec => []RemovedRoleIsUnheld` | `RemovalsAreAlone`: while a removal is under way its role is held by nobody and handed out by nobody; once the role is removed, only by requests that have yet to look whether it exists, and those are rejected |
| `TokensAreOneTime` | `Spec => TokenIsOneTime` | refinement, from `TokensFollow` (who carries a token is redeeming it or has ended; what it found open has not become unissued): issue, expiry and redemption map to their abstract steps, the death of a redemption to `Drain` or a stutter, all else to a stutter |
| `SpentTokensDoNothing` | an action property of the rows | the same consequence, of `TokensAreOneTime` |
| `MailedPasswordsWork` | `Spec => []MailedPasswordWorks` | the property speaks of mails that have come; `PasswordsMatch` says it of those in a request or the queue too: each brings the password in force, or a reset has replaced it. `MailsSent`: who sets passwords and who sends mails. A step is quiet (`QuietMails`), sets a password (`PasswordSet`) or moves a mail (`MailComes`) |
| `TypeCorrect` | `Spec => []TypeOK` (Access) | part of `IInv` |
| `WithdrawnRightsRunOut` | `Spec => []RightsRunOut` | `RightsRunOut` is not inductive. `Recent`: what a token carries, its user had no longer ago than the token is old; `ReadIsHad`: what a sign-in carries, its user had when it was read; `HadNow`: history follows the rows; `Whole`: a snapshot with the wildcard has all of the catalogue. `RouteNeeds` shows that every route asks for permissions of the catalogue only, so the wildcard lets nobody past what they were read with. Ownership by a permission or the name is one more thing that is had or not, and is carried in the same way |
| `TypeCorrect` | `Spec => []TypeOK` (Directory) | part of `WellTyped`. The declarations are constants, so what the proof needs of them is stated once (`RefFacts`, `ColumnFacts`, `BodyFacts`, `Places`). `RowsFit` and `RequestsFit`: the columns of a row, and the slots a request has answered, go with the resource; `FilesCounted`: files and uploads to come are no more than requests begun. `NextEffects` says what each action does to rows and requests; the invariants are carried over effects |
| `NamesWereTrue` | `Spec => []SnapshotsWereTrue` | names get into rows through requests, so the invariant says it of their answers too (`SoundNames`): a name is one its row has had, and names only grow. `Linked` does the same for managers copied and files stored |
| `HeadsAreMembers` | `Spec => []HeadIsMember` | inductive with `WellTyped`: `HeadWrite` (a write that names a head is excused until its hook has run) and `HeadHooks` (the hook, which may move a head that other departments have) |
| `BuddiesAreOthers` | `Spec => OwnBuddyIsRefused` | `BuddiesKept`: the buddy a request holds is not the hire it holds, or found if it holds none, nor the email of a hire who was read from an account; `BuddyRead` shows the latter of the lookup, which finds such an account by its email as well; it rests on `SoundNames` (a name that was read is one of a row that is known). `WriteKeepsBuddy` follows both through the merge |
| `RemovedRowsStayRemoved` | `Spec => RemovedStaysRemoved` (Directory) | every row has a state (`RowsHaveState`), and `NextStates` says what each step does to it: the write by id and the hook of departments carry it over |

Only model-checked: the liveness properties `ReuseEndsAllSessions`,
`RevocationTakesEffect` and `SuspensionTakesHold`. Liveness under fairness, and
anything with ENABLED, is out of the provers' reach. Induction over data is too,
as a schema; the sums of `Leaves` do without by the smallest counterexample.

## 5. What is not modelled, and why

* **Employee codes.** `#nextEmployeeId` computes the maximum plus one outside
  any transaction; of two hires that compute the same code the unique index
  refuses one, with a 409 its caller did not cause. The index decides, there is
  nothing to explore.
* **Names of roles** other than SUPER_ADMIN. **Import** of users is a loop of
  hires; only its re-hires, which change rights, are in `Access`. **Exports**
  are reads.
* **A move to another company** by a platform owner's PUT is in `Access`, where
  it takes rights away, and not in `Directory`: there the company of a row is a
  constant (`Home`), on which only the hook of departments looks.
* **The trust mark of devices**: `trustDevice` writes it, nothing reads it.
* **Columns of HR records that refer to nothing**: hours, net pay, codes,
  levels, dates, amounts; computed on the way in or out from the same row.
* **What is read only**: lists, pages, filters, counts of employees, dashboards.
* **Marks on notifications**: single writes of the receiver's own rows.
* **AI assistant, sockets, audit**: I/O without state that other operations
  read. The routes of the first and the last are in `Access`.
* **HTTP layer**: validation bounds the inputs of the models; rate limits are
  counters of a library. The route table is in `Access`.
* **Extra permissions of a user** (`extraPermissions`): a column no route sets.
* **PostgreSQL isolation**: single statements and transactions are atomic;
  nothing in the code depends on more, as no transaction makes a read and a
  dependent write.
* **Time-outs of clients**: a client that gives up does not stop its handler.

## 6. Observations met while modelling

No run covers these; they are facts about the code worth a reader's time.

* `auth.service.js:325`: killing a session passes no `jti`, and neither do
  password changes, resets and removals; their access tokens stay valid until
  they expire. The comment at `auth.middleware.js:23` names them all.
* `user.service.js:322`, "Old credentials must stop working immediately": a
  login that had read the old hash inserts its session after the eviction.
* `auth.service.js:115`: `verifyMfa` does not look at the company's status, nor
  at the account's status or lock: an account disabled or locked after its login
  got a challenge is entered with it.
* `user.service.js:165`: a re-hire writes a password and ends no sessions. Those
  of a removal that died before its second statement are live again.
* `role.service.js:13`, "so a company admin can never escalate to platform owner
  via the API": the guards look at permissions, but `utils/tenant.js:12`,
  `auth.middleware.js:39` and `auth.service.js:72` also go by the name of a
  role, and names are unique per company only (`role.validators.js:15`, `:23`,
  `role.service.js:60`, `:87`). `NoEscalation` makes this exception.
* `hr/index.js:351`: PUT `/leave-types` may set daysPerYear below what has been
  admitted; nothing looks at the leaves again.
* `auth.service.js:265`: `verifyEmail` makes any account ACTIVE, a disabled one
  too. `refresh` does not look at the user's status at all.
* `auth.service.js:379`: parallel failures of one account are counted as one.
* Enabling and disabling MFA at once can leave MFA enabled with no secret.
* `hr/leaveBalance.js`: a leave for next year is checked against this year's
  leaves; a body without a type is not checked, but the row becomes ANNUAL.
* `hr/index.js:262`: the manager is notified before the leave is inserted.
* A cancellation that crosses an approval can be overwritten by it.
* POST `/onboarding` with status COMPLETED answers 100 %, but the stored record
  is recomputed from the new default tasks to NOT_STARTED and 0 %.
* The name of a removed role cannot be used again: the index counts removed
  rows, the check for duplicates does not.
* `hr/leaveBalance.js:68`: two applications under way together are both
  admitted, though each alone exceeds what the other leaves
  (`config/env.js:67`: "Block leave requests that exceed the employee's
  remaining balance"). `AdmittedLeavesFit` makes this exception.
* `hr/index.js:606`: PUT with a progress and no status stores COMPLETED at 0 %,
  against the comment three lines above.
* `hr/index.js:586`: a PUT that gives only `employee` can name the buddy of the
  record: the check runs only when the body gives a buddy. And it compares
  texts: an onboarding made for an email nobody has yet stores that email
  (`hr/helpers.js:65`), and the person who gets it later passes as buddy.
* `hr/index.js:591`, "can never diverge": a change of manager in the profile
  does not reach the onboardings of that person until their `employee` is sent
  again.
* `hr/index.js:215`: a PUT of an attendance that does not repeat the times
  clears them. `hr/index.js:175`: a new title gives a designation a new code.
* The legacy text `head` of a department replaces the name and leaves `headId`.
* `users`: a profile keeps a `departmentId` as it is given, removed or unknown
  ones too; its name is then old or empty.
* `hr/helpers.js:55` looks an email up in every company: a reference by email
  may resolve to a person of another one.
* A user who is moved keeps the old company in tokens until they expire.
* `org:manage`, `org:read` and `settings:manage` are granted and asked for by no
  route; `requireRole` and `authorizeAny` are used by none.
* `auth.service.js:342`: a session inserted between the two statements of a
  device's removal stays live and is on no device afterwards.
* `auth.tokens.js:123`: a Redis error on the blacklist write is swallowed; the
  logout succeeds and its access token works until it expires.
* A restart of the in-memory Redis forgets suspension flags and the blacklist.
* `config/redis.js:31`: with the offline queue commands wait while Redis is
  down, so checks that should fail open hang.

## 7. Plan

Order of work, the most important behaviour first. Done: 1 to 11.

1. `Sessions` with `SessionLifecycle`; type invariant, revocation, refinement,
   password changes; proofs.
2. `TenantSuspension`; flag and status, eviction, tokens; proofs.
3. `LoginGate`, `Mfa` with `OneTimeToken`.
4. `Leaves` with `LeaveLifecycle`.
5. `Onboarding`.
6. `Accounts`, refining `OneTimeToken` a second time; proofs.
7. Devices as operations of `Sessions`; proof.
8. `Directory`: the CRUD factory over all its resources.
9. `Access`: permissions from roles to routes; proofs.
10. Proofs about `Directory`: types, names, heads, buddies, removed rows.
11. Proofs about `LoginGate`, `Mfa`, `Leaves` with its sum and its refinement,
    `Onboarding`; the welcome mails of `Accounts`; deleted users and logged-out
    tokens of `Sessions`.
12. The sockets' check of a token; computed columns (hours, net pay) as
    operators checked against reference definitions.

## 8. How to run

In this directory, with the TLA+ tools, the community modules and TLAPS:

    tlc -workers 2 -config SessionsSafety.cfg MCSessions.tla
    tlapm SessionsProofs.tla

The configuration and module of each run are in `PROJECT.json`.
