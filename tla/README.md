# Verification of the franchise management platform

TLA+ models of the platform (`src/saas-b2b-b2c`): the protocols of its backend
that run concurrently, its back office, and the screens of its web client, which keep state of
their own beside the server's; TLC configurations that check them on small
instances, and TLAPS proofs of the properties that matter most for every value
of the constants.
`PROJECT.json` is the index: components, runs, mutants, the line of code behind
every definition, findings, hazards and theorems.

Paths below are relative to `src/saas-b2b-b2c/backend/internal`, and those that
begin with `frontend/` to `src/saas-b2b-b2c`, unless they begin otherwise.

## 1. The system

A Go backend (gin, GORM, PostgreSQL, Redis) serves a Next.js frontend.  A
*network* (tenant, franchise) has an owner (`franchiser`), managers, dealers and
salon managers; a `super_admin` stands outside all networks.  Several replicas
of the backend may run; they share PostgreSQL and, when it is up, Redis.
Goroutines of one replica share only the in-process fallback maps of `cache`.
Everything below follows from that: the units of interleaving are database
statements and transactions, not Go statements.

| Part | State it keeps | Operations | Hard part |
|---|---|---|---|
| Durable login sessions (`services/auth_service.go`, `repository/auth_session_repository.go`) | `auth_sessions` rows, `users.auth_version`, signed tokens held by clients | login, refresh with rotation, logout, request authentication, hourly cleanup | checks and writes in different statements; reuse of an exchanged token; rows deleted while tokens live |
| Networks and plans (`services/admin_service.go`, `services/plan_services.go`) | `tenants`, `plans` | create, update, block, unblock, delete a network; create, edit, delete a plan | edits of a plan lock many rows; deletion counts and then saves |
| Employees (`services/user_service.go`) | `users`, `salons`, `users.managed_by` | create, update, delete employees and salons | quotas counted under row locks; walks up the hierarchy outside any transaction |
| Login limiter (`auth_service.go`, `cache/redis.go`) | failure counters | Peek, Incr, Reset around bcrypt | the counter is read before and written after a slow step |
| Token revocation cache (`cache/redis.go`) | revoked ids, session epochs, in Redis and a local map | claim, revoke, look up | Redis fails in the middle; replicas do not see each other's map |
| Leads, goals, checklists, schedules, alerts | one table each | CRUD, funnel status, alert generation | read-check-write without a condition; generation repeated |
| Payment reminders (`jobs/check_payment.go`) | none | daily job | truncation of hours to days |
| Sign-in and pages (`frontend/src/store/authSlice.ts`, `frontend/src/pages`) | the slice, copies in localStorage, a cookie the page cannot read | login, registration, logout, reload, redirects, summaries | a late answer of an earlier call; three copies of one fact |
| Lists (`frontend/src/services`) | RTK Query's cache | fetch, save, invalidate by tag | which save makes which list stale |
| Administrator's screens (`frontend/src/components/Dashboard/sections`, `tenantsStore.ts` and others) | stores that outlive the components | load, save, load again | loads that overlap; one request of several failing |
| Live feeds (`NotificationBell.tsx`, `DealerAlerts.tsx`, `CommunicationsTab.tsx`) | sockets, timers, badge, marks in localStorage | connect, close, poll, reconnect, mark | callbacks that outlive their component |
| Dealer's and salon's tabs (`frontend/src/components/Dashboard/tabs`) | state of the component | select, load, edit, save | answers in the wrong order; a form kept over a change of month |
| Checklists (`frontend/src/store/checklistSlice.ts`) | rows of the slice | thunks | rows put together from the answers of saves |
| KPI, bootstrap, other middleware, wiring, remaining tabs, deployment | - | reads, configuration, rendering | no protocol of their own |

**How the parts meet.** `users` is shared by all of them: a change of role by
the employee service moves `auth_version`, which ends sessions; a block of a
network by the admin service moves the versions of all its staff and revokes
their sessions; the quotas of the employee service read rows that the admin
service and the plan service write.  The hourly cron entry
(`cmd/server/main.go:118`) calls the cleanup of sessions.

The web client meets the backend only through HTTP calls and the cookie that
comes with their answers.  Nothing orders the answers of two calls; a call may
fail, or succeed and lose its answer; the server may change without telling.
Inside one browser tab handlers run one at a time, from one `await` to the next,
and that is the unit of interleaving.  The screens share no state but the signed-in
user: each has a store, a slice of the cache or component state of its own.

**What must hold.**

* *Sessions*: at most one exchangeable refresh token per session; an end to every
  chain of refreshes; a change of password, role or manager and a block close
  the sessions concerned, logins in flight included; a request that arrives after
  that is denied; cleanup is invisible and catches everything dead.
* *Quotas*: what was counted under the lock still holds at the insert; the limit
  that was read is the limit in force; transactions do not wait for each other in a
  circle, but for those the deletion of a plan closes, and none stays open; only empty
  networks are removed.
* *Hierarchy*: no circle of managers, no manager of another network, an answer
  to every call even when circles exist.
* *The back office*: guesses of a password stay within the limit and what runs at
  once, and a lock ends; revenue was once a sale; a record stays in its network; a
  network hears in time that its paid time ends.
* *The client*: the copies of who is signed in agree; redirects come to rest; a
  user never sees what another left behind; what is shown at rest is what was
  selected and what was last loaded; lists shown together come from one load; a
  form saves figures under the month they were meant for; a spinner or a button
  that turns has a call to wait for; one socket, timer or poll per visit.
* *The rest*: see the hazards of `PROJECT.json`; each names its line and the
  properties that cover it, or why none does yet.

## 2. Modules

| Module | Models | About |
|---|---|---|
| `SessionAuthority` | - | abstract specification: what the platform promises about sessions, without tables, versions, clocks or tokens |
| `AuthSessions` | sessions, and what the admin and employee services do to them | implements `SessionAuthority` (`ImplementsAuthority`) |
| `TenantQuota` | quotas, plans, networks, salons and their row locks | composes employee, admin and plan service on shared rows |
| `ManagerTree` | `managed_by`, who may edit whom | employee service on the `users` table |
| `LoginLimiter` | the counter of failed logins in Redis and in each replica | around the checks of a login |
| `LeadFunnel` | statuses of leads | read, check, write without a condition |
| `PaymentReminders` | the daily job over the networks' paid time | days, missed mornings |
| `SharedRecords` | goals and checklists | rows read, altered and saved whole |
| `BrowserSession` | auth slice, its copies, pages and their guards, logout, reload, dashboards' summaries | one browser tab |
| `QueryCache` | endpoints, tags and mutations of the four API slices, and the components that use them | lists |
| `TenantAdmin` | the administrator's table of networks | store and handlers |
| `AdminSections` | billing, activity, audit, technical health | sections that load several lists together |
| `LiveFeeds` | bell, dealer's alerts, communications tab | sockets and timers |
| `SelectionTabs` | seven tabs and panels with a selection | answers out of order |
| `ExpenseForm` | a dealer's monthly expenses | a form over all months |
| `ChecklistSlice` | the checklists page over its slice | rows from answers |
| `UnitEconomy` | the calculator of unit profit, its templates | figures and a form |
| `MC*` | - | small instances; `MCFrontend` composes the nine screens, `MCBackOffice` the back office with `ManagerTree`; `MCQuotaParties` chooses which calls of `TenantQuota` take part |
| `AuthSessionsProofs`, `TenantQuotaProofs`, `ManagerTreeProofs` | - | theorems about the module they are named after |
| `BackOfficeProofs` | - | theorems about `LoginLimiter`, `LeadFunnel`, `SharedRecords`, `PaymentReminders`, and `MCBackOffice` |
| `StoreProofs` | - | theorems about `ChecklistSlice` and `BrowserSession`, the Redux slices |
| `ListProofs` | - | theorems about `QueryCache` and `TenantAdmin` |
| `PanelProofs` | - | theorems about `LiveFeeds`, `ExpenseForm` and `SelectionTabs` |
| `ScreenProofs` | - | theorems about `AdminSections` and `UnitEconomy`, and about `MCFrontend` |

The first three backend models share the `users` and `tenants` tables and each keeps the part
its properties tell apart: `AuthSessions` the versions, `TenantQuota` the number
of users, `ManagerTree` the links.  An action of one that the other models also
have (UpdateEmployee, DeleteEmployee, BlockTenant) is modelled in each by what it
does to that part.

### AuthSessions

State: the rows of `users`, `tenants` and `auth_sessions`, all tokens ever signed
(whoever holds them may present them at any time and in any order: lost,
repeated and delayed requests need no actions of their own), the locals of
`Login` and `AuthMiddleware` calls, and the revocations that `UpdateEmployee`
still owes.

*Granularity.*  `IssueSession`, `Refresh`, `ChangePassword` and `BlockTenant` are
transactions that lock the user rows they decide on, at READ COMMITTED; any two
that concern one user are serialised by that lock, so each is one action.  A
login that is waiting for the row while a block is running either committed
before, and the block revokes its session, or reads the new version when it gets
the row and fails; both orders are behaviours of the model.  `Authenticate`,
`ResolveAccessIdentity` and `UpdateEmployee` use no transaction and are split
into their statements: `ComparePassword`, `RereadUser`; `ReadUser`,
`ReadSession`, `ReadTenant`; `UpdateEmployee`, then `RevokeAllForUser` or, when
the process dies or the statement fails, `LoseRevoke`.  `RereadUser` merges the
second read of the user with the network check after it, which `IssueSession`
repeats and which therefore decides nothing.

Data: passwords, roles and versions are counters; `proved` and `seen` in a
session are history, the password the login was compared with and the one in the
row it went on with.  `users.status` is written by no handler, so an operator may
write it at any time (`SetUserStatus`).

### TenantQuota

State: rows of `tenants`, `plans`, `salons`, the number of committed users of
each network, the row lock of each network, and the locals of all calls in
flight.

*Locks.*  A row is held from the statement that locks or writes it to the end of
the transaction.  `SELECT ... FOR UPDATE` waits for whoever has the row; an UPDATE
does too, but for the lock of a foreign key (`free`, `writable`); and a foreign key,
of an insert into `users` or `salons` say, waits for FOR UPDATE only (`forUpdate`).
`LockNext` takes the rows of a plan in the order of their ids; PostgreSQL
keeps the rows found by the statement's snapshot, so one that has left the plan
while the edit waited is locked all the same.

The rows of plans are locked as well.  `DELETE FROM plans` has the row of the plan
while its foreign key goes over the networks on it (`BeginDeletion`, `MeetTenant`,
`PassTenant`), and waits for those an edit of the plan has locked; the edit then
waits for the row of the plan (`SavePlan`, `PatchPlan`).  `UpdateTenant` and the save
of `DeleteTenant` are single statements, and yet have the row of the network while
they wait for the row of a plan that is being deleted, so each is two actions.  Such
a circle PostgreSQL finds, and it aborts one of those in it: `BreakCircle`.

*Saves.*  GORM's `Save` updates the whole row and inserts it when no row was
updated: `SavePlan` and `SaveSalon` bring a deleted row back.
`planService.UpdatePlan` (`PatchPlan`) updates two columns and brings nothing
back.  `CreateTenant` commits the network and adds its contact by a statement
whose error is ignored (`AddContact`, `ContactFails`).

*Ends.*  `RollBack`, `EditFails`, `MoveFails` and `RemovalFails` are failing checks
and statements; `CancelEdit` and `CancelDeletion` are the end of a call whose client
has gone away while it waited, which only `planService` can notice, since the others
run under `context.Background()`.

### ManagerTree

State: role, manager and deletion mark of every user, the locals of
`UpdateEmployee` and `DeleteEmployee` calls, and the history variable `raced`.

Nothing here is a transaction: every row `canManage`, `validateManagedBy` and
`isDescendantOf` read is an action (`WalkUp`, `ReadManager`, `ReadTarget`), so is
the final write, and everything else may happen between them.  `seen`, the step
bound and the three ways a walk can end are the loop's own.  `dirty` marks a call
in whose back another link was written since its walk from the new manager
began; `raced` becomes true when such a call writes.  Neither is read by any
action.

### The back office

*LoginLimiter.*  One pair of address and e-mail.  `Authenticate` peeks at the
counter for the CAPTCHA, peeks again for the lock, compares the password and then
counts or resets: four actions of an attempt, and everything else may happen
between them.  A store is Redis or the memory of a replica.  A call to Redis may
fail, and a failing pipeline of INCR and EXPIRE may have been carried out in full,
by half or not at all (`IncrLimit`); the replica then counts for itself.  `PeekLimit`
falls back to the replica's counter also when Redis merely has no entry, as the
code does.  `left` is the time an entry still has; zero beside a count means that
its EXPIRE was lost.

*LeadFunnel.*  `UpdateStatus` reads and checks, `UpdateLeadStatus` writes whatever
the row is by then.  `sold` is history.

*PaymentReminders.*  Time in steps of an hour or more; the job reads all rows once
and works through them.  `missed` and `setAt` are history the properties speak of.

*SharedRecords.*  Goals and checklists are rows of one shape, since their handlers
differ in what they check and agree in what they do to the row: read it, alter the
copy, `Save` all of it, which inserts a row that is gone.  A request that holds its
copy is overtaken by the others.

`MCBackOffice` chooses one protocol per behaviour and leaves the others at rest; the
numbers of their states add up.  `ManagerTree` is among them, with its fairness, since
part of what the run asks is that every walk and every lock comes to an end.  The
bounds, not the code, use up the hours and the identifiers; `Bounded` says so, and in
all other states of the run a deadlock would be found.

### The screens of the web client

All nine are written alike.  A handler runs to its next `await` in one action;
what follows the `await` is an action of its own (`...Fulfilled`, `...Answered`,
`...Failed`) that takes an element of a set of calls on the wire, any one of
them, so answers come in any order.  A call carries what its handler closed over
(the month, the period, the visit of its component), since that, and not the
state at the time of the answer, is what the code uses.  Where a failure and a
lost answer differ (the server has changed or not), there is an action for each.
Setting state of a component that is gone has no effect; writing a store,
localStorage or a timer has.  React Query, Ant Design, the router and the server
are modelled from how the code uses them, and marked external in the map.

*BrowserSession.*  `auth` is the Redux slice, `cached` and `persisted` its copies,
`cookie` whose session the browser holds.  The eight guards are one operator each
(`IndexTargets`, `AdminTargets`, ...) with the redirects the page may ask for;
`Redirect` takes any of them.  `Logout` sends and does not wait, as its handlers
do.  `summary` keeps the owner of the figures in each dashboard's store.

*QueryCache.*  A list is the rows it was read with and the version of the server's
table.  A save invalidates the tags its endpoint names; an entry that provides one
and is shown is fetched again, unless a fetch of it is pending.  `told` is the
version the browser was last told of.  A creation is sent without an id (`NewRow`) and
gets one when the server does it (`ServerApplies`).  A table keeps the ids it has
`given`: they are random UUIDs (`backend/migrations/001_full_schema.up.sql:25` and on),
so none is given twice, and a change of a deleted row finds no other row in its place.
Which of the unused ids comes next makes no difference (`Fresh`).

*TenantAdmin*, *AdminSections.*  Rows and lists live in stores.  Every handler asks
for the table again after its own success; a failed load puts made-up rows in
place (`MockTenants`).  A section waits for all its lists together.  Two spinners,
one in the store and one in the component, cover the section.

*LiveFeeds.*  A link is the socket of one visit; when it closes, the bell polls and
the other two connect again after a while, also when their component has gone.
`foreign` marks that a callback of an earlier visit wrote localStorage last.

*SelectionTabs.*  One record per tab says when it loads, whether a selection can be
changed, whether the next load cancels the last and what a failure leaves; the
actions are common.  Figures are represented by the selection they are of.

*ExpenseForm.*  Figures are represented by the month they were meant for.

*ChecklistSlice.*  A row is its id, how often its text was saved and whether it is
completed.  The server answers a completion with a message
(`handlers/checklist_handler.go:152`), in which the slice finds no row to put: the
completion shows when a load or a save brings the row, and `unshown` says of which it
has not yet.  `items` is a sequence, since a creation puts its row in front.  A
deletion keeps the other positions in their order (`InOrder`), which is what the
slice's `filter` does and can be reasoned about without recursion.

*UnitEconomy.*  Amounts are exact, in ten-thousandths of a rouble, where the code
rounds in binary fractions.  Compared are two figures of one sale, the net profit of
a sale without discount and the one drawn as "без скидки" (without discount), and the
two colours.

`MCFrontend` chooses one screen per behaviour and leaves the others at rest.  The
screens share no state, so nothing is lost by this, and the numbers of their states
add up instead of multiplying.

## 3. Runs

| Run | Shows | States |
|---|---|---|
| `rotation` | `OneRefreshTokenPerSession`, `ChainIsBounded`, `CleanupDeletesOnlyDeadSessions`, `DeadSessionsArePurged` | 296 388 |
| `fence` | `OpenSessionReadCurrentPassword`, `BlockedTenantHasNoOpenSession`, `NoGrantAfterClose`, types; `AuthSessions` implements `SessionAuthority` (`ImplementsAuthority`) | 530 628 |
| `relogin` | finding 1 | - |
| `quota` | `CheckedQuotaStillHolds`; `CirclesHaveADeletion`: no transactions wait for each other in a circle, unless the deletion of a plan is among them; `EveryTransactionEnds`, after such a circle too; types | 36 951 |
| `ends` | `OnlyRacesMakeCycles`, `EveryEditEnds`; `OvershootBounded`: failed logins exceed the limit by less than the attempts at once and the failed calls to Redis; `LockEnds`; `NoPaymentWithoutSale`: what is paid or contracted was a sale; `ToldInTime`: of the end of its paid time a network hears before it, if it was set four days ahead and one morning was not missed, and within two days after it, if none was; `AssigneeInNetwork`: no old copy gives a record to another network; types | 425 459 |
| `quota_limit`, `quota_salons`, `quota_delete` | findings 2, 3, 4 | - |
| `cycle` | finding 5 | - |
| `frontend` | the nine screens: 16 properties, below, and their types | 757 058 |
| `predecessor`, `calculator` | findings 6 and 7 | - |

What `frontend` shows, by screen:

| Screen | Properties |
|---|---|
| session | `CopiesAgree`: the slice and its two copies name one person, so a reload brings nobody back; `OneAuthCall`: the forms' common flag is up exactly while one call is on the wire; `RedirectsSettle`: at most two redirects follow each other |
| cache | `ReadsOwnWrites`: a list at rest shows every change its own browser was told of, unless it was being fetched at that moment |
| tenants | `RowsFollowChanges`: a table at rest follows its own handlers' changes unless its loads overlapped; `NoIdleSpinner` |
| sections | `OneLoad`: lists shown together are of one load; `ChosenIsShown`; `NoIdleLocalSpinner` |
| feeds | `BellHasSource`: a bell on the screen has a socket or polls; `OneLinkPerVisit`; `StoredAsShown`: what is stored is what is shown, unless a callback of an earlier visit wrote over it |
| tabs | `SelectedIsShown`; `SpinnerAwaitsLoad` |
| expenses | `FormKeepsItsMonth`: figures are saved under the month they were meant for (`FiguresOfTheirMonth`), and what was typed can be saved (`UnsavedIsSavable`) |
| checklists | `NoRowTwice`; `SliceFollowsServer`: the rows put together from answers are the server's, each with the text last saved, and completed rows show as such once a load or a save has brought them; `FlagAwaitsCall` |
| calculator | `ColoursAgree`; `SavingHasCall` |

`WhatTurnsHasACall` joins `NoIdleSpinner`, `NoIdleLocalSpinner`, `SpinnerAwaitsLoad`,
`FlagAwaitsCall` and `SavingHasCall`: one promise, kept by five screens.

Several of these except a case by a history variable (`lapped`, `overtaken`,
`loadsOverlap`, `stray`, `foreign`, `together`, `mixed`, `unshown`).  Each names a case in
which the code really fails to keep the promise; the comment of the property says
which, and `PROJECT.json` lists them under `hazards`.  In no other case is it
broken.

Every property of a passing run has a mutant in `PROJECT.json`: a plausible bug
in a mapped definition that makes TLC report that property.

**Bounds and why they are enough.**

* `rotation`: two sessions of one user, time 0..4, lifetimes 2 (access), 2
  (refresh), 3 (chain), two refreshes per session, a cleanup of one row at a time.
  A chain outlives a refresh window, expires in the middle of one, and rows
  compete for the cleanup's limit; `MaxTime` lies beyond the end of a chain that
  begins at 1, and everything the properties speak of is relative to it.
* `fence`: one member of a network, versions up to 3, i.e. two security changes
  around one login and one request, with blocks, unblocks, a lapsed
  subscription, status edits and deletion in any order.  Time stands still: no
  property of the run speaks of expiry.
  The run also checks the refinement; that one step concerns two users' sessions
  differently is left to the theorem `Implementation`, which has no bound.
* `quota`: two networks, two plans.  A plan's limits are 1, a network's own 2, and
  without a plan there is none on salons; since a creation goes by the limit it has
  read, other figures would make no other behaviour, and `quota_limit`, where the
  figure matters, has two.  All kinds of calls at once are too many, so a behaviour is about one of four parties (`MCParties`): two
  creations, of users and salons, in one network, with an edit of its plan and a
  salon's update; two edits, a creation and a move over two networks, the least in
  which locks could be taken in opposite orders; an edit, a move and a deletion over
  two plans and two networks, where the circles are; a move, a removal and a deletion.
  That creations and removals meet is left to `quota_delete`, and that of all kinds any
  number may meet to the theorems.  No symmetry, because of liveness.
* `quota_limit`, `quota_salons`, `quota_delete`: the calls each finding needs.
* `ends`, its walks, and `cycle`: an owner and two employees, two calls.  Two make a circle,
  and the third can walk into one it is no part of.  `WalkBound` is 2, exactly the
  longest chain of managers there can be above one of three users: a walk one row
  shorter lets a single call close a circle, and in a circle the bound is reached.
  Longer chains are the subject of a theorem (*Proofs*).  `NewRoles` is empty, so an
  update here is a reassignment; role changes do not touch the links, and the theorems
  cover them.
* `ends`, the other protocols.  Of the limiter, three attempts on
  two replicas, a lock after two failures, one failing call.  The attempts may all
  pass on one count, and with fewer failing calls than make a lock one of its
  failures always set an end; with the code's limit of ten, all ten calls would have
  to lose theirs.  One lead and two requests: leads do not influence each other, and
  the second request is the one that overtakes.  One network, paid times that end on
  both sides of the job's hour, and 186 hours, four mornings before the end and two
  after it, in steps of three hours; networks meet in the job only when it is cut
  short, which one misses as two would.  One record and two requests, of a super
  administrator and of users of two networks; records meet only in the unique index
  over periods, on which no property depends.  No symmetry, because of liveness.
* `frontend`: two or three calls on the wire, so that one can overtake another and
  a third be sent meanwhile; two visits, since what outlives a component needs one
  after it; two selections or periods and two months and their predecessors; two
  rows of a list, so that one can be made where another is or was, with two changes
  of a table, and two networks' worth of made-up rows besides.  The calculator has sale price, purchase price and delivery
  to type into, each 0 or 60, and 93 beside the shares it starts with, the least
  at which both signs of the kept percent and all colours occur.  Deadlock is not
  checked: visits, saves and changes are bounded, so a screen may use them up.
* `predecessor`: two users of one role in one tab.  `calculator`: the screen of that
  name.

**Fairness.**

* `AuthSessions`: weak fairness of the cleanup that finds no row locked.  The cron
  entry runs for ever and row locks are short.  Nothing obliges clients.
* `TenantQuota`: strong fairness of each running transaction, since it runs in a
  goroutine whose statements return, and PostgreSQL queues those who wait for a row, so
  that nobody is passed over for ever; weak fairness of `BreakCircle`, since a
  transaction that waits looks for circles after `deadlock_timeout`.  `CancelEdit`,
  `CancelDeletion` and the start of calls are under no fairness.
* `ManagerTree`: weak fairness of each running call; failures (`EditFails`) are
  not forced, so the walks themselves must end.
* `LoginLimiter`: weak fairness of time.  Nothing obliges attempts to go on.
* `LeadFunnel`, `PaymentReminders`, `SharedRecords`: none; their properties are safety.
* The client's screens: none.  Nothing obliges a server to answer, a socket to
  open or a user to click; that nothing turns for ever is stated as safety, "what
  turns has a call to wait for".

## 4. Findings

1. **Re-login with the old password** (`relogin`, `services/auth_service.go:524`).
   A login compares the old password, the password is changed, `Authenticate`
   reads the row again and hands the new version to `IssueSession`.  The session
   survives the change.  What does hold, and is proved, is
   `OpenSessionReadCurrentPassword`: the fence works for the row the login *went
   on with*.
2. **The limit moves after the check** (`quota_limit`,
   `services/admin_service.go:385`).  A network put on the plan after its networks
   were locked is not locked: the limit read for it is no longer in force at the
   insert.
3. **A deleted salon comes back** (`quota_salons`,
   `services/user_service.go:641`), outside the quota.
4. **A network with a user is removed** (`quota_delete`,
   `services/admin_service.go:354`).
5. **A circle of managers** (`cycle`, `services/user_service.go:392`).  Two
   reassignments validate against each other's old rows.

6. **The figures of the user before** (`predecessor`,
   `frontend/src/store/authSlice.ts:61`).  Logout removes what the stores had
   persisted and clears sessionStorage "for the stores in memory", which are not
   kept there.  The next user of the tab sees the first one's figures until the
   first answer of his own.
7. **A profit without discount that is too low** (`calculator`,
   `frontend/src/components/Dashboard/tabs/UnitEconomyCalculator.tsx:254`).  The
   figure under the label "(без скидки: ...)" (without discount) is made from the
   profit with the discount, by adding what the discount costs and taking delivery,
   rent and services off.  The profit has paid for these already, so the figure is
   below what the calculator shows when the discount is taken away.

The entries of `PROJECT.json` quote the line of the repository each of them is
at odds with.

**Departures without a run.**  Met while modelling the back office, and read off the
code:

* *The funnel goes backwards* (`services/lead_service.go:102`).  Line 72 says "обратный
  ход запрещён" (the way back is forbidden), but two requests may check against one
  row, and the second writes "wait" over the first's "sale".  What does hold, and is
  proved, is `NoPaymentWithoutSale`.
* *No alert of an overdue lead is made* (`services/alert_service.go:141`).  The lookup
  of the key uses `->>` on a TEXT column (`database/database.go:451`), which PostgreSQL
  refuses, and the error is dropped with the notice (line 182).  The key is not written
  either.
* *An edit of a plan and its deletion deadlock* (`services/admin_service.go:418`,
  `services/plan_services.go:133`).  When a network was on the plan, each comes to wait
  for a row the other has; PostgreSQL aborts one of them, and its administrator gets an
  error.  No line of the repository promises otherwise; `CirclesHaveADeletion` says
  that no other circle exists.
* *A completed checklist stays as it was on the screen*
  (`frontend/src/store/checklistSlice.ts:245`).  The server's answer to a completion is
  `{"message":"Completed"}` (`handlers/checklist_handler.go:152`); the slice looks for
  a row of the answer's id, there is none, and the row keeps its status until the list
  is loaded or the row saved again.  The slice's test
  (`frontend/src/__tests__/store/checklistSlice.test.ts:467`) answers with a row.
* *Figures typed during a save are lost*
  (`frontend/src/components/Dashboard/tabs/ExpenseFormTab.tsx:170`).  The form stays
  open while its figures are saved, and the load after the save replaces what was typed
  meanwhile; the "unsaved" mark goes with it.
* *A change takes another one back* (`repository/goal_repository.go:44`).  Goals and
  checklists are saved whole, the fields nobody sent included, although
  `services/goal_service.go:58` says of a field that was not sent "не трогаем" (we do
  not touch it).

## 5. Proofs

All theorems hold for every value of the constants that satisfies the modules'
named assumptions (`ConstantsAssumption` and its like, and
`LifetimesAssumption`: an access token expires no later than the refresh window it
was issued with, 24 hours against 7 days).

**AuthSessionsProofs.**  `IInv` is the conjunction of the types and
* `VersionsBehind`: no session and no login in flight is ahead of its user's
  version, and at the same version they have seen the same password.  Without it
  nothing says that a version once left behind is never reached again;
* `BlockedTenantHasNoOpenSession`;
* `TokensOwned`: a token belongs to the row it names, carries an identifier no
  greater than the row's, and no two refresh tokens carry the same one;
* `RequestsFenced`: a request whose session was closed when it arrived finds its
  row revoked or deleted at the second read.

From it: `TypeCorrect`, `BlockedTenants`, `ReadCurrentPassword`, `GrantsOnlyOpen`,
`OneWinner`, `BoundedChain`, `CleanupIsInvisible` (an action property) and
`Implementation`: initial states map to initial states of `SessionAuthority`, and
every step to one of its steps or a stutter.  The proof first says how any step
moves a user, a row, a token or a login (`UsersMove`, `RowsMove`, ...), and then
argues on those lemmas instead of on twenty actions at a time.

**TenantQuotaProofs.**  `IInv` is the types, `LocksHeld` (who holds which row at
which point; an edit holds only rows below those it still wants), `TenantsExist`
and `CheckedQuotaStillHolds`, which is inductive only together with them: who
could add a user or a salon needs the lock that the creation holds.
`QuotaChecksHold` follows.  `WaitsEnd` (`CirclesHaveADeletion`) needs only
`LocksHeld`: a move or a removal with a row waits only for deletions, so in a circle
without one there are creations and edits; of these, the one that waits for the
greatest id waits for a transaction that wants only greater ones.

**ManagerTreeProofs.**  `NetworksAreKept` (`EditsStayInNetwork`) follows from what
the checks have established about a call's locals; TLC does not check it, because an
instance with an outsider is ten times as large.  `LowHierarchyNoCycle`
(`OnlyRacesMakeCycles`) needs more.  `PathRead` says of a walk no link has
overtaken: whoever it has passed is managed by somebody it has passed or is about
to read.  When it ends without having met the target, a circle through the target
and the new manager would leave the passed users closed under `mgr` by
themselves, which is a circle already there (`WalkProvesMoveSafe`).  So circles
are stated over closed *sets* of users and no induction along paths is needed.
The theorem assumes of every state that nobody has more than `WalkBound` (16)
managers above him (`LowHierarchy`), and needs to: a walk gives up after 16 rows
and then answers "no descendant" (`services/user_service.go:354`), so below a
longer chain one call alone can close a circle (TLC finds one when `WalkBound` is
1 in `ends`).
"Above" is the smallest set of users closed under `mgr`, again without paths, and a
walk stays in it (`StaysAbove`): when a row is left to read, the rows passed are
fewer than those above the new manager (`WalkFitsChain`), so the walk has not given
up.  `OneAtATimeNoCycle`, for networks of at most `WalkBound` users, is a corollary.

**StoreProofs**, the checklists.  Two parts, of different strength.  Whatever the order
of calls and answers, the browser has heard only of ids the server gave
(`IdsWereGiven`), lists have no id twice (`RowsDiffer`), and a row whose creation is
still to be heard of is in no list (`CreatedIsNew`), each up to the rows `mixed`; from
these `RowsAreNotDoubled` (`NoRowTwice`).  As long as calls do not overlap, the slice
and the one answer on its way together are the server (`OneByOne`), but for the
completions the slice has not been shown (`unshown`), which gives
`SliceIsTheServers` (`SliceFollowsServer`).  Cardinalities, sequences of answers and
the positions a deletion keeps are taken from lemmas (`ListingIsServer`,
`DeletedRows`); that there is an increasing sequence of each set of positions needs
no induction, because only the sequences that there are matter.
`FlagIsTruthful` (`FlagAwaitsCall`).

**StoreProofs**, the session.  `SessionTypeInv` is the types with `AuthCallsOfUsers`:
without it an answer could sign in nobody.  All that concerns the two forms is argued
on the four ways a step moves their calls (`AuthCallsMove`), not on seventeen actions;
`FlagOfOneCall` says `OneAuthCall` without counting.  `OnePersonInAllCopies`
(`CopiesAgree`), `FlagAdmitsOneCall` (`OneAuthCall`), and from the copies
`GuardsSettle` (`RedirectsSettle`): a visitor with a profile is sent to the login
only when he is not signed in, and from there nowhere.

**ListProofs**, the cache.  `ListsReadOwnWrites` (`ReadsOwnWrites`) is a matter of tags: a
save that names `{type, id}` reaches only lists that have the row.  `ListsAreFresh`
says that what is shown, and what is on its way to be, is at least as new as what the
browser was told of.  For it to survive an answer, a list of the table that lacks the
row of the save must have been read after the server did it, or the row must be gone
(`SavesAreNoticed`); and this needs that a row that has gone does not come back under
its id (`RowsWereGiven`, `RowsGone`).  While ids could be used again the invariant did
not hold: TLC showed an update meeting a second row of the same id, which no list
then learnt of.  That no database does, and the model now says so (`given`, `FreshIds`); a creation
has no id until the server gives it one, and no list can have that id before.  Which
tags a mutation names and a list provides is read off the tables of the four slices
once (`Mutations`, `ComponentsShow`, `SavesNameLists`).

**ListProofs**, the networks.  `TenantsTypeCorrect` (`AdminTypeOK`).
`TableSpinnerStops` (`NoIdleSpinner`) is inductive as it
stands.  `TableFollowsChanges` (`RowsFollowChanges`) needs to know what is on the
wire: while loads do not overlap there is at most one (`LoneLoad`); once answered it
carries the server's list (`LoadIsFresh`), and when there is none the table has it
(`TableIsFresh`), unless an own change is applied and not yet heard of.

**PanelProofs**, the feeds.  `FeedInv` joins the types and the properties with what they
need of each other: which feed uses which means (`EachItsOwnMeans`), that no socket or
poll is of a visit to come (`VisitsAreCounted`), and that what is closing belongs to a
visit that has ended (`ClosingHasLeft`), so that the bell's source is not one of those.
`LinksAreNotDoubled` (`OneLinkPerVisit`) is proved as `OneLinkEach`, which says without
counting that the links of a visit are a singleton.  `BellKeepsItsSource`
(`BellHasSource`), `StorageHoldsWhatIsShown` (`StoredAsShown`), and `BellSourceIsAlive`,
which is stronger than what a run checks: the source is a poll or a socket that opens
or is open, and no timer or closing socket stands for it.

**PanelProofs**, the expenses.  `FormOfOneMonth` (`FormKeepsItsMonth`): unless a month was
changed during a save or an import (`crossed`) there is one load at a time, of the
month selected (`OneLoadOfTheMonth`), so are the save and the file on their way
(`WireOfTheMonth`), and the form holds that month's figures from the answer on
(`FormOfTheMonth`).

**PanelProofs**, the tabs.  `SelectionShown` (`SelectedIsShown`): where
answers cannot be mixed up, one load at most is awaited, and it is of what is
selected; the drawer, which is closed over its figures, needs `DrawerHolds`.
`SpinnersEnd` (`SpinnerAwaitsLoad`).

**ScreenProofs**, the sections.  `ListsOfOneLoad` (`OneLoad`), `SpinnersStop`
(`NoIdleLocalSpinner`), and `ChosenPeriodShown` (`ChosenIsShown`) by `ChoiceInv`: a
load of this visit is of the period chosen, because the controls are away while one
runs.

**ScreenProofs**, the calculator.  `ColoursOfOneSale` (`ColoursAgree`) and
`ButtonsStop` (`SavingHasCall`), for all amounts, shares and discounts of the slider's
range; the first is non-linear.

**BackOfficeProofs.**  `GuessesBounded` (`OvershootBounded`) for any number of
attempts, replicas and failing calls.  It is inductive together with the types and
`OwnCountsFail`: with Redis a replica counts no more than what Redis failed to, without
it nothing is counted there.  An attempt that passes the lock was told by the store
it may fail into that the limit is not reached, and then all attempts together stay
below the bound; or the call failed, and the bound grows with it (`LockPassed`).
`RevenueWasSold` (`NoPaymentWithoutSale`) needs `ChangesChecked`: what a request is
about to write may follow the status it read, and a lead once read as sold stays in
`sold`; then it is a fact about the transitions (`PaymentFollowsSale`).
`RecordsStayInNetwork` (`AssigneeInNetwork`) by `RowSound`, of every row and of every
copy that is about to be saved over one: it is of its owner's network, which is what
makes the check against the caller's network enough (`ChangedFromWithin`).

`PayersToldInTime` (`ToldInTime`) counts mornings: up to hour `h` there were
`(h + 15) \div 24`, and of those between the day a notice is due and now, each has told
the network, has been missed, or is this hour's and its job has still to reach the row
(`EndingMissed`, `OverdueMissed`).  Four are due before the end and one after it, so
three, and none, may be missed.  A row the job holds that no longer agrees with the
table was changed in this very hour (`JobOfThisMorning`), and then nothing is due.

**The compositions.**  `ProtocolsStep` and `ScreensStep` say that a step of
`MCBackOffice` or `MCFrontend` is a step of one component and a stutter of the
others.  Hence `EachProtocolAlone` and `EachScreenAlone`: a behaviour of all is a
behaviour of each one's specification, and every theorem above about a component
holds of it there.  `OfficeTypeCorrect` (`OfficeTypeOK`), `ScreensTypeCorrect`
(`FrontendTypeOK`) and `WhatTurnsIsAnswered` (`WhatTurnsHasACall`) collect them.

**Model-checked only.**  Liveness (`DeadSessionsArePurged`,
`EveryTransactionEnds`, `EveryEditEnds`, `LockEnds`): the prover has no fairness and no
`ENABLED`.  Every safety property of the passing runs is a theorem.  The findings'
properties are false.  Induction over data and `RECURSIVE` operators are out of the
prover's reach too; no module here needs them.

## 6. Not modelled, and why

* Registration beyond its two inserts; the refresh path without a database
  (`s.db == nil` is for unit tests); cookies and CSRF.
* `SuspendTenant`, which no route reaches; the legacy revocation cache: ids are
  claimed only by a refresh without a database, which the running server never takes,
  and what is revoked there can only deny what the durable check grants.
* The salon funnel's assignment of a lead (`SalonFunnelTab.tsx:123`): the backend has
  no route for it, and the lists stay as they are.
* Names of networks: `CreateTenant` looks for a duplicate and inserts later; the
  race is listed as a hazard.
* `canManage` may combine links that never existed together; the model has the
  behaviour, but the code promises nothing a property could state.
* `CreateEmployee` by a `super_admin` without `managed_by` links the new user to
  its creator, who is of no network; the model does the same.
* Schedules: each change is one statement on the columns given, after a check of its
  permission.
* Alerts, which are never made (*Departures without a run*); the marking of
  alerts (`PATCH /alerts/:id/read` has no repository: `cmd/server/main.go:111` hands
  it nil); activities of a lead; log rotation, one statement; templates of
  checklists, which no handler serves.
* A counter of failed logins kept in memory is thrown out when a hundred thousand
  entries are; only entries that have ended are.
* How many times a network is told in one morning: every replica has a cron of its own.
* KPI analytics, listings, configuration and deployment: reads and rendering, no
  protocol.
* Tabs over built-in sample data (`FranchiserNetworkTab`, `FranchiserTeamTab`,
  whose saving of plans saves nothing, the reports, funnels and stock tabs) and
  figures computed at render: the optimistic scenario of
  `TerritoryPlanFactTab.tsx:98` leaves the middle dealers out, and
  `ProfitTab.tsx:49` turns the sign of a change after a loss.
* Of the components that are modelled: filters, charts, formatting, messages.
* Components that nothing mounts (`AlertSettingsPanel`, `MorningBriefDrawer`,
  `SaasMetricsSection`, `goalStore`).  Others nothing mounts either
  (`ChecklistBoard`, `GoalList`, `GoalCard`, `PlanList`, `SalonManagerWidget`,
  `DealerAlerts`, `ExpenseFormTab`) are modelled as they would run: they
  are the users of lists, sockets and forms that are otherwise without one.
* The server side of templates and of `/dealer/expenses`: where the backend has no
  such route the client's calls are answered as the client expects.
* Comments that promise more than the code keeps and of which no run is made: the
  bell's "if the WebSocket does not work there will be polling"
  (`NotificationBell.tsx:163`: without an id in localStorage there is neither), the
  checklist board's refetch "at once" after a save (a fetch already pending is not
  repeated).

## 7. Plan

In the order of what matters most:

1. `SessionLocks`: the transactions of `AuthSessions` at the granularity of their row
   locks, shown to implement the actions that stand for them here.
2. `BrowserSession` over `SessionAuthority`: the cookie as one of its sessions.
3. A run of `ManagerTree` in which a chain is longer than the walk.

Proofs still to write: that the step relations of the transactions are enabled as
their fairness supposes, as far as it can be said without `ENABLED`; `SessionLocks`
implements `AuthSessions`; the copies of who is signed in against the sessions of
`SessionAuthority`.
