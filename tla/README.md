# A verification project for Água em Rede

TLA+ models of the API, the worker and the web application of *Água em Rede*, the TLC
runs that check them on small instances, and theorems that TLAPS proves about them for
every instance. Paths are relative to the repository (`src/...`); `PROJECT.json` maps
every definition to the lines it stands for.

## 1. The system

A Fastify API (`apps/api`), a BullMQ worker (`apps/worker`) and a React client
(`apps/web`) around one PostgreSQL database. API and worker keep almost no state of
their own beyond the request or job in progress: shared things are rows, or counters in
Redis. They meet only there, so on the server the behaviours that matter are
interleavings of SQL statements at READ COMMITTED, the constraints that stop some of
them, and what is left behind when a handler dies between two statements. A browser tab
is the other kind of state: lists cached by TanStack Query, dialogs opened on rows as
they were, a session and a token that belong to the tab under a cookie that belongs to
the browser, and a Leaflet map that effects keep after what is rendered.

| Component | State | Operations | Hard part | Correct when |
|---|---|---|---|---|
| Alerts (`modules/alerts`) | `alerts`, `alert_events`, default `detection_rules` | `createOrDeduplicate` (no transaction), `transition` (transaction, unlocked read) | check-then-insert races, reopening, lost DETECTED events | one active alert a key; history explains state |
| Work orders (`modules/work-orders`) | `work_orders`, `work_order_events` | `create`, `update`, `addAttachment`; both touch the alert | stale reads merged by partial UPDATEs, two tables changed together | status backed by the other columns; completed order ⇔ resolved alert |
| No-communication watch (`worker/jobs/check-no-communication.ts`) | the same alert tables, the queue in Redis | periodic scan over all devices | repeated and concurrent scans, crashes, one bad device | a lasting silence is alerted, once |
| Users (`modules/users`) | `users`, `sessions` | `create`, `update`, `resetPassword`, `revokeSessions` | row locks, stale reads, deadlock | some administrator remains active; requests end |
| Sign-in and sessions (`modules/auth`, `plugins/auth.ts`), purge | `sessions`, password hashes | `login`, `logout`, `changePassword`, `resolveSession`, purge | verification and storing are apart; a late touch; two time-outs | a change of password ends the other sessions; over is over; active users stay in |
| Telemetry (`modules/telemetry`) | `measurements`, `devices.last_received_at`, `audit_logs`, `simulation_runs` | `ingestFromDevice`, `ingest`, `runSimulation` (none in a transaction) | retries after lost answers, half-done batches, readings of devices nobody registered | each identified reading once, nothing answered half done |
| Rate limiter (`lib/rate-limiter.ts`) | counters in Redis or in memory | `consume`, `sweep` | fixed windows, fallback per process, restarts, two keys under one `Retry-After` | never unlimited; waiting as told suffices |
| Devices and keys, sectors, maintenance windows (modules and pages) | one table each, the dialog open, the key shown once | create, update, revoke, cancel; a gateway's lookup of its key | repeated requests, a key shown late, a lookup in three statements | ended once; revocation holds; a key that was made is shown |
| Session of the web application (`lib/api.ts`, `features/auth`) | session query, token, cookie, answers in flight | sign in, sign out, fetch, poll, write, 401 | answers that overtake one another | nobody sees another's rows or writes in another's name |
| Alerts and work orders pages | cached lists, dialog, mutations | poll, open, submit, refresh, close | stale dialogs, polls that pass for a refresh | a dialog closes on a list that shows the change; lists catch up |
| Map page and network map | four queries, filters, selections, a Leaflet map | answers, clicks, filters, choices | effects that run only for the dependencies they list | what is drawn is what the state says |
| Permissions (`packages/domain`) | constant tables | routes and menu by role | – | used by the session of the web application |
| Audit, analytics, dashboard, rules, assets, organizations, migrations, configuration, seed, users and account pages | see `PROJECT.json` | reads, single-row writes, start-up | migrations serialized by an advisory lock | – |

How they interact: ingestion and simulation call `createOrDeduplicate`; work orders
call the alert repository inside their own transaction; the watch inserts into the
alert tables directly, with its own SELECT; user administration ends sessions that
every other request depends on; the pages act on what they read, which others have
changed since, and invalidate each other's lists.

## 2. Modules

```
AlertBoard            what the alert tables promise
   ^ implemented by
AlertLifecycle <---- WorkOrders  <---- AlertProofs   (WorkOrders EXTENDS AlertLifecycle)
NoCommunication                  <---- NoCommunicationProofs
Telemetry                        <---- TelemetryProofs
UserAdministration, Registry     <---- AdministrationProofs
Sessions, RateLimiter            <---- SignInProofs
Permissions <---- WebSession     <---- WebSessionProofs
Console                          <---- ConsoleProofs
NetworkMap  <---- MapPage        <---- MapPageProofs
MC*                  instances for TLC
```

### The server

**AlertBoard.** Per key, a board with room for one active alert (`active`) and the
alerts that left it (`filed`); alerts are raised, filed and reopened, never lost.

**AlertLifecycle.** Rows of `alerts` as `[key, status, occurrences]`, `alert_events`
as `trail` (STATUS_CHANGED, in commit order) and `detected` (DETECTED rows).
`createOrDeduplicate` is outside a transaction, so each statement is an action:
`FindByDedupKey`, `Deduplicate`, `FindDefaultRule`, `CreateDefaultRule`,
`InsertAlert` or `RejectDuplicate`, `InsertDetectedEvent`; `CrashDetector` ends a
request anywhere in between. `FindByDedupKey` returns *any* row of the key, because
the query has `LIMIT 1` and no `ORDER BY`. `transition` is a transaction whose SELECT
takes no lock: `ReadForTransition`, then `CommitTransition` or, when a constraint
refuses the row, `RollbackTransition`. From its UPDATE to its COMMIT a transaction
holds the row and shows nothing, which is why that stretch is one step. The dismissal
CHECK is the Boolean `reasonOk` (a reason of five characters or more).

**WorkOrders.** Extends the previous module, so an alert's requests and an order's
interleave. `create` and `update` are again a read and a commit; a request is reduced
to the four fields a decision depends on (`status`, `assignedTo`, `diagnosis` set or
NULL, `cancellationReason` long enough or not), `Keep` standing for a field left out,
and an UPDATE to the columns it writes (`EditFor`, `Merge`). `RowAdmitted` is the three
CHECKs. Time stamps are NULL or not. Every transaction touches the alert's row before
the order's, so no deadlock is possible and none is modelled.

**NoCommunication.** The scan, statement by statement, for up to `Concurrency` jobs at
once. BullMQ is modelled from its use: one next scheduled run, `attempts` with
retries from the start, and a job given back once when its worker dies (`Crash`).
Alerts are counters per device here (`raised`, `closed`, `announced`): their rows are
AlertLifecycle's business. A fictional device's alert is refused by
`alerts_origin_simulation_consistent`: the job gives it origin SIMULATED and no run.

**UserAdministration.** Requests are authenticated (`Admit`) before their transaction
starts, so the caller may have been removed in between. `update` reads the target
unlocked (`Begin`), may lock the other active administrators row by row with the
READ COMMITTED re-check (`StartCount`, `LockAdmin`), updates the target (`Update`) and,
with the audit row's foreign key to the caller, commits (`Commit`). Locks are
exclusive, except that a foreign key (`FOR KEY SHARE`) passes a row that its holder
only updated (`MayRefer`). `DeadlockAbort` is PostgreSQL's. Only other transactions'
committed rows are seen: `user` changes at `Commit`. `resetPassword` is the same
transaction without the read. Sign-in is in two steps, as in the code.

**Sessions.** The sessions themselves, under a clock. `login` reads the account and
verifies the password (`VerifyPassword`), then stores the session, and perhaps a new
hash of the password it verified, in a transaction that does not look again
(`StoreSession`); `changePassword` likewise (`VerifyCurrent`, `ChangePassword`).
`Resolve` lets a request in on one read of its session; `TouchSession` renews
`last_seen_at` by a later statement with the earlier time. `Logout`, `Deactivate`,
`Activate`, `ResetPassword` and `Purge` (the worker's DELETE) complete it. A password is the number of
the choice it was; rows carry histories (`proof`, `kept`, `late`, `used`) that only
the properties read. `Tick` keeps a request, and a sign-in, within `RequestTime`.

**Telemetry.** Senders repeat a batch until it is answered. `ingestFromDevice` and the
audited `ingest` (for `Importers`) are one sequence of autocommitted statements: read the
devices, which leaves out the readings of any that is not registered (`Found`; the answer is
200 all the same), renew `lastReceivedAt` item by item (`Touch`), one INSERT for what was found
(`BatchAdmitted`: the CHECKs and the unique event identifier), one call to
`createOrDeduplicate` per anomaly, the audit row, the answer. `Register` adds a device
meanwhile. `Fail` covers a crash, a failed alert and a lost answer. A device key is its device's, so only an
import can carry readings of devices that are not there.

**RateLimiter.** `ConsumeInRedis` is the script (INCR, and PEXPIRE for the first of a
window); `ConsumeInMemory` the fallback of one process, with its sweep, after a call to
Redis that failed and may have counted all the same. Processes and Redis are `Stores` of
counters alike; a counter is kept with the time it has left, so no clock is needed.
`Restart` loses a process's buckets, and of Redis any of its counters. What each store
let through in the last ticks (`passed`) is history, and the bound is claimed per store.
A client's try consumes the keys of a route one after the other, time passing in between (the
sign-in: the address, then the address with the e-mail; the change of password: the user), goes
through unless one is over its limit, and is otherwise told the longer of the waits (`LongerWait`).
The windows that refused it are history (`by`).

**Registry.** Devices with their keys, sectors with their maintenance windows: rows that
requests of the pages create, update and end. Every request is one transaction that
decides by WHERE clauses and constraints, so it is one step (`Done`, or `Refuses` for a
404, a 409 or a CHECK); another administrator's requests are the same steps without
a page. The lookup of a key at ingestion is three statements outside a transaction. The dialogs
of `DevicesPage` and `SectorsPage`, their hooks' calls, lost answers and the key that is
shown once are in it too. A page that is left (`Leave`) forgets its dialogs; its calls are
served, but nobody heeds their answers, and they may be under way (`Slots`) beside those of the page that
follows. A key was `shown`, or its answer `missed`. The dialog of the key renders the secret and a
command with it; the device code that `DevicesPage.tsx:395` keeps beside the secret is never
rendered, so the model does not keep it.

### The web application

**Permissions.** The matrix of `packages/domain`, the routes it opens and the menu it
leaves. **WebSession** extends it: the session query and the token of each tab, the
browser's cookie, and requests that are sent with the cookie and token of the moment,
served by `plugins/auth.ts` (`Serve`), received (`Receive`: the browser takes the
cookie an answer brings) and handled later (`Handle...`). A query that is cancelled no
longer waits, but its answer's cookie and its function's effects still happen.
Sign-in, sign-out, the 401 listener, the guards of routes, a session ended elsewhere
(`End`), and requests lost on either way (`Lose`).

**Console.** `AlertsPage` and `WorkOrdersPage` over their hooks. Rows are stamped with
the number of writes the API had applied when it read them. A list has the rows it
shows and the fetch under way (`Read`, `Deliver`, `FetchFails`, `Poll`, `Retry`); a
dialog keeps the row it was opened on; a mutation is sent, applied or refused by the
API, invalidates lists (`OnSuccess`), waits for those on screen, and only then closes
the dialog (`Resolve`).

**NetworkMap** and **MapPage.** `NetworkMap` is the pure part: what is to be drawn for
the inputs of a rendering (`Drawn`, `HeatPoints`), and the four effects, each run only
when one of the dependencies it lists has changed, in their order (`Committed`).
`MapPage` has the four queries, the filters, the selections and the handlers that set
them; every action ends in `Commit`, which mounts, updates or unmounts the map. A device or a pipe
need not have a sector (`SectorOf` may be `None`), and the page asks for the first 100 sectors only,
without an interval, so a sector may be missing from its list (`rows.sectors`); in both cases the
sector selected before stays selected (`SectorKnown`).

Definitions marked "wrong on purpose" or "mutant" are the faulty variants the
properties are tested against; no specification uses them.

## 3. Runs

| Run | Checks | Shows |
|---|---|---|
| `alerts` | `OneActivePerKey`, `StatusIsLastChange`, `DetectedExactlyOnce`, `NeverOvercounted`, `KeepsTheBoard` | the alert tables implement the board under two detectors, two operators and a crash |
| `work_orders` | `StatusIsBackedUp`, `CompletionResolves`, `OneActivePerKey` | two stale editors never make an order that its columns, history or alert contradict |
| `nocomm` | `NoDuplicateAlert`, `AnnouncedUnlessCrashed`, `SilenceIsAlerted` | repeated and concurrent scans neither duplicate nor miss |
| `users` | `AlwaysAnAdmin`, `EveryRequestEnds` | removals alone never take the last administrator, and nobody waits for ever |
| `sessions` | `OnlyKeptOrLate`, `StaysSignedIn`, `EndedForGood` | what a change of password leaves open; late touches neither end a session early nor, but for one case, revive it |
| `telemetry` | `AnsweredMeansDone`, `CountedOnce` | an answered batch left nothing half done of the readings whose device was found, an identified reading counts once |
| `rate_limiter` | `NeverUnlimited`, `RetryAfterSuffices` | how many tries pass in any stretch of a window, outages included; who waits as told finds every window that refused him over |
| `registry` | `EndsOnce`, `RevocationTakesHold`, `EveryKeyIsShown` | keys and windows end once and for good; a key, which no later request can show, was shown unless its answer was lost or its page left |
| `web_session` | `OnlyOwnData`, `WritesAsShown`, `EndedIsNoticed` | answers may overtake one another without mixing two users up |
| `console` | `ClosesOnFreshList`, `ListCatchesUp` | a dialog closes on a list that shows its change, a list on screen catches up |
| `map_page` | `OneTileLayer`, `LayersAreCurrent`, `HeatmapIsCurrent`, `SelectionCoherent` | the Leaflet map follows the state of the page |
| `map_shown` | violates `MapShown` | the page asks for more rows than the API gives, and never shows its map |

The runs also check their module's type invariant, but for `rate_limiter`,
`web_session` and `map_page`, whose ones (`LimiterTypeOK`, `WebTypeOK`, `MapTypeOK`) are proved.

**Bounds, and why they are enough.** *alerts*: two keys and two rows, so a key may hold
an old and a new alert or both keys one each; three detections, so one request can
create, a second read it and a third create another after a close; two of each actor,
since every race in the code is between a read and one write by someone else;
`MaxChanges = 1` bounds when a transition may *start*, so two operators that started
together still make a trail of two. *work_orders*: two editors on one order (the races
are on one row), two alerts of one key so that the index can refuse an order's update,
and three versions of the row. `MCRequests` has a request for each decision the
handler takes; the proofs cover every request body. *nocomm*: two devices, so
that one may stand before the other in a scan; two scans at once, two attempts, one
crash, one change in the field and one closing at any point of a scan. *users*: three
accounts (two founders and one that may be created) are the fewest in which the count
locks two rows; two requests at once; three requests in all, so that one may act on
what two others left; `MaxSignIns` only keeps irrelevant sign-ins apart. *sessions*:
one user, since no statement relates two; two sessions, one that a change spares and
one it ends; two requests, whose touches may come in the other order; one sign-in, with
an outdated hash; a clock that reaches the idle time-out (3), the absolute one (4) and,
with retention 0, the purge of a revoked session; a touch interval of 0, so that a session
is touched once in a tick and again in the next (other intervals are left to the proofs). *telemetry*: overlapping
batches, one reading without an identifier, one of a device registered later if at all, one batch
a CHECK refuses, two failures.
*rate_limiter*: limits of one, a window of two ticks, each a second, two clients and two routes (a
sign-in's two keys, and the second of them alone, so that either window may begin first), one
process beside Redis, one restart in all; rounding, other limits and any number of stores are the
proof's. *registry*: two devices, so that a
dialog may change under an answer; one sector, key and window, since races are on one row; one
call of the pages at a time besides the other administrator's; one lost answer; two
levels, enough for an update that would cross a range (one that narrows it is left to
the proof). *web_session*:
two users in turn with different roles, two requests under way (each overtaking needs
two), two sessions, one loss. *console*: one alert, two orders (one assigned, as completion
needs, one the tab creates), one call, one write by another, one failure. *map_page*: two devices of different kinds and
sectors, one of them in a sector that the list does not hold at first, one pipe without a
sector, two basemaps and tunings, three gestures, one change, one
failure, one refetch: each effect sees each of its inputs change alone and after another.

Alerts, identifiers, devices, detectors, operators, editors, sessions, requests and clients
are interchangeable where runs use symmetry. `sessions` uses it beside the action
property `EndedForGood`, and that is sound: the property is a conjunction over steps, none of
which names an element of the sets permuted. No run with a liveness property uses symmetry.

CHECK_DEADLOCK is off where the bounds let the system stop with all requests idle:
identifiers, detections, or the clock run out.

**Fairness.** Only what the code's scheduling gives. `NoCommunication`: the scheduler
keeps firing and a started scan keeps being worked on (a worker that dies is covered by
`Crash`, bounded); nothing is assumed of devices, operators or windows.
`UserAdministration`: an admitted request goes on whenever it can (Node and PostgreSQL),
including the abort that breaks a deadlock; no administrator has to do anything.
`Telemetry`: senders send until answered and the API executes; failures are bounded
and not fair. `Console`: a request sent is answered, and `refetchInterval` asks again while its
page is on screen; no user has to do anything. `WebSession`: requests are served and
their answers handled, and a page that polls goes on polling; that one is strong
fairness, only because the model's bound on requests under way may hold a poll up
again and again, which no browser's does. `MapPage` (in `map_shown`): a query being asked is answered or
refused. The other modules claim safety only and assume nothing.

**Assumptions of the instances.** `nocomm` has no fictional device and `users` no
reactivation: with them the properties fail, see below. `map_page` takes an API that
accepts the page's limits (`MaxLimit = 200`), for with the real one there is no map to
check. `web_session` is about one tab: two tabs share a cookie, and until the other
tab's next request it shows the user it was opened by. A role is constant while its
session lasts.

## 4. Where code and text disagree

`map_shown` is the run listed as a finding: `MapPage.tsx:56` asks for 200 devices,
`paginationQuerySchema` (`packages/contracts/src/common.ts:8`) takes 100 at most, and the 400 is
final: `/mapa` shows its error instead of the map (`README.md:25`).

The following are kept as configurations beside the runs (`tlc -config X.cfg M` reports
the violation), each a property that quotes the repository.

| Configuration | Module | Violates | What the code does |
|---|---|---|---|
| `MCDedupSequential` | MCAlertLifecycle | `DetectionNeverRejected` | `findAlertByDedupKey` (alerts.repository.ts:75) reads any row of the key, so that after a reopening-free close and a new alert even one detector alone may insert a duplicate and fail; alerts.service.ts:97 promises "Cria ou deduplica" |
| `MCOrderAdvance` | MCWorkOrders | `AdvancesOnlyOpen` | an alert closed between the read and the UPDATE of `create` goes back to INVESTIGATING; work-orders.service.ts:50 says only an OPEN one advances |
| `MCOrderVersion` | MCWorkOrders | `NoStaleUpdate` | nothing compares `version`, the "controle otimista de concorrência" of 0006_work_orders.sql:37 |
| `MCPoison` | MCNoCommunication | `SilenceIsAlerted` | a fictional device's alert is refused by a CHECK (0005_detection_and_alerts.sql:90), and every scan ends at it, before the real devices behind it (README.md:28) |
| `MCLastAdmin` | MCUserAdministration | `AlwaysAnAdmin` | the check is skipped for a target that an unlocked read found inactive (users.service.ts:93); users.int.test.ts:113 says "nunca" |
| `MCMutualRemoval` | MCUserAdministration | `SecondRecounts` | two administrators removing each other deadlock, where users.repository.ts:64 has the second count again |
| `MCOldPassword` | MCSessions | `OldPasswordInvalidated` | a login that verified the old password and rehashes it stores it over the new one |
| `MCResend` | MCTelemetry | `EveryBatchAnswered` | a batch whose answer was lost is refused for ever; 0004_telemetry.sql:36 calls the identifier the "base da idempotência" |
| `MCHeatmap` | MCMapPage | `HeatmapFollowsTheMap` | a new basemap makes a new map, which nothing listens to for the heat (NetworkMap.tsx:264) |
| `MCSecret` | MCRegistry | `SecretUnderItsDevice` | a key made for one device is shown over the details of another that was opened meanwhile, in a dialog that names none (DevicesPage.tsx:395); its text says "Copie-a e configure no firmware do sensor" (DevicesPage.tsx:488) |

Met while modelling, without a run: TECHNICIAN lacks `work-orders:read`, which the list of the
work orders asks for, and OPERATOR `work-orders:execute`; no form of the web application
assigns an order, which starting and completing need (a CHECK, answered 500); its "Cancelado" never sends the
reason that cancelling needs; the sector dialog offers a maintenance window to who may write
sectors, not windows; `credentials.expires_at` is never read; `update` of a device checks no range and answers 500; `useUpdateWorkOrder`
does not invalidate the alerts it resolves, which their interval makes up for; beside a device without a
sector on the page's list, the sector selected before stays highlighted (MapPage.tsx:140); an import is
answered 200 although the readings of unknown devices were left out (telemetry.service.ts:45, as the
comment there says), so its sender cannot tell.

## 5. Proofs

All with TLAPS, for every value of the constants: any number of keys, orders, scans,
senders, sessions, requests, devices and, except where a definition names it, whatever
the bounds. Every invariant and action property of the passing runs is the statement of a
theorem. They rest on the named assumptions on the constants, which TLC evaluates in the
runs: finiteness where something is counted (`JobsAssumption`, `SendersAssumption`), that a
null value is not a row (`UnusedIsNoRow`, `NoneIsNoRecord`, `NoneIsNoOrder`), and the ranges of
numbers. Two hypotheses more are the theorems' own, because the properties are false without
them, and both are true of the runs' instances: `RemovalsOnly` (`AdminRemains`) and `OneTab`
(*WebSessionProofs*).

*AlertProofs*, first part, is about `AlertLifecycle` alone: `AlertTypeOK`, `OneActivePerKey`,
`StatusIsLastChange` and `DetectedExactlyOnce`. None of them is inductive alone; `AlertInv` adds
what the requests in flight know: an absent row has no history, a detector that is to update or
to announce an alert, and an operator that is to move one, hold the identifier of a
row that exists, and at most one detector owes an alert its DETECTED event. `OneActivePerKey`
then follows from the unique index at the three places a row becomes active.

`NeverOvercounted` compares a sum over rows with the detections reported, which no single
statement keeps: a stale detector takes a row's count *back*. `CountInv` counts instead what a
row has *reached* (its count, or one more than a count that a request under way has read) and
adds the detections still *due*, those of requests that have not written yet; what is reached and
due fits in the detections reported. The rest is how the cardinality of
these sets of pairs changes with each statement.

Its second part is the refinement, `AlertSpec => KeepsTheBoard`: initial states map to an
empty board, `InsertAlert` to `Raise`, a status change to `File`, `Reopen` or a
stutter, everything else to a stutter.

Its third repeats both for the composition with `WorkOrders`. `SystemInv` adds that orders and
the requests about them point at rows that exist, and uses two observations: an edit
computed from an old row is merged into one that may be newer, but a column it stamps
stays stamped (no edit clears a time stamp), and `completed` is only ever set in the
step that resolves the alert. The alert part is not proved again: an order's step
changes the alert tables only through `Moves`, and one lemma carries `AlertInv`
over any `Moves` that the index admits, another `CountInv`.

*AdministrationProofs*, on `UserAdministration`: `TypeOK`, and two results on the last
administrator. `AdminInv` says that a transaction past its count holds the row of an active
administrator other than its target (`HoldsAnother`), and keeps it until it ends; nobody else can
change that row meanwhile. From this alone, `CountAssures`: whatever others do,
promotions and reactivations included, an update that counted others leaves an active administrator when
it commits. `AdminRemains` (`AlwaysAnAdmin`) needs moreover that nobody takes the right
from an active administrator *uncounted* (`Decided`), and that is so only if an account which the
unlocked read found inactive stays so: hence `RemovalsOnly`, without which
`MCLastAdmin` shows the violation.

On `Registry`: the type invariant (a range is never crossed), `EndsOnce`,
`RevocationTakesHold` and `EveryKeyIsShown`. `RegistryInv` adds that a lookup's key is there, that
one found was not revoked when the request came, and that a key asked for by a page that was left
already counts as missed: the answer that nobody heeds then owes nothing.

*SignInProofs* has two invariants for `Sessions`. `SessionsInv` (types and `OnlyKeptOrLate`) goes
through because a password is chosen only in a step that revokes the user's open
sessions but the spared one, and a session is stored marked late exactly when another
password was chosen meanwhile. `TimesInv` is about the touches: a request under way is no
older than `RequestTime` (`InTime`), and a touch under way is of a time less than `Idle` after
the row's `last_seen_at` (`TouchesInTime`), also when another touch has just written an
earlier time, because `Idle > Touch + RequestTime`. It gives `StaysSignedIn`, and
`EndedForGood`: the hypothesis of that property then says that no touch of the session
is under way, and without one no step gives time back.

For `RateLimiter` it proves the types, `NeverUnlimited` for any window, limits, number of stores and
restarts, and `RetryAfterSuffices`. `LimiterInv` bounds the tries between any two ticks (`Accounted`): those after
the tick at which the counter's window began are the counter's, those before it were let
through by an earlier window, of which a stretch no longer than a window meets only one, and
what restarts have forgotten is a limit each. For the second it adds that the windows that have refused a try and still
run have no more left than the wait it has heard of (`Awaited`): while the route goes on to its next key the
wait stands still and the windows run out, and the longer of two waits covers both.

*WebSessionProofs* proves, for one tab, `OnlyOwnData` and `WritesAsShown`. A sign-in changes the browser's cookie, the
tab's token and its user at different times. `WebInv` says which of them agree when: usually cookie, page and
every answer the tab still waits for are of one session (`Agrees`); until the browser has received
the answer of a sign-in nothing else knows its session (`Fresh`); and from then until the
tab has handled it the new cookie may go with the old page, but not the new token, which a query
that is no longer awaited brings alone only after the old user is gone (`HeldBack`).
A form whose token is its cookie's is therefore its user's.

*ConsoleProofs* proves `ConsoleTypeOK` and `ClosesOnFreshList`. `Refreshes` follows a write from the API to the
lists: once its call has invalidated a list on screen, the list is asked for anew, or was read since the
write, or has arrived or failed (`WillShow`); a poll that was under way before passes for none of these,
because the invalidation cancels it.

*NoCommunicationProofs* proves the type invariant with the bound on scans at once,
`NoDuplicateAlert` (from the unique index) and `AnnouncedUnlessCrashed`, by counting
scans between the two inserts: `DeviceChosen` says for which device each one is.

*TelemetryProofs* proves `AnsweredMeansDone`, by what a handler's place says it has
written of the readings it found, which is never taken back (`Progress`) and never leaves out those of
a device installed from the start, and `CountedOnce`: readings reported
and those handlers still have to report are never more than those stored (`Counted`).

*MapPageProofs* proves all four properties of `map_page`. `Current(Inputs, leaflet)` says
that the map is the one of the last rendering; that it survives any commit is shown
effect by effect: one that does not run has nothing to do, because all it uses is among
its dependencies, and where that is not so (the heat and the basemap) the map it leaves is one
on which nothing listens, of which nothing is promised. `SelectionCoherent` needs that a page that shows its
map has had its sectors answered (`AnsweredQueriesHaveData`), and so knows those that are always listed.

Only model-checked is liveness (`SilenceIsAlerted`, `EveryRequestEnds`, `EndedIsNoticed`,
`ListCatchesUp`), since the prover deals neither with fairness nor with ENABLED, and the
violations of section 4, which are counterexamples.

## 6. Not modelled, and why

`addAttachment`, photographs and file storage (I/O, one row); `runSimulation` (random
readings around the inserts of `ingest`; its RUNNING row is a listed hazard only where it meets
other state) and the quick simulation button; list and get operations; audit metadata
(its rows stand in the same transaction as the change they record, and are part of that
step); wording, priorities, evidence, volumes, geometry; tenants (every query is by
organization, so one organization is modelled); analytics and dashboard (read only);
users and account pages (forms over operations modelled in `UserAdministration` and `Sessions`);
network assets, organizations, detection rules (single-row writes nothing else
decides on); the migrations runner, configuration and seed (start-up); updates of sectors (texts
only). Left out inside the modules, without a bearing on their properties: the locks on the rows of
`sessions` that a user's transaction takes (`RevokeSessions`); a device created with another
status than ACTIVE; an answer whose body is lost after its headers have set the cookie
(`WebSession.Lose`); and TanStack's cache per key, of which `MapPage` keeps one state a query, so that a
re-keyed query that fails keeps the data it showed. `createOrDeduplicate` always takes the branch that
needs a default rule, because every caller leaves `ruleId` out.

## 7. Plan

Done in this order: alerts, orders, watch, users, telemetry; then sessions with time,
limiter, the web application's session, pages and map, the register; proofs of the safety of all of them. Left:

1. *Telemetry × NoCommunication*: a device whose every batch is refused still has its
   `lastReceivedAt` renewed, and is never silent.
2. *Simulation*: `runSimulation` with its RUNNING row and a crash.
3. *Migrations*: runners under the advisory lock, one transaction each.
4. *Console × WorkOrders*: the pages against the server that checks no transition of
   theirs, instead of against stamped rows.
5. *Refinements*: what `Sessions` and `UserAdministration` promise each other, as one abstract
   table of sessions that both implement.
