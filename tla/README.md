# hikyaku-api: specification of dispatch, metering and orders

hikyaku-api is a NestJS backend for last-mile delivery: it takes packages,
decides at once which van's shift each goes on, re-solves the plans of shifts
in the background, and meters shifts for billing. The correctness of the
program is that of its dispatch subsystem: several writers, on several
replicas, rewrite the same plan tables, most of them from a copy they read
earlier. That subsystem is modelled first, then the metering of the shifts it
opens, which has to bill each of them once across crashes, and then what comes
in from outside: orders, requests for runs, the organisation's own subscription
and its people. Paths below are relative to the repository
(`src/dispatch/...`); migrations are in `src/database/migrations/`.

## 1. Inventory

| Part | State it keeps | Operations | Talks to |
|---|---|---|---|
| Shift plan tables, `shift-plan.writer.ts`, migrations | `vrp_optimization` (status, revision, crew), `vrp_route_step`, `vrp_optimization_revision`, `package_assignment`, `packages.optimisation_id` and `eviction_count`, `package_timeline` | snapshotRevision, writePlan, detach, claimPackages, setStatus; the triggers `vrp_optimization_touch` and `dispatch_shift_on_in_transit` | written by all planners; read by clients, who poll `revision` |
| Instant assignment, Tier 1, `assignment.service.ts` | none between calls; within a call, what Phase A read | assign (price without a lock, commit under `assign:<warehouse>`, retry, evict, re-assign victims), openShift | writer, replan queue, router |
| Hand edits, same file | none | assignToShift, removeFromShift, unassign, rewrite | writer, replan queue |
| Shift lifecycle, `shifts.service.ts` and the driver app | shift status and timeline rows | create, dispatch, load, carry | triggers, allowance |
| Replan worker, Tier 2, `replan.worker.ts` | `draining`, `pendingDrain`, the advisory lock `replan:<shift>` | drain, drainOnce, handleMessage, replanShift, handleOnDemand | queue, router, solver, writer, assign() |
| Replan queue, `queue.service.ts` | the pgmq queue | enqueueReplan, readBatch, archive, deleteMsg | worker |
| Whole-warehouse solve, `database.service.ts` | row locks for as long as the solver runs | buildOptimizationRequest, insertOptimisedRoutes, set-off times | solver, packages, shifts |
| Insertion and eviction arithmetic, `insertion.ts` | none (pure) | scheduleRoute, cheapestPosition, tryInsert, chooseBest, isEvictable, pickVictims | Tier 1 |
| Driving limits, `driving-limits*.ts` | per-driver and per-warehouse limits | resolution, route checks, solver fields, diagnosis | Tier 1, Tier 2 |
| Service-area coverage, `coverage*.ts` | territories, links, `coverage_outcome`, metric windows | resolution, recording, diagnosis, flush | Tier 1, Tier 2 |
| Optimisation requests, `optimisation.service.ts` | `optimisation_run` rows | runAdhoc (the wizard), triggerRun (the button), getLatest | shifts, assignToShift, queue |
| Shift metering, `shift-usage.reporter.ts`, `enforce_shift_allowance` | `stripe.shift_usage_events` outbox with claims | trigger insert, claim, report, markReported, releaseClaim | Stripe, notifications |
| The organisation's plan, `billing.service.ts` | `stripe.organisation_subscriptions`, the status cached in `organisations` | ensureSubscription, ensureShiftOverageSubscriptionItem, webhooks | Stripe |
| Booking and payments, `booking.service.ts`, `payments.service.ts` | `stripe.payments` | quote, pay, fulfillCheckoutSession | Stripe, customers, packages |
| Customers and packages | `customer`, `packages` rows, Stripe links | create, update, the two upserts; create, createBulk, reassign | Stripe, Tier 1 |
| Connect and card issuing | rows that name Stripe's accounts and cards | onboarding, cards, transactions | Stripe |
| Identity: organisations, users, invitations, permissions, tokens | invitations, members, grants, cached keys | invite, accept, decline, create, deactivate, guards | GoTrue |
| Time-zone boundary import | one table, an advisory lock | download, verify, truncate, copy | PostGIS |
| Service catalogue, integrations, skills, mailer, geocoding, VIN, router, solver clients, health | rows or nothing | CRUD and HTTP | outside services |

What is hard, and what correctness means there:

- *Tier 1.* Phase A takes no lock and uses two statements that share no
  transaction; Phase B rewrites a whole plan from that copy. Correct means: no
  placement is lost or invented, claims and steps agree, the van can still
  drive what it was given, evictions are bounded, every call ends.
- *Tier 2.* Reads, minutes in the solver, then a write that looks at no
  revision; a message queue with redelivery; a session lock through a pool.
  Correct means: what a stale rewrite drops comes back.
- *Hand edits.* The list that is written is read before the lock.
- *The van.* It leaves, or a package is loaded, at any moment: by the
  dispatcher, or by a trigger on the driver's first scan.
- *Queue and notifications.* Lost wake-ups, reconnects, duplicate messages,
  timeouts that end under the handler, poison messages. Correct means: a
  request is answered by a solve that began after it, or dropped for a reason.
- *The whole-warehouse solve.* It holds row locks over the solver's minutes,
  next to planners that take none of them. Correct means: what it planned is
  still its own to plan when it writes.
- *Insertion.* Estimates decide, measured legs are driven, by several callers
  in sequence. Correct means: no promise the van cannot keep, the same answer
  in both tiers, and nobody bumped in vain.
- *Coverage.* Territories are edited while packages are placed, and what was
  recorded is read back later. Correct means: the report is about the decision.
- *Metering.* A claim that names no holder and expires, drains that overlap on
  one replica and between replicas, and a meter that knows an event only by
  its identifier. Correct means: every shift is counted, and once.
- *Orders.* Exactly-once effects across redelivered webhooks, retried posts and
  crashes, over customer rows that several writers upsert.
- *Requests, plans and people.* Checks and their effects in different
  transactions, two Stripe objects made by two callers, an invitation changed
  while it is accepted.

`PROJECT.json` lists the hazards one by one, at the line where each bites, with
the property that covers it or the reason none does yet.

## 2. Modules

```
ShiftPlan      tables, the writer's statements, dispatcher and driver
  Tier1        assign(): two reads, one commit, retries, evictions
    Tier1_proofs   IInv, and the theorems about Spec
    MCTier1        runs tier1, tier1_loaded
    Dispatch   Tier1 + replan worker + hand edits
      Dispatch_proofs  DispatchIInv: the lost stops come back
      MCDispatch   runs dispatch, dispatch_liveness, dispatch_skip

ReplanRequests what the queue and its workers promise
ReplanQueue    pgmq message by message, and the drains; implements ReplanRequests
  ReplanQueue_proofs   QueueIInv, the leftover run, and the step simulation
  MCReplanQueue    runs queue, queue_dropped

DrivingLimits  limits, how each tier spells them, their diagnosis
  Insertion    routes, positions, victims, pins and replans over real geometry
    Insertion_proofs   InsertionInv: what vouches for a route, and lemmas on the arithmetic
WarehouseRun   the whole-warehouse solve against everybody else
  WarehouseRun_proofs  RunIInv, and the theorems about RunSpec
Coverage       territories, what is recorded of them, what is read back
  MCPlanning   run planning (the three of them); MCWarehouseRun: run waves
    Planning_proofs    DecisionsInv and CountsInv of Coverage, and the theorems about
                       CoverageSpec, InsertionSpec and PlanningSpec

Notify         the listening connection of each replica, and its wake-ups
  Metering     the usage outbox, its claims, the drains, Stripe's meter
    Metering_proofs   IInv, and the theorems about Spec
    MCMetering        runs metering, metering_once

Customers      the customer rows and who writes them
  Packages     the packages API
    Booking    checkout, its webhook, and the parcels that come of it
OnDemand       the wizard and the button
Subscription   the organisation's own plan at Stripe
Accounts       invitations, members and their grants
  MCRequests   run requests (the six of them)
  Requests_proofs  the invariants and theorems of ShopSpec, OnDemandSpec,
                   SubscriptionSpec and AccountsSpec
```

A transaction is one step. It is written as the composition of the statements
it is made of (`WritePlan(Detach(SnapshotRevision(d, s), ...), ...)`), each an
operator from tables to tables named after its method, so the order of the
statements within a transaction is still there. Where two transactions of one
component may cross (`Accounts`, `OnDemand`), they go statement by statement
with the locks they hold instead. Statements the database can refuse have a
guard, `CanWritePlan` (the UNIQUE constraint on a step's package) and
`CanClaim` (the row count of the claim); when a guard fails the transaction is
rolled back. Everything outside a transaction is one step per round trip.

### ShiftPlan

`db` is a record with one field per column or table: `status`, `revision`,
`driver`, `vehicle`, `imminent` (starts within DISPATCH_LEAD_S), `route` (the
packages with a step on the shift), `history` (the stops in the newest
revision row), `optimisation` (the claim `packages.optimisation_id`, with
`package_assignment`), `evictionCount`, `timeline` (the newest status) and
`replans` (shifts with a message queued). `Touch` is the trigger that moves a
revision on any UPDATE of a shift row; `Detach` does not touch one, because it
only deletes other tables' rows. `CreateShift`, `DispatchShift`, `StartNears`,
`LoadParcel` and `CarryParcel` are what the dispatcher, the clock and the
driver app do.

### Tier1

A call `c` is at `pc[c]`: `load` (the package), `shifts` and `stops` (the two
reads of Phase A), `commit` (the transaction), `victims` (re-assignments
owed). `seen[c]` is what it read. `commit` is the chain of `commitDecision`,
one action per step: `CommitCovering` (1), `OpenCovering` (2), `CommitOther`
(3), `OpenAny` (4), `Evict` (5), `Defer`; the guard of each says that the
earlier ones could not. A step that finds `HasMoved` rolls back and goes to
`shifts` again, up to `MaxRevisionRetries`. `Crash` ends a call between two
round trips.

### Dispatch

`job[w]` is the message a worker is handling and the rest of its batch, with
one action per round trip of `replanShift`: `TryLock` or `SkipLocked`,
`LoadShift`, `LoadShiftPackages`, `WriteReplan` (or `RefuseReplan`,
`FailReplan`), then `AssignLeftOut`, which calls `assign()` as call `w` of
`Tier1`, and `FinishReplan`. `held` is the advisory lock, `attempts` is
`read_ct`, `dropped` remembers the shifts whose replan a worker logged that it
gave up or skipped, until a worker reads the shift's packages again. `edit[e]` is
a hand edit, between `loadShiftForEdit`, its two reads and its transaction. A
`CrashWorker` closes the replica's sessions and makes its messages visible.
With `SharedPool` the unlock may be sent on another connection than the one
that holds the lock, as it may with a pool; `CloseIdle` is the pool closing
that connection later.

### Notify

One channel and its one consumer, on each replica `r`. `link[r]` is the client:
`connecting`, `live`, or `waiting` for the back-off timer; `opening[r]` is where
`connect()` is after its client is up (the LISTENs, then the drain of every
subscription); `heard[r]` says that the server has the LISTEN, `window[r]` that
the debounce timer is set, and `wake[r]` counts the handlers called and not yet
started. The module has the connection's own steps (`NotifyStep`) and the pieces
a consumer builds its actions from: `OnNotification`, `OnWake`, `CrashNotify`.
`subscribe()` may come before or after the connection, because Nest boots the
module of the connection before those of its consumers; a late one is LISTENed
and wakes nobody.

### Metering

`row` is the outbox: `reported_at` and `reporting_started_at` are its five
states, `stale` being a claim older than `STALE_CLAIM_MINUTES`. `Claim` is the
`UPDATE ... RETURNING` that a drain begins with; each organisation's batch is
then `Post`ed, and `MarkReported` or `ReleaseClaim`ed, one round trip per
action, with a way to fail for each (`PostUnanswered` is the one where Stripe
took the event and the reporter does not know). `counted` is the set of
identifiers the meter has counted; the identifier is a hash of the sorted ids,
so here it *is* the set of ids. `overrun`, `unmarked` and `missed` are history
variables: they record the circumstances under which the code does not promise
anything, and appear in no guard.

### ReplanQueue and ReplanRequests

`queue` gives each message its subject, `read_ct` and visibility; `worker[r]` is
a replica's drain with the batch it has read, the shifts it has seen in it and
the message at hand; `held` is the advisory lock of a shift; `run` is the
`optimisation_run` that a message of an older release names. `TimeoutExpires`
may strike a message whose handler is still at work. What fails is answered where
the code answers it: what throws before a message is handled (`FailEarly`) or
while it is (`Fail`) is counted against the message; what throws in `drainOnce`
itself (`Abandon`) ends the drain with the rest of its batch hidden.

`ReplanRequests` knows no messages: a shift is wanted until a solve that read it
after the request has ended (`Answer`), or until it is dropped because its lock
was held (`Skip`), because it was taken up `MaxRetries` times (`GiveUp`), or
because two workers had its messages at a time and each left it to the other
(`Overlook`); its liveness is that nothing stays wanted for ever.
`RequestsAreKept` is the refinement: `want` is the set of shifts with a message
on the queue and a request that is not settled, `busy` the locked shifts, and
`tries` a history variable of the queue. Every message of a shift asks for the
same thing, so a request is `settled` by any solve that read the shift after it,
and is waited for while any of the shift's messages is left. The detailed module
adds batches, timeouts, duplicates, failures, crashes and the leaked lock.

### WarehouseRun

A run is a transaction: `LockCandidates` (FOR UPDATE OF p SKIP LOCKED, with the
conditions on status, claim and pairing), `ReadVans`, `BuildPinnedRoutes` for the
pairs a dispatcher made by hand, the solver's minutes, `InsertRoutes` (the
claims, the steps and the departures, in the order of the code) or `FailRun` and
`SkipRun`. Against it: `AssignInstantly`, `PairByHand`, `PairAnew`,
`DetachParcel`, `Scan` and the clock. Which of them waits for a row lock is in
its guard: an UPDATE or an INSERT that refers to the row does, a statement on
another table does not.

### DrivingLimits and Insertion

`DrivingLimits` is pure: resolution of a driver's limits, what `tryInsert` tests
(`Within`), the fields sent to the solver (`VroomVehicleLimits`), and the
diagnosis. `Insertion` puts packages and the depot on a line, so that every
distance is exact, and lets them be inserted where `cheapestPosition` says
(`Place`), by bumping others (`EvictFor`), pinned by hand (`Pin`), taken off and
solved again (`Replan`), while vans load and leave and a dispatcher deletes a
limit profile. Legs are driven at `RoadFactor`; the code decides on estimates
scaled by `DETOUR_FACTOR` and `TIER1_SAFETY`, or on a leg it has measured in the
grey band. That the margin is wide enough is a premise, `MarginAssumption`: no road
between two places is longer than its estimate. Nothing in the code can make it so,
and no promise of an estimate is worth more. Sums and scans along a route are
recursive functions (`Running`, `Without`, `ChooseBest`), as the loops of the code. What `Tier1` takes as the parameter `Feasible` is `TryInsert` here.

### Coverage

`map` is the territories and links as they are now, `held[g]` the coverage an
assignment has read and not used yet, `row[g]` the `package_assignment` row with
its `coverage_outcome`, `made[g]` a history of how the standing placement was
decided. `metrics` is the in-memory window, swapped and emitted step by step;
`process` is whether the service is up and which mode it is in. The module has
the ladder of `decide` (covering, floaters, fallbacks), the pins and replans that
leave or keep an outcome, and the three readers.

### Customers, Packages, Booking

`row` is the customer table with the link to a customer at Stripe; a `job` is a
request between two of its statements, so the link that a Stripe call answers is
written back to a row that may have changed. `UpsertCustomerRow` is the upsert
with the conflict target of the person's strongest identity, used by bookings
and by external orders. `Packages` is a POST from validation to answer: the
look-up by tracking number, the insert that may meet a duplicate, the hand-over
to assignment in another transaction. `Booking` follows an order: `Pay` and
`StorePending` (and a crash in between), the customer at Stripe's page, then
webhook deliveries, each `ReadPayment`, the two parties one by one, and `Fulfil`
under the row lock with its second look at the status; `Redeliver` brings an
event again that was not answered, or that was.

### OnDemand

The wizard's steps are the round trips of `runAdhoc` and of the `create` behind
it: fleet, packages, crew, the depot's advisory lock, the search for a clash, the
insert that the allowance may refuse, then one transaction for its packages.
Fleet and drivers may be moved to another depot meanwhile (`Rehome`), whose local
day may be another. The button's transaction begins (its `now()`), waits for the
organisation's lock, counts, and inserts.

### Subscription

`org` is the cached status, `plan` the row of `organisation_subscriptions`,
`stripe[c]` the customer and subscription made by call `c`, `events` what Stripe
has told and may deliver at any time, again and in any order. A call reads the
organisation first and then goes through `ensureSubscription`,
`provisionMeteredOnlyBilling` and `ensureShiftOverageSubscriptionItem` with what
it read; the webhook's two updates are two steps. Keeping the vanity host in
step with the plan is three: the list of entitlements at Stripe (`ListEntitlements`),
the update it decides on (`UpdateVanity`), and the second reading of the row before
the items are looked at (`ReadPlanAgain`).

### Accounts

`invitation` are the rows with their grants, `rowLock` who has written one and
not committed, `member` the person's membership, `user` the account at GoTrue.
`Inviters`, `Accepters` and `Creators` are calls of `createInvitation`, `accept`
and `createUser`, statement by statement; `creator` compensates by deleting the
account it made.

## 3. Abstractions

- One warehouse, one service day: the warehouse lock makes warehouses
  independent, and a shift belongs to one of them.
- A route is a set. Order, distance, ETA and cost are the insertion layer's;
  `Feasible(driver, vehicle, stops)` stands for `tryInsert`, `Routable` for the
  solver's verdict. The theorems hold whatever they are. Which of the feasible
  shifts is cheapest is a free choice; the one grey-band measurement a decision
  may make can overrule one of them (`Overruled`).
- `vrp_optimization_revision` is reduced to its newest row.
- In `Dispatch`, messages of one shift are one element of `replans`: the worker
  coalesces them anyway, and `read_ct` is that of the oldest one. Messages by
  themselves are `ReplanQueue`'s, where in turn a solve is one step.
- The newest timeline row of a package is the last one written. The code takes the
  newest `created_at`, which is when the transaction began that wrote it; the
  difference is among the divergences below.
- The driver app is not part of `src/`, and the timeline takes any row of any package
  from it. It is assumed to scan packages that were given to a driver and to take no
  scan back; it may do so in any order, skip a scan, or scan a package whose stop a
  stale rewrite has just dropped (`LoadParcel`, `CarryParcel`, `Scan`).
- In `ShiftPlan`, DELIVERED and FAILED do not occur: the package is off the road
  then. No code moves a shift to `completed` or `cancelled`.
- A pin (`assignToShift`) names one package. A hand edit is not interrupted:
  it keeps nothing outside its transaction, so that is the same as one that
  never began.
- A notification lost on its way to a session is the same as that session
  dropping a moment earlier. `Subscribe` is the moment its LISTEN is in force.
- Nothing enables Nest's shutdown hooks, so `onModuleDestroy` is not reached and
  a replica only stops by a crash.
- In `Metering`, what `reportShiftUsageBatch` does before the meter event either
  lets it go on or rejects the batch; what it is, is `Subscription`'s. Stripe's deduplication of identifiers is taken to have no window.
- An UPDATE of the outbox that commits and whose answer is lost is not modelled:
  `MarkFails` and `ReleaseFails` leave the rows as they were.
- Errors of a query or of the solver are `FailReplan` and `Crash`; a deadlock
  the database resolves by aborting one side is one of them.

- Insertion: a weight is the only load; times are whole units; the measured leg of
  the grey band is the road's. A deadline after midnight is ignored by Tier 1 and
  sent by Tier 2, so `TiersAgree` speaks of service days that outlast the window.
- Coverage: `assignMany` has no caller in `src/` but tests and is one batch here.
  Links cannot cross organisations (composite foreign keys). A crash loses the
  metric windows and a graceful stop flushes them, as in the code; sending them
  to Sentry is assumed to succeed.
- Booking: one depot or none, the organisation is fixed; prices are computed from
  quantities in thousandths, with the code's rounded constants for miles and
  pounds.
- Subscription: `customers.create` and `subscriptions.create` are one step, since a
  customer without a subscription is named by nothing. The date a trial ends at
  and how `trial.ts` reads it are left out. Stripe gives up telling after
  `MaxEvents`.
- Accounts: an invitation revoked in the web app is declined. One person, one
  organisation. An accepter whose account a compensation deletes meanwhile (`gone`)
  can only fail, by the foreign keys of what he inserts; that somebody who had been
  a member, and is offered no permission, inserts nothing and commits, which uses
  the invitation up, is not modelled.
- WarehouseRun: `ReadVans` keeps, as a history, which routes had left when it read
  them; `NextWaveAfterReturn` speaks of those.
- Booking: `ShopSpec` is the storefront, the packages API and the dashboard in one
  next-state relation, over the same customers and parcels.
- ReplanQueue: a crash, or an error that ends a drain, spares the messages that
  have been read `MaxRetries` times, which is a bound of the model: the code
  counts such readings and discards nothing for them.

## 4. Runs

| Run | Question | Result |
|---|---|---|
| `tier1` | Do claims, plans, statuses, evictions and vehicle limits stay right when three calls race with a dispatcher and a driver app? | holds |
| `tier1_loaded` | Is a loaded package never taken off its van? | violated |
| `dispatch` | With the worker and hand edits: is a stop that a stale rewrite dropped always on its way back? | holds |
| `dispatch_liveness` | Does it get back, and does every call end? | holds |
| `dispatch_skip` | Does the solve a skipped message relies on include that message's package? | violated |
| `queue` | With timeouts, duplicates, crashes and two replicas: does the queue keep what `ReplanRequests` promises, and is the old whole-warehouse job done at most once? | holds |
| `queue_dropped` | Is a message only discarded after `MAX_RETRIES` attempts? | violated |
| `planning` | Does what a whole-warehouse solve locked stay its own; do estimates keep their promises, in both tiers; does the coverage report describe the decisions? | holds |
| `waves` | Is a van never sent out on its next wave before the last one is back? | violated |
| `metering` | With overlapping drains, dropped connections and one failure of any kind: is every shift counted, and the claim what keeps it to once? | holds |
| `metering_once` | Is a shift counted once when its reporter dies between the post and the mark? | violated |
| `requests` | Do orders, requests for runs, provisioning and invitations keep their effects to one, and to the right one, under retries, redeliveries, crashes and races? | holds |

`planning` and `requests` each check several models in one run: the initial
state chooses a `focus`, and a behaviour is one of that model, while the others
stay as they began. They share no state, so the product would show nothing more.

Properties of `tier1`: `TypeOK`; `ClaimsArePlanned` (a claim has its stop and a
stop its claim); `StatusTellsClaim` (PENDING exactly while unclaimed);
`PricedPlanIsCurrent` (an unmoved revision means that the copy is the plan,
although it was read in two statements); `EvictionBound`; `RoutesDeliverable`;
`RolledPlanFrozen`; `CarriedStays`; `RevisionTellsPlan`. In `dispatch`,
`ClaimsArePlanned` and `PricedPlanIsCurrent` are false, and legitimately so: a
replan and a hand edit write stale lists. What the code offers instead is that
every such write has a replan behind it: `LostStopIsQueued`, and with fairness
`LostStopIsSettled`. `StatusTellsClaim` survives the composition.
`RoutesDeliverable` is not claimed there, because a pin is added whether it
fits or not.

Properties of `metering`: `TypeOK`; `ReportedIsCounted` (nothing is written off
unbilled, although `markReported` finds rows by id and not by holder);
`CountedOnceUnlessInterrupted` (two counted events share a shift only if its
claim grew old under a running drain, or Stripe had it and the mark did not
follow); `WakeUpsSurviveDrops` (outstanding rows have a wake-up under way,
whatever the connections do, unless a LISTEN, a claim or a release failed or a
replica died with it); `DrainsReportEverything` (as long as drains are started
again and again, each row is reported, whatever failed before).

Properties of `queue`: `QueueTypeOK`; `RequestsAreKept` (the refinement, its
liveness included); `PlannedOnce` and `RunTellsOutcome` (of the old job, whose
message may be handled by two replicas at once, rolled back after the solve, or
archived with the row not updated: only a failure that the code merely logs may
make the row tell something else than what happened).

Properties of `planning`. Of the solve: `HeldForTheSolver` (nobody plans, pairs or
scans what it locked, and nobody plans what it pinned, so its answer is never out
of date), `RoutedAreClaimed` (a claim has its stop, in that plan and on the van
of the pairing; a stop may outlive its claim, but is then of a pending parcel that no
plan has and that has not left), `DispatchersChoiceStands`, `NextWaveAfterReturn` (for
vans that have left; for the others see `waves`). Of insertion: `NoFalseYes` (the
legs as driven keep every deadline and limit a plan was made under, as long as the
roads are within `DETOUR_FACTOR` times `TIER1_SAFETY` of the straight line),
`TheSameWinner`, `TiersAgree`, `VictimsAreNeeded` (who is bumped could be, and
was needed). Of coverage: `AnUnstaffedMapChangesNothing`, `TheDiagnosisAgrees`,
`EachPlacementCounted`.

Properties of `requests`: `EveryOrderOnce` (a paid session has its parcels once,
made by one delivery, and an unpaid one none; posts of one tracking number make
one package); `StrongerIdentityStands`; `WizardBillsOnce`; `RunsAreSpaced`;
`OneKindOfPlan` (however calls, failures and webhooks cross, the subscriptions an
organisation gets are all of one kind, and personal and grandfathered organisations
never get a base price); `GrantsAreOneOffer`
(nobody becomes a member with the role of one offer and the grants of another).

### What the violated runs show

- **A loaded package can be evicted** (`LoadedStays`). `isEvictable` tests the
  status Phase A read. Loading inserts a timeline row and moves no revision,
  so `hasMoved` lets the eviction through: the package goes back to PENDING
  while it is on the van. `removeFromShift` tests and acts the same way.
- **A skipped replan may be covered by nobody** (`SkippedSolveIsCovered`). The
  other replica may have read the shift's packages before the new one was
  placed; its message is archived all the same. `LostStopIsQueued` holds with any
  number of replicas only because it counts such a skip among what was `dropped`.
- **A request tried once can be discarded** (`DiscardedAfterRetries`). Duplicates in
  a batch are archived whatever became of the message that was handled: when that
  one fails for the last time, both are gone.
- **A van can be sent out before it is back** (`WavesDoNotOverlap`). A route that
  has not left is taken to leave at its packages' `scheduled_departure`. Only the
  whole-warehouse insert writes that; on a route of instant assignment it is a
  booking's collection day, or null, which counts as now.
- **A shift can be metered twice after a crash** (`MeteredOnce`). The comments
  say that the same id set is reported again under the same identifier. The next
  claim takes every claimable row of the organisation, so a shift logged in the
  meantime joins the batch and changes the identifier.

### Known divergences no run states

Read in the code while modelling it, each by a comment the code does not keep or
by a state nothing cleans up. There is no run for them: a property of the model
would only restate the line.

- The history row of an eviction or a removal lacks the stops it removed: `detach`
  runs before `snapshotRevision` in the same transaction
  (`assignment.service.ts:1702`; the migration
  `1787100300000-assignment_bookkeeping.sql:137` promises the plan as it stood).
- A van that leaves during a solve has its plan rewritten (`replan.worker.ts:277`
  reads the status once).
- A shift row claimed by a reporter that crashed is claimable after five minutes,
  but nothing wakes a drain that would: the sweep the comment of
  `1787100400000-fix_shift_usage_double_report.sql:54` relies on does not exist.
  A consumer that subscribes on a live connection is not drained either.
- A package put back to PENDING by a crash before `reassignVictims`, or deferred
  by assignment (`packages.service.ts:242`), waits for somebody to assign it: a
  replan loads only the packages of its shift. A replan of a planned shift may in
  the same way put back a package the driver has loaded.
- A shift whose last package left keeps its plan when the replan returns early
  (`replan.worker.ts:298`), and the leftover step blocks the package's next
  placement until the shift is written again. A replan that read a package before
  it was taken off the shift writes its stop, and the pairing, back for a package
  nothing claims (`replan.worker.ts:435`).
- The newest timeline row is the one with the largest `created_at`, and that is the
  transaction's start (`infra/db/schema.sql:1755`, `DEFAULT now()`). A transaction that waited
  for a lock writes a status that is older, to the code, than one written while it
  waited.
- `ensureShiftOverageSubscriptionItem` is "Self-healing by design"
  (`billing.service.ts:306`), but looks only at the subscription's items, never at
  its status (`billing.service.ts:351`). Once the subscription is cancelled, usage is
  posted to a customer whom it bills no more, or the price cannot be attached and
  each report fails; nothing provisions a new one.
- A legacy company is 'grandfathered', "Unrestricted, permanently"
  (`trial.ts:44`), and "never gets a Stripe customer" (`trial.ts:94`). Its first
  metered shift provisions one (`billing.service.ts:332`), whose webhook
  overwrites the status: its vanity host is lost, and it may be refused later.
- Two calls at once make two customers and two subscriptions for a new company,
  though `billing.service.ts:181` calls the check idempotent; the row keeps one.
  A late subscription event overwrites the status with an older one.
- `createInvitation` may update an invitation that was accepted meanwhile and
  answer 'pending' (`invitations.service.ts:171`); its comment says that a unique
  violation is caught and turned into an update, and the code lets it fail.
- A crash in `createUser` leaves an account at GoTrue without a membership; its
  compensation deletes an account whose owner may have accepted an invitation in
  the meantime (`users.service.ts:287`).
- A crash between `sessions.create` and the insert of the payment leaves a session
  that can be paid and never fulfilled (`booking.service.ts:146`).
- A Stripe link made for a customer row is written back to a row that may have
  another identity by then (`customers.service.ts:167`, `204`).
- The card of `issueCard` exists at Stripe before its row is saved, and two calls
  at once make two cardholders; a price update of a service is three requests.
- The boundary import counts a partial table, left by a crash after TRUNCATE, as
  populated, and does not look again once it has the lock.

### Bounds, and why they are enough

- *Calls.* `tier1` has three: two that race for a shift or a victim and a
  third that changes the shift between the first one's reads. The calls are
  interchangeable (`MCSymmetry`), and no property of that run is a liveness one.
- *Shifts, crews, packages.* Two shifts, one opened by assignment and one by
  the dispatcher; van `v1` holds one stop and `v2` two, so that every step of
  `commitDecision` is taken: a full van, room for one more, an eviction of one
  stop; `d2` does not cover `p1`, and `v2` lacks the skill `p3` needs.
- *`MaxEvictions = 1`, `MaxRevisionRetries = 1`.* Both limits are reached, and a
  step past each is refused once; the code's larger values add repetitions.
- *`dispatch`.* One API call, one worker, one edit, two packages and a van with
  room for both: enough for a rewrite to be stale with respect to each of the
  other two writers. `MaxRetries = 2` gives one failure that is retried and
  one that is given up.
- *`dispatch_liveness`.* Vans of one stop and an allowance of one free shift,
  so that evictions and left-out packages do happen.
- *Revisions* need no bound: calls, edits and messages are finite in number
  for each behaviour, apart from failures, which `attempts` bounds. A crash of
  the replica counts as a read, and a message outlives fewer than
  `MaxRetries` of them.
- *`metering`.* Two rows, of one organisation or of two, are enough for a batch
  to differ from an earlier one that it overlaps; two drains for one to take
  what the other holds. The replica of both is the same one: the claim does not
  know whose it is, and `fire()` does not wait for an earlier handler. One
  failure of each kind (`MaxFaults = 1`), besides drops, failed connects, failed
  releases and ageing claims, which are free. `MaxWakes = 1` handler called and
  not started: another would only find the same rows.
- *`metering_once`.* The only failure is one crash.
- *`queue`.* One shift and the leftover job, two messages, batches of two, two
  replicas: a duplicate of a shift in one batch, the same message with both
  replicas, failures that are retried and one that is final. `MaxRetries = 3` is
  the code's value; with 2, `GiveUp` would hide every `Overlook`. Messages of two
  shifts do not meet but in a batch, where each is handled by itself.
- *`planning`.* One solve, two parcels, two vans (symmetric), two insertions and
  one tick: room for one competitor at each step. Three packages and two vans on
  a line, with a deadline, two weights and three limit profiles, each binding
  somewhere. Two areas over one point, two drivers, two packages of which one is
  outside every area and needs a skill; one edit of the map, two placements, and a
  flush that alerts.
- *`waves`.* Routes of two lengths and no buffer, so that an overlap is one of
  planning.
- *`requests`.* One checkout session and two deliveries of its event, two posts of
  one tracking number, two customer jobs over three rows; three wizards, of which
  two are a retry and one is at another depot with the same local day, an
  allowance of two; three presses of the button within a limit of two ticks; two
  billing calls, one of which may be either of two kinds, and one subscription
  webhook between its two statements; two inviters, two accepters, one creator,
  and three offers of which one exceeds what the callers may grant.
- Deadlock is not checked: a system whose requests have all been answered and
  whose queue is empty has nothing to do.

### Fairness

`Spec` assumes weak fairness of each call's own work: the event loop runs an
`async` handler that has begun to its end. `DispatchSpec` adds the worker's
work: it is woken by a notification, and by the 60-second sweep (SWEEP_MS)
when the notification was lost. Nothing is assumed of the dispatcher, the
driver app, hand edits, failures, crashes or the pool: none of them is under
`WF`, and failures are bounded by `attempts` as in the code.

`Spec` of `Metering` assumes that timers fire and awaited calls end
(`NotifyProgress`, `Report`), that a called handler starts (`Claim`) and that time
passes (`ClaimGrowsOld`). No fairness for shifts, drops, failures or crashes.
`DrainsReportEverything` is conditional on drains being started again and again,
because the code guarantees no such thing (see the divergences above).

`QueueSpec` assumes of each replica that a drain starts again and again (a
notification or the 60-second sweep), that a handler goes on, and that a
visibility timeout ends; `ReadBatch` is under strong fairness, because it is
only possible while a message is visible, which the other replica may undo again
and again. Crashes, the pool, and failures at whatever point of a drain are under
none. `planning`, `waves` and
`requests` have no fairness: their properties are safety.

## 5. Proofs

Eight modules hold theorems. Each proves, for every value of the constants that
the named assumptions allow, what a run shows on a small instance; the inductive
invariants were run under TLC before they were proved. No theorem rests on
fairness, though all are stated of the specifications the runs use, or of the
components those put side by side.

| Module | Theorem | States |
|---|---|---|
| `Tier1_proofs` | `Invariance` | `Spec => []IInv` |
| | `TypeCorrect` | `Spec => []TypeOK` |
| | `ClaimsMatchPlan` | `Spec => []ClaimsArePlanned` |
| | `RevisionGuardsPlan` | `Spec => []PricedPlanIsCurrent` |
| | `EvictionsBounded` | `Spec => []EvictionBound` |
| | `StatusMatchesClaim` | `Spec => []StatusTellsClaim` |
| | `RoutesStayDeliverable` | `Spec => []RoutesDeliverable` |
| | `RolledPlansStay` | `Spec => RolledPlanFrozen` |
| | `RevisionsTellPlans` | `Spec => RevisionTellsPlan` |
| | `CarriedPackagesStay` | `Spec => CarriedStays` |
| `Dispatch_proofs` | `DispatchTypeCorrect` | `DispatchSpec => []DispatchTypeOK` |
| | `PlannersTellClaims` | `DispatchSpec => []StatusTellsClaim` |
| | `LostStopsReturn` | `DispatchSpec => []LostStopIsQueued` |
| `ReplanQueue_proofs` | `QueueTypeCorrect` | `QueueSpec => []QueueTypeOK` |
| | `LeftoverIsPlannedOnce` | `QueueSpec => []PlannedOnce` |
| | `LeftoverIsReported` | `QueueSpec => []RunTellsOutcome` |
| | `QueueKeepsRequests` | `QueueSpec => Requests!ReqInit /\ [][Requests!ReqNext]_<<...>>` |
| `WarehouseRun_proofs` | `RunTypeCorrect` | `RunSpec => []RunTypeOK` |
| | `RequestsAreHeld` | `RunSpec => []HeldForTheSolver` |
| | `ClaimedHaveStops` | `RunSpec => []RoutedAreClaimed` |
| | `PairsStand` | `RunSpec => DispatchersChoiceStands` |
| | `VansComeBackFirst` | `RunSpec => NextWaveAfterReturn` |
| `Metering_proofs` | `Invariance` | `Spec => []IInv` |
| | `TypeCorrect` | `Spec => []TypeOK` |
| | `ReportedAreCounted` | `Spec => []ReportedIsCounted` |
| | `ClaimCountsOnce` | `Spec => []CountedOnceUnlessInterrupted` |
| | `WakeUpsSurvive` | `Spec => []WakeUpsSurviveDrops` |
| `Requests_proofs` | `OrdersAreMadeOnce` | `ShopSpec => []EveryOrderOnce` |
| | `IdentitiesStand` | `ShopSpec => StrongerIdentityStands` |
| | `WizardsBillOnce` | `OnDemandSpec => []WizardBillsOnce` |
| | `RunsSpaced` | `OnDemandSpec => []RunsAreSpaced` |
| | `PlansAreOfOneKind` | `SubscriptionSpec => []OneKindOfPlan` |
| | `UsageFindsThePrice` | `SubscriptionSpec => []MeteredWhereAttached` |
| | `JoinsWithOneOffer` | `AccountsSpec => GrantsAreOneOffer` |
| `Planning_proofs` | `AYesIsTrue` | `PlanningSpec => []NoFalseYes` |
| | `TheWinnerIsTheSame` | `PlanningSpec => []TheSameWinner` |
| | `TheTiersAgree` | `PlanningSpec => []TiersAgree` |
| | `OnlyTheNeededAreBumped` | `PlanningSpec => VictimsAreNeeded` |
| | `AnUnstaffedMapIsHarmless` | `PlanningSpec => []AnUnstaffedMapChangesNothing` |
| | `TheDiagnosisIsTrue` | `PlanningSpec => []TheDiagnosisAgrees` |
| | `PlacementsAreCountedOnce` | `PlanningSpec => []EachPlacementCounted` |

The last seven are proved of `InsertionSpec` or `CoverageSpec` and stated of both; the
lemmas of `Insertion_proofs` carry the first four. Every safety property of a
passing run is a theorem.

### Assumptions

They are those of the modules, and TLC evaluates them on every run.

- `NoShiftAssumption`, `CrewAssumption`, `CallAssumption` (Tier 1): the value for
  "no shift" is not a shift, crews are drivers and vehicles, a driver covers and a
  vehicle carries packages, the limits are naturals. `Feasible` is any relation.
- `WorkerAssumption` (Dispatch): workers assign as calls of Tier 1, "nobody" is not
  one of them, a message is tried at least once. Any number of workers, with or
  without the shared pool.
- `QueueAssumption`: batches and retries are positive; a message is a replan of a
  shift or one of the two old kinds, and an older release left at most one job of
  the kind that names a run (it was queued by the row's own insert); shifts are
  finitely many, since a transaction enqueues a message for each of a set of them.
- `WarehouseAssumption`: lengths and bounds are naturals, and `None` is no van, run
  or route.
- `WakeAssumption`, `FaultAssumption`, `OwnerAssumption` (Metering): the bounds are
  naturals, and a row has an organisation.
- `BookingAssumption`, `ClientsAssumption`: an order has a sender and at least one
  and finitely many receivers, calls of different kinds are different, a person has
  the five columns the code reads.
- `OnDemandAssumption`, `LockAssumption`: times are naturals, the limit is
  positive, and a free lock is held by no transaction. `SubscriptionAssumption`: calls
  are finitely many, "no customer" is none of theirs, and each is of some kinds.
- `AccountsAssumption`: an offer is a role with permissions, and calls of different
  kinds are different.
- `LimitsAssumption`, `InsertionAssumption`: durations are naturals, packages and
  shifts are finitely many and numbered, a limit is a natural or unset, and
  `TIER1_SAFETY` is at least 1 (it is 1.2). `MarginAssumption` is the premise about
  roads named above.
- `CoverageAssumption`: packages, areas and warehouses belong to an organisation, and
  links and packages do not cross organisations (the composite foreign keys); every
  area encloses some address; drivers and packages are finitely many.

### Tier 1

`ClaimsArePlanned` is not inductive: a commit rewrites a plan from `seen`, so
it must be known that `seen` is the plan. That is `PricedPlanIsCurrent`, which
in turn needs `ReadBehind` (a first read is never ahead of the table) and that
no step changes a plan under an unchanged revision. The last is not an
invariant but a relation between the tables before and after, `Moves`, which
each transaction is shown to satisfy; `Detach` alone does not, and only the
composition of `Detach` and `WritePlan` in one transaction does. `Moves` is
`Respects` (a plan or a status changes only with its revision, a revision never
goes back, a van on the road keeps its stops) and `KeepsCarried` (a package in
transit keeps its status and its shift), so the three action properties follow
from it directly. `IInv` is `TypeOK`, `Consistent(db)`, `ReadBehind` and
`PricedPlanIsCurrent`; `Consistent` is the agreement of claims and stops, the
eviction bound, `Vacant` (a row that does not exist has no stops and no
revision) and `Told` (PENDING exactly while unclaimed, IN_TRANSIT only on a
van that has left).

`RoutesDeliverable` adds `Drivable` (a plan is feasible for the crew it has) and
`CandidatesCarry`: the crew a call priced with is the crew of the row, which no
step but the one that creates the shift writes (`KeepsCrew`). That a plan stays
feasible when it loses stops is not assumed: the code tests each plan it writes,
and the proof goes through those tests.

The lemmas come in layers: what one statement does to each column
(`TouchColumns`, `WritePlanColumns`, `ClaimColumns`, `DepartColumns`, ...), what
a transaction does to the tables (`PlacedConsistent`, `DetachConsistent`,
`InsertConsistent`, `LoadSafe`, `CarrySafe`, `MovesTrans`), what a step of a
call does (`CommitPlacementSafe`, `EvictAndPlaceSafe`, `WorkSafe`, `StepMoves`),
and the state of the calls (`WorkTyped`).

### Dispatch

A lost stop is a claim without its stop. Steps are of two kinds. One `Queues`:
whatever shift it claims for, or takes a claimed stop from, it puts on the queue in
the same transaction; the relation is transitive, so it is proved of statements and
composed, like `Moves`. The other is the write of a replan, which is the one step
that loses the claims made since the worker read the packages. So the invariant
needs `LateStopIsQueued`: when such a claim exists the shift is on the queue, in a
batch, or its replan was given up or skipped since (`Promised`). It holds because
the step that claimed had queued the shift, and nobody else takes that message away
and leaves nothing while this worker has the shift's lock (`JobsHold`): another
worker that meets the lock skips, and that is `dropped`. The rest of `DispatchIInv`
is `EditsKnow`, what a hand edit remembers between its reads, and types.

### ReplanQueue

`QueueIInv` has three parts. `Standing` says of what kind the message in a worker's
hands is at each point of its work, and that the worker has the lock. `RunStands`
gives the two properties of the old job: one message names the run (`OneLeftover`),
one transaction has its packages (`OneTransaction`), and as long as nothing
disturbed it, one worker handles it and the row says where he is (`OneHandler`).

`Promises` is for the simulation of `ReplanRequests`, whose hard step is a message
archived unhandled. `Deferred`: a worker that will archive a shift's message as a
duplicate has left the request to another, which he is handling, or which waits to
be read, or two workers have the shift's messages (`TwoHands`), and then the shift
was taken up twice (`Counted` relates the readings of the messages and `tries`), so
that losing both is the `Overlook` of the abstract specification. `Answering`: what
was asked after a solver's reading is still on the queue when the solve ends.

`QueueKeepsRequests` is the safety half of `RequestsAreKept`: initial states to
initial states, and each action to a named step of `ReplanRequests` or a stutter
(`AnswerIsPromised`, `SkipIsPromised`, `FailIsPromised`, ...). Its liveness half is
model-checked. An attempt to prove an earlier form of it, in which a request was a
message and `Overlook` was missing, failed for a good reason: with three retries two
replicas can lose a request that neither of them tried three times. A run with
`MaxRetries = 2`, as it was then, cannot tell that from giving up.

### WarehouseRun

`HeldForTheSolver` needs to know of each job that its row is locked and as it was
read (`JobsHeld`), and of each pinned one that no plan has it and that the pairing is
the one read, unless a dispatcher changed it since (`PinsHeld`). `RoutedAreClaimed` is
inductive with `IdsUsed` (a new route has a new id) and `StatusTells` (what
is unclaimed is pending and has not left), which gives what it says of a stop that
outlives its claim. For
`NextWaveAfterReturn`, `Waves` says of a van that had left when the run read it that
some stop of its route has left for good, and that the time the run will set off is
after that stop's departure and the route's length; `Bounded` makes the latest return
exist.

### Metering

That a batch is counted once is not inductive: at a post it must be known that nobody
has posted these rows. `SoleHolder` says that a row which has not been overrun is held
by one drain, and is `claimed`; `CountedIsSettled` that a counted row is reported
or about to be marked by a drain that holds it. A drain about to post is not
about to mark, so what it holds alone is not counted. `MarkingIsCounted` gives
`ReportedIsCounted`. The three ways a drain can treat a batch (`PostedSafe`,
`GivenUpSafe`, `SettledSafe`) are lemmas shared by its seven actions.
`WakeUpsSurviveDrops` is inductive as it stands: no step of a connection takes a
wake-up away (`WakeUpsStay`).

### Orders, requests, people

- `EveryOrderOnce` counts parcels, so the invariant says which there are: `Made`, of
  a completed session exactly one per receiver, all by one delivery, and of another
  none; the count follows from a bijection with the receivers (`KeysName`: a
  parcel's key names its call and receiver). `StrongerIdentityStands` needs what a
  request remembers of a row it found (`JobsKnow`, `PartiesKnown`).
- `WizardBillsOnce` is inductive as it stands: the clash is tested once more in the
  statement that inserts. `RunsAreSpaced` needs that a transaction between lock and
  commit is alone, and that what it has found recent stays true (`NothingRecent`),
  the reason why `now()` before the lock does no harm.
- `OneKindOfPlan`: an organisation is in one of two worlds. In one
  (`TrialWorld`) a status is only ever read after the row names a subscription, so
  whoever makes one makes it with a base price; in the other (`MeteredWorld`) nobody
  is on the way to a trial. No step leaves either. Below it is that nobody has heard
  of a Stripe customer before it is made (`KnownAreThere`, `ToldOfReal`), and what a
  call has made by each of its steps (`CallsGoOn`). From these also follows
  `MeteredWhereAttached`: usage is posted to a customer whose subscription carries the
  metered price. That the subscription still bills is not claimed; see the
  divergences.
- `GrantsAreOneOffer` needs that an accepter has the row of the invitation until he
  commits (`AcceptersHold`), and that whoever commits without the person's primary key
  has found a member (`Joining`); both are about who waits for whose lock.

### Insertion

`InsertionInv` says what vouches for the route of a shift, whoever wrote it last:
for the instant planner, that the route as it was timed passed every gate (`Sound`);
for the replan, that it answered the request without limits and broke none of them;
and that a package is on one route, and is not waiting (`RoutesApart`). It is kept by
each of the operations because each writes a route of packages that were on that
shift or waiting (`WriteKeepsRoutes`).

What follows from it is arithmetic. Sums, scans and the removal of victims are
recursive functions over a route, and the induction theorems of the library cannot be
instantiated; but a set of naturals without a least element is empty (`Smallest`, from
the well-foundedness of `<`), so a claim about the steps of a scan is proved by its
least counterexample (`Climbs`). That gives: that a running sum exists and what it is
(`RunningIs`), that smaller legs make a smaller sum (`SmallerSums`), that a route
driven on the roads is no later anywhere, and no longer, than its estimate said
(`RoadsWithinEstimates`), what an insertion does to a route and its load
(`InsertedShape`, `LoadGrows`), and that a position `cheapestPosition` answers did
pass (`CheapestFits`). `NoFalseYes` and `TiersAgree` are these and `InsertionInv`.

`TheSameWinner`: `Beats` is a strict order on candidates of different shifts
(`BeatsOrders`), so the one a scan ends with beats every other (`WinnerBeatsAll`).
`VictimsAreNeeded`: the victims are the shortest prefix, in an order that is total
because ids are (`SoonerOrders`, `SortingExists`), that makes room; without the last
of them the prefix is shorter, or there is none and no van had room to begin with
(`LastIsNeeded`, `NoVanHasRoom`).

### Coverage

`DecisionsInv` is what relates a row to the decision it records: `RowTellsDecision`
survives pins, replans and the edits of the map, and `HeldIsLocated` says that what
an assignment holds between its read and its placement is about a package with an
address. The two readers are then shown to come to the same answer from the tables
(`DecisionsAreDiagnosed`). `CountsInv` counts: what was recorded for an organisation
is what waits, what is in the window, what is in the windows being sent and what was
sent (`Total`), and every step moves one unit or a whole window between these
(`SwapKeepsTotals`, `OneMoreWaiting`, `OneLessWaiting`, `RestSends`). An alarm is only
raised over counts that justified it when they were taken, and counts do not fall
(`JustifiedStays`).

### Only model-checked

- *Liveness*: `LostStopIsSettled`, `EveryCallAnswers`, `DrainsReportEverything` and the
  liveness of `RequestsAreKept`. Fairness is over `ENABLED`, which the prover does
  not reason about.

## 6. Not modelled, and the plan

What is left to prove is liveness, which is out of the prover's reach. What is left to
model is below; card issuing, whose state has only Stripe's word for it, would come
first.

Not modelled:

- *Pins of several packages at once* and the re-assignment when a deadline
  changes: repetitions of what `Dispatch` has, one package at a time. The read
  models of shifts.
- *Connect and card issuing.* The state is Stripe's; an operation is a request and
  at most one row, in no race the code guards against. What can go wrong is in
  the divergences above.
- *Service catalogue.* CRUD, with a product and a price at Stripe per service.
- *How the cached subscription status is read* (`trial.ts`, the permission guard)
  and the token verifier: pure functions of one row or one key.
- *Time-zone import.* One worker under one lock, sequential; its hazard is a crash
  in the one statement range named above.
- *Integrations, skills, health, mail, geocoding, VIN lookup, router and solver*:
  HTTP clients and CRUD whose answers are parameters of the models above, and
  generated API documentation.
