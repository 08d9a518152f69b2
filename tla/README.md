# Verification of the cafe POS

TLA+ models of the services under `src/src/`, model-checked with TLC on small instances. All but two of
the safety properties are also proved with TLAPS, for instances of every size.
`PROJECT.json` maps every definition to the lines it models, and lists runs, mutants, hazards and
theorems.

## 1. The system

Two API instances (NestJS) share one Postgres database (READ COMMITTED, ten connections each), one
Redis and one payment gateway (Stripe behind `PaymentProvider`). Requests, webhooks, Socket.IO
handshakes and cron jobs run on both instances at once. Nothing elects a leader: guarded UPDATEs, unique
indexes, row locks and Lua scripts are all that keeps two actors apart. The cron jobs are the expiry
sweep and the kiosk heartbeat (every minute), the inbox drain (30 s), reconciliation and rollup (03:00),
retention (04:00, idempotency keys hourly). A load balancer sends traffic to the instances whose `/readyz`
answers 200; a deploy replaces them one at a time. Prometheus scrapes each instance.

| component | state | operations | what makes it hard | module |
|---|---|---|---|---|
| order lifecycle | `orders`, `order_status_history`, `order_number_counters` | create, checkout, staff moves | every mover races every other on one row; numbers per business day | OrderPayments, OrderLedger |
| cancel, expiry | the same, and the intent | read, cancel the intent, commit | reads are stale after the gateway call | OrderPayments |
| payments | `payments` | cash, open an intent, retry | the row is written after the gateway call | OrderPayments |
| connection pool | ten connections, a queue | each read and transaction of a payment request | a request that holds a connection and a key asks for a second connection | PaymentPool |
| webhooks | `payment_events` | record, decide, apply, drain | redelivery, reordering, lost kicks, two processors | OrderPayments, BatchedSweep |
| refunds | `refunds` | check, lock, insert, move | parts, two managers, a moving kitchen | OrderPayments |
| idempotency keys | `idempotency_keys` | claim, wait, replay, reap | retries overlapping their first attempt | IdempotentRequests |
| business day, hourly sales | `orders.created_at`, `business_day` | persist, report by the hour | clocks go on and back, transactions straddle the start of a day | SalesHours |
| pricing | catalog snapshot | validate, price, compare | edits between menu and order | OrderPricing |
| order list | keyset cursor | list | rows come and go between two pages | OrderPages |
| menu cache | Redis version and documents | poll, build, bump, expire | fills racing bumps, an empty Redis | MenuCache |
| option groups | `item_option_groups` | replace the set | READ COMMITTED delete and insert | ItemOptionGroups |
| pictures | bucket, `items.image_url` | boot, store, link | two boots, two stores of truth | ItemImages |
| sessions | `refresh_tokens` | login, refresh, logout, reuse | separate statements, no transaction | RefreshSessions |
| staff accounts | `users` | guarded update | locking SELECT under READ COMMITTED | StaffAccounts |
| sign-in limits | Redis counters | throttle, lockout | check and count are two scripts, requests outlive keys | LoginLimits |
| kiosk devices | `kiosk_devices` | pair, pause, revoke, connect | a check and its write are separate | KioskDevices |
| presence | `last_seen_at` | stamp | stamps of two instances out of order | KioskPresence |
| kill channel | Redis denylist, pub/sub, sockets | revoke, publish, handshake | three media, two instances | KillChannel |
| screens | sockets, snapshots | announce, read, push | pushes overtake each other | KitchenScreens |
| rollup | `daily_rollups` | nightly roll and re-roll | two runs, lost nights, late changes | DailyRollup |
| Z-report, reconciliation | none of its own | three reads | the stores move between the reads | ZReport |
| best sellers | rollup rows | merge | stored and live days, renamed items, payments that settle late | TopItems |
| retention | payloads, tokens, keys | batches on two instances | short batches, rows still in use | EventRetention |
| health, shutdown | drain flag, listener, clients | probe, SIGTERM, drain, close | a fixed wait against probes it does not know, an outage during a stop | Rollout |
| metrics | none of its own | scrape | deadlines, and queries that outlive them in the pool | ScrapedGauges |
| development seed | staff, catalog | find or insert, in one transaction | overlapping runs, names without a unique index | SeedRuns |

### Not modelled

* `config/env.validation.ts`, `app.module.ts`: static, evaluated once at start; a bad value ends the process.
* `common/filters`, the error classes of each module, controllers and DTOs: they shape requests and answers
  and keep no state. What an error does to a handler is in the handler's action.
* Counters, traces, error reports, log throttling: written and never read by the service.
* `identity/rate-limit/rate-limits.ts`, the roles per route: tables that the guards look up.
* Order detail, the payments of an order, the sums of a day's sales: one read each. The VAT of a total: a
  figure nothing depends on.
* `ops/load`: drives the API from outside.
* A Redis that goes silent without closing its connections: `QUIT` would then wait for an answer
  (`close-redis.ts:21`) for as long as the operating system keeps the connection. In Rollout an outage takes
  the connections with it.

## 2. How the models are built

* A handler is one action per stretch between two awaits whose order matters. A transaction is one action
  when it takes its lock with the guarded UPDATE it depends on; where several statements of a transaction
  can interleave with another one (StaffAccounts, ItemOptionGroups, IdempotentRequests) each statement is
  an action.
* A request refused without writing anything is the absence of a step.
* Data is what the properties tell apart: an intent is a model value, a catalog revision a number, a body
  one of two values. Money is a small number of units except in OrderPricing, which has real amounts.
* Unbounded things are capped in a guard by a named constant (`MaxEdits`, `MaxRestarts`, `LastDay`, ...).
* Stripe, S3, Redis and Postgres are external: their part is what the code relies on (a guarded UPDATE is
  atomic, an event is delivered at least once, an intent can be cancelled until it succeeds).

### The core: OrderPayments

| state | code |
|---|---|
| `status`, `expiresAt`, `businessDay`, `orderNumber`, `history`, `counters` | `orders`, `order_status_history`, `order_number_counters` |
| `payments`, `refunded`, `inbox` | `payments`, `refunds` (summed), `payment_events` |
| `gateway`, `sent` | the intents and events at Stripe (external) |
| `pays`, `voids`, `procs`, `refunds` | what an in-flight request, sweep or processor has read so far |

Payment ids are assigned to orders in advance (`OrderOf`), a gateway payment has the name of its intent,
and a `MISMATCHED` event is a success with the wrong amount or currency. Events of a type the processor
ignores are left out; the status PROCESSING is declared by the schema and written by no code. Requests
of the core carry no Idempotency-Key: that protocol is IdempotentRequests.

Some reads are merged into one action. The processor reads the event, the payment and the order one after
another, but each branch of `decidePaymentOutcome` turns on one of them that can change, and the write is
guarded by it again. A cancel and a sweep read the status and then the live payment: the status is checked
again in the transaction, and cancelling one intent more is a step the customer's `Lapse` covers. Staff
moves and checkout are guarded again in their transactions. A customer can confirm an intent only after the
answer, so after the row was committed.

`OrderLedger` is the abstract specification: the table of legal moves and the history row each leaves, the
one payment that settles an order, the refund that returns the last of it, with no gateway and no requests.
`OrderPayments` implements it (`ImplementsLedger`, run `payments`, and `ImplementsLedgerHolds`), although
`transitionOrder` never consults the table and handlers move from a status they read earlier.

### The other components and their composition

`MCCatalog`, `MCAccounts`, `MCClients`, `MCReports` and `MCProgress` check several components
in one run. The components of one such module have no variable in common and no property relates them, so
interleaving them would add nothing: `turn` is chosen in the initial state, the component it names runs its
whole specification, and the others keep one initial state. A property of a component that does not move
holds of its initial state. The first four EXTEND the components that have theorems, so that a run evaluates
their assumptions and checks the very definitions that are proved. The names of such components are
therefore distinct (`MenuSpec`, `ImagesSpec`, `ZSpec`, `RetentionSpec`, ...), and they share the constant
`None` of the module `Absent`. `MCProgress` restates each component's fairness for the component whose turn
it is. `MCMoney` has two scenes of OrderPayments instead of two components.

In `DailyRollup` a run holds the set of days it has still to roll and takes the earliest next, except that
yesterday comes first (`upNext`), which is the order of the code's list. In `EventRetention` a run may end
early (`RunFails`: a statement throws, or the instance dies) and events go on ageing while the runs are under
way (`aged`), so that `NightLeavesNothing` speaks of what was due when the night began and counts what has
aged since against the batches of a run.

Rollout composes the shutdown hooks of the instances, the kill channel's subscriber, the sockets and the
balancer's probes. Its constants are in ticks: the probe interval is 2, `CHECK_TIMEOUT_MS` 1 and the drain 3,
one tick more than the interval, because a drain of exactly the interval is a tie (section 5).
ScrapedGauges keeps the order of the real times too (`connectionTimeoutMillis` 1.5 s < `CHECK_TIMEOUT_MS` =
`DEFAULT_DEADLINE_MS` 2 s < `READINESS_DEADLINE_MS` 3 s).

## 3. The runs

| run | instance | properties |
|---|---|---|
| payments | 1 order of 2 units; either 2 intents, 1 cash payment, 1 till, 1 sweeper, 2 processors, or 1 intent with mismatched events, 1 canceller, 1 sweeper, 2 managers | PaidExactlyOnce, NoCaptureForgotten, RefundsBalance, SettledMoneyStays, ImplementsLedger |
| resolution | 1 intent with matching and mismatched captures, 1 cash payment, 1 till, 1 canceller, 1 sweeper, 1 processor, with fairness | PendingIsResolved, CaptureIsHandled |
| catalog | 2 kiosks and 2 writers with a lost bump; 2 instances and 2 pictures; 3 overlapping PUTs of the empty set and of sets with and without a group in common; 2 items, 1 group, 2 edits; 3 orders over 2 days; 3 seed runs | FreshAfterBump; LinkedIsStored; ReplacesWholeSet; RefusalNamesItsCause; NumbersGapless; SeedTakesOnce |
| accounts | 3 tokens in 2 families under 2 requests; 3 accounts under 2 changes; 5 sign-ins from an address with 2 hits a key and an outage; 1 token, 2 sockets, 2 instances, 2 revocations, a restart of Redis | OneChain, RenewedOnceAtMost; DemotionsLeaveAnAdmin; FailuresBounded; AccessEndsWithToken, NoReturnAfterCut |
| clients | 3 attempts, 2 keys, 2 bodies; 3 orders in pages of 1 under all four sorts; 1 order under 2 handlers; 1 device, 2 tablets, 2 edits | WorkedOnce, ReplayIsOwn; WalkIsExact; NothingFalse; LiveIsPaired |
| reports | 5 days on 2 instances; 3 payments and events; 2 items in 3 sales over 2 days; 2 orders over 13 hours of 5-hour days with a change of the clock anywhere; 5 events in batches of 2; 1 kiosk over 10 ticks; 2 gauges and a pool of 2 | FinalIsRight, EveryDayIsRolled; NoFalseDelta; RankingIsRight; BucketsInOrder; NightLeavesNothing; ConnectedIsFresh; DownIsZero |
| progress | 3 rows and a stuck one in batches of 2 on 2 instances; 2 attempts; 1 kiosk; 1 order under 2 handlers with a failed publication; 3 requests with 2 keys on a pool of 2 | WaitingIsTaken; EveryAttemptIsAnswered; KioskCatchesUp; ScreensCatchUp; EveryRequestEnds |
| rollout | 2 instances, 1 screen, 2 stops, 1 outage that may last | NothingRoutedToClosed, StopEnds, ScreensReturn |
| unbooked_capture | 1 intent, 1 cash payment | FinishedCaptureIsBooked, violated |
| pause_revoke | 1 device | RevokedStaysRevoked, violated |
| deaf_drain | 2 instances, 1 stop | DrainingHearsKills, violated |
| redis_outage | 2 instances, 1 outage | RedisOutageIsServed, violated |

Why these bounds are enough to be interesting: two actors of each kind are what every race of this code needs,
since all of them are decided on one row or one key; a third attempt, token or day is there where the second may
already have changed what the third finds (a replay after a reap, a child of a child, a re-roll after a lost
night). Total 2 lets a refund be made in parts; pages of 1 put a cursor at every row; batches of 2 with 5 events
let two runs split what is due and still meet. `DailyRollup` scales `CATCH_UP_DAYS` and `REROLL_DAYS` to 3 and 1
and keeps their order. In `KioskPresence` the bound of `ConnectedIsFresh` is tight: a tick less is violated
within ten ticks. So is that of `FailuresBounded`: one less is violated by sign-ins from one address. Three
requests on two connections are the least with which everybody can wait for everybody in `PaymentPool`: two hold
what the third and each other need. Two stops let an instance be stopped while the one replaced before it is
back. A day of five hours that starts at two puts midnight, the start of the business day and the change of the
clock in every order.

### Fairness

| assumed | because |
|---|---|
| WF `record(e)` per capture, SF `apply` and `handled` per matching one | Stripe redelivers until acknowledged; the drain runs every 30 s for ever, and a fault does not hit every attempt on the same event |
| SF `BeginExpire`, `swept`, `closed` per order, WF `DeadlinePasses` | the sweep runs every minute for ever and a gateway fault does not hit every attempt |
| WF on the end of a processor's or a sweep's visit | an async function that has begun goes on or fails |
| BatchedSweep: WF of a tick and its visits, SF per row visited | the same two crons; nothing is assumed of the rows a query picks |
| IdempotentRequests: WF `Proceed` | a request goes on, is refused, or dies with its connection, which rolls its transaction back |
| MenuCache: WF of polls, of the bump or its failure, of expiry | kiosks poll on a timer; keys have a TTL |
| KitchenScreens: WF per handler step | after-commit callbacks run |
| PaymentPool: WF of every step of a request, of the grant at the head of the queue and of the acquire timeout | an await ends; the pool serves in order and rejects after 1.5 s |
| Rollout: WF of the hooks, the probes, the readiness check, the answer to a request, the restart, a screen's reconnection, time | a process goes on, the balancer and Socket.IO clients retry on timers; an outage need not end, except in the premise of ScreensReturn |

Nothing is assumed of customers, staff or managers.

## 4. What is proved

29 of the 40 properties the passing runs check are theorems, for every value of the constants that satisfies
the named `ASSUME`s of the component. A proof module holds the components whose proofs use the same library
facts. Each argument is the usual one: an inductive invariant that the initial states satisfy, one lemma or
step per action that keeps it, and the property as a consequence. A proof module begins with `USE Zenon`: a
leaf is first-order unless it cites `SMT` for arithmetic or records.

| theorem (its property is the name without Holds) | module | assumed of the constants |
|---|---|---|
| TypeCorrect; PaidExactlyOnceHolds, RefundsBalanceHolds, SettledMoneyStaysHolds | OrderPaymentsProofs | ids of different kinds differ, `Total` and `LastDay` are positive |
| ImplementsLedgerHolds, NoCaptureForgottenHolds, NumbersGaplessHolds | OrderBooksProofs | the same |
| WorkedOnceHolds, ReplayIsOwnHolds; NothingFalseHolds; LiveIsPairedHolds; FreshAfterBumpHolds; WalkIsExactHolds | ClientsProofs | `None` is no id; for FreshAfterBump, `ColdStarts = 0`; for WalkIsExact, ids and totals are natural numbers and `PerMilli` is positive |
| OneChainHolds, RenewedOnceAtMostHolds; AccessEndsWithTokenHolds, NoReturnAfterCutHolds | SessionsProofs | `None` is no id, times are natural numbers |
| DemotionsLeaveAnAdminHolds; FailuresBoundedHolds; NightLeavesNothingHolds | CountingProofs | finitely many accounts, addresses, sign-ins and events; limits are positive; for FailuresBounded, `Latency < Ttl` |
| LinkedIsStoredHolds; ReplacesWholeSetHolds; SeedTakesOnceHolds | CatalogProofs | `None` and a foreign URL are no digests; `Unset` is no request; the seed's plan names each row once and after its parents, and begins with a row whose name is unique |
| DownIsZeroHolds; BucketsInOrderHolds; FinalIsRightHolds, EveryDayIsRolledHolds | FiguresProofs | `CheckTimeout < ReadinessDeadline`; the start hour is an hour of the day; `LateDays <= RerollDays <= CatchUpDays` |
| NoFalseDeltaHolds; ConnectedIsFreshHolds; NothingRoutedToClosedHolds | OperationsProofs | none; `Latency < Minute`; `Interval < Drain` |

The inequalities are those of the code: `CHECK_TIMEOUT_MS` 2 s and `READINESS_DEADLINE_MS` 3 s; `REROLL_DAYS`
covers the three days in which Stripe retries, `CATCH_UP_DAYS` is larger; the presence cron runs once a minute
and a statement takes less; a throttle key of the login route lives for 15 minutes (`rate-limits.ts`) and a
sign-in is over long before. The drain is configured: `Interval < Drain` is one tick more than
`docs/runbook.md:113` asks for, because equality is refuted (section 5).

**OrderPaymentsProofs.** Typing is inductive only with two facts about what is in flight: a draft is stamped
with a day that has a counter (or `Checkout` would index outside it), and a processor that decided to write
holds an event of the kind the write is for. Then: an order is in a settled status exactly while one payment of
it is SUCCEEDED; refunds never exceed what was taken and REFUNDED means all of it went back; no step undoes
either. The inductive invariant `MoneyInv` adds what a handler still knows when it reaches its transaction: the
payment a cancel or a sweep holds is one of its order, a sweep only leaves PENDING_PAYMENT, a payment being
refunded is SUCCEEDED. Every action is then one of four shapes (it touches neither, it settles an order with its
payment, it refunds, it moves between statuses on one side), each a lemma.

**OrderBooksProofs.** `ImplementsLedgerHolds` is the refinement as a step simulation. Every step of the system is
a step of the ledger or leaves it alone: a lemma for each kind of ledger step (advance, settle, close, return)
says when a handler's writes amount to it, one for each kind of actor says its writes do. `MoneyInv` supplies
what the handler could not know, above all that an order being closed has no payment that succeeded; the only
addition is that an order without a row has no history (`NoRowNoHistory`). `NoCaptureForgottenHolds` needs that a
processor about to skip a success saw a settled order, and that an order stays settled; `NumbersGaplessHolds`
that an order before checkout has no number, for which the ledger's transitions show that no step goes back
there.

**ClientsProofs.** Keys: a committed key stands for what was made under it, what was made under a kept key is
what it stands for, an attempt at work holds its key and the key has no row. Screens: everything that may reach
a screen, a ticket in a handler's hands included, was read from a committed row (`ReadWasTrue`). Devices: a row
that is not paired has no token, and one that is live, or was found live by a pause or resume that has yet to
write, has one (`PairedOnce`); since a token is written only where there was none, it is the only one. The menu:
every place a revision is held (documents, ETags, polls under way) is at least what its version answers for. The
order list: the cursor of a walk under way divides the rows: those the walk has met are not behind it, and a row
listed when the walk began has left the filter, has been met or is behind it (`CursorDivides`); that a sort by
total with the id behind it is strict and transitive carries the division from page to page, whatever rows come
and go between two of them.

**SessionsProofs.** A family has at most one of a live token and a request about to issue one, a token is
retired before it gets its only child, and once a deactivated account has renewed a session nothing that could
renew it again has passed the check. For the kill channel, a token is signed within `SignLatency` of the moment
its account was found active (`SignedInTime`), which with the token's lifetime bounds what a deactivated account
can do with or without Redis; and a kill message travels with a whole lifetime left in the denylist, so what it
cuts stays denied for as long as it verifies (`CutIsDenied`).

**CountingProofs.** Accounts: while nobody is promoted, a change that is past its locking SELECT holds the row of
every administrator there is, an administrator's row it has read is as it read it, and a demotion about to be
written leaves another one (`HoldsAdmins`); two changes cannot both hold them. Limits: the sum of the failures
counted and the requests that verify goes up only at the check, when there were fewer failures than the limit, so
it exceeds the limit by no more than there are requests in flight. Each of these has a place of its own, the number
of its hit under the throttle key of its address or under the key before it (`PlacesOK`), and there are
`2 * Limit - 1` places for an address: the request that made a key is over before the key is.
Retention: `batches * BatchSize` rows of the night's work are trimmed and are not in the statement under way,
and a statement that came back short held everything that was left (`RunCounts`); what a run has counted stays
counted, whatever the other runs do.

**CatalogProofs.** Pictures: an upload that is about to link has stored its picture, and nothing deletes
pictures. Option groups: the rows of a request are committed and deleted all together or not at all
(`WholeRows`), and a request past its DELETE has deleted every row it saw that is still there (`KnowsRest`). The
rows it has not seen come from other requests; if one of these had a group in common, all its rows would be
there, one of them with a key the request inserts, and the INSERT would fail. The seed: while nobody has
committed the first account, at most one run holds its row uncommitted, and only that run has written anything;
a run that comes later waits for it and finds every row.

**FiguresProofs.** The scrape: while `dependency_up` has no
value the checks' own timeout has not passed, so the deadline cannot fire first, and only a check that answered
in this scrape counts as up. The rollup: a day without a row has cost a lost night or a failed roll for every
night since its first, tonight's included once a run has left it out (`NightsAccounted`); on its last night a day
cannot change any more, and is right or still ahead of every run that has begun (`LastNightIsRight`). The hourly
report: the place of a bucket in the trading order is the number of hours the clock on the wall has counted since
the first business day began (`RankIsWall`), and that number never goes down: when the clock is put back the wall
stands for an hour, and two orders of the repeated hour share a bucket (`WallCountsOn`, `LabelIsWall`).

**OperationsProofs.** The reports: nothing is booked that was not captured, and what a report read of the books
was captured before it asked the gateway. Presence: when the next cron of a process that holds a kiosk's socket
runs, or when the cron whose stamp is still under way ran, the stored stamp is younger than two periods and one
for each loss (`Renewed`). Shutdown: while an instance drains, the balancer has forgotten it, or has not
probed it since the drain began, and then the age of its last probe and what is left of the drain add up to at
least the drain (`DrainIsSeen`).

Only model-checked, and why:

* PendingIsResolved, CaptureIsHandled, WaitingIsTaken, EveryAttemptIsAnswered, KioskCatchesUp, ScreensCatchUp,
  EveryRequestEnds, StopEnds and ScreensReturn are liveness: fairness and ENABLED are outside the prover.
* RankingIsRight and RefusalNamesItsCause compare sums (of quantities, of prices): what a fold yields for every
  input needs an induction over data that the prover does not have.

## 5. What the code does not guarantee

Four disagreements between a comment or a document and the code are runs of their own:

* `unbooked_capture`: a decline leaves the intent confirmable, a second payment (cash in the run) pays the
  order, and the intent is confirmed after all. `decidePaymentOutcome` sees a PAID order, takes the
  event for a redelivery and marks it processed: money that no row and no unprocessed event shows, where
  `payment-provider.ts:177` relies on the inbox to surface it.
* `pause_revoke`: a resume checks the device, a revocation commits, the resume's UPDATE names only the id
  and makes the device ACTIVE again, which the comment at `devices.service.ts:150` rules out.
* `deaf_drain`: Nest runs every `onModuleDestroy` before `beforeApplicationShutdown`, so the kill channel's
  subscriber is closed when the drain begins. A principal revoked during the drain keeps the socket the
  instance still holds (`kds.gateway.ts:179`: every instance "disconnects the sockets *it* holds").
* `redis_outage`: `/readyz` answers 503 when Redis alone is down, on every instance, and the balancer has
  nowhere to send a request, where `docs/runbook.md:142` lists what degrades and expects the rest to be served.
  `README.md:162` and `redis-outage-http.e2e-spec.ts:135` specify the 503 on purpose: the documents disagree.

The following also disagree. The definitions are in the modules, marked as not guaranteed; each was refuted
by TLC on the instance named, with the other constants as in the run of its component.

| definition | instance | what happens |
|---|---|---|
| OneConfirmableIntent (OrderPayments) | 2 intents | a declined payment is FAILED, so a second may be opened while the first intent is still confirmable (DESIGN.md:405) |
| DeclinedIntentIsClosed (OrderPayments) | 1 intent, 1 canceller | a cancel looks only for live payments and leaves the declined intent open (`cancel-order.service.ts:101`) |
| ClosedHasNoLivePayment (OrderPayments) | 1 intent, 1 sweeper | the payment row is inserted without reading the order again; a sweep that saw no payment expires the order meanwhile |
| NobodyWaitsForEver (OrderPayments) | 1 intent, mismatched captures | the event of a capture with the wrong amount stays unprocessed (`decide-payment-outcome.ts:96`) and its payment live, so every sweep leaves the order for the webhook (`order-expiry.service.ts:122`) |
| RefundsAreSameDay (OrderPayments) | 1 cash payment, 1 manager, 2 days | the day ends between the check and the transaction (`create-refund.service.ts:85`) |
| RetryIsNotRefusedByItself (IdempotentRequests) | 2 attempts, 1 key | the first attempt commits between the retry's lookup and its payability check (`create-payment.service.ts:111`) |
| WaitingIsTaken (BatchedSweep) | 2 stuck rows, batches of 2 | LIMIT without ORDER BY: stuck rows can fill every batch (`payment-event-processor.service.ts:32`) |
| KioskCatchesUp (MenuCache) | 1 lost bump | a 304 depends on the version alone, so it outlives the document's TTL (`menu-cache.service.ts:27`) |
| FreshAfterBump (MenuCache) | 1 cold start | the counter restarts at a number a kiosk holds (`menu-cache.service.ts:44`) |
| SomeAdmin (StaffAccounts) | 3 accounts, 5 changes: promote 2 and 3, demote 1, 2 and 3 | a locking SELECT that waited drops its row and locks no other, so two demotions run unlocked (`users.service.ts:93`) |
| NoMutualWait (StaffAccounts) | 3 changes | the UPDATE takes a row outside the id order (`users.service.ts:118`) |
| EndedStaysEnded (RefreshSessions) | 1 family, 2 tokens, 2 requests | a logout falls between retiring a token and issuing its child (`auth.service.ts:187`) |
| RevokedNeverReaches (KioskDevices) | 1 device | an order whose guard ran before the revocation is accepted (`orders.service.ts:208`) |
| RevokedSocketIsCut (KioskDevices) | 1 device | a kill between the handshake's check and the join finds an empty room (`kiosk.gateway.ts:57`) |
| OutageIsNoWindow (KillChannel) | 1 restart | an empty Redis has no denylist (`revocation.service.ts:103`) |
| FreshTokenAdmitted (KillChannel) | 1 revocation | the entry has no time, so a newer token is refused too (`revocation.service.ts:96`) |
| NoTokenOutlivesEntry (KillChannel) | 1 revocation | a refresh past its check signs a token after the entry was set (`revocation.service.ts:47`) |
| EveryWalkIsExact (OrderPages) | sorts by createdAt | the cursor truncates microseconds to milliseconds (`orders-read.service.ts:307`) |
| ScreensCatchUpConnected (KitchenScreens) | 2 handlers | of two tickets or lists the older may be pushed last, and nothing follows it (`after-commit.service.ts:21`) |
| FailedRollIsMadeUp (DailyRollup) | 1 failure | a re-rolled day is finalized already, so its last failed re-roll is not retried (`daily-rollup.service.ts:204`) |
| UpsertConverges (DailyRollup) | 2 instances | a change between two aggregations, and the older upsert lands last (`daily-rollup.service.ts:184`) |
| InvalidWasNeverPermitted (OrderPricing) | 1 edit of an item's groups or of a group's bounds | a basket the kiosk's menu allowed is answered 422, "a request the menu never permitted" (`orders.errors.ts:139`) |
| AcceptedCanBePaid (OrderPricing) | a discount above the price | an order of 0 is accepted and no payment of 0 can be stored (`order-pricing.ts:239`) |
| ReplacesWholeSetAlways (ItemOptionGroups) | bodies with no group in common | the second delete does not see what the first transaction inserts (`item-option-groups.service.ts:33`) |
| ZListsRefused (ZReport) | 1 refused event | the scoping query joins on a column that is null until the event is processed (`docs/runbook.md:175`) |
| ReasonIsTrue (ZReport) | 1 failing query | a failing database is reported as an unreachable gateway (`reports.service.ts:87`) |
| RankingIsUpToDate (TopItems) | 2 days | a payment settles after the last roll of its day (`daily-rollup.service.ts:46`), and a stored row is read as it is |
| LatestNameWins (TopItems) | 1 rename | a day's entries are sorted by quantity, so the last one is not the newest (`shape-reports.ts:95`) |
| ReplayNeverThrows (EventRetention) | 1 refused event | unprocessed payloads are trimmed too (`stripe-payment.provider.ts:286`) |
| NothingRoutedToClosed (Rollout) | Drain = Interval | with a drain of exactly the probe interval, as `docs/runbook.md:113` has it, the close and the probe that would have noticed the drain fall together, and the close may win |
| LoserLearnsWinner (PaymentPool) | 3 requests, pool of 2 | the re-read waits for a connection or finds the winner failed, and the 409 has no payment id (`create-payment.service.ts:351`) |
| SeedTakesOnceAlways (SeedRuns) | accounts there, 2 runs | option groups, options and items have no unique name, so overlapping runs insert them twice (`README.md:144`) |
| BucketsAlwaysInOrder (SalesHours) | 2 orders, one across the start of a day | `created_at` is the start of the transaction and `business_day` the clock later in it (`reports.service.ts:267`) |
| ShownPicturesLoad (ItemImages) | 1 fault | a bucket whose policy call failed is found by the retry and left private (`object-storage.service.ts:118`) |

The runs that pass are bounded on the safe side of these, and say so in `PROJECT.json`: no lost bump and
fewer stuck rows than a batch holds in `progress`. Where a property could say itself what it depends
on, it does, and the run is not bounded: WalkIsExact is about the sorts by total, ReplacesWholeSet names the
requests whose groups may be left over, BucketsInOrder is about reports without a straddling order,
PendingIsResolved names the capture that holds an order, RankingIsRight leaves out what settled after the last roll,
and ScreensCatchUp is about a screen that connects after the last announcements that crossed or failed (for two
orders and no failure it was checked apart from the runs: six million states).

## 6. Plan

Built so far, most important first: the core, its refinement and their proofs; keys, sweeps, menu, sessions
and theirs; the other components and their proofs; the pool, rollouts, the metrics and the seed. Next:

1. compose what interacts: keys with payments and the pool; staff deactivation across StaffAccounts,
   RefreshSessions and KillChannel; device revocation across KioskDevices and KillChannel;
2. the throttler's choice per route to fail open or closed, the cross-instance Socket.IO adapter, a Redis that
   goes silent in Rollout;
3. proofs: RankingIsRight, if the sums of TopItems can be stated without a fold.
