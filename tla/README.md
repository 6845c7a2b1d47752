# A verification project for Saas-Core

TLA+ models of the parts of Saas-Core (a modular Django monolith with a Next.js
front end, `src/` here stands for the repository root) whose correctness depends on
concurrency, failures and the order of events; TLC configurations that check them on
small instances; and theorems, proved with TLAPS, for every size of them.

Paths below are relative to `src/apps/backend/src/saas_core/modules/` unless they
start with `src/`. `tlc -config X.cfg M` and `tlapm M.tla` run a check and a proof.

| module | what it is |
| --- | --- |
| `Credits` | the credit account of one organization, `shared/billing/credits.py` |
| `PrepaidWallet` | abstract: what a customer may expect of purchased credits |
| `ImageJobs` | one organization's AI image jobs, `shared/image_generation/` |
| `PaidOperation` | abstract: what a customer may expect of an operation paid with credits |
| `Quotas` | one quota with its reservations and their sweep, `shared/billing/quotas.py` |
| `MediaAssets` | one organization's pictures and who shows them, `shared/media/`; extends `Quotas` |
| `Deliveries` | e-mails and webhooks from the queue to the last report, `shared/notifications/` |
| `Outbox` | abstract: what ADR-029 promises of every row that is to be sent |
| `Subscriptions` | one Stripe subscription and the access it gives, `shared/billing/` |
| `Orders` | one booking, its order and its money, `shared/booking/` and `shared/commerce/` |
| `BookingLocks` | the row locks of a customer, its visits and their orders |
| `PrefixSums` | totals over numbered rows, in a form lemmas can be proved about |
| `MCCredits`, `MCSubscriptions`, `MCOrders`, `MCBookingLocks` | constants of the small instances |
| `PrefixSumsProofs` | lemmas about totals |
| `CreditsProofs`, `ImageJobsProofs`, `MediaProofs`, `DeliveriesProofs`, `SubscriptionsProofs`, `OrdersProofs`, `BookingLocksProofs` | proofs about the module of that name |

# Inventory of the system

Every tenant table carries the organization, and PostgreSQL's row level security keeps
organizations apart; a model is always of one organization. State lives in PostgreSQL;
operations are transactions at READ COMMITTED that take row locks
(`select_for_update`) on what they change. Work that outlasts a request runs in Celery
workers: messages are sent after the commit (`on_commit`), may be lost or repeated, and
a beat task repairs what was lost. The recurring shape is *durable row + lease +
reconcile beat*; the recurring risks are state read before a lock, steps between two
transactions, and money or quota held by something that died.

| component | state | operations | what is hard | what makes it correct |
| --- | --- | --- | --- | --- |
| **credit account** (`shared/billing/credits.py`) | balance row with two buckets, reservations, purchases, append-only ledger | reserve, commit, release, settle, refund, purchase, correct, monthly sync, expiry sweep | month boundary against held credits, sweep against the operation it expires, clock read before the lock | the balance is the ledger; what is held is there; customers are charged what was delivered |
| **image jobs** (`shared/image_generation/`) | job row with lease, credit and storage holds, media asset | request, claim, provider outcome, store, ingest, reconcile, expire | lease running out during a paid call, lost messages, dying workers, outages | never paid twice; charged only if delivered; every job ends |
| **quotas** (`shared/billing/quotas.py`) | usage per quota and period, reservations with deadlines | reserve, commit, adjust, extend, release, sweep | adjusting while the limit changes, sweep between two steps, period boundary | usage equals what is committed and held; never above the limit it was checked against |
| **Stripe events** (`shared/billing/webhooks.py`, `processor.py`, `reconciliation.py`) | event inbox, subscription, entitlement snapshot | receive, process, retry, reconcile | redelivery, out-of-order events, two attempts at once, reconciliation against events | the newest state of the subscription wins; each event acts once |
| **billing lifecycle, overrides** (`lifecycle.py`, `overrides.py`, `snapshots.py`) | access mode with deadlines, grants | payment failed/recovered, grace, block, grant, expire | timer against a late payment | access follows the subscription; overrides end |
| **media** (`shared/media/`) | assets, storage quota, references | upload in steps, process, tombstone, clean up | cleanup against a new reference, processing hold expiring | no published page loses its file; storage is counted once |
| **email and webhooks out** (`shared/notifications/`) | messages, attempts, delivery state | send, retry, provider callbacks | attempts that overlap, callbacks before the outcome is recorded | the state never goes back; no mail after suppression |
| **translation**, **SEO** (`shared/translation/`, `shared/seo/`) | jobs with segments, leases, credits | request, work, partial settlement, review | a run that stops half way; source edited meanwhile | delivered segments are charged once |
| **assistant, model port** | turns, admission budget | turn, admit, settle, retention | two turns at once, budget at its limit | the budget is never exceeded; one open turn |
| **booking** (`shared/booking/`) | appointments, stays, occupancy of people, places, units | book, move, cancel, crew | two bookings of one slot | no double booking |
| **commerce, inventory** | orders, payments, refunds, stock | order, pay, refund, move stock | payment callbacks against cancellations | money ledger balances; stock matches movements |
| **sites** (`shared/sites/`) | drafts, revisions, publications, domains | edit, publish, delete, import | concurrent edits, deletion against references | what is published is complete and consistent |
| **profiles, customers, farms** | cards, people, herds | CRUD, search index | index behind the data | the index follows |
| **organizations** (`core/organizations/`) | tenant, memberships, roles, erasure | join, leave, suspend, erase | the last owner, erasure against work in flight | always an owner; erased means erased |
| **identity** (`core/identity/`) | users, sessions, second factors | sign in, reset, step up | one-time codes used twice | a code is used once |
| front end, packages, infra, scripts | none that the backend does not own | | | |

`PROJECT.json` lists for each component what is modelled, and under `hazards` the
places in the code that are hard to test, with the properties aimed at them.

# Credits

`shared/billing/credits.py` keeps a prepaid pool in two buckets: the plan's monthly
*allowance*, which resets, and *purchased* credits, which do not. An operation
reserves its price, allowance first, and later commits, settles in part or releases it.

**State.** `remaining`, `reserved` (per bucket), `granted`, `period` are the
`CreditBalance` row; `holds` the `CreditReservation` rows; `purchases` the
`CreditPurchase` rows. `ledger` and the four variables after it are sums over
`CreditLedgerEntry`, filed by bucket, reservation, correction and month: entries are
append-only, so the sums say all that the properties need. `fullAccess` and `planQuota`
are what the account reads of the entitlement snapshot, changed at any time by
`ChangeEntitlement`. `sweep` and `sweepAt` are the local state of
`release_expired_credit_reservations`.

**Actions.** Each operation is one transaction under the lock of the balance (reservation
first, then balance), hence one action with the whole of its effect, the monthly sync
inside it included. An idempotent replay, a refusal or an exception changes no row and
is no step. `spend_credits` is `Reserve` then `Commit` in one transaction; running
them apart allows more. The sweep is not one transaction: `SweepCollect` chooses the
oldest due reservations, `SweepRelease` reads each again under its lock with the clock
of the first, `SweepDies` is the worker's end. The code releases in order of
deadline; the model in any order, because releases of different reservations commute.
One sweep runs at a time; the re-check under the lock is what two would rely on, too.

**The clock.** An operation reads the clock on entry (credits.py:306, 347, 416) and then
waits for the lock. `Readings` gives a transaction any instant up to `Skew` old. With
`Skew = 0` every transaction works with the time at which it runs. With old readings
the account may alternate between two months for ever (see the finding); `MaxRegrant`
bounds how often the search follows it.

**Properties.**

- `LedgerMatchesBalance`: the cached balance is the sum of the ledger.
- `ReservedIsHeld`: what the row calls reserved is what open reservations hold.
- `ReservedWithinRemaining`: what is held is there, so the CHECK constraints never fire.
- `SpentIsDelivered`: an ended reservation cost its delivered units, allowance first.
- `NoAllowanceLeak`: the allowance does not carry over into the next month's.
- `GrantedOncePerMonth`: a month is granted at most what one plan allows.
- `PurchasedIsPrepaid`: for purchased credits the account implements `PrepaidWallet`: a
  sale brings what was bought once, however often its payment is confirmed, a correction
  moves credits once, a hold takes at most what it holds; months, plans, sweeps and
  partial settlements are invisible there.
- `DeadlinesFreeHolds` (liveness): a reservation with a deadline ends.

**Runs.** `MCCredits.cfg` has `Skew = 0`, three instants over a month boundary, two
reservations of one or two units, a purchase, a correction downwards (one upwards moves the
books as a purchase does) and two plan figures: enough for a hold to straddle the month while another takes the rest, for
an upgrade and a downgrade inside a month, and for a sweep of two to be overtaken on its
second release. `MCCreditsLive.cfg` allows clocks one instant old and refunds, and makes
the batch one reservation, so that a sweep can starve the other: it asks whether the
sweep gets to both. That the books balance there, too, is a theorem; the monthly promises
do not hold there. Nothing in the invariants compares amounts with more than
sums of two holds, which is why two of each suffice to exhibit an interaction; the
theorems below remove the bound. The runs stop when the clock reaches `MaxTime` and
everything has ended, so deadlock is not checked.

**Fairness.** Time passes. Celery beat starts the sweep on a schedule
(`src/apps/backend/src/saas_core/config/settings/base.py:834-838`), whether or not the
last one died: weak fairness of `SweepCollect`. Strong fairness of each
`SweepRelease(k)` says a reservation that sweeps select again and again is reached by
one of them, i.e. workers do not die every time at the same place. Nothing is assumed
of the operations themselves.

**Finding** (`MCCreditsRegrant.cfg`, `GrantedOncePerMonth`): *a month granted twice*.
`_sync_allowance` starts a new period when the month it is given differs from the
row's (credits.py:257, `!=`). A transaction that read its clock on the last instant of
the old month and got the lock after a transaction of the new month sets the period
back, expires the new allowance and grants the old month's again; the next one grants
the new month's a second time. The ledger still balances. The
`refresh_credit_allowances` task, which reads the clock once for all organizations
(credits.py:830), and the sweep, which carries the clock of its start through every
release, widen the window. A comparison with `<` would close it.

**Remark.** `refund_credits` returns the amounts that were held (credits.py:646), also
after `settle_credits` spent only a part and gave the rest back. No code calls it yet;
the theorems that depend on it say `Refunds = FALSE`.

# Image jobs

**State.** `state`, `attempts`, `wait`, `holder`, `lease`, `age` are columns of
`ImageGenerationJob`: `holder` is the lease token, named by the worker that drew it (a
worker runs one job at a time, so a token and a run correspond); `wait`, `lease` and
`age` are the distances of `next_attempt_at`, `lease_until` and `created_at` from now.
Timers instead of absolute times keep the state space finite without an end of time, so
liveness is checked on infinite behaviours. `credit`, `headroom` and `asset` are the
rows a job holds elsewhere, `sent` the messages in the `ai` queue, `run` the local state
of each worker between its transactions, and `billed` counts the provider calls that may
be on our bill: the one thing no row records.

**Actions.** `Request` is `request_generation`, whose message may be lost with the
process. `GiveUp`, `Claim` and `IgnoreMessage` are the outcomes of `_claim`; the call is
outside any transaction, `ProviderAnswers`; then each outcome is written in one
transaction that checks the lease again: `RecordError`, `Store`/`StoreFails`, `Ingest`,
`ScannerDown`, or nothing if the lease is lost (`Discard`). `WorkerDies` may happen
between any two. `Reconcile` and `ExpireIngest` are the beat task, one transaction for
the scan and one per expired ingest. The surroundings: the broker loses messages, the
requester may lose and regain access (`MembershipChanges`), the user may delete the
unfinished asset (`DeleteAsset`), the quota sweep releases headroom (`SweepHeadroom`).

Abstractions: what `Ingest` finds in the file, and whether storage is full, is chosen
freely; the gates that only refuse a request (refusal limit, provider block, worker
heartbeat, monthly quota) are left out; attempts are not counted while an asset is being
ingested, where they only lengthen the backoff; headroom, held for an hour
(services.py:204), may be swept at any time after `QUEUED_TTL`. All allow more
behaviours than the code has.

**Properties.**

- `NeverPaidTwice` (worker.py:1): of all calls for one job at most one can be billed.
- `StorageHeldOnce`: headroom and the asset's own hold never coexist, and an ended job
  keeps no headroom.
- `ActiveJobsBounded`: the limit counted at the request holds at every moment.
- `ChargedWhenDelivered`: the jobs implement `PaidOperation`: the credits are spent in
  the step that makes the image available and in no other; endings are final, whatever
  a late worker brings.
- `JobsEnd` (liveness): every job ends, and its credit hold, which has no deadline.

**Run.** `ImageJobs.cfg`: two jobs, one on the way at a time, and two workers, two
attempts, one tick of lease, backoff and queue life, two of ingest: a lease can run out
in every step and a second worker can take over, the limit bites, and the second job
finds the queue as the first left it. Several jobs on the way at once are left to the
theorems, which have any number of them. Time never stops, so a deadlock would be an
error and is checked.

**Fairness.** Workers end what they started, by an outcome or by dying (weak, per
worker). The beat fires (weak, `Reconcile`;
`src/packages/contracts/modules/shared.image-generation.json:26`). For a job that keeps
being due, some message eventually reaches an idle worker (strong, per job: the queue is
first-in first-out and workers become idle again). `ExpireIngest` is strong: once an
ingest is stale, reconcile sends it no more messages, so moments without a lease recur
and one of the scans meets one. Dying, losing messages and outages are never
assumed to stop.

# Media and quotas

`Quotas` is one quota of one organization, `shared/billing/quotas.py`: the usage row and
the reservations that hold a part of it. `MediaAssets` extends it with the rows and
files that use it: assets of `shared/media/`, the publications, entries and unit
photographs that show them, and the erasure of the organization.

**State.** `used` and the reservations are rows; an asset is its row's status and the
hold it keeps; `stored` is what storage has, which no transaction covers: rows and files
fail apart. `shown` says who refers to an asset. Deadlines are ticks left. Tasks
(processing, cleanup) are messages that may come at any time, twice or never.

**Actions.** `reserve_quota`, `commit`, `adjust`, `extend`, `release` run inside their
caller's transaction, so in the model they are operators that the caller's action is
built from. The sweep lists overdue holds (`SweepLists`) and releases each one in a
transaction of its own, reading it again (`SweepReleases`). An upload is started, completed
(which extends its hold), scanned and processed, settled or rejected; a deleted asset is
a tombstone whose files a task removes unless a publication or a unit still shows them.
Headroom of an image generation is a hold without an asset.

**Properties.**

- `UsageIsClaims`: the usage row is the sum of the claims on it, held and committed.
- `StorageCountedOnce`: a file is paid for with storage while its asset is ready and not
  cleaned, and never again after; an upload under way has its storage.
- `GrowthWithinLimit` (action): a step that lets the usage grow leaves it within the
  limit of that moment; lowering the limit may leave it above.
- `PageFilesKept`: the files of everything a publication references are there, also of
  older ones that a rollback brings back.
- `OverdueHoldsEnd` (liveness): a hold past its deadline does not stay.

**Runs.** `MediaAssets.cfg`: one asset beside one headroom, limits 2 and 3, sizes 1 and
2, so that they do not fit together, and processing that outlives the upload's hold;
two publications, so that one reference may go while another stays. Fairness: the beat
starts the sweep each minute (`src/apps/backend/src/saas_core/config/settings/base.py:833`),
weak; a sweep gets to each hold some time, strong. Nothing is assumed of uploads or
tasks.

**Finding** (`MediaAssetsEntries.cfg`, `EntryFilesKept`): *a published entry loses its
pictures.* `publish_entry` records no reference to them (sites/collections.py:1331), so
the cleanup of a deleted picture does not see that the entry still shows it, against
`src/docs/adr` ADR-027, lines 93-96.

**Remark.** Files no row names survive the erasure of the organization: files are put
before the transaction that names them commits, and if that is rolled back or dies,
erasure, which works from the rows (core/organizations/erasure.py:301), leaves them,
although ADR-042 (line 135) ends it only when the storage is empty. The model has such
files; no property is about them.

# Deliveries

`shared/notifications/`: one row of `EmailMessage` or a webhook, its attempts, its route
of repeats and the reports of the provider.

**State.** The row's status and counters, the log of attempts, the route (due or
completed), tasks in the queue and under way, what the provider accepted and which
reports it sent. The row is locked while the provider is called, so a task under way
excludes others; its attempt is committed (`Conclude`), or rolled back as if nothing had
been tried (`RollBack`), although the provider may have accepted the message. The route
is completed in a transaction of its own after that (`Close`, `CloseDies`). `Recover` is
the beat each minute (base.py:857), `Repair` the support's retry, `Scrub` the removal of
what is older than its time, `Report` and `Apply` the provider's events in any order.

**Properties.**

- `StatusIsLastWord`: once the provider reported, the status is the worst that was heard,
  in whatever order; an outcome written late does not undo it.
- `SentIsLogged`: a sent row that nobody repaired has the attempt in the log to which it
  owes that.
- `RowsKeepTheirPromise`: rows, tasks, routes, support and sweeps implement `Outbox`: a
  row is sent or withheld once and for all, and given up only until it is taken up again;
  it is called sent only if the provider took it, gets only worse by reports, and nothing
  goes out to a recipient who was
  suppressed when it was queued or for whom it was scrubbed, even while tasks are running.
  That the provider takes a message twice is allowed: its idempotency key
  is the provider's business.
- `QueuedEnds` (liveness): a queued row that nobody repaired is sent, refused or given
  up, or its signed context ends first.

**Run.** `Deliveries.cfg`: one message with a consent, as an e-mail or a webhook; two
attempts and one more try than tasks, so that counters reach their limits; one repair.
Fairness: the beat (weak, `Recover`), a message in the queue some time reaches a task
and a task concludes (strong). Outages, rollbacks and lost messages are never assumed
to stop.

**Remarks**, where code and documents differ without a run:
leftover retries deliver a row in DEAD_LETTER without support or audit
(`src/docs/operations/notifications-provider-outage.md`, item 5); after
`support_retry` attempt numbers begin again, so `get_or_create` keeps the old attempt's
"failed" (`SentIsLogged` is stated for rows not repaired); an outage in which the status
lookup raises too rolls every attempt back, so the count never grows; a queued e-mail
whose signed context expired cannot be repaired by support (ADR-029:41 says an operator
repairs it); and a row that support reopened just before the old task completes its
route (notifications/tasks.py:50) is repeated no more, so that it stays queued when its
one message is lost.

# Subscriptions

One Stripe subscription as `shared/billing/` keeps it: the inbox of events
(`webhooks.py`, `processor.py`), the row with its version, the timers of
`lifecycle.py`, the entitlement snapshot (`snapshots.py`) and the reconciliation
(`reconciliation.py`). Stripe is external: it makes events about its newest state, and
sends each one any number of times, in any order, or never.

**Actions.** An attempt at an event is taken (`status` read under the lock), dispatched
and recorded in transactions of their own; attempts overlap, and a crash may come
between them. A timer fires (the lifecycle task each minute, base.py:815) and acts only
if it still fits the row. The reconciliation asks Stripe outside of a transaction
(`Ask`) and applies the answer if the row's version is still the one it asked about
(`Apply`). Grace and period are counted in one abstract unit of time.

The batch of the reconciliation is bounded and always begins at the oldest organization,
so whether it comes to this subscription depends on how many lie `ahead` of it
(`IsListed`); others subscribe and leave at any time (`OthersCome`).

Exact reductions: a failed event is kept apart only while another attempt at it is under
way; an answer whose version is overtaken is dropped at once, for it can only be
discarded; `ahead` changes only where the next question may come. Timers that do not
fit the row do not occur (`PendingFitsRow`, proved), so the dispatcher's outcome
CANCELED never does. Nothing in the code keeps two batches from running at once, and
their answers are left out: in the model one reconciliation is under way at a time.

**Properties.**

- `EventActsOnce`: however often an event is attempted, it changes the row at most once.
- `NewestEventWins`: the last event that changed the row is the newest of those that did.
- `SnapshotFollowsRow`: the access that is granted is the one that the row gives.
- `BoundaryIsTimed`: full access that ends at a time ahead has a timer for it, however
  often the row came and went.
- `NobodyIsLockedOutEarly` (action): whoever writes the row, event, timer or
  reconciliation, full access is taken away only when Stripe gave up on the payment, the
  grace has run out or the paid period is over (`billing-lifecycle.md:35-39`). A timer
  that is late on a row that moved on, or an answer that is older than it, would break it.
- `Converges` (liveness): the row comes back to what Stripe has, if Stripe keeps still
  *and the batch lists the subscription* from some time on. Without this premise TLC finds
  a subscription that is never repaired (see the remarks).

**Runs.** `MCSubscriptions.cfg`: three events, two attempts under way, one unit of time
with a grace of one and period ends at one and two, with a payment that fails, is given
up (unpaid) or comes late, a cancellation announced and withdrawn, and a deletion:
enough for an older event to arrive during and after a newer one and for a timer to fire
between asking and applying. The batch has room for one, and at most one subscription
lies ahead, which makes the two cases.
Fairness: Celery beat starts a batch every 300 s (base.py:819), and every hour
(`BILLING_RECONCILIATION_INTERVAL_SECONDS`, base.py:730) opens a new reconciliation of
each subscription that the batch lists, so one that stays listed is asked about again and
again (weak, `Ask`), and each question ends; of the answers that could be applied again
and again one is (strong, `Apply`). Nothing is assumed for a subscription that is not
listed.

**Finding** (`MCSubscriptionsBoundary.cfg`, `CanceledIsTimed`): *a cancellation that
comes late may give access for good.* A cancellation compares the end of the paid period
with the time of the event and not with now (processor.py:322), so one that is delivered
after that end gives full access until a time that has passed. If the timer of that end
has fired before (the cancellation was announced, or a reconciliation brought it),
`sync_subscription_lifecycle` does not set it again: it sets only CANCELED and FAILED
ones (lifecycle.py:393). No timer makes the access read-only, and the reconciliation sees
no change, against `src/docs/architecture/billing-lifecycle.md:39`.

**Remarks.** *Subscriptions that nobody reconciles*: `run_reconciliation_batch` takes the
first 100 subscriptions (`BILLING_RECONCILIATION_BATCH_SIZE`, base.py:735) in the order
of their organizations' creation (billing/tenant_scope.py:51-55). Those already done in
this hour count (reconciliation.py:62-64) and are only skipped afterwards (74-77), and
the next batch begins with the same ones. With more than 100 subscriptions the later ones
are never asked about, while `src/docs/architecture/billing-lifecycle.md:66` and 111-112
promise that a lost webhook is repaired.

`invoice.paid` after the deletion of a subscription gives it full access until the next
reconciliation; an event older than what a reconciliation brought is taken for new until
the next one. Left out: two reconciliations at once, incomplete and paused
subscriptions, notices, invoices, checkout, plan moves, the simulated clock.

# Orders

A booking (`shared/booking/` `services.py`, `orders.py`, `periods.py`, `tasks.py`) and
its order (`shared/commerce/` `orders.py`, `payments.py`, `balance.py`, `refunds.py`,
`ledger.py`, `tasks.py`): two modules that change each other's rows in one transaction
and keep no common status.

**State.** `booking`, `hold`, `start`, `quote` are the appointment; `order` and
`refundDue` the order's row; `pay` the payments (what is awaited of a prepayment or a
balance, what was received, what was taken back) with their routes; `refund` the refunds
in force; `charged` and `refunded` the sums of the ledger. `listed` and `seen` are the
local state of the two-transaction task that watches the dates.

**Actions.** Request, answer, expiry; placing and paying ahead; `RecordPayment`,
`VoidPayment`, `RecordRefund`, `VoidRefund`; a move with a new quote; cancellation by either side; the end. `TaskLists`, `TaskLooks`, `TaskMarks`
are `expire_due_payments`: a list, a transaction for each payment, and one that marks
its route. Whether the company has a transfer account, and whether a new quote has a
date for the balance, is a free choice. A walk-in is a booking without a prepayment.

**Properties.**

- `BookingFollowsOrder`: a request is a draft, a booking waits for money exactly while a
  prepayment is awaited and until its date, a booking called off asks nobody for money,
  and an order waits for one payment at a time.
- `OrderFollowsLedger`: the status is the ledger's, whoever wrote last.
- `AwaitedCoversTheRest`: what is awaited of a prepayment is what has not been received of
  it (a refund does not raise it), and an awaited balance is at least what is missing of
  the price, as long as the quote has a date for it.
- `PendingEnds` (liveness): a booking does not hold its time for ever.

**Run.** `MCOrders.cfg`: three payments, one refund in force, a deposit with a later
balance or a price paid ahead, dates one unit apart over three units: a payment can come
before, at and after its date, twice, in parts and be taken back, with a look of the
task in between. The clock stops, so deadlock is not checked. Fairness: time passes, and
Celery beat expires requests (base.py:883) and due payments
(`src/packages/contracts/modules/shared.commerce.json:22-24`) each minute; a look at a
payment does not fail for ever (strong).

**Remarks**, where the code says less than its comments promise, without a run:
moving to a quote without a balance date leaves an awaited balance at its old amount
(booking/orders.py:184 says it follows); a refund recorded while a prepayment is awaited
does not raise it; `void_refund` can leave a balance awaited of nothing, which then is
late on a paid order; after an overpayment that is taken back the awaited balance is
more than the rest; `void_payment` after a refund makes what was paid negative; a
cancellation with nothing left paid after a refund owes nothing when that refund is
taken back; a balance armed again between the look and the mark (commerce/tasks.py:59)
may never be reported late; `answer_request` accepts after the hold has passed.

# Booking locks

`BookingLocks` looks at the same operations, and the removal of a customer, as sequences
of row locks: the customer (`customers`), its visits (`booking`), their orders
(`commerce`). Everywhere else in this project an operation is one step because it holds
its rows; here the steps are the locks.

**State.** `owner` of each row, `asks` the row a transaction waits for, `op` and `on`
what it does; of the data only what decides which row is next: the status of a visit,
whether it is `ahead` of the privacy run's cutoff, who is still `named` and which visits
hold `personal` words.

**Actions.** `Begin`, `Ask` and `Get` for each row, `Commit` with the operation's effect,
`RollBack` at any time. `FirstRow` and `LaterRows` are the code's order: cancel, answer
and expiry of a request take order, then visit (`orders.lock`); a payment the order, and
the visit if it waits for money (`_booked`); a move the visit, then, priced again, the
order (`orders.repriced`); the privacy run (`erase_customers`) and `anonymize_customer`
the customer, its visits, their orders. A run of the code takes several customers in id
order; in the model one. Left out: the visits of a person who joins a crew, and the
shared locks of foreign keys.

**Properties.**

- `NobodyWaitsInACircle`: no set of transactions each waiting for another of it.
- `SweepSparesVisitsAhead` (action): who is removed by the privacy run has no visit ahead
  at that moment, although the run reads the visits and then waits for the orders.

Who waits in no circle gets its row when those before it end, so no fairness is needed
to say that nobody waits for ever; its types are part of the proof's invariant.

**Runs.** Not every operation may meet every other, so a run starts with a family of
operations. `MCBookingLocks.cfg`: three transactions, a customer with two visits, each
of the three largest families that are `SafeTogether`: circles of three have room, and
the privacy run meets two moves. Transactions are interchangeable (symmetry).
`MCBookingLocksMeeting.cfg`: two transactions that may not meet.

**Finding** (`MCBookingLocksMeeting.cfg`): *a move and a calling off wait for one
another.* The move has the visit and waits for its order (booking/services.py:839, 915),
the calling off has the order and waits for the visit (services.py:1046); the privacy
run in place of the move does the same. booking/retention.py:115-117 says that a move
takes the visit alone, so nothing can wait in a circle. PostgreSQL ends one of the two
with an error. The theorem shows which operations are safe from it.

**Remarks**: circles of the same kind, without a module. The expiry of an override locks
grant, then organization (`billing/overrides.py:200-211`), its revocation organization,
then grant (145-146). An upload or a tombstone locks the organization, then rows that a
processing task holds when its deferred foreign keys ask for the organization at COMMIT
(`media/services.py`, against the comment at image_generation/worker.py:264-265).
`select_for_update().select_related("organization")` without `of` locks the organization
as well (processor.py:277, overrides.py:200, lifecycle.py:455, reconciliation.py:112),
which core/organizations/tasks.py:196-201 describes as the cause of a past deadlock. Two people
who join each other's visits lock both in opposite order (crew.py:285, 347).

# What is proved

`tlapm` proves each of these for all values of the constants that satisfy the assumption
of its module (`SizesAssumption` and `CalendarAssumption` of Credits,
`ImageJobsAssumption`, `QuotasAssumption` and `MediaAssumption`,
`DeliveriesAssumption`, `SubscriptionsAssumption`, `OrdersAssumption`,
`LocksAssumption`: sizes are naturals, prices and packs positive, the calendar monotone,
the sets of the right kind; no bound on any of them).

Every safety property that a passing run checks is stated by a theorem; the theorems
marked * state more than the runs check.

- **Credits.** `TypeCorrect`, `LedgerAddsUp`, `ReservedIsWhatIsHeld`,
  `HeldCreditsAreThere`, for *any* `Skew` and with refunds. The
  inductive invariant `AccountInv` adds to them that a reservation's two parts make up
  its cost and its cost is its units' price; without it the arithmetic of a settlement
  could go below zero. A sum changes by what one row changes (`PrefixSumsProofs`):
  `SumTo` is a recursive function, and since induction over data is out of reach its
  lemmas are proved by taking the least number at which they would fail.
  `EndedHoldsCostWhatWasDelivered` and `PurchasedCreditsArePrepaid` stand on it; the
  second is the refinement of `PrepaidWallet`, step by step, and needs `Refunds = FALSE`.
  `HoldsKeepTheirPromise`* is a second refinement: the reservations of the account
  implement the same `PaidOperation` that the image jobs implement with theirs; it needs
  only that what is open is not settled (`OpenIsUnsettled`).
  `AllowanceGrantedOnce` and `AllowanceDoesNotCarryOver` need `Skew = 0`, the second also
  `Refunds = FALSE`: the invariant `MonthInv` says the account never returns to a month
  it left, which is exactly what the finding about Credits breaks.
- **Image jobs.** `TypeCorrect`, `StorageIsHeldOnce`, `UnknownResultsArePaidOnce`,
  `JobsOnTheWayAreBounded`, `CustomersPayForWhatTheyGet`. `NeverPaidTwice` is not inductive:
  a call can be billed only while its job is `running`, and a job that has been billed
  must never be claimed again. `JobInvariant` says so: only one run of a job is calling
  and its job is running (`OneCallAtATime`, `RunFollowsRow`), a job that is queued
  was not billed (`UnbilledYet`), and credit, headroom and asset follow the row
  (`HoldFollowsRow`, `AssetFollowsRow`). The last theorem is the refinement of
  `PaidOperation`.
- **Media.** `TypeCorrect`, `UsageRowIsExact`, `EachFileCountedOnce`,
  `PagesKeepTheirFiles`, `OthersLoseOnlyDeleted`*, `QuotaGuardsGrowth`. `Inv` ties each
  asset to its hold (`HoldFollowsAsset`) and its files to its status (`ReadyHasFiles`,
  `ShownStaysReady`); `PageFilesKept` alone says nothing of an asset that is not yet
  shown. `OthersLoseOnlyDeleted` is the bound of the finding: an entry or a unit, which
  no lock protects, loses a picture only if somebody deleted the asset.
- **Deliveries.** `TypeCorrect`, `WorstReportStays`, `SendingIsLogged`,
  `NothingUnwantedIsSent`*, `RowsKeepPromise`. `DeliveryInvariant` adds that a row
  under way is still undelivered, has a try left and is not barred (`LockedRows`), that reports belong to what was accepted
  (`ReportsFollowRoutes`), that an attempt's number is at most the counter (`LogCounted`)
  and that suppression has no way back (`LateIsSuppressed`). The last theorem is the
  refinement of `Outbox`: each action is a step of the promise, or invisible to it.
- **Subscriptions.** `TypeCorrect`, `EventsApplyOnce`, `EventsApplyInOrder`,
  `AccessFollowsSubscription`, `BoundariesAreTimed`, `TimersWaitForTheRow`*,
  `NoAnswerIsOvertaken`*, `OnlyPassedEndsAreUntimed`*, `NobodyLosesAccessEarly`,
  `GraceEndsOnce`*. `SubscriptionInvariant` adds that applied events are events that
  were made (`EventsAreMade`), applied in the order of their time and of the rank of
  their type (`AppliedInOrder`), that nothing said lies ahead of the clock
  (`NothingIsAhead`), and that timers and row fit (`TimersFit`: with
  `BoundaryIsTimed`, a pending timer is one that the row waits for, `PendingFitsRow`).
  `NobodyLosesAccessEarly` needs all of these: an event of the past cannot take away
  what lies ahead because the end it compares with its own time has then passed for the
  clock, too; a timer that fires fits the row. `OnlyPassedEndsAreUntimed` bounds the
  finding: the end of a canceled row has had its timer, which is missing only because
  it has fired.
- **Orders.** `TypeCorrect`, `BookingAndOrderAgree`, `StatusIsTheLedgers`,
  `AwaitedIsEnough`, `OnlyThePrepaymentConfirms`*.
  `OrdersInvariant` is the three properties with the routes (`RoutesFit`) and an empty
  ledger before an order is placed (`BeginsEmpty`); `AwaitedCoversTheRest` needs the
  ledger to be exact, and itself says that a prepayment is awaited only while some of it
  is missing, from which it follows that the payment which completes it, and no other,
  confirms the booking.
- **Booking locks.** `SafeOperationsDoNotCircle`, `SafeOperationsGoOn`*,
  `TheSweepTakesNobodyExpected`.
  `LocksInvariant` says what a transaction has when it asks for more, and that the
  status it read still holds. A circle is excluded by ranks: what is waited for by who
  waits for a sweep's order, for a visit's second row, or for a sweep's visit is held by
  nobody who waits at all, or by somebody of a higher rank. The first two theorems assume
  that each family is `SafeTogether`; the finding shows that the assumption is needed.
  The second follows from the first: the transactions under way are no circle, so one of
  them has, or can have, the row it asks for.

Only model-checked: the liveness properties (`DeadlinesFreeHolds`, `JobsEnd`,
`OverdueHoldsEnd`, `QueuedEnds`, `Converges`, `PendingEnds`), which, like ENABLED,
induction over data and RECURSIVE operators, are out of the prover's reach; and the
violations of the findings.

# Not modelled

- **Occupancy**: who and what is free when. Double bookings are excluded by exclusion
  constraints of the database and not by the code's own steps.
- **Inventory, translation, SEO, the assistant and its model port**: the shape is that
  of `ImageJobs` (lease, credits, reconcile) or of `Orders` (a ledger with documents);
  partial settlement is checked from the account's side in `Credits`.
- **Sites** except for the references to pictures: drafts, imports and routing are large
  and mostly validation; **profiles and the search index**; **identity**;
  **organizations** except for the erasure of files; **invoicing** and the billing
  overview; **overrides** and quotas by period.
- **HTTP, configuration, observability**, the front end, packages, infrastructure: no
  state of their own that a property would be about.

The repository has far more code than any of this: the modules stand for the parts
where order and failure decide, and leave out views, serializers, texts, translations and
content, which are most of its lines.

Taken for granted throughout: PostgreSQL's transactions, row locks and row-level
security; the separation of organizations; that the provider's answer of kind
`retryable` really did not run. Outside `BookingLocks` no transaction waits for a lock,
and none is ended by the database. Not part of any model: texts, audit entries, prompts,
permissions other than "may still run the job", read-only views.

# What remains

The locks of the organization row (the remarks above), as a second module in the form of
`BookingLocks`; a translation run that settles what it delivered, composed with
`Credits`; overrides and their expiry; inventory with its reservations.
