# GaonOne: a TLA+ model of a village marketplace

GaonOne is a village marketplace: customers order from local stores, riders
deliver, payment is cash at the door or UPI through Razorpay. The backend
(`src/backend/app`, FastAPI over PostgreSQL) is where every decision is made. A
background worker drains what requests leave behind. This project models the parts
where a mistake costs somebody money, goods or access, model-checks them on small
instances with TLC and proves their safety for every instance with TLAPS.

## 1. Inventory

| Component | State | Operations | Interacts with |
|---|---|---|---|
| Order transitions (`services/order_transitions.py`) | none | transition tables, fulfilment payment gate | every handler |
| Checkout and order mutations (`routes/checkout.py`, `routes/order_mutations.py`) | `orders` | place, accept, prepare, ready, cancel | stock, refunds |
| Rider assignment (`routes/orders.py`, `routes/admin.py`, `routes/dispatch.py`, `services/auto_dispatch.py`) | `deliveries` | self-claim, manual, automatic and worker assignment, unassign, release, pickup | shared rider and delivery rows |
| Delivery operations (`routes/delivery_operations.py`, `routes/delivery_financials.py`) | `deliveries`, `delivery_proofs`, `cod_collections` | fail, recover, resolve, challenge, verify, collect, complete | settlements, refunds, stock |
| Payments (`routes/payments.py`, `routes/payment_hardening.py`, `services/payments.py`) | `payment_attempts`, `payment_webhook_events`, `orders.payment_status` | intent, verify, webhooks | provider, refunds, settlements |
| Refunds (`services/refunds.py`, `routes/refunds.py`) | `payment_refunds` | record, claim, call, answer, park, retry, webhook | provider, worker, settlements |
| Settlements (`services/settlements.py`) | `settlement_entries`, `settlement_adjustments` | entitle, void, reverse | payments, refunds, delivery |
| Stock (`services/stock.py`), carts and listings (`routes/orders.py`, `routes/commerce.py`) | `carts`, `store_products` | add, checkout, restore, edit | orders |
| Worker (`scripts/worker.py`) | none of its own | polls refunds, notifications, dispatch, banners, media | all queues |
| Notification outbox (`services/fcm.py`, `services/notifications.py`, `routes/notifications.py`) | `notification_events`, `device_registrations` | enqueue, register and unregister a device, flush a batch, defer, retire | every handler, worker, FCM |
| Store banners (`services/store_banners.py`, `routes/store_banners.py`) | versions, generation jobs, selection | queue, build, fail, accept, moderate, present | worker, catalogue |
| Product media (`routes/media.py`, `services/product_media*.py`) | assets, jobs with leases, two buckets | upload, claim, scan, publish, retry, expire | worker, object storage, scanner |
| Support (`routes/support.py`) | tickets, messages | create, write, note, change status, assign | orders, notifications |
| Login and rate limits (`routes/auth.py`, `services/otp.py`, `services/rate_limit.py`) | counters in Redis, `users`, `external_identities` | count, prove, log in | Redis, MSG91, Firebase |
| Identity and onboarding (`core/capabilities.py`, `routes/admin.py`, `routes/admin_onboarding.py`, `routes/commerce.py`) | `users.role`, `merchants`, `stores` | pre-register, change role, apply, approve, suspend, create and edit stores | login, banners |
| Rider presence (`routes/dispatch.py`, `services/spatial.py`), live tracking (`routes/tracking*.py`) | presence and location rows | heartbeat, nearest rider, samples | assignment |
| Store hours, pricing | none | pure functions | checkout |
| Discovery, geography, audit, clients, deployment | rows or none | edits, queries, presentation | - |

What is hard here: four paths assign the same riders; payment results arrive from
the client and from webhooks in any order, repeatedly, and after the customer has
cancelled; a refund is executed in claim, call and answer steps that a timeout, a
webhook, a second thread, an operator's retry or a crash can interleave; money
moves to the merchant and to the customer in either order; sessions run with
`autoflush=False`, so a query does not see what the same handler has just written;
the queues talk to FCM, to object storage and to Redis outside any transaction, from
processes that die; people act on pages that others have overtaken; first logins race.
`PROJECT.json` lists each such hazard at its line.

What makes each modelled component correct: goods leave only when paid; a dead
order never keeps a confirmed payment without a refund obligation; "refunded" is
only said after the provider did it; merchant entitlement and refund never
coexist uncorrected; delivered means proven, paid and entitled; a rider carries
one delivery; goods in custody are delivered or returned; owed refunds and failed
deliveries are eventually closed. A version or revision that is accepted stands for a
page nobody has overtaken; a retry has one effect; every queue is drained, sends once and keeps
honest books; only scanned bytes are public; only reviewed banners are shown; one
person has one account, and nobody but its owner proves it.

## 2. Modules

| Module | Models |
|---|---|
| `OrderTransitions` | status sets, both transition tables, the payment gate (pure) |
| `OrderState` | the rows of an order as functions over `Orders`, `Init`, and the services that write them inside a caller's transaction (`refunds.py`, `settlements.py`, `stock.py`) |
| `Fulfilment` | one action per order, assignment, delivery, proof, cash and completion handler |
| `Payments` | intents, verification, webhooks; the provider's orders |
| `Refunds` | the steps of `dispatch_refund`, operator retry, refund webhooks; the provider's refund; crash of a dispatching thread |
| `OrderLifecycle` | the composition: `Next`, fairness, all properties |
| `MCOrderLifecycle` | symmetry sets for TLC |
| `Deal` | abstract: what customer, platform and merchant are promised of an order |
| `OrderLifecycleProofs` | table lemmas, type correctness, one active delivery per rider, the money invariants |
| `DealProofs` | the action property `NothingReopens`; `OrderLifecycle` implements `Deal` |
| `Inventory`, `MCInventory` | carts, listings, checkout with its key, merchant edits, restoration |
| `InventoryProofs` | types, conservation, one order per key, carts |
| `Support`, `MCSupport` | tickets: references, idempotent creation, messages, versions, notices |
| `SupportProofs` | types, versions, one ticket per key, linked contexts, who is told of a change |
| `ProductMedia`, `MCProductMedia` | listing images: upload, lease, scan, publication, clean-up |
| `MediaProofs` | types, clean bytes, objects in hand, the limit per listing |
| `StoreBanners`, `MCStoreBanners` | merchant and store status, banner versions, their queue, selection, moderation |
| `BannersProofs` | selection under a revision; with one worker, types and reviewed manifests |
| `NotificationOutbox`, `MCNotificationOutbox` | events, devices, flushes |
| `Notice` | abstract: what a notification promises |
| `OutboxProofs` | types, no repeated push, honest books; `NotificationOutbox` implements `Notice` |
| `Accounts`, `MCAccounts` | limits, proofs of identity, logins, roles |
| `AccountsProofs` | types, one account per person, proved accounts |

`OrderLifecycle` composes `Fulfilment`, `Payments` and `Refunds` over the shared rows
of `OrderState`. The other modules are specifications of their own: the components
they model share no row with an order but read-only references to it.

**State.** A column of a row is a function over orders; `"absent"` is an order not
placed yet. A delivery row is created with its order, so it needs no presence flag.
`provider_order` and `provider_refund` are Razorpay's books, external to the
repository and modelled from how the code calls it: an order stays payable until
paid, refund calls with the same idempotency key meet the same refund, every status
a refund has been in is reported by a webhook. `call_state` and `call_order` are the
local state of a thread inside `dispatch_refund`; `retry_read` is what
`admin_retry_refund` has read and not yet written.

**Atomicity.** A handler takes its row locks before it reads and commits once, so it
is one action. Two are not: `dispatch_refund` commits its claim before the network
call and takes the row again afterwards (`claim_refund`, `provider_accepts_refund`,
`provider_answers` or `provider_call_fails`, `record_refund_answer` or
`record_refund_error`, with `dispatcher_crash` anywhere between), and
`admin_retry_refund` reads without a lock (`admin_retry_reads`,
`admin_retry_writes`). In `Inventory` checkout and restoration lock what they read and
are one action each; the cart handlers and the listing edits lock nothing, so each look at the
database is a step and so is the commit, which writes only the columns whose value differs
from the one loaded (`written`), as SQLAlchemy's unit of work does. Adding looks at the
cart (`add_cart_item_reads`), for the line (`add_cart_item_looks`) and commits
(`add_cart_item_writes`); removing looks at the cart (`empty_cart_reads`), deletes and
looks for lines that remain (`empty_cart_deletes`) and commits (`empty_cart_writes`). The
`DELETE` and the `SELECT` after it are one step: the lines deleted are locked, so whatever
commits between the two concerns other lines and could as well have come first. Until the
commit the deleted lines are locked (`is_locked`); an `UPDATE` of a line that is gone by
then fails (`AnswersDeleting`). A rolled-back transaction is `request_aborts`. The two lookups of the idempotency key in
`safe_checkout` and the unique constraint behind them are one predicate,
`key_is_used`. The refund dispatch after a cancellation is a claim by some
dispatcher, as are the worker's and the operator's.

**Two views of an order.** `OrderLifecycle` knows when an order restores its stock,
`Inventory` what that does to the listings. In `Inventory` any placed order may be
restored at any time and repeatedly, which includes every moment the lifecycle can
choose. An unlisted product is a listing with no units that is not available; the
handlers treat both alike.

**The abstract deal.** `Deal` says of each order where it stands (`outcome`), where the
customer's money is (`money`) and what the merchant is entitled to (`share`), and lets
these move only together: money comes in before an online order is delivered, a
cancelled or returned order that was paid owes, what is owed is repaid and never
forgotten, and a share falls when the goods or the money go back. `OutcomeOf`, `MoneyOf`
and `ShareOf` in `OrderLifecycle` compute the three from the rows (statuses, the refund
row, the ledger entry and its adjustment); attempts, calls, webhooks, riders and proofs
are invisible there.

**Support.** Creating a ticket is a look-up and an insertion, because nothing is locked
between them; the unique key decides, and the loser is answered with the winner's ticket
or a conflict. Everything that changes a ticket locks its row and is one action. `view`
is an administrator's screen: the row and its version, which the queue, the ticket and the
answer to every change return (`admin_ticket`), and the messages, which come from another
endpoint page by page (`admin_ticket_messages`). `loaded` names the lists that were complete
at or after the version on the screen. A version alone says nothing of the messages: after
sending, the web page fetches the ticket again and the conversation not at all.

**Product media.** Every call of object storage, the commit and the clean-up after a
rollback are steps of their own; the row locks are held from `lock_claimed_job` to the
commit or rollback (`HoldingLocks`), and clean-up happens after they are gone. A lease is
live or expired. The key of the public object is the asset's, whichever attempt writes it.

**Store banners.** A claim and a build are one transaction, so the status `processing` is
never visible; a failed build is recorded in a second one (`record_failure`). `seen` is
the page an editor has loaded. The facts a manifest is made of (name, locality, category)
are one model value that edits of the store change.

**Notification outbox.** A flush holds the locks of its batch from `due_events` to
`flush_pending_commits`; each push is a step with its own answer, written only with the
commit. `pushed` counts what reached a device, `doubtful` the events of which the server
could not know. `Notice` is the promise behind it: a notification is owed until it is
settled once and for all as delivered or given up, it shows up only while it is owed, and
the record is true as far as the server can know. `FateOf` computes it from the row's
status; batches, locks, attempts, backoff and devices are invisible there.

**Accounts.** One provider is configured. Incrementing a counter and setting its expiry
are two steps; so are a login's look-up and its insertion, with the unique constraint in
`known_on_insert`. A counter is not followed past the first value over its limit.

**Data left out.** Amounts, names, notifications, audit rows and timestamps. Clock
guards (code lifetime, resend cooldown) only reject requests, so an action that may
happen at any time includes every behaviour they allow. Authorisation decides who
may call, not what the call does, except where it is the subject (`Accounts`, the
references of `Support`, `owned_store`).

## 3. Runs

Each run's module is the `MC` module of its component, which adds symmetry sets and the
small functions (who owns which order, which listing an image is for) that a `.cfg`
cannot write. Deadlock is checked in `shelf` only, where requests may come for ever;
elsewhere there are finitely many orders, tickets, uploads and events and each is closed in
the end, so the systems may stop.

| Run | Shows |
|---|---|
| `money` | one online order, two provider orders, two refund threads that may die, every webhook order: payment, refund and ledger stay consistent and nothing closed reopens |
| `fleet` | three cash orders, two riders: one active delivery per rider, custody, evidence |
| `progress` | under fairness and without crashes: owed refunds are paid, failed deliveries closed; and every step is a step of `Deal` |
| `shelf` | a cart, two stores, two requests at every step, a merchant edit after a stale read: nothing is oversold, no unit is lost or doubled, a key buys once, and only the commit of a request one of whose looks was overtaken spoils a cart |
| `support` | two requests with any references at a time, two tickets, a screen that loads row and messages separately: one ticket per key, consistent references, an accepted version is up to date, one notice per visible change |
| `media` | three uploads, two workers, every failure and crash: only clean bytes public, no forgotten object, the limit per listing, every job decided |
| `banners` | an owner and an administrator with stale pages, one worker that fails and dies: no selection replaces one its author had not seen, customers see what was reviewed, every version is built or given up |
| `outbox` | two flushers that take one event at a time, two devices changing hands, any answer of FCM, a crash: no push twice without a reason, every step is a step of `Notice`, whose books are honest, and every event is settled, the one behind a failing one too |
| `accounts` | two logins at a time, a pre-registration, role changes, under each provider: one account per person, no unproved account, limits that end |
| `refund_crash` | violation: a crash after the claim leaves a refund nobody picks up |
| `late_capture` | violation: a refund recorded for a late capture does not name the payment |
| `lost_image` | violation: a worker past its lease deletes what its successor has published |

**Bounds.** Handlers of different orders meet only at riders, so `money` uses one
order and `fleet` three with two riders: two orders can contend for a rider while
the third holds the other. Two attempts are what a second provider order needs; two
dispatchers are what a race in `dispatch_refund` needs. `MaxRefundAttempts` is 2
(code: 8) so that both a retry and exhaustion happen; `MaxGuesses` and
`MaxChallenges` are 2 in `fleet` (code: 5) so that a guess budget is spent across two
codes. Riders, attempts and dispatchers (in `fleet` orders too) are interchangeable,
so symmetry is used in these two runs and not under fairness. `shelf`: one store
offers two products, so that a line can be added while another of the same store is
removed, and the other store one, so that a cart can be mixed; one unit of each, so that
two orders meet at the last one. Two threads are what a stale look needs, two orders what
a second use of a key or a second restoration needs. One listing is edited
(`OneListingIsEdited`, a constraint), to be off at zero: whether the zero is written
depends on what was seen, which a checkout or a restoration overtakes. Quantities are 1
(the code allows 99), so the `UPDATE` of a line to another quantity is left to the proofs,
which cover every quantity and edit.

`support`: two requests and two tickets let a retry overtake its first; the requests
offered (`TicketRequests`) contain every kind of requester with references that agree and
that do not; `MaxVersion` 2 leaves room for a change before and after a page is loaded. One
administrator has a screen; a colleague is needed only for what it does to that screen's
ticket, and messages and changes sent without a version, which look at no screen, do that.
`media`: two images of one listing with room for one, a third that is not clean,
two workers so that a successor exists, two attempts so that the last one can be lost.
`banners`: two versions, so that one can be reviewed while the other is shown, and one
worker, as `docker-compose.prod.yml` deploys it. `outbox`: two
events to two users, so that a token moves, and batches of one, so that an event waits
behind a failing one; two attempts, so that an event is deferred and retired. A crash then
loses one push; larger batches, of which it loses several, are left to the proofs. `accounts`: one phone and one subject, two
threads for the race, room for two accounts, so that a second one would be seen.

**Fairness.** `OrderLifecycle`: `claim_refund`, `record_refund_answer` and
`record_refund_error`: the worker polls for ever and finishes a call it began.
Provider: it settles what it accepted, redelivers webhooks until acknowledged
(weak), and does not time out on every call (strong on `provider_accepts_refund`).
Operations staff resolve failed deliveries that can be resolved. `ProductMedia`,
`StoreBanners`, `NotificationOutbox`: `scripts/worker.py` runs its batches for ever and
is restarted when it dies, takes the oldest due row first, and clocks move on, so leases
and backoffs end; a step the worker has begun is finished or it dies. Nothing is assumed
to succeed: a scan, a build or a push may fail each time. `Accounts`: a request goes on
or dies, Redis drops expired keys. No fairness is assumed of customers, merchants,
riders, uploads, administrators or of the operator's retry.

**Findings.** The three violation runs are disagreements between the code and what a
comment or a docstring of the repository says; `PROJECT.json` quotes each: a refund left in
`processing`; a debt that can never be dispatched because the capture that caused it is not
yet visible to the query that looks for it; an approved image whose object is gone.
Modelling met more, which no run shows and which the properties are stated around:

* two concurrent additions to an empty cart, from different stores, both find it empty and
  both commit (`orders.py:185`), against "Cart can contain products from only one store"
  (`orders.py:186`); checkout refuses such a cart until a line is removed;
* an addition that commits between another request's look for remaining lines
  (`orders.py:217`) and its commit leaves a cart with a line and no store, which checkout
  takes for empty; `OnlyStaleLooksSpoilCarts` says that overtaken looks like these are the
  only way to spoil a cart, and `UnitsAreConserved` that a spoiled cart costs no goods;
* a failed build is recorded without a look at what the job has become
  (`store_banners.py:328`): with a second worker, which may have finished it in between, a
  version that is ready is taken from the customers and built again, against "a second
  worker duplicates nothing" (`worker.py:7-9`); the properties of banners that depend on the
  build are stated for one worker, as deployed;
* the super administrator who applies as a merchant (`commerce.py:118`) is no administrator
  any more, and the role patch will not change the row back, against "Super Admin account
  is protected" (`admin.py:131`); no property speaks of it;
* a request that dies between `INCR` and `EXPIRE` (`rate_limit.py:34`) leaves a counter that
  never expires, and once over the limit every later request is refused, against "Try again
  shortly" (`rate_limit.py:36`); `LimitsEnd` excludes it;
* a late `pending` webhook or a timed-out call puts a succeeded refund row back into
  `processing` or `failed` (`refunds.py:170`); order and ledger stay as they are, which
  `NothingReopens` and `ImplementsDeal` show;
* a rejected signature makes room for a second provider order while the first is still
  payable (`payments.py:73`), against "Keep one live provider order per commercial
  order";
* a delivery that fails after its cash was recorded has no exit
  (`delivery_operations.py:296`); `FailedDeliveryIsClosed` excludes it;
* cancelling an order relists a listing the merchant switched off at zero stock
  (`stock.py:56`).

## 4. Proofs

For every value of the constants that satisfies the assumptions their modules name
(`OrderStateAssumption`; for the shelf `InventoryAssumption` and `EditsAssumption`; for
tickets `SupportAssumption`, `RequestsAssumption` and `RowsAssumption`; for banners
`BannersAssumption`; for images `ProductMediaAssumption` and `ClaimsAssumption`; for the
outbox `OutboxAssumption` and `RowsAssumption`; for accounts `AccountsAssumption` and
`RowsAssumption`), all of which say only that rows refer to rows, NULL is no row, keys of
different kinds differ and bounds are numbers:

* `TypeCorrect`: `Spec => []TypeOK`. Inductive with `CallsNameOrders`: a call in
  flight names an order, without which the provider's answer is not even typed.
* `RidersCarryOneDelivery`: `Spec => []OneActiveDeliveryPerRider`. The busy check is
  not enough, because `mark_delivery_assigned` names no rider: it also needs
  `PoolIsUnnamed`, that an unassigned delivery names none.
* `MoneyInvariant`: `Spec => [](TypeInv /\ MoneyInv)`, and from it `GoodsArePaid`,
  `DeadOrdersOwe`, `RefundedIsTrue`, `NoEntitlementForMoneyBack`,
  `DeliveredStaysEarned` and `CustodyIsKept`. The properties support one another: that
  a refund result cannot hit a live order needs that calls in flight belong to orders
  with a refund; that completion cannot overwrite a refund status needs that cash
  orders never have one; that a late failure cannot unpay goods needs the order of
  the guards. `Bookkeeping` holds these facts.
* `ClosedStaysClosed`: `Spec => NothingReopens`, an action property, from `MoneyInv`
  and the transition table.
* `InventoryTypeCorrect`: `Spec => []InventoryTypeOK`; that stock stays in `Nat` is the
  check under the listing lock.
* `UnitsStayConserved`: `Spec => UnitsAreConserved`, an action property. It needs
  `UnplacedIsUntouched`: a new order whose units counted as restored would hold nothing.
  Lines of another store are excluded by the locked check alone, not by the cart.
* `RetriesBuyOnce`: `Spec => []OneOrderPerKey`.
* `StaleLooksAlone`: `Spec => OnlyStaleLooksSpoilCarts`, an action property, from
  `ReadsFit`: what a request remembers of the store has the shape of a cart it could read.
  `CurrentAdditionsFit` and `CurrentRemovalsFit` show that a commit whose looks are all
  still true leaves the cart naming its store; each of the three looks is needed.
* `DealIsKept`: `Spec => ImplementsDeal`. Initial states map to initial states by
  evaluation. For a step, every action changes the rows of one order, so the proof asks
  of that order which move of `Deal` its mapped values make. `MoneyInv` is needed for the
  guards: that a repayment starts from money that is owed is `RefundIsOwedExactlyWhenDead`,
  that a share ends with it is `MoneyBackIsNotTheMerchants`, that a delivery has its money
  is the payment gate.
* `SupportInvariant`: `Spec => []SupportInv`, and from it `SupportTypeCorrect`,
  `AcceptedVersionsAreUpToDate`, `RetriesShareOneTicket` and `ContextsBelong`. That an accepted
  version is up to date is not inductive: `PagesInv` adds that no page shows a later
  version than the ticket has, so a change that takes the next version outdates every page
  at once (`ChangedTicket`, which all five writing handlers are instances of). That
  retries share a ticket needs the uniqueness of keys among all rows, not only among the
  answered ones, and that a context belongs to its requester when the insert commits needs
  that the check made at look-up is still true of the waiting request (`CreationsInv`).
* `RevisionsSawSelection`: `Spec => []CurrentRevisionSawSelection`, for any number of
  workers, in the same way: pages never run ahead of `revision` (`SelectionInv`).
* `BannersTypeCorrect` and `ReviewedIsShown`: with `OneWorker`, as deployed,
  `Spec => []BannersTypeOK` and `Spec => []CustomersSeeReviewedManifest`. `BuildInv`
  says that what the worker claimed is still due when it is done with it, which is where a
  second worker would break it; `ReviewInv`, that what is approved is ready and has not
  changed since.
* `ChangesAreToldOnce`: `Spec => VisibleChangesAreToldOnce`, an action property, one
  ticket at a time: a step is silent about every ticket but one, and about that one the
  proof compares what `PublicFace` shows before and after. That a message is new
  (`message_is_new`) is what makes it visible, so the retry of a message is neither posted
  nor told again.
* `MediaInvariant`: `Spec => []MediaInv`, and from it `MediaTypeCorrect`,
  `PublicBytesAreClean`, `ObjectsStayInHand` and `ListingsKeepTheirLimit`. `LocksInv`
  says that at most one worker is between lock and commit of an image and that the image is
  undecided as long; without it a commit could reject what another has approved, and the
  object would be public and in nobody's hand. `ListingsInv` says that an original not on
  record and not left behind holds its listing, and that a held listing has room: this is
  what carries the count taken before the upload to the commit after it. A job has an image
  on record (`JobsInv`), so a claim never meets an unknown one.
* `OutboxInvariant`: `Spec => []OutboxInv`, and from it `OutboxTypeCorrect`,
  `PushesAreNotRepeated` and `AccountsAreHonest`. `HoldsInv` says that no two flushers hold
  one event, that what is held is still pending and due, and that what a flusher has not
  come to is as it read it; `PushesInv`, that an event not in doubt has been pushed at most
  once per device and then counts as sent, on record or in the flush that will record it.
  `BatchIsBounded` shows that a batch is never empty nor larger than `limit`; it needs that
  sets of numbers have a least and bounded ones a greatest element (`Least`, `Greatest`).
* `NoticesAreKept`: `Spec => ImplementsNotice`. Pushes, doubts and commits concern only
  events a flusher holds, which `HoldsInv` says are pending, so they are moves of notices
  that are owed; that a commit settles each as what it is, is `AccountingIsHonest` of the
  state after it.
* `AccountsInvariant`: `Spec => []AccountsInv`, and from it `AccountsTypeCorrect`,
  `PeopleHaveOneAccount` and `VerifiedWereProved`. `PeopleInv` says that phones are unique,
  that every account can be logged in to and that a session leads to the account its proof
  names; the first needs the unique constraint at the insertion, not the look-up.
  `LoginsInv` says that whoever has got as far as the login with a phone has proved it.

Only model-checked: the liveness properties (`OwedRefundIsPaid`,
`FailedDeliveryIsClosed`, `EveryUploadIsDecided`, `EveryBannerIsBuilt`,
`EveryEventIsSettled`, `LimitsEnd`; fairness is outside the prover) and the three
violations. Every safety and action property of a passing run is also a theorem; the two of
banners that depend on the worker's build, for the one worker that is deployed.

## 5. Plan

Done: the order lifecycle with its abstract specification, the inventory, support,
product media, banners, notifications and accounts. Next, in this order:

1. Abstract specifications of further components, as `Deal` is one of orders and `Notice`
   one of notifications: what a ticket and an image promise, and that the detailed modules
   implement them.
2. Rider presence: eligibility and stale session objects in the assignment paths.

## 6. Not modelled

Discovery, geography, maps, language assistance and the clients keep no state the
properties depend on; audit rows are written and never read by a decision. Rider presence
and live tracking are coordinates and clock arithmetic over append-only rows: the models
let any free rider be chosen, which includes whatever the geometry selects. Store hours
and pricing are pure functions with one unit test per case; checkout uses the first as a
guard that only rejects, and no property is about amounts. Of product media, the captions,
order and primary flag of an image (one locked row) and the legacy upload that is closed
once the pipeline is on are left out; of login, the code the server keeps itself in
development; of identity, the capabilities other than `ADMIN_MANAGE`.
