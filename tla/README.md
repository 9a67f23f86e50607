# SwiftBite orders: TLA+ models

Models, checks and proofs of the order service in `src/`: a TypeScript/Express
service over Postgres (one shard per region, with an archive shard each), Redis
and RabbitMQ. Paths below are relative to the repository; `DS` is
`src/app/delivery/service/delivery.service.ts`.

Run a check with `tlc -config X.cfg M`, the proofs with `tlapm M.tla`.

## 1. The system

| Component | State | Operations | Interacts with |
|---|---|---|---|
| Order lifecycle (`app/order`) | `orders`, `order_items` | `placeOrder`, `updateStatus`, `applySystemStatusChange`, reads | payments (a captured charge places the order), delivery (a ready order is auto-assigned), core-service (stock), outbox |
| Delivery and assignment (`app/delivery`) | `deliveries` | `assign`, `tryAutoAssign`, `reassign`, `updateStatus` | orders (writes their status), presence (who is near and free), settlement |
| Settlement and balances (`settleDelivery`, `restaurant-balance.repo.ts`) | `restaurant_balances`, `transactions`, `agent_earnings` | `settleDelivery`, `lockRestaurantBalance`, `setRestaurantBalance` | orders, deliveries, outbox |
| Finance (`app/finance`) | the same balances | `recordPayout`, balance and payout lists | settlement (one balance row) |
| Payments (`app/payment`) | `payment_sessions`, `transactions`, `payment_webhook_events` | `init`, `refund`, the Kashier webhook | orders, outbox, the provider |
| Agent presence (`app/agent`, `lib/presence`) | `agent_presence`, Redis geo and busy sets | `online`, `offline`, `ping` | delivery (going offline reassigns) |
| Idempotency (`lib/idempotency`) | Redis entries, `idempotency_keys` | middleware around POST handlers | placing an order, every money-writing route |
| Outbox (`lib/events`) | `events_outbox` | `insertOutboxEvent`, `drainOutboxForRegion` | RabbitMQ |
| Core client (`lib/core-client`) | none | retried calls of core-service, the stock reservation among them | placing an order |
| Core events and caches (`lib/core-events`, `lib/cache`) | Redis dedupe keys and cached branches, products, permissions, lists | consume, invalidate, read through | core-service |
| Archival (`lib/jobs`) | hot and archive shards, a Redis lock | nightly two-pass move of last year's rows | read paths |
| Pagination (`lib/http/pagination`) | none | cursor encoding, `WHERE` and `ORDER BY` | every list |
| Read paths | none | lists routed to hot, archive or both shards | archival |
| Auth and RBAC (`lib/auth`), WebSocket (`lib/websocket`), infrastructure | tokens, sockets, connections | - | every handler |

Orders go `pending_payment`, `placed`, `accepted`, `preparing`, `ready`,
`assigned`, `picked`, `delivered`, or end `rejected` or `cancelled`
(`order-status.service.ts`). A restaurant makes an order ready; the controller
then starts an assignment in the background; the agent accepts, picks up and
delivers; `delivered` settles the money in one transaction.

### What is hard here

* Every handler is a chain of awaits. Between two of them any other request,
  in this process or another one, may run. Most handlers read, check and then
  `UPDATE ... WHERE id = ...` without looking again.
* Only three things serialise anybody: row locks inside a transaction
  (`lockRestaurantBalance`), unique keys (`transactions.idempotency_key`,
  `agent_earnings.delivery_id`, webhook event ids, idempotency keys), and the
  Redis archival lock.
* Postgres and Redis are written one after the other and nothing ties them.
* Callers retry: HTTP clients, Kashier, RabbitMQ. Answers get lost.

### What makes each part correct

* Settlement and payouts: no lost update of a balance, no double credit, no
  payout beyond the balance, all rows of a settlement or none, every request
  answered.
* Dispatch: one active delivery per order and per agent; order and delivery
  agree; no pick-up without acceptance, no payment without pick-up; bounded
  reassignment; the busy set matches the deliveries.
* Payments: an order is placed only for a captured charge; a charge is announced
  once and never rewritten; no row says that money went back which did not;
  every webhook is recorded in the end.
* Placing an order: an answered request names an order of its key and body whose
  stock is reserved; an order without stock is taken back; the events of an order
  tell its status.
* Idempotency: one order per key, whatever is retried, and the stored answer is
  the one of that key and body.
* Outbox: every committed event is published at least once, none is marked
  published that was not, repetitions need a fault, and an order's events come in
  order.
* Archival: no row is lost, every row of a past year is moved in the end, no
  foreign key stops a run.
* Lists and look-ups: pages are exact and orders are found while archival moves
  rows underneath.
* Caches: an invalidation is not lost, and a lost one is made up for by the TTL.

`PROJECT.json` lists the hazards line by line with the properties that watch them.

## 2. Modules

| Module | Role |
|---|---|
| `RestaurantLedger` | abstract: an account is a ledger, entries are posted once per key |
| `Settlement` | `settleDelivery` and `recordPayout` as interleaved transactions; implements `RestaurantLedger` |
| `SettlementProofs` | its theorems |
| `MCSettlement` | its instances |
| `OrderStatus` | the order status machine (pure) |
| `Dispatch` | prepared to delivered: orders, deliveries, presence, handlers as continuations |
| `DispatchProofs` | its theorems |
| `MCDispatch` | its instances |
| `Payments` | sessions, webhooks and refunds against an external provider |
| `PaymentsProofs` | its theorems |
| `MCPayments` | its instances |
| `Checkout` | placing an order: idempotency middleware, `placeOrder`, core's stock, status changes of the order |
| `CheckoutProofs` | its inductive invariant and theorems |
| `MCCheckout` | its instance |
| `EventStream` | abstract: at-least-once delivery of committed events |
| `Outbox` | `events_outbox` and overlapping drains; implements `EventStream` |
| `OutboxProofs` | its theorems |
| `MCOutbox` | its instance |
| `ColdStore` | abstract: rows move one way between two databases |
| `Archival` | the nightly run over seven tables, its lock, and the writers beside it; implements `ColdStore` |
| `ArchivalProofs` | its theorems |
| `Listing` | cursors, pages and merged pages (pure) |
| `History` | lists and look-ups, composed with `Archival` and `Listing` |
| `HistoryProofs` | its theorems |
| `MCArchival`, `MCHistory` | instances of `Archival` and `History` |
| `CoreEvents` | the caches of core's data and of lists, and the consumer that invalidates them |
| `CoreEventsProofs` | its theorems |
| `MCCoreEvents` | its instance |

### Settlement

A request is a process. Its `pc` says which statements of its transaction have
run, `commission` and `lockedBalance` are its locals, `held` the rows and index
keys its transaction has locked. Tables hold committed values; what a
transaction has written becomes visible in its commit action, which is
possible because every row it writes is locked by it (or written blindly).
Under READ COMMITTED an `UPDATE` or `SELECT ... FOR UPDATE` waits for the
holder of the row (`Hold`), an `INSERT` of a key waits for an open transaction
that inserted it and fails if the key is committed.

| Action | Code |
|---|---|
| `ReadDelivery`, `RefuseTransition` | `DS` 184-197, then 269-277 |
| `WriteDelivery`, `WriteOrder` | `DS` 283-305 |
| `InsertCommission`, `CommissionViolatesUnique` | `DS` 307-318, 392-395 |
| `SettleLockBalance` | `DS` 320-325 |
| `CommitSettlement`, `BalanceOutOfRange` | `DS` 326-376 |
| `PayoutLockBalance` .. `CommitPayout` | `finance.service.ts` 59-104 |
| `Abort` | crash, lost connection, failed statement: the `catch` |

Abstracted: amounts of agent earnings, other outbox events, WebSocket pushes,
the order's other columns. `commissionBps` is read from core-service and may be
any value of `BpsValues` at each read; `BpsAssumption` (at most 10000) is core's
data and nothing in this service checks it.

Run. `SettlementShared`: two deliveries of one order, the first named by two
requests (a retry), payouts of one key in two currencies and a third payout;
`MaxInt` 10 so that a credit can overflow the column. Two requests of each kind
on one row, or on one key, are enough for every pair of conflicting statements
to meet; the proofs cover any number. It sets `CHECK_DEADLOCK FALSE`: a finite
number of requests comes to an end; that no request *waits* forever is
`EveryRequestAnswered`.

Fairness (`FairSpec`): weak, per request. Node runs the continuation of every
settled await and Postgres grants a free lock to its waiters; a lock is held only
to the end of a transaction, so weak fairness of every holder is all the
property needs. Nothing forces an `Abort`.

### Dispatch

`req[r]` is what is left of handler `r`: `at` is the next step, the other
fields the locals it still needs. One action runs a handler up to its next
await of something others can see. The tables are `orderStatus`, `deliveries`
(a sequence: index is the id), the sets of deliveries whose `accepted_at` and
`picked_at` are set, those with a commission row (`settled`), `online`, and
Redis' `geo` and `busy`.

| Actions | Code |
|---|---|
| `ReadOrder`, `WriteOrder`, `CancelDeliveries` | `order.service.ts` 557-635, `order.controller.ts` 139-163 |
| `TryAutoAssign`, `Assign` | `DS` 74-138, `assignment.service.ts` 84-104 |
| `PickAgent`, `CreateAssignment`, `MarkBusy` | `assignment.service.ts` 41-150 |
| `Reassign`, `ReassignRefused`, `WriteReassigned`, `MarkFree` | `DS` 140-176 |
| `ReadDelivery`, `WriteDelivery`, `PickOrder` | `DS` 178-261 |
| `Settle`, `SettleTwice` | `DS` 264-396, as one transaction (see Settlement) |
| `GoOnline` .. `RedisPing` | `presence.service.ts`, `presence-store.ts` |
| `Crash` | the process dies or a call throws between two steps |

Abstracted: positions, radii and the 90-second freshness of a row (any agent who
is near in Redis or a candidate in Postgres, or none, may be found); that Redis'
busy set is read an instant before its geo set; the chain counted at the
rejection (a row's `reassigned_from` never changes); pushes and outbox rows.
Orders start as `preparing` or `ready`, agents as online or not.

Runs. `DispatchSerial` runs one handler at a time without failures: what the
code means to guarantee about orders and deliveries does hold then, on two
orders and two agents, with room for a chain as long as its bound.
`OrderMatchesDelivery` says exactly which orders are on their way with nobody on
them: those whose last agent rejected or was taken off (no step repairs them).
`DispatchRaces` runs two at once, with crashes and a failing Redis, on one order
and one agent. `MaxDeliveries` bounds the rows ever created and only cuts
behaviours short. All set `CHECK_DEADLOCK FALSE`: at that bound a handler may
have nowhere to go.

`DispatchTwoPerOrder` expects a violation, of a sentence quoted in `findings` of
`PROJECT.json`: two assignments of one ready order both create a delivery.

### Payments

Each HTTP request is a process again. A webhook runs one transaction as in
Settlement: `pc` is the next statement, `found` and `toMark` its local session,
refund and charge, `held` its rows and index keys, and its writes appear in
`Commit`. `init` and `refund` run single statements, each its own transaction,
with the call of the provider in between.

| Actions | Code |
|---|---|
| `ReadPending`, `FindSession`, `CreateSession`, `InitFails` | `payment.service.ts` 52-116 |
| `ReadCharge`, `InsertRefund`, `CallProvider`, `SetReference`, `CatchRefund`, `SettleCash`, `MarkCash`, `RefundDies` | `payment.service.ts` 150-221 |
| `Receive`, `RecordEvent`, `DuplicateEvent` | `kashier-webhook.service.ts` 57-107, `payment-webhook-event.repo.ts` |
| `FindPaidSession` .. `UpdateOrder`, `CommitPayment` | `kashier-webhook.service.ts` 178-297 |
| `FindRefund`, `UpdateRefund`, `MarkCharge`, `CommitRefund` | `kashier-webhook.service.ts` 299-320 |
| `Commit`, `Rollback`, `ChargeViolatesUnique` | `kashier-webhook.service.ts` 122-161 |
| `ReadOrder`, `WriteOrder` | `order.service.ts` 557-611, the other writer of `orders.status` |
| `Pay`, `ConfirmRefund`, `Redeliver` | Kashier, external: modelled from what `src/` expects of it |

The provider is assumed to take one successful payment per session page (a
failed one may be followed by another), to accept any refund, and to deliver a
webhook until it is answered 200 - several deliveries of one event at once
included. A refund's reference is its own or, when the answer names no
transaction, the charge's (`kashier.client.ts` 97): `RefundTx` says which.
`Rollback` and the lost answers of `Commit`, `CallProvider` and `SetReference`
are faults, bounded by `MaxFaults`. Cash orders start delivered, with their
`cod_collection` row succeeded. Abstracted: the signature check, amounts,
pushes; the two outbox rows of a charge are one count.

Runs. `PaymentsCapture`: two `init` requests of one order, payments c1 and c2,
two deliveries of c1's success, one of a failed attempt under the same
transaction, a webhook of an unknown order, one staff or customer request on the
order, one fault. Two of everything that can meet (two deliveries of an event,
two events of a transaction, two transactions of an order, two sessions) is what
a conflict needs; the proofs cover any number. `PaymentsRefund`: one charge, two
refunds of it with one shared reference, two deliveries of the confirmation, a
cash refund, one fault; it also checks liveness, on the smaller instance because
strong fairness is expensive to check. Both set `CHECK_DEADLOCK FALSE`: the
requests come to an end.

Fairness (`FairSpec`): weak for a refund's and a status change's handler, which
Node runs to their end; strong for a webhook, because Postgres grants a row to
its waiters in turn, so that a webhook cannot be overtaken for ever by others
that fail and come again (with weak fairness TLC shows exactly that). Nothing is
assumed of customers, of the provider's decision, or of faults.

`PaymentsLateSuccess` expects a violation: a payment that succeeds after a failed
attempt on the same page is acknowledged and never recorded.

### Checkout

A `POST /orders` request is a process and names the order it creates, if any.
`pc` says where it is between two awaits; `orders` and `events` are the order's
row and the statuses its outbox rows announce; `redis` and `saved` say whose
answer is stored under a key, `storing` which stores are on their way (the
middleware does not wait for them); `stock` and `reserved` are core's. Beside it
`PATCH` requests change the status of whatever orders there are.

| Actions | Code |
|---|---|
| `Hit`, `Miss`, `RedisDown`, `Fallback`, `FallbackFails` | `idempotency.ts` 54-116, `idempotency-store.ts` 26-47 |
| `Validate`, `Refuse`, `Create`, `CreateFails` | `order.service.ts` 125-272 |
| `ReserveStock`, `ReserveRefused`, `ReserveRetry`, `ReserveUnavailable` | `branch.client.ts` 92-102, `core-client.ts`, `retry.ts` |
| `Compensate`, `CompensateFails` | `order.service.ts` 289-303 |
| `Answer`, `StoreRedis`, `StoreTable`, `StoreLost`, `Expire` | `order.controller.ts` 40-54, `idempotency.ts` 119-146 |
| `ReadOrder`, `WriteOrder` | `order.service.ts` 557-611 |
| `Crash` | the server dies under a request |

Core is external: one reservation per `Idempotency-Key`, which is the order's
public id. Abstracted: the checks of branch, address and products (one choice
between `Validate` and `Refuse`), prices, more than one product per order. A key
is one customer's, as clients make keys up at random.

Run. `Checkout`: a request, its retry, and a request that uses the key for
another (online) order, two of them with a region header; two pieces, two
attempts, two faults, one status change. The retry may come before, while or
after the first request runs, Redis may be down for either, and core may have
reserved with its answer lost. `RetriesPlaceOnce` says which pairs of requests of
one key may both place an order: only one that was let through while the other
was still under way or its answer not yet stored. Fairness: weak for the requests
in flight together, which Node runs to their ends; nothing is assumed of clients, stores and
faults. `CHECK_DEADLOCK FALSE`: the requests come to an end.

### Outbox

A drain is a process. `todo`, `sent` and `failed` are its batch, split by what
became of each row; all of them are locked by its transaction and passed over by
the others (`FOR UPDATE SKIP LOCKED`). `stream` is what the exchange has
received. `createdAt` is when the inserting transaction *began*, `priors` (history)
what was committed then.

| Actions | Code |
|---|---|
| `InsertOutboxEvent`, `CommitDomain` | `outbox.repo.ts` 35-49 in a domain transaction, e.g. `order.service.ts` 581-610 |
| `Claim` | `drain-outbox.ts` 10-19, `outbox.repo.ts` 51-62 |
| `PublishEvent`, `PublishFails` | `drain-outbox.ts` 21-39 |
| `Finish`, `Abort` | `drain-outbox.ts` 41-46, `outbox.repo.ts` 64-84 |

A failed publish may have reached the exchange. `Abort` is an error, a lost
commit or a crash: the rows come back, what was published stays published.

Run. `Outbox`: three events, two drains, batches of two, one fault: a batch may be
full, cut off, or pass over locked rows. `DeliversAtLeastOnce` is the abstract
`EventStream`, its liveness included. Fairness: weak for the drains
and their timer together (some step of one is taken as long as there is any);
nothing forces a fault, and their number is bounded: a broker that fails for ever
delivers nothing.

### Archival and History

A run is a process; `table`, `cutoff`, `cursor` and `batch` are its place in pass 1
(`insert`) or pass 2 (`delete`). A row is the version of its content in each
database, 0 where it is absent, so that an update that is lost shows. Each batch
is read in one step and written in another.

| Actions | Code |
|---|---|
| `Start`, `LockLapses`, `End` | `archival.worker.ts` 206-246, `archival-lock.ts` |
| `SelectInsert`, `InsertBatch` | `archival.worker.ts` 100-148 |
| `SelectDelete`, `DeleteBatch` | `archival.worker.ts` 150-203 |
| `BudgetEnds`, `Stop`, `Fails`, `Dies` | the time budget, a failed statement, `kill -9` |
| `NewYear` | `cutoffIso()` (64-67) reads the clock again for each table |
| `Write` | any request that inserts or updates a row |
| `Ask`, `FetchPage`, `FetchStraddling`, `Close` | the list routes, `cursor-pagination.ts`, `parse-query.ts` |
| `LookHot`, `LookArchive` | `getOrder`, `order.service.ts` 313-325 |

Foreign keys are checked at the end of each statement, deletions of an order take
its items along. Renewals of the lock are folded into when it may lapse. `Listing`
has the pure part: limits, the cursor of milliseconds over columns of
microseconds, both sort orders, the page merged from two databases.

Two constants say what the code relies on and does not enforce: `LateWrites` (a
row of a past year is still written) and `MidRunNewYear` (a year ends during a
run). `Quiet` is that neither happens; both are false in the runs, and the
theorems assume it. What happens without it is under the disagreements.

Runs. `History`: two orders of a past year placed in one millisecond, one with
an item, a charge, a reassigned delivery and an earning; one order of the current
year that waits for New Year; two overlapping runs, batches of two, one fault
(a death, an error, the budget, a lapsed lock), one client that follows a list's
cursors or looks an order up. Four lists cover each way to route one and
both directions. `NeverBlocked` holds in this
instance because it has no refund (`NoRefundsAssumption`), `ListsExact` because ids
ascend with stamps (`IdsAscendAssumption`); `ArchivalRefunds` expects it violated: when a
charge and its refund fall into different batches, the foreign key between them
stops the run, every night. Fairness: the timer keeps starting runs and a run
goes on until it ends or dies (weak, for all runs together), Redis lets a dead run's lock go. `CHECK_DEADLOCK FALSE`:
the clock ends at `LastYear`.

### CoreEvents

A view is one cached key (a branch, a product list, permissions, a list of
`withCache`), an entry the version of its owner's data that was read. `log` is the
owner's changes, `copies` the messages of each change's event, `seen` the dedupe
keys.

| Actions | Code |
|---|---|
| `TrySet`, `Skip`, `Handle`, `SetFlag`, `HandlerFails` | `consumer.ts` 52-69, the handlers, `rabbitmq.client.ts` 80-94 |
| `Get`, `GetFails`, `CoreAnswers`, `CoreFails`, `ServeStale`, `Set`, `SetStale`, `SetLost` | `branch.client.ts`, `permission-cache.ts`, `withCache.ts` |
| `Expire`, `ExpireStale` | the TTLs |
| `Change`, `Duplicate`, `Redeliver` | core and the broker, external |

Time is abstracted: an entry may expire at any moment, and does in the end.

Run. `CoreEvents`: one reader, a branch (announced) and permissions (not
announced, with a stale copy), two changes, two faults (a duplicate, a failed call
of Redis, a crash). Readers meet only in the cache, and one reader's fill can
already be late for any event; the proof covers any number. `InvalidationsWork` says when an old entry survives its event: only when
a reader filled it with an answer from before the change, or for
`restaurant.suspended`; `EventuallyFresh` that the TTL then ends it. Fairness:
expiry, and that a reader does not stop half-way; the consumer need not run at
all.

### Disagreements without a run of their own

Met while modelling; each is a behaviour of the models unless it says otherwise.

Orders and deliveries:

* Reassigning a picked delivery puts its order back to `assigned`, where
  `TRANSITIONS` has no rule, and so do stale status checks
  (`order.service.ts` 569 and 587).
* A reassignment that finds no agent leaves its order `assigned` with nobody on
  it; `assignment.service.ts` 66 says it stays `ready`. No step of the code
  repairs it.
* With overlapping handlers an agent is marked busy after having been freed
  (`assignment.service.ts` 131); without overlap `NoPhantomBusy` holds.
* An agent who goes online again while on a delivery is free for a second one
  (`presence-store.ts` 52, "Going online resets state"; `delivery.repo.ts` 238 calls
  one active delivery per agent an invariant).
* A cancelled order keeps its delivery when a handler fails or interleaves
  between the two writes: `order.service.ts` 51 wants them in one transaction,
  616 runs the second after the commit.
* Two active deliveries of one order can both be settled, each once.

Payments:

* `applySystemStatusChange` places an order that was cancelled meanwhile.
* A refund whose answer is lost is marked failed though the provider accepted it
  (`payment.service.ts` 197-198).
* A refund's webhook that overtakes `setTransactionProviderReferenceId` is
  recorded as processed and the refund stays pending: `ConfirmedRefundsSettle`
  states the condition under which it does not.
* The error of a failed webhook is written to a row the rollback has removed
  (`kashier-webhook.service.ts` 154). In the model `eventError` only ever names
  committed events, after a lost commit answer.
* When FAILED and SUCCESS of one provider transaction both find a session, the
  second violates the key `charge:<transaction>` and is answered 500 for ever;
  `webhook.controller.ts` 14 says everything past the signature is answered 200.
  `EventsAreRecorded` therefore allows the other outcome to have been recorded.
* Two refunds of one charge both pass the check of `is_refunded`, a part counts
  as the whole (`transaction.repo.ts` 236), and `data.amount` has no upper bound
  in the service; amounts are not in the model.

Placing an order:

* The middleware keeps nothing under a key while its first request runs: a retry
  that overtakes the answer, or its store, places a second order. A replay is
  answered 200, not 201, and the fallback table never looks at `expires_at`.
* `idempotency.ts` 38 says that keys are scoped by user. Redis' are; the hash
  under which the table has them is not (`idempotency-store.ts`), and the
  model's assumption that a key is one customer's is needed there. The table
  backs orders and payouts; `idempotency-store.ts` 23 speaks of orders and
  `payments/init`.
* An order taken back after a failed reservation is cancelled without an event
  (`order.service.ts` 301; 581 says a status change and its event commit
  together), and when the commit's answer is lost it is not taken back at all.
* A status change that was read before the compensation and is written after it
  brings the order back without its stock.
* The stock of a cancelled or rejected order is never given back to core.
* `isActive` of a branch is cached and not checked by `placeOrder`.

Archival and lists:

* `README.md` 76: "nothing is deleted from hot until every table has been durably
  archived". `cutoffIso()` is evaluated for each table (`archival.worker.ts`
  64-67, 109, 166), so at New Year pass 2 may delete what pass 1 has not seen
  (`MidRunNewYear`).
* A row that is written after it was read into a batch keeps its old version in
  the archive (`ON CONFLICT DO NOTHING`), and the new one is deleted
  (`LateWrites`).
* A customer's list of a past year is read from the archive before the run has
  moved it; agents' tasks and earnings and the payouts are only ever read from
  hot.
* A straddling page ignores its cursor and gives none, and shows a row that is in
  both databases twice.
* A run that stops at its budget starts pass 1 from the lowest id again.
* The cursor orders the rows of one millisecond by id, `ORDER BY` by
  microseconds: a page is exact as long as the two agree (ids and `created_at`
  ascend together).

Caches:

* `branch:reject-orders` is set and deleted and never read, and overlapping
  handlers may leave it set for a branch that is active again.
* `restaurant.suspended` deletes a key nobody writes.
* A server that dies after setting the dedupe key has the message delivered
  again, skipped and acknowledged.
* A fill that races with an invalidation stays until its TTL.

## 3. Proofs

All theorems hold for every value of the constants that satisfies the named
assumptions of its module, and so for any number of requests, drains, runs, rows
and faults. They only say what the constants are (which request names which
row, that ids are numbers, that `None` is nothing else), but for `BpsAssumption`
(see Settlement). Some theorems assume more, and say so in their statement:

| Assumption | Theorems | Why |
|---|---|---|
| `Quiet` | `NothingStays`, `ImplementsColdStore`, `BackwardsIsEnough`, `OrdersAreFound` | see Archival |
| `Backwards` | `BackwardsIsEnough` | no charge has been refunded; with one, `ArchivalRefunds` shows the run stopped |
| `IdsAscend` | `WalksAreExact` | the cursor orders a millisecond by id, `ORDER BY` by stamp |
| `Serial` | the second half of `DispatchProofs` | nothing keeps handlers apart; `DispatchTwoPerOrder` shows what two of them do |

Each proof is an inductive invariant, one lemma per action or group of actions,
and a temporal step.

`SettlementProofs`. `IInv` strengthens the wanted invariants with: no two
transactions hold one row (`LocksExclusive`), and what a request relies on at
each statement (`RequestOK`): it holds the balance row and its copy of the
balance is current; it holds its index key and the key is not committed; its
payout is covered. Without these, one step of the commit could not be shown to
keep the balances. The proof has one lemma per action, grouped by what it
disturbs; the temporal step is `Init`, `[Next]_vars` and PTL. `ImplementsLedger`
maps `transactions` to the ledger's entries and shows each commit to be one
`Post` and every other step a stutter. `BalancesMatch` rests on the same fact,
that a commit adds one row and its net amount to one balance (`Books`), and on sums
over finite sets. The provers cannot use an induction theorem that takes an
operator, but they can use that a non-empty set of naturals has a least element
(`LeastNat`): were a set without a recursion for its sum, or one whose sum depended
on which element is taken out first or on what else there is, there would be a
smallest such set, and it is not one (`SumsExist`, `SumsAdd`, `SumsAgree`).

`DispatchProofs`. Checks on stale reads are worth little, so the invariant uses
what cannot become stale: rows are never removed, keep their order and keep
their timestamps (`Grows`); `RestOK` says, for every place a handler may be,
which such fact it relies on (`writeDelivery` to `picked` names a delivery that
was accepted, and so on). It follows that no delivery is picked up that was not
accepted or settled that was not picked up (`ColumnsInOrder`), and that an
order's status has a delivery behind it (`StatusBacked`). What cannot become stale
either is how long a chain is, for a delivery never changes what it replaces: a
handler that found the chain short enough still may replace its last delivery when
it comes to it (`MayReplace`), and so the chains stay bounded
(`ChainsStayBounded`). That the recursion which counts a chain exists, and gives the
same after a step as before, is again shown at the least delivery for which it would
not (`LengthsExist`, `LengthsAgree`).

The second half assumes `Serial`: one request at a time, and no failure. Then
`SInv` says, for every place the handler may be, that what it has read is still so
(`Fresh`), that an active delivery is the last of its order (`ActiveIsLast`), that a
settled delivery's order stays delivered (`SettledFinal`), and that an order whose
status does not agree with its delivery, or an agent that is busy without one, is
what the handler's next step will see to (`Accounted`). The four properties of
`DispatchSerial` follow for any orders, agents and bounds. `Serial` is no more than
what they need: the code has nothing that keeps handlers apart, and with two of them
`DispatchTwoPerOrder` shows the first property violated.

`PaymentsProofs`. `PlacedOrdersArePaid` alone is not inductive: a webhook about to
commit must know that its charge will be new and of its order. `IInv` adds, for
every place of a webhook, that the key of the charge it has inserted is in
`held`, that no two transactions hold a key (`LocksExclusive`), that no committed
row has it (`WebhookOK`), and that what it found belongs to its order or its
accepted refund; for a refund, that its reference is known only after the
provider accepted it (`RefundOK`); for a status change, that a target other than
`cancelled` was read from a paid order and stays justified, because a charge is
final (`MoveOK`). `ChargesAreFinal` follows from the same facts at `Commit`, the
only step that writes a charge's status.

`CheckoutProofs`. What makes `RetriesPlaceOnce` true is spread over Redis, the table
and the stores on their way, so `IInv` says of the stores that what is stored under
a key is an answer of that key and that a store that has landed left one
(`StoresTrue`); of each request how its order, its stock and its answer go with
where it is (`Own`); and of each pair of requests of one key that nobody has to
excuse, that one is past the middleware at most, and that while one looks in the
table the other's answer is there (`Gate`). Answers, orders and reservations are
never taken back, so a step only has to be shown harmless for the request that
moves (`RequestStep`). From `IInv` follow all four invariants of the run.

`OutboxProofs`. `IInv`: claims are exclusive, a row in a drain's hands is not
marked, what is marked or counted as sent was published, and copies are paid for
by faults or by the copy that settles the row. For the order of events it adds
that, without a fault so far, what was committed before a claimed event began is
published, in the same batch or in another drain's hands (`PriorsClaimed`).
`ImplementsStream` maps the rows to `EventStream`.

`ArchivalProofs`. Under `Quiet`, `IInv` says that both databases and every batch
have the current version of what they have, that what a run's cursor has passed is
in the archive and what it is about to pass in its batch (`PassOneComplete`), and
likewise what pass 2 is done with is gone (`PassTwoComplete`), though another run
whose predecessor's lock lapsed works on the same rows. It follows that a run that
comes to its end by itself leaves nothing of a past year in hot (`NothingStays`),
and that the steps are those of `ColdStore` (`ImplementsColdStore`).
`BackwardsIsEnough` is what the worker says of its order of tables and ids. Where
every pointer goes back (`Backwards`), what an insert points to comes before it, in
a table or at an id that the cursor has passed, and so is in the archive or in the
same batch; what points to a row that is deleted comes after it, and so is gone from
hot or goes in the same batch. It needs one fact more: what a batch of pass 2
has is the last of its table.

`HistoryProofs`. A list's order and the merged page's are total orders on rows, so a
page is the first elements of a finite set under one of them, as many as asked for
or all. Under `IdsAscend` the cursor's order of milliseconds and ids agrees with the
list's, so a page shows what is beyond its cursor, and what it leaves out is beyond the next
one (`PageOf`). `WalkInv` says of a walk that what it has shown is behind its cursor,
and that what was there all along is shown or beyond it; that rows come and go
between two pages does not matter to either. A straddling page loses nothing by taking
only as many rows of each database as it may show (`StraddlingOf`). For look-ups the
invariant says that an order the reader has not found in hot is in the archive
(`LookInv`), which rests on `Archival`'s invariant: the archive has it before hot
loses it. `HistoryIsArchival` carries `Archival`'s theorems over.

`CoreEventsProofs`. `NoEventSkipped` needs to know, for each dedupe key, which
delivery set it and where that one is: in its handler, dead, handled, or lost with
its server (`SeenOK`); and for each message, that it leaves the queue only with the
key set (`MessageOK`). `OldEntriesGo` needs that the log's last change of a view is
its version (`NewVersion`) and that a change nobody was told of is not handled
(`OnlyChanges`). `InvalidationWorks` is the run's invariant for any readers, views,
changes and faults.

Only model-checked: `EveryRequestAnswered`, `EventsAreRecorded`,
`ConfirmedRefundsSettle`, `RequestsEnd`, `EventuallyFresh` and the progress of
`EventStream` and `ColdStore` (liveness); and the runs that expect a violation.

## 4. Plan

Done: every module of the table above. What is left is stock over the whole life
of an order, composed with Payments: blocked by what the code does (it never gives
stock back), until it does.

## 5. Not modelled

* Authentication and RBAC: checks of one request against its own token. Whom they
  admit is an input of the models (callers, actors); the permission cache is in
  `CoreEvents`.
* WebSocket pushes: best effort, after the commit, and nothing reads them back.
* Infrastructure: connections, configuration, dependency injection, logging,
  migrations but for their keys and columns: I/O without a protocol.
* Of the read paths: shaping rows into answers, item counts, sums of earnings, and
  filters other than dates.
* The middleware around other routes than `POST /orders`: the same code. In
  `Settlement` and `Payments` a retried request simply runs again, as it does when
  the middleware has nothing stored, which is the harder case.
