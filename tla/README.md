# Verification of the communication-patterns course module

This directory holds the formal model of the programs in this repository: TLA+ modules,
the TLC configurations that check them on small instances, and proofs checked by TLAPS.
The repository is a course module of eight lessons. Each lesson is a small
distributed program written first in TypeScript (NestJS), the reference, and ported to Java
(`1-java`), C# (`2-csharp`) and Go (`3-go`); lesson 1 exists in TypeScript only. There
are no unit tests; the transcripts in `.e2e/<language>/flow-*-done.md` record what each
program is expected to answer, and the READMEs and comments what it promises.

## 1. Inventory

The state, the operations and the partners of each part, what is hard about it, and what makes it correct.
All eight TypeScript programs are modelled; their ports are not (section 7).

| Lesson | Services, state and operations | Interaction | Hard part | Correct if |
|---|---|---|---|---|
| 0 api-gateway | user, product and order services, each an in-memory list and a counter; `create`, `list` | HTTP through Kong, which routes by prefix, answers 404 and 502, and may send a GET again | a service stops between its answer and the client's, and restarts with an empty memory | the status says what happened, no request creates two items, a list shows what was acknowledged |
| 1 synchronous REST/gRPC | a gateway; user and product backends over constant tables | one gRPC call per HTTP request, over one channel per backend, without a deadline | a backend stops under a call; a channel that could not connect rejects calls for a while although the backend is back; the path id becomes a number and then an int32; the id 0 is the sentinel for "not found" | 200 and 404 are true of the record asked for, and a 500 is explained by an outage of its own backend |
| 2 asynchronous events | order service with orders in memory; inventory and notification consumers that log | `createOrder` emits to Kafka and does not wait; two consumer groups | the answer does not depend on the emit; retries repeat and reorder events; ids are random; a group without an offset starts at the end | a group that has committed skips nothing; every answered order reaches both groups unless its event was lost, or is older than a start of a group without an offset |
| 3 publish/subscribe | a publisher; three subscribers that log | NATS core: fan-out, at most once, nothing stored | the answer comes before the server has the message; whoever is away misses it | a subscriber sees each message at most once and in order, and all of them while nobody stops |
| 4 database per service | orders table; products collection | Kafka, order created, stock decremented | the read and the write of a stock are two queries; redelivery; an event appended twice; no offset | no stock below zero, only orders take stock, the two databases agree |
| 5 saga | orders, payments, products and fulfillments tables, one topic, three consumer groups; `POST /order`, `POST /check`, the event handlers | choreography over one Kafka topic | crash between save and emit, redelivery, an event appended twice, `/check` racing the consumer | one verdict, money moves once each way, the three databases agree, only a lost event strands an order |
| 6 CQRS | customers table (write side), search index (read side); upsert command, profile handler | RabbitMQ, acknowledgement by hand, prefetch 1 | order of publications against order of saves, crash between save and publish, redelivery | the read model never goes back, and converges to the write model |
| 7 event sourcing | event and snapshot tables; open, deposit, withdraw, close, get, events, state at a version, snapshot, rebuild | HTTP; one Postgres database | check before lock, snapshot job before commit, two-query loads, hash collisions, restarts | no hole, no conflict, a load is a replay, an answered command is in the log, the log is append only |

## 2. Plan

The order of the modules, the most important behaviour first, and what each still lacks:

1. `EventStore` (lesson 7), with the abstract specification `AppendOnlyLog`: modelled; its safety and the refinement are proved.
2. `Saga` (lesson 5): modelled and proved, but for liveness.
3. `Cqrs` (lesson 6), with `Projection`: modelled and proved, but for liveness, which is one half of the refinement.
4. `DatabasePerService` (lesson 4): modelled and proved, but for liveness.
5. `EventDriven` (lesson 2) and `PubSub` (lesson 3), with `FanOut`: modelled and proved, but for liveness.
6. `ApiGateway` (lesson 0) and `RestGrpc` (lesson 1): modelled and proved, but for liveness.

Every safety property and every action property that the passing runs check is stated by a theorem. Worth modelling next: what the ports of
lessons 4 to 7 do differently (section 7).

Composition: the services of a lesson meet only through a broker or a database, so one module
per lesson composes them over that shared state (`Saga` is three services and a topic). Lessons
share no code and never talk to each other, which is why two instances (`MCGateways`, `MCBrokers`) put several lessons side
by side: a behaviour is one of the lesson that its first state names, and the others stay at their beginning.

## 3. Modules

| Module | What it is |
|---|---|
| `AccountProjection` | the pure part of lesson 7: events, `applyEvent`, folds of rows |
| `EventStore` | the account service as concurrent tasks over Postgres |
| `EventStoreProps` | its type invariant and properties, and the refinement mapping to `AppendOnlyLog` |
| `AppendOnlyLog` | abstract specification: one log per account, which only grows at its end |
| `MCEventStore` | TLC constants and symmetry |
| `AccountProjection_proofs`, `EventStore_proofs` | lemmas and theorems of lesson 7 |
| `Induction` | induction over the naturals and over finite sets, and sums over finite sets, for the proofs of lessons 4, 5 and 7 |
| `Saga` | order, payment and inventory services, the topic and the consumer groups |
| `SagaProps` | its type invariant and properties |
| `MCSaga` | TLC constants and symmetry |
| `Saga_proofs` | lemmas and theorems of lesson 5 |
| `Cqrs` | write service, queue, read service and index |
| `CqrsProps` | its type invariant and properties, and the refinement mapping to `Projection` |
| `Projection` | abstract specification: a read model that follows the published messages and never goes back |
| `MCCqrs`, `Cqrs_proofs` | TLC instance; lemmas and theorems of lesson 6 |
| `DatabasePerService` | order service, topic and inventory service |
| `DatabasePerServiceProps` | its type invariant and properties |
| `DatabasePerService_proofs` | lemmas and theorems of lesson 4 |
| `EventDriven`, `EventDrivenProps` | order service, its Kafka client, the topic and the two consumer groups |
| `PubSub`, `PubSubProps` | publisher, NATS server and the three subscribers; the refinement mapping to `FanOut` |
| `FanOut` | abstract specification: delivery at most once, in the order of publication, to each subscriber |
| `MCBrokers`, `Brokers_proofs` | TLC instances of lessons 2, 3 and 4; lemmas and theorems of lessons 2 and 3 |
| `ApiGateway`, `ApiGatewayProps` | the three services behind Kong, and their clients |
| `RestGrpc`, `RestGrpcProps` | the REST gateway and its two gRPC backends |
| `MCGateways`, `Gateways_proofs` | TLC instances, lemmas and theorems of lessons 0 and 1 |

Operators marked `Faulty:` are wrong variants of the definition that follows them. No specification
uses them; replacing the definition by its faulty variant must break the property it is paired with, which shows that
the property depends on that line of the code.

### EventStore

A task is one asynchronous computation of the Node process: an HTTP request (`<<r, "http">>`) or the
snapshot job that an append starts without awaiting it (`<<r, "auto">>`). Every `await` is a
program point (`pc`), and the code between two of them is one action:

| Action | `account.service.ts` / `account.controller.ts` |
|---|---|
| `OpenAccount`, `LoadAccount`, `AskLog`, `AskStateAt`, `AskRebuild` (`AccountController`) | the controller receives a request |
| `ReadSnapshot`, `ReadEvents` | the two queries of `_loadState`; `AfterLoad` is the check of `deposit`, `withdraw` and `closeAccount` that follows |
| `ReadLog` | `getStateAtVersion`, and `getEvents`, whose answer is the same rows |
| `ListAccounts`, `RebuildNext` | `rebuildAllProjections` |
| `LockAndReadVersion`, `InsertEvent`, `CommitEvent` | the transaction of `_appendEvent`: advisory lock and `MAX(version)`, insert and start of the snapshot job, commit |
| `FindSnapshot`, `SaveSnapshot` | `takeSnapshot` |
| `TaskFails` | a query fails: the task ends, its transaction is rolled back, its lock is freed |
| `Bootstrap` | the process stops and starts again: all unfinished tasks end so |

`events` and `snapshots` are the committed rows. `decided` and the field `floor` are
history variables: the version an event was checked against, and the last version when a load began. The service keeps
nothing in memory between requests. The
hash of the lock key is a constant function and may collide.

### Saga

The Kafka topic is a sequence that only grows and `position` counts the messages each consumer group
has handled; `committed` is the offset a group is sure to restart from. Every `await` in the handlers is a program point:

| Action | Code |
|---|---|
| `CreateOrder`, `AnnounceOrder` | `orders.service.ts` `create`: save, then emit |
| `OrderHandler` | `orders.service.ts` `handleSagaEvent` (one unconditional UPDATE) |
| `PaymentHandler`, `SavePayment`, `EmitPayment` | `payment.service.ts` `handleSagaEvent`: findOne, save, emit, for both branches |
| `InventoryHandler`, `Check` | `tryFulfill` called by the consumer, or by `POST /check` with any body |
| `FindFulfillment`, `FindProduct`, `SaveProduct`, `SaveFulfillment`, `EmitVerdict` | the awaits of `tryFulfill` |
| `HandlerFails`, `RequestFails` | a query or an emit throws |
| `KafkaRetries` | the broker has appended an event that is being emitted (`Sending`), its acknowledgement is lost, and the producer, which is not idempotent, sends it again |
| `OrderBootstrap`, `PaymentBootstrap`, `InventoryBootstrap` | a service stops at any point and starts again; its group restarts from any offset between the committed one and the message it was handling |

`resent` is a history variable, the events appended by `KafkaRetries`; `MaxResends` bounds it. It is what tells an event that a producer repeats from
one that a service emits twice.

### Cqrs

`published` is every message there has been; the queue is what follows the first `acked` of them. With prefetch 1 and
a requeue that puts a message back in its place, the consumer always works on the first message that is not acknowledged.
The index holds the number of the message it shows for each customer.

| Action | Code |
|---|---|
| `Receive` | `customer.controller.ts` `update` and `execute` up to the save (what `findOne` answers makes no difference to the entity) |
| `Load`, `InsertRow`, `UpdateRow` | `repo.save`: TypeORM loads the row, then inserts it or updates the columns that differ |
| `Publish` | `eventBus.publish`, `PublishCustomerProfileUpdatedHandler`, `RmqEventPublisher`: nobody waits for the broker |
| `UpdateFails`, `WriteBootstrap` | a query or the emit fails; the write service stops and starts again |
| `Deliver`, `IndexApplies`, `Acknowledge` | `handleProfileUpdated`: the index request is sent, applied, acknowledged |
| `Requeue` | the nack |
| `ReadBootstrap`, `LateApplies` | a lost channel or process: the message is requeued, and an index request under way may be applied later |
| `GetById` | `GET /customer/:id` |

### DatabasePerService

| Action | Code |
|---|---|
| `CreateOrder`, `EmitOrder` | `orders.service.ts` `create`: save, then emit |
| `CreateProduct` | `inventory.service.ts` `create` |
| `OnOrder` | `order-events.controller.ts` `onOrder`: the guards on the event |
| `FindProduct`, `SaveProduct`, `FinishOrder` | `decrementStockByProductName`: the two queries, and the end of the handler |
| `InventoryBootstrap` | the consumer of `bootstrap.ts` starts, also after a `Crash`: from its committed offset, or from the end of the topic when there is none |
| `RequestFails`, `OrderBootstrap` | a request fails after its row is saved; the order service stops and starts again |
| `KafkaRetries` | an event is appended and its acknowledgement lost, so that it is appended again |
| `HandlerFails`, `Crash` | a failed query, a stop of the inventory service |

Offsets are committed at the end of a batch, so `Return` chooses whether a message is the last of its batch.

### EventDriven

One sequence is the topic; a group is a position in it, the offset it has committed, and what it has handled.
`createOrder` and the handlers have no await that matters: they are one step each. Three fields of a group are history: where it first started (`first`),
whether it ever stopped before it had committed anything (`forgot`), and where it last started without an offset (`since`).

| Action | Code |
|---|---|
| `OrderAppController` (`PlaceOrder`) | `order/src/app.service.ts` `createOrder`: a random id, the order kept, the event handed to the client, the answer |
| `KafkaAppend` | the producer's send, in any order among those under way, and again when the acknowledgement was lost |
| `GiveUp`, `OrderAppBootstrap` | a send that fails at last; the order service stops and starts without its orders |
| `InventoryAppBootstrap`, `NotificationAppBootstrap` (`JoinGroup`) | `bootstrap.ts`: the consumer starts from its offset, or from the end |
| `InventoryAppController`, `NotificationAppController` | `handleOrderCreated`, `updateStock`, `sendNotification`; the offset is committed with this message or with a later one |
| `GroupStops` | a consumer stops |

### PubSub

| Action | Code |
|---|---|
| `PublisherController` (`Publish`) | `publisher-service/src/app.service.ts` `publish`: the envelope, the emit into the client's buffer, the answer |
| `Deliver` | the server takes the oldest message and gives it to whoever is subscribed |
| `AuditController`, `AnalyticsController`, `PushController` (`Handle`) | `handle` and `processEvent` of the three subscribers |
| `AuditBootstrap`, `AnalyticsBootstrap`, `PushBootstrap`, `PublisherBootstrap` | the four `bootstrap.ts`, or a client that has found the server again |
| `PublisherStops`, `NatsStops`, `NatsStarts`, `SubscriberStops` | a process stops; what was in its memory or on its way is gone |

### ApiGateway

| Action | Code |
|---|---|
| `Send`, `Route`, `HangUp`, `Relay` | the client and Kong, as `.docker/kong.yml` configures it |
| `UserController`, `ProductController`, `OrderController` | `create` (`Add`: next id, append) and `list` of the three services |
| `Stop`; `UserBootstrap`, `ProductBootstrap`, `OrderBootstrap` | a service stops; `bootstrap.ts` starts it with an empty memory |

### RestGrpc

| Action | Code |
|---|---|
| `RestController` (`Call`, `Respond`) | `getUser` and `getProduct` of the gateway: the call, which a channel in backoff rejects at once, and what becomes of its reply or rejection |
| `GrpcGetUser`, `GrpcGetProduct` | the backends: the id as the int32 that `AsInt32` leaves of it, `FindUser`, `FindProduct` |
| `StopBackend`, `UserBackendBootstrap`, `ProductBackendBootstrap` | a backend stops, the calls it was sent reject; it listens again |
| `ConnectFails`, `BackoffEnds` | the channel cannot connect: the calls that wait for it reject, and the backoff begins, which ends at any time |

The channels are those of grpc-js with its defaults, which `app.module.ts` of the gateway does not change: a call waits while the channel connects, and is
rejected while it is in backoff, also when the backend has come back. `outages` counts how often a backend has been away, `answered` remembers the
outages before its last reply, and the field `seen` of a request what `answered` was when the request called: history that
`FailuresAreOutages` compares.

## 4. Runs

### Event store

| Run | Instance | What it shows |
|---|---|---|
| `es_races` | 2 accounts with colliding lock keys, 3 requests of any kind, threshold 2, 2 failures or restarts | types; versions 1..n; no conflict on the unique index; snapshots and loads are replays; answers are fresh; an answered command has an event of its own in the log; every event was legal at the version its command was checked against; the automatic snapshot lags by at most one; the rows read as logs implement `AppendOnlyLog` |
| `es_ends` | 1 account, 3 openings, withdrawals or rebuilds, fairness, 1 failure or restart | every request is answered and every job ends |
| `es_overdraft` | violation | two withdrawals pass the balance check on the same state, the replayed balance is negative |

Bounds: three requests are enough for one that prepares the account and two that race, or for a
deposit, a snapshot and a load in between; a threshold of 2 instead of 10 makes the automatic snapshot happen within
three events; two failures allow one while recovering from another. Amounts are 1 because only the comparison with the
balance matters. The requests are interchangeable, hence the symmetry; the run of a liveness property does not use it (`ImplementsLog` is a safety property).

### Saga

| Run | Instance | What it shows |
|---|---|---|
| `saga_crashes` | 2 orders of 2 for a stock of 3, 2 failures or crashes, or 1 event appended twice | types; money moves once each way; one verdict per order; the databases agree; no overselling; an order that stays PENDING has lost an event at one of three places; a final status is final |
| `saga_ends` | the same, fairness, 1 failure or 1 event appended twice | if nothing fails the stock balances and every order ends delivered and paid, or cancelled and refunded; a published verdict is applied by the order service and the payment service, although a crash may lose the refund event |
| `saga_checks` | 1 order, 2 `POST /check`, 1 failure or 1 event appended twice | the money still moves once each way |
| `saga_redelivery` | violation | a failure between the saves of the product and of the fulfillment makes the redelivered event decrement the stock twice |

Bounds: two orders compete for a stock that is enough for one, in every order of arrival, so both
branches of the saga happen in one behaviour, also after a decrement was repeated. Two failures allow a
failure while recovering from another. One more order or failure adds no new kind of interleaving of the handlers, each
of which works on one message at a time. One repeated event is enough for a second copy of any event, next to the first or behind others. A repetition
together with a failure is left out of these runs (`OneTroubleSpec` and `TwoTroublesSpec` of `MCSaga`); the safety theorems, which bound neither, cover it. `MaxFailures`, `MaxResends` and the finite set of orders are the bounds of the model.

### CQRS

| Run | Instance | What it shows |
|---|---|---|
| `cqrs_projection` | 2 clients, 3 updates of 2 customers, 1 lost, 1 failed projection, fairness | types; what has left the queue is shown; at rest the read model is the write model, if no updates of a customer overlapped and none was lost; the read side implements `Projection`, with its liveness |
| `cqrs_drains` | as before with 1 email, 2 failed projections and 1 late index request | every message leaves the queue |
| `cqrs_crossed` | violation | overlapping updates are saved and published in different orders |

Three updates are enough for two that overlap after the row exists, or for a redelivered message with one of the same and one of
another customer behind it. Two names and two emails let an update change either column or both. `counts.overlaps` is a history variable: it
counts the updates received while another of the same customer was under way.

### Database per service, events, publish/subscribe

| Run | Instance | What it shows |
|---|---|---|
| `brokers`, lesson 4 | 2 orders, 3 documents of which two have one name and one is created meanwhile, an unknown name, quantities -1 to 3 or none for stocks of 2, fairness, 1 failure or lost acknowledgement | no document goes below zero; each changes only by what the order being handled asks for; the consumer gets past every event; if nothing fails, at rest every order has been announced and the products are what the orders leave when they are served one after the other |
| `brokers`, lesson 2 | 2 orders with the same random id, 2 losses (acknowledgements, sends, processes), fairness | a group skips nothing from where it first started, unless it stopped before its first commit, and then nothing from where it last started without an offset; without losses it handles each event once, in order; every answered order is handled by both groups, or its event was lost or is older than such a start |
| `brokers`, lesson 3 | 2 messages, 1 stop of the server or the publisher, 1 stop of a subscriber | without the former a subscriber misses nothing since it subscribed; the subject implements `FanOut` |

In lesson 4 the quantities straddle both comparisons of the code (with 0 and with the stock), and two orders
are enough for one that is served and one that is refused, and for one that is served twice. In lesson 2 two orders with
one id are the worst case of the random ids; two losses let an event be appended twice around another, or a
consumer stop before its first commit and again after it. In lesson 3 two messages suffice for a wrong order, a gap or a repetition. The three lessons run side by side, each
with its own initial states; nothing is conditioned across them. The types of the three lessons are proved, and so are those of lessons 0 and 1.
Lesson 3 has no liveness property: nothing stores a message, so nothing has to arrive.

### The gateways

| Run | Instance | What it shows |
|---|---|---|
| `gateways`, lesson 0 | 2 clients, 3 requests of either method to any path, 1 stop, fairness | the status a client is told is what happened and no request creates two items; a list shows what was acknowledged before it, each id once; every request is answered although a service stays down |
| `gateways`, lesson 1 | 2 visitors, users 1 and 2, product 1, the ids 1, 2, 17 and NaN with integers of 4 bits, each backend away twice | 200 and 404 are true of the record asked for, if its id fits the wire; a 500 is explained by an outage of its own backend that no call had come through after |

Three requests are a creation, one that races it, and a list; a stop falls before, during or after any of them. The width of the
wire is 4 bits so that 17 is an id which wraps onto a user, as 2^32 + 1 does in the code, 2 is an id of one resource only, and NaN arrives as the sentinel 0; nothing but the modulus depends on the width, and the proofs are for any.

### Fairness

Clients are never obliged to send a request, and nothing is obliged to fail.
In `EventStore` the load and snapshot steps are weakly fair (the event loop runs every task whose query has returned);
the append steps are strongly fair, because the advisory lock a transaction waits for is taken and freed
by others, and Postgres serves its waiters in turn. In `Saga` each consumer and each running handler is
weakly fair: the consumers poll for ever, are restarted after a crash (the compose file's containers), and
wait for no lock. The same holds of the consumers of `Cqrs`, `DatabasePerService` and `EventDriven`, of updates under way in `Cqrs`, and of the
Kafka client of `EventDriven`, which goes on sending what it has. The compose files of all lessons say `restart: unless-stopped`, which is why a consumer that has stopped
joins again. In `ApiGateway` only the serving of a request is fair; a service that is down may stay down. `PubSub` and `RestGrpc` have no fairness.
Failures, losses and stops are finitely many in every run, as a transient failure is.

## 5. What is proved

Every theorem holds for all values of the constants that satisfy the ASSUMEs of its module:
any finite or infinite set of accounts, requests or orders, any hash, any number of failures.

**Event store** (`EventStore_proofs`). Assumptions: initial balances are natural, amounts
positive (the validators of the DTOs), versions integers, the threshold positive, at least one account. None of the
properties is inductive: they speak of the tables only. The invariant `IInv` adds what the tasks know, in five parts:
`LogsInv` (the rows of an account are a log 1..n), `SnapshotsInv` and `DecidedInv` (snapshots are
replays, events were legal at an earlier version), `LocksInv` (a request between its lock and its commit
holds the lock, two such requests never share a key), and `TasksInv` (per task: types, that its version is the next free one while it holds
the lock, that what it has read is a replay, and that it is recent enough). The lemma that carries the argument is
`FoldResumes`: folding events from an intermediate state is folding them from the start, hence a load
from any snapshot gives the full replay. `Invariance` is `Spec => []IInv`; the theorems `TypeCorrect`, `NoHoles`, `LockPreventsConflicts`,
`SnapshotsFaithful`, `LoadsFaithful`, `ReadsAreFresh`, `AnswersAreLogged` and `EventsLegal` follow. Two more theorems need an invariant
of their own beside it. `AppendsOnly`, the refinement of `AppendOnlyLog`, has to know that an opening is the first event of its log and the only one:
`OpeningsInv` says that each opening under way has an account of its own, without rows until it commits; any other command has
loaded a state of its account, hence found rows. `SnapshotsKeepUp` needs `JobsInv`: when a snapshot job starts, its event is inserted but not
committed, so all it can count on is the version before, and that it counts on through its load, its lookup and its save.

**Saga** (`Saga_proofs`). Assumptions: the sets of orders, products and quantities are not
empty. `TypeCorrect` needs `Handling` (a handler works on a message its group has not passed). `MoneyOnce` holds
with any use of `/check` and any quantities; its invariant relates the status of a payment, the events about it in the topic, and the place
of the handler: it emits only what it has just saved for the first time. An event that a producer sends again is one whose service is still emitting it (`RetryAdds`), and whose
table was saved before; each invariant has a lemma for that step (`MoneyRetry`, `SagaRetry`, ...). "Once" is `EmittedOnce`: but for such repetitions. The theorems
`OneVerdictPerOrder`, `ServicesAgree` and `FinalStatus` assume `ConsumerOnly` (nobody uses `/check`, quantities are natural):
without it they are false. Their invariant `SagaInv` says what each published event implies about the three databases; its
least obvious part is that an order reported out of stock can never be fulfilled on redelivery, because the stock never grows.
`StuckOrders` needs that what a group has passed has taken effect (`DoneStays`, one lemma per service): if all three writes of an order have been reported,
the last report has reached the order service, so the order is not PENDING.
`StockIsAccounted` and `NothingIsOversold` (which also assumes natural stocks, as `SeedService` creates them) share `StockInv`: what is left of a product and
what the orders hold that are fulfilled or about to be marked is its initial stock; after a failure it may be less, for goods
may have been taken whose order is never marked, and never more, for the consumer takes goods before it marks. The sum is a fold over a set, in an order that
`CHOOSE` settles; `TotalAnyElement` of `Induction` shows that the order makes no difference, so that a sum grows by what a new element weighs.

**CQRS** (`Cqrs_proofs`). Assumptions: there are customers, names and emails. `TypeCorrect` needs `UpdatesSeeRow` (a save
that updates has seen a row). `AckedMessagesAreShown` and `SafeProjection` (every step is a step of `Projection` or a stutter) assume
`Punctual`: no index request outlives its handler; without it they are false. Their invariant `IndexFollowsQueue` bounds the index by the
message being handled, which is why a redelivery writes nothing older than what is shown. `SequentialUpdatesAgree` adds `SequentialInv`, which holds
while no update has overlapped another of its customer and the write service has not failed: a customer has one update under way at most, so what it has read of
the row is still true, and the last message of a customer carries the row unless that update is about to publish it.

**Database per service** (`DatabasePerService_proofs`). The invariant `HandlerKnows` says that what the consumer has read is
still true when it writes, because nobody else writes an existing document. `NoOversell` also assumes that products are created with natural
stocks; `StockIsTakenByOrders` and `TypeCorrect` assume nothing more, nor does `DatabasesStayTogether`. Its invariant `AgreeInv` says that, while nothing has failed,
the consumer has never been off, a saved order is announced or in memory still, and a document with a name of its own is the replay of exactly the events served so far, the present
one included once its write is done. The lemmas about `Replay` (it is what its recursion says, and appending to the topic does not change it) rest on induction over the naturals.

**Events and publish/subscribe** (`Brokers_proofs`). Assumptions: there is an id to draw; the bounds are natural. For lesson 2 the invariant `GroupInv` places a
group on the topic: its last start without an offset is at or before its committed offset, which is at or before its position, and it has handled all in between; the first such start is
the last one unless it stopped before it had committed (`forgot`); without losses it has handled exactly that
slice and was never stopped, which is what keeps an uncommitted restart from spoiling the count. `EventsTypes` and `NothingSkipped` follow. For lesson 3 `OrderInv`
says that what a subscriber has handled, what is on its way to it and what has not been sent rise in this order, and `OutboxInv` that the publisher's buffer
is the newest end of what was published as long as nothing is disrupted. The first gives `FansOut`, the refinement of `FanOut`, with every stop included; the
second gives `NothingMissed`.

**Gateways** (`Gateways_proofs`). For lesson 0 `GatewayInv` relates each request to the memory of its service: how many items it has made at each
place, that an item acknowledged in this life of the service is in its list, and that the items of a list are numbered in their order with the counter at its length. `StatusIsTrue`,
`ListsAreCurrent` and `GatewayTypes` follow, for any number of clients, requests and stops. For lesson 1 the arithmetic is `Int32Identity` (an id that fits is unchanged) and `ResourcesFit`
(the ids in memory fit); `LookupsAnswer` follows. `ChannelInv` says that a backend which is away, or whose channel is in backoff, has answered nothing since its last outage, and that no
call waits for a channel in backoff: whoever is rejected has called after no later reply, which gives `FailuresExcused`. `GrpcTypes` and these two hold for any tables, visitors, outages and width of the wire.

Only model-checked: liveness (`EveryTaskEnds`, `EverySagaEnds`, `VerdictsAreApplied`, `QueueDrains`, `EveryEventIsPassed`, `EveryOrderIsHandled`,
`EveryRequestIsAnswered`, and the fairness of `Projection`, the other half of `ImplementsProjection`), which is out of the prover's reach, as is ENABLED; and the violations.
`LtNatWellFounded` is the library's theorem of natural induction stated for a set: the form with an operator as a parameter cannot be used
with these provers, so properties of recursive functions are stated over sets, and what they compute is shown for each set at hand.
No module with a theorem declares a RECURSIVE operator; folds are recursive functions.

## 6. Findings

Three runs end in a violation, each of a sentence of the repository (quoted in `PROJECT.json`):

* `es_overdraft`: the balance is checked before the lock of the append is taken, so two withdrawals both pass and the
  replayed balance is negative.
* `saga_redelivery`: the product and the fulfillment are saved one after the other, so a failure between them makes the
  redelivered event decrement the stock twice.
* `cqrs_crossed`: overlapping updates of a customer are saved in one order and published in the other (or write different columns
  of the row), and the read model does not converge to the write model.

Other behaviours met while modelling are not errors of a run but conditions in the properties, which say what is true in spite of
them. In lesson 7 the closed check is as early as the balance check, so a command may be appended after a closing
(`EventsWereLegalWhenChecked` speaks of the version checked against), and the snapshot job starts before the commit of the event that
triggers it (`AutoSnapshotLagsByOneAtMost` allows it to miss that event). In lesson 5 a `POST /check` between the consumer's lookup
and its save fulfils the order a second time, may write back the stock it has read over one saved meanwhile, and may report the order out of stock after it was delivered: `OneVerdict`, `OutcomesAgree`, `NoOversell` and `StockBalances`
are checked without `/check`, and no property covers these effects with it; `MoneyMovesOnce`, which is checked with it, says that the money moves once all the same. A failure
loses the event it was about to emit (`EverySagaEnds` is conditional, `VerdictsAreApplied` is not). In lesson 6 a stop between the
save and the publication loses the update (`SequentialModelsAgree` is conditional), and a late index request may put an older profile
back (`MaxLate` is 0 where `AckedAreShown` and `ImplementsProjection` are checked). In lesson 4 an event that is redelivered or appended twice takes the goods again, a group that restarts without a
committed offset misses events, and a stop between the save and the emission loses one (`DatabasesAgree` is conditional). In lesson 1 an id that does not
fit an int32 may show another record (`RestAnswersMatch` excepts it), and the gateway answers 500 for a while after a backend has come back, until the backoff of its channel ends (`FailuresAreOutages` is about outages, not
about what runs at the moment). In lesson 2 a send that fails at last is seen by nobody, an event that is sent before a group has
started is behind it for ever, and a group that stops before its first commit starts again at the end and has lost what came meanwhile (`EveryOrderIsHandled` names all three).

Documented facts that need no run: lesson 7's README speaks of `SELECT ... FOR UPDATE` where the
code takes an advisory lock, and the comment of `rebuildAllProjections` of a full replay where the code resumes from snapshots.

## 7. What is left out

* Lesson 7: the owner, timestamps and snapshot ids (no decision depends on them), the JSON
  round trip of a snapshot (dates become strings and are not compared), floating-point amounts (integers here), the connection pool (a transaction
  always gets a connection), `GET events`, which returns rows unchanged.
* Lesson 5: the amount of a payment, a constant; `GET /stock`; the HTTP answers. Kafka and KafkaJS are modelled as the
  code uses them: one partition (no key is given), one message at a time per group, at least once; a handler that throws has its message
  delivered again. A failure after which the message is skipped instead would only lose events, which `HandlerFails` of an emit already reaches for safety;
  `VerdictsAreApplied` depends on the redelivery.
  A missing product is one with no stock. An order's id is new because its table generates it.
* Lesson 6: a request without a name or an email. The body's type requires both, but it is an inline type that nothing validates at run time, so the service does accept
  such a request: an insert fails, and an update keeps the column although the message it publishes lacks the value, so that the two models differ. The properties speak of requests with both; `GET /customer/:id` only reads the index (`Answer`);
  the creation of the index at start.
* Lesson 4: the customer and the amount of an order; fractional quantities.
* Lesson 0: names, prices and quantities, of which a property sees only the request they came with; the JSON parsing and Swagger. Kong is external: its retries
  are those of its documentation's default, never a POST that a service may have seen.
* Lesson 1: the names and prices of the constant tables; the wait has no deadline, so a backend that neither replies nor stops is not modelled. How long a backoff lasts
  (seconds, at most about two minutes): `BackoffEnds` may come at any time, or never.
* Lesson 2: `GET /orders`, which only reads; the stock and the mails of the consumers, which are log lines. One partition, the broker's default, since
  nothing in the lesson creates the topic with more.
* Lesson 3: payload and timestamp; the transport below the messages.
* Everywhere: module wiring other than what it registers, configuration, DTO declarations, decorators, generated gRPC code, Docker files.
* The ports to Java, C# and Go. They are programs of their own over other clients, and no definition here is translated from them. Most of their control repeats
  the reference, so the properties above are what to look at first; what they do differently, per lesson and language, is in
  `PROJECT.json`, and comes down to four things: acknowledging a message before it is handled (the Go consumers of lessons 2, 4 and 5; the C# ones of 2, 4 and 5 may), sending
  an event before the transaction commits (Java, lessons 4 to 6), taking the stock by one `$inc` after the check (C# and Go in lesson 4, Go in lesson 5), and when the snapshot of lesson 7 is taken. Each turns a condition of a
  property into a different one: a consumer that acknowledges first repeats nothing and may skip, an event sent first may report what was rolled back. They would need models of the
  delivery of four more client libraries, whose source is not in the repository.
