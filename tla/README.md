# Verification of go-commerce

This directory holds TLA+ models of the parts of go-commerce in which steps of
several processes meet: the order core and the road its events take, the
idempotent checkout, the product cache and the wishlist, refresh tokens, the
search index with its circuit breaker, and the WebSocket fan-out. TLC checks
them on small instances; TLAPS proves their invariants, their safety action
properties and four refinements for every size.

## The system

Two programs share one PostgreSQL database, one Redis, one Kafka topic, one
MongoDB and one Typesense. The API (`cmd/api`, two replicas in
`k8s/api-deployment.yaml`) serves requests and runs three background loops per
replica: the outbox relay, the hold-expiry sweep and the notifier. The worker
(`cmd/worker`) consumes the topic.

| Component | State | Operations | What makes it correct |
|---|---|---|---|
| Order core, `internal/http/order`, `internal/domain` | orders, items, reservations, payments, stock, ledger, outbox | create, cancel, pay, fulfill, sweep | one charge per order, stock conserved, every hold settled once, closed orders closed |
| Payment and inventory worker, `internal/worker` | the same tables, the inbox | handle order.created; commit or release on later events | the same, for deliveries in any order and number |
| Outbox relay, `internal/platform/outbox` | published_at, pause flag in Redis and in memory | poll, publish, mark, pause | no event lost, duplicates bounded, everything published in the end |
| Worker loop, dispatch, audit, `cmd/worker`, `internal/worker/dispatch`, `internal/worker/audit` | offsets, audit documents, DLQ | fetch, route, insert, dead-letter, commit | the audit trail tells the truth, a committed message was handled |
| Idempotent checkout, `handler.create` | idempotency_keys, row locks | find, take line by line, create, remember | answers name the right order, baskets are whole, every request ends |
| Product catalogue, `internal/http/product` | product row, cache entry, owner's cached page | create, get, list, update, delete; hold and release by orders | caches follow the row, units add up, deletes last |
| Wishlist, `internal/http/wishlist` | wishlists rows, cached count | add, remove, count | the count follows the rows |
| Authentication, `internal/http/auth` | users, refresh keys in Redis, refresh JWTs at the clients | register, login, refresh, logout | one usable token per login, logout ends it, nobody is stranded |
| Search, `internal/platform/typesense`, `internal/http/lab` | documents, collection, breaker, goroutines | index, delete, search, ping, bootstrap, reindex | documents follow the rows, a reindex repairs, the breaker recovers |
| Notification hub, `internal/http/notify` | client set, connections, offsets | upgrade, add, remove, broadcast, commit | no gaps in a stream, gone peers leave, every event goes out |
| Middleware, health, configuration, metrics, connections | none that outlives a request | | mostly pure I/O |

The components meet in four ways. API and worker write the same tables, in
transactions that lock the order row. The outbox row written by such a
transaction travels relay, Kafka, worker loop, handler, at least once and in no
particular order (the producer's `LeastBytes` balancer ignores the key, so the
events of one order spread over the partitions). Order flows change the stock of
a product whose cache entries belong to the catalogue. And a change of a product
starts a goroutine that carries it to the search index, beside all others.

What is hard: the interleavings of request, sweep and event handlers on one
order; a crash or a failed statement between two effects in two systems; late
and repeated events; values read in one statement and used in a later one;
transactions and peers that wait for each other. The list with its lines is
under `hazards` in `PROJECT.json`.

## Modules

| Module | Models | Notes |
|---|---|---|
| `OrderDomain` | `domain/order.go` | vocabulary and transition table |
| `OrderContract` | what the order core promises | abstract: phase, hold and charge of each order, six steps |
| `AtLeastOnce` | what the outbox promises the topic's readers | abstract: events written, told and marked, three steps |
| `Orders` | `http/order`, `worker/payment`, `worker/inventory`, inbox, ledger | one action per transaction |
| `OutboxRelay` | `platform/outbox`, the lab's switches | one action per statement or Kafka call; implements `AtLeastOnce` |
| `Worker` | `cmd/worker`, dispatch, audit, consumer | one action per step of the loop |
| `Pipeline` | `Orders` with relay, topic and worker | extends `Orders`; implements it and `AtLeastOnce` |
| `Checkout` | `handler.create`, `Service.Create`, `CreateOrder`, idempotency rows | one action per statement |
| `Catalog` | `product.Service` and the stock changes of orders | one product; one action per statement or cache call |
| `Wishlist` | `wishlist.Service` next to the catalogue | extends `Catalog` |
| `Sessions` | `auth.Service` | one action per Redis or database call |
| `Search` | `typesense.Client`, the index goroutines, bootstrap and reindex | one action per call through the breaker |
| `Notify` | `notify.Hub`, its handler and `Notifier.Run` | one action per socket or Kafka call |
| `Sums` | lemmas about sums over finite sets | used for stock conservation |
| `OrdersProofs` | theorems about `Orders`, its contract and `Pipeline` | |
| `OutboxRelayProofs`, `WorkerProofs`, `CheckoutProofs`, `SessionsProofs`, `NotifyProofs` | theorems about one module each | |
| `StorefrontProofs` | theorems about `Catalog`, `Wishlist` and `Search` | |
| `MC*` | small instances | one per checked module |

Operators whose comment begins with "A plausible slip" are not part of any
specification. Each is a faulty version of the definition after it (`mutants` in
`PROJECT.json`) and shows that a property notices that fault.

### Orders

A variable is a table column (`status`, `resv`, `payments`, ...). Every handler
is one Postgres transaction that takes the order row first, so it is one
action; `CreateOrder` decrements its product rows conditionally and rolls back
as a whole. Attempts that end in an error and idempotent replays change nothing
and are no steps. A delivery is any outbox row, at any time after its insert:
`HandleOrderCreated(o, n)` and `InventoryHandle(o, n)` may take the n-th event
of o whenever it is not yet claimed, which covers every order and every
duplication Kafka can produce. The sweep lists ids (`ListExpiredPendingIDs`) and
cancels them one by one (`ExpireNext`, `ExpireFails`), with anything in between.
Time is one bit per order: its hold is overdue or not. Prices and totals are
left out; no property is about them. The simulator charges or declines:
`simulateOutcome` is read from the event payload (`docs/belajar/07-worker.md`).

### OutboxRelay

`SelectRows` and `SelectReturns` are the start and the end of the SELECT with
its row locks. `Publish`, `Mark` and their failures follow for the oldest row of
the batch. A failed publish may have reached the broker, and a successful one may
have sent its message more than once, since kafka-go retries inside `Publish`
(`PublishRetries`). `Paused` reads Redis first; a missing key is an error to the
client library, and the local mirror decides then too. The skip of a payload that
is no JSON (`outbox.go:176`) is left out: `Enqueue` writes none.

### Worker

`position` is the reader's place, `committed` the group's. A commit covers
everything before it. After an error the loop goes on with the next message.
The audit insert is retried `maxRetries` times; every failing step may or may
not have had its effect. `failed` is a history variable: messages whose handler
returned an error.

### Pipeline

The deliveries of `Orders` bound to the messages that bring them. Of relay and
worker it keeps what they leave visible: a row is sent before it is marked, and
perhaps again, even after the mark (`RelaySends`, `RelayRepeats`, `RelayMarks`);
the rows of one order may be sent in any order, because a second relay skips the
rows that the first one's SELECT has locked; a message is handled, fails before
or after its transaction committed, or is handled without its offset being
committed (`WorkerHandles`, `HandlerFails`, `CommitLost`); the worker may restart
at any time. `ImplementsOrders` is the specification of `Orders` itself, so every
safety property shown of `Orders` holds on the road. `RoadKeepsPromise`, which is
proved only, and the relay's `RelayKeepsPromise` are the same abstract
specification, `AtLeastOnce`: it ties the relay steps of `Pipeline` to the relay
that `OutboxRelay` models in detail.

### Checkout

A request is identified with the order it creates. A request without an
Idempotency-Key or without a basket is refused before anything is read
(`service.go:54`) and is no step. Inside the transaction,
`TakeLine` is the conditional UPDATE of one basket line. It waits for a row that
another transaction has locked and keeps the row until commit or `Rollback`.
Postgres breaks a circle of waiting transactions (`DeadlockVictim`). A basket that
names a product twice gets as far as its second reservation, which the unique
index refuses. The deadline of the timeout middleware may pass anywhere before
the commit. `overlapped` is a history variable: requests that passed the lookup
while another one of their key was between its lookup and its answer. With the
failures it is what `OrdersPerKeyBounded` charges every order beyond the first of
a key to.

### Catalog and Wishlist

A cache entry, or a page, is abstracted to the stock it shows. A failed GET is a
miss to the code, and a failed SET or DEL is dropped. An owner's update writes
the stock it read, or a new one. gorm's `Save` writes all columns; of a
soft-deleted row it updates nothing and falls back to an upsert. `Decline` is a
declined payment: `Service.Pay` does not invalidate, and the theorem
`InventoryNeverActs` shows that the inventory worker, which drops the entries of rows
it released itself, releases none. `clean` is a history variable: so far no two
requests have overlapped and no cache call has failed. `loose` names the caches
behind which a flow changed the row without a call. The wishlist looks the
product up with the same `FindByID`; its rows survive the soft delete.

### Sessions

A token stands for the pair that `issueTokens` hands out; the access token of the
pair is recorded nowhere. A refresh is three steps, EXISTS, DEL and SET, and each
may fail before or after its effect. `overlaps` is a history variable: per login,
how often a request came to a token that another one was just using. The properties
count with it: what a login is worth (`Worth`: keys, and refreshes about to set one)
is one plus its overlaps, one less after a logout; and there are no more stranded
logins (`Stranded`) than there were failed calls. Signing and
hashing are abstracted to whether a token or password is accepted. Redis is
always configured (`cmd/api/main.go` has no way to run without it), so the
branches for a nil cache are left out.

### Search

A document is abstracted to the version of the row it shows. A call through the
breaker, with its verdict, is one step; two probes of a half-open breaker at the
same time, which the breaker would refuse, therefore do not occur, and a search
that finds no collection creates it and tries again in one step. That the
collection exists already is a failure to the breaker and none to the caller.
An admin may start a reindex while the bootstrap or another reindex runs
(`AdminReindexBeside`, `BesideNext`); both write the rows they read. A call may be cut
off by the end of its request or by the goroutine's five seconds while Typesense
answers: a failure to the breaker, and perhaps done all the same (`CallCut`,
`JobCut`). `calm` and `repaired` are history variables: no overlap and no fault so
far, and the same since a reindex read the rows.

### Notify

One API process. `Snapshot` copies the client set under the lock, the writes run
without it and without a deadline: a write to a peer whose buffer is full blocks
the notifier. A broken socket is noticed by the read loop, by a write, or late.

## Runs

| Run | Shows |
|---|---|
| `orders` | eleven properties of the order core: holds match statuses, one charge, ledger, stock conservation, outbox as history, paid without stock only after a decline, idle inventory worker, closed orders final, refinement of `OrderContract`, overdue holds expire |
| `pipeline` | the road implements `Orders`, no event is ever nowhere, every event is handled or its handler failed |
| `orders_paid_committed` | violation, see below |
| `relay` | nothing lost, refinement of `AtLeastOnce`, bounded duplicates (retries inside one publish too) and a metric that counts rows, everything published in the end |
| `worker` | audit trail and DLQ show no order event whose transaction has not committed, committed means handled or failed, everything handled in the end |
| `worker_loses_failed` | violation, see below |
| `checkout` | answers name the right order, a key's orders beyond the first are paid for by an overlap or a failure each, baskets are whole, every request ends in spite of deadlocks and timeouts |
| `checkout_concurrent` | violation, see below |
| `storefront` | entry, page and count are right or gone unless requests overlap, units add up, deletes last, nothing stays stale |
| `sessions` | one token per login and one more per overlap, a logout takes one away for good, no more stranded logins than failed calls |
| `search` | the index is exact without overlap or fault, the breaker stays closed then, a reindex with nothing beside it repairs, the breaker recovers, with reindexes beside each other and calls cut off |
| `notify` | no gaps, gone peers leave the hub, every event goes out |

The modules without a type invariant among their properties define one
(`TypeOK`, in `Search` `IndexTypeOK`) that documents their domains. `Search` has
names of its own for `Init`, `Next` and `Spec`, since one module of proofs extends
it beside `Wishlist`.

### Where the code and its documents disagree

Shown by a run of its own:

- `orders_paid_committed`. Declined, then paid: the stock was released at the
  decline and is not taken again. The migration says "committed on paid".
- `worker_loses_failed`. A failed message is skipped for good by the commit of
  the next one in its partition.
- `checkout_concurrent`. Two requests under one key at the same time create two
  orders.

Visible in the premise of a property that holds:

- Two relays publish the same row without any failure, although the comment at
  `outbox.go:147` says they do not: the SELECT's locks end with the statement.
  `DuplicatesBounded` allows one publish per replica. The inbox makes the duplicate
  harmless.
- After a declined payment the cached product shows the old stock until its TTL
  (`loose` in `UndisturbedIsFresh`); the comment of `InvalidateProducts` promises
  otherwise.
- Renaming a product while it is ordered restores the stock from before the
  order, and the unit can be sold again (`clean` in `UnitsAddUp`); `docs/BENCHMARK.md`
  says "Never oversells".
- A refresh that overlaps a logout or another refresh of the same token gets
  around both (`overlaps` in `OneTokenPerLogin` and `LogoutEndsLogin`).
- `docs/belajar/08` (line 51) and `docs/belajar/09` (lines 93 to 96) present the
  inventory worker as the one that commits and releases reservations. It never finds
  one to settle: the transaction that pays, declines or cancels has settled them
  all, before its event is sent (`InventoryFindsNothing`).
- A reindex adds and corrects documents and removes none: a deleted product whose
  document stayed is still found (`ReindexRepairs` speaks of listed products only);
  `docs/PANDUAN-BELAJAR.md` calls it a rebuild.
- `hub.go:48` says slow clients are dropped. A broken one is; a slow one holds up
  the notifier (the premise of `EveryEventGoesOut`).
- `typesense.go:105` says a missing document is no error; the breaker counts it as
  a failure (`JobDelete`).

### Bounds

- `orders`: two orders, two products, three units of one and one of the other, and
  two carts: two orders of different carts fit, two of the same do not, so orders
  compete and also coexist. One attempt key next to the worker's own gives a
  retry after a decline. One replica sweeps: its list goes stale while the owner
  and the worker act on the same orders, and one fault lets a sweep break off. Two
  sweeps over one list differ from that only by who made it stale; the theorems
  hold for any number of replicas.
- `pipeline`: one order, whose two to four events spread over two partitions in any
  order, and one upset: a row sent again, a failed handler or a lost commit. Orders
  do not interact on the road beyond what `orders` checks. The worker charges; the
  owner may decline through the API before it does. (Both outcomes of the worker are
  in `orders`, and the theorems about the road are for both.)
- `relay`: two replicas, three rows and batches of two: a batch can end in the
  middle, and two batches overlap in part. Two faults and two pause commands
  allow an outage between a pause and a resume.
- `worker`: two partitions of two messages, so a message can follow a failed one,
  and three faults, enough to use up the three audit attempts.
- `checkout`: three requests under one key, one of them with another basket, and a
  fourth under a second key; all four at a time, with rows locked in opposite
  order, one product short, and two faults. Three units of the scarce product let all
  requests of one key order, so that overlaps and failures add up.
- `storefront`: one product, one unit, two requests at a time and three row
  changes: enough for a hold, an update around it and a release or a delete.
- `sessions`: one account, three requests at a time (two may meet on a token while
  a third or a logout comes in between; they are symmetric), three token pairs (a
  login, its refresh, and a second login or refresh) and two faults.
- `search`: a seeded and a new product, of which the new one is updated (`Edited`),
  two versions, two carriers and two reindexes at a time, two faults or admin
  reindexes, and a breaker that trips at three failures instead of five, the
  smallest number that a calm start-up does not reach.
- `notify`: two peers, four events of which one is undecodable, two faults.

Deadlock is checked where the model never comes to rest (`storefront`); elsewhere
every counter is bounded, and a run ends when the bounds are reached.

### Fairness

The sweep's and the relay's tickers fire for ever, and a loop or a request that
has begun runs on: weak fairness of their own steps. Strong fairness of the
worker's `Fetch(p)` says that the reader serves every partition, as Kafka's fetches
over all assigned partitions do. Postgres finds every deadlock, Redis drops an
entry after its TTL and becomes reachable again, an outage of
Typesense ends, and an open breaker's timeout passes. Strong fairness of `Ping` says
that the readiness probe, which Kubernetes sends every few seconds, is not beaten
to the half-open slot every time. Strong fairness of `Write(c)` says that a blocked
write gets through if the peer reads again and again; that it does is a premise
of the property. No fairness is assumed of clients, of peers, of operators, of
deliveries in `Orders`, or of the payment simulator. Faults are bounded, so a
property that holds in spite of them says what happens once faults stop.

## Proofs

The theorems hold for every value of the constants that satisfies the named
assumptions (`ConstantsAssumption`, `PipelineAssumption`, `RelayAssumption`,
`WorkerAssumption`, `CheckoutAssumption`, `CatalogAssumption`,
`SearchAssumption`, `SessionsAssumption`, `NotifyAssumption`): any number of orders, products, keys,
replicas, messages, peers, tokens and concurrent requests, and any bound on
faults. The assumptions ask that bounds are natural numbers, that initial stock
and quantities are, that a basket is not empty (the handlers refuse one), that the
breaker trips at three failures or more (five in the code), and, where a sum or a cardinality runs over them, that replicas and requests are
finitely many. Every inductive invariant below was checked by TLC on the run's
instance before it was proved.

### Orders, its contract and the road

`TypeCorrect` is inductive as it stands. The other results rest on `IInv`, the
conjunction of `TypeOK`, `HoldsMatchStatus`, `ChargedOnce`,
`LedgerTellsReservation`, `StockConserved`, `OutboxTellsHistory` and
`PaidUncommittedWasDeclined`. Hardly one of these is inductive alone: that a
charge is the first one needs the status, that a settlement finds held rows needs
the status too, that the inventory worker finds none needs the history that the
outbox tells. `StepIsTx` reduces every step to one of five transactions or no
change of the tables, using that the inventory worker is idle; each conjunct then
has one lemma with a case per transaction. `ChargesAreSingle`,
`HoldsAreSettledOnce`, `LedgerIsTrue`, `StockIsConserved`, `OutboxIsHistory`,
`UncommittedOnlyAfterDecline`, `InventoryNeverActs` and `ClosedOrdersAreFinal`
follow.

`StockConserved` is a sum over all orders. `Sums` proves what such arguments need:
a sum is an integer, and changing the function at one point changes the sum by
the difference. Induction on the finite set takes the form of a smallest
counterexample, which is first-order.

`OrdersImplementContract` shows step by step that every step of `Orders` is a step of
`OrderContract` or a stutter, under the mapping in `Orders`; beside `IInv` it needs
that every order has a line, or the contract's hold could not be told from the
reservations. `RoadImplementsOrders` does the same for `Pipeline` and `Orders`:
a worker step on a message is the delivery of that outbox row. `NoEventIsLost`
rests on `RoadInv`: messages are outbox rows, offsets stay behind the reader, and
whatever the reader has passed was handled or failed. `RoadImplementsPromise` rests
on it too: a message is an outbox row, and a marked row has a message.

### OutboxRelay

`NothingIsLost` needs `AckedWasSent`, which carries the acknowledgement over to the
mark: a relay that is about to mark has sent the oldest row of its batch.
`MessagesAreBounded` needs a count that survives the mark (`BoundInv`): as long as a
row is not marked, every message of it belongs to a relay that waits to mark it
or to a fault (a retry inside `Publish` is one); after that nobody reads it again, and the relays that still have it
to send are what is left of the bound. It uses the library's theorems on
cardinality. `RelayImplementsPromise` needs no more than the invariant of
`NothingIsLost`: five actions are seen from outside, and `AckedWasSent` makes a mark
the mark of an event that was told.

### Worker

`WInv` says how far the loop is with the message in hand, and that every other
message the reader has passed is done or has failed. A restart falls back to the
committed offsets, which never include the message in hand. It contains
`AuditIsTrue`, which needs it: that the audit comes after the commerce transaction
is known only from the stage the loop is in. `AuditsTellTheTruth` and
`CommitsFollowHandling` follow.

### Checkout

`CInv` adds to the properties that only an open transaction has taken lines, that
an order is placed exactly when its handler left the transaction with success,
and that a key remembers an order placed under it. `BasketsStayWhole` is again a sum,
over requests, with transactions half-way through their baskets.
`KeysAnswerOwnOrders` follows as well. `KeysOrderWithinBudget` needs a count of its
own (`KeyBudget`), over two sets: as long as a key remembers nothing, every order
whose handler has returned cost a failure; and a request that passes the lookup
alone finds only such orders before it, so the requests that ordered without an
overlap are at most one more than the failures.

### Storefront

`FInv` says what is right at each step of a request that is alone: what its copy
stands for, and which of entry, page and count may be stale because the call that
puts it right is still ahead of it. `AloneSuffices` is the main lemma: a step needs
to keep this only where nobody else is under way, since any overlap ends the
claim. Each action then has a lemma of the same shape. `CachesAreFresh`,
`UnitsAreKept` and `DeletedStaysDeleted` follow.

### Search

`SteadyInv` speaks of the time in which changes came one at a time and nothing
failed (`calm`), and of the time since a reindex (`repaired`). It says three things.
Where a change is that the index does not show yet: with the one goroutine there
is, or with the reindex, in its list or in its hand, and always at the version the
row has now (`CarrierIsTrue`, `LiveIsCovered`, `GoneIsCovered`). That Typesense
answers and the collection exists once bootstrap is over (`BreakerHasRoom`), with
a bootstrap that finds no documents (`BootIsCalm`). And how many failures in a row
the breaker may have counted: "already exists" is one, and only an upsert, which
succeeds and forgets them, may find the breaker one failure from tripping. Of the
steps that overlap or disturb there is nothing to show (`Unsteady`), and nothing is
steady while a second reindex runs (`ReindexIsAlone`); calls that only ask leave all
of it alone (`AskSettled`). The argument fails for a threshold of
two: the two schema calls of a start-up that finds the collection would open the
breaker. `SearchAssumption` therefore asks for three. `IndexIsExact`,
`BreakerStaysClosed` and `ReindexDoesRepair` follow.

### Sessions

`SlotsCounted` in `SInv` treats the right to a login's next token as a slot: it lies
with a key that nobody is using, or with a request that has passed EXISTS and has
not issued yet, also when the key is gone meanwhile (deleted, expired). A login
has one slot, one more per overlap, and one less once a logout removed a key.
`Balance` is the arithmetic of the ways a slot may move, `SlotsMove` applies it to
steps that issue nothing, `SlotIsHandedOver` shows that a new key takes over the
slot of the request that sets it, and `RightsCoverWorth` that slots are enough to
count what a login is worth. `TokensRotate` and `LogoutsAreFinal` follow.
`LoginsAreKept` is inductive beside `SInv`: a step strands no login, or it is a failed
call and strands the one it was working for (`StrandedStep`).

### Notify

`NInv` says up to which event each connection has been served, which in the middle
of a broadcast depends on whether it is still in the batch, and that a client with
an intact socket that is in the batch is in the hub. `StreamsAreWhole` follows.

### Only model-checked

The liveness properties, because fairness and `ENABLED` are out of the prover's
reach: `HoldsExpire`, `EveryEventIsHandled`, `EventuallyPublished`,
`EventuallyHandled`, `EveryRequestEnds`, `StaleDoesNotLast`, `BreakerRecovers`,
`GoneLeavesHub` and `EveryEventGoesOut`. Every invariant, action
property and refinement that a passing run checks is a theorem.

## Not modelled

- HTTP formatting, routing, configuration, metrics, telemetry and connection
  set-up: no state of their own. The rate limiter's window lives in the redis_rate
  library.
- The order of start-up and shutdown of the API, topic creation, and rebalances
  of the consumer groups. All API replicas share the notifier's group, so an event
  reaches the browsers of one replica; `Notify` models one process.
- The fire-and-forget product events of the catalogue and the lab's ping: they
  change no table, and the worker's handling of such an event is in `Worker`.
- Pagination: `List` caches its first page under a key without the limit. A page is
  abstracted to what it shows of one product.
- Access tokens and their expiry: no state is kept of them, and neither refresh nor
  logout touches one that is out.
- WebSocket connections that outlive their access token: `Sessions` has no
  connections and `Notify` no tokens.

## What could come next

- A contract for the worker like `AtLeastOnce` for the relay, implemented by `Worker`
  and by the worker steps of `Pipeline`.
- Several API replicas in `Notify`, with the partitions that the shared consumer
  group assigns to each.
