# Verification of seckill-go

TLA+ models of the flash-sale system in `src/`, the TLC runs that check them on
small instances, and machine-checked proofs of the properties that matter most.
Every definition is translated from the source; `PROJECT.json` names, for each
definition, the lines it stands for, and lists the runs, the mutants (one
plausible bug per checked property, which the run must catch), the hazards and
the findings.

## 1. The system

A buyer's request crosses two asynchronous hops:

    POST part-in -> seckill-gateway -> (pool) -> NATS JetStream -> seckill-processor
                        |                                            |  stock-service
                        +-- Redis result key <-----------------------+  order-service
                        ^                                            +-> delayed timeout task
    GET queue  ---------+                                                 (seckill-processor)
    payment callback -> support-service -> order-service, post-pay tasks -> seckill-processor
    seckill-job: ten periodic jobs over all of it

| Part | State it keeps | Operations | Talks to |
|---|---|---|---|
| seckill-gateway | a bounded channel and its workers; Redis: result key per trace, queued trace per buyer, token bucket; activity cache; route breakers and rate limiters | part-in, worker check and publish, poll by trace, poll by activity, admin and payment facade | activity, stock, risk, order; publishes to JetStream; shares the result key with the processor |
| seckill-processor | none of its own between messages; Redis: idempotency key per trace | consume a purchase, handle a payment timeout, run a post-pay task | activity, risk, stock, order, payment; JetStream three times |
| stock-service | units, reservations by order number, per-buyer counts (memory or Redis); an asynchronous ledger fed by events | deduct with limit, release, cleanup | event bus |
| order-service | `sk_order` (Postgres), unique on (user, trace); a local cache per replica | create, get, mark paid, close, list | - |
| support-service | payments, main-order ledger and cards, in memory | prepay, notify, sync order, issue card, close payment | order; post-pay queue |
| seckill-job | none | close timeout orders, reconcile payments, check order sync, activity status, warm-up, cleanups, statistics | all of the above |
| activity-service, risk-service | activities; the blacklist | query, administer | Redis, Postgres |
| common | trace results, error classes, discovery, event bus, configuration, tracing | library | Redis, etcd, NATS |

`PROJECT.json` lists every part under `components`, also those that are not
modelled, with the reason.

### What is hard here

* **At-least-once delivery.** A message is delivered again after AckWait, after a
  nak, after a crash, and while its first handler is still running. Two layers stop
  the second purchase: a Redis key that is claimed before the work (Layer 1) and a
  unique index behind the work (Layer 2).
* **Remote calls that fail after they took effect.** Every service answers over
  gRPC; the code classes errors as temporary or final and compensates, and the
  compensation is itself a call that may fail.
* **Read, decide, write.** The timeout handler, the payment callback and the jobs
  each read the order through some replica's cache, decide, and then write the row,
  the stock and the payment one call at a time, concurrently.
* **Writers that do not look.** The HTTP handler, the pool's worker and the
  processor overwrite one result key unconditionally.
* **Chains of Redis commands.** The stock store, the gateway's machine check and its
  sliding window use several commands where the reasoning needs one.
* **Old knowledge.** Caches of activities, a job's list, a breaker's late results and
  a watcher's last list are used after what they say has changed.
* **Time.** Token buckets, windows, lifetimes of cache entries, a TTL that all
  instances of a service share, and the clocks of two gateways.
* **Loss.** Processes crash between two steps, keys expire, support-service and
  activity-service keep their state in memory.

### What must be right

* Units: none created or destroyed; no more orders than units; a buyer's limit
  holds; a reservation either backs an order or is given back.
* Orders: one per request; who asks the payment gateway marks only a charged order
  paid; an order that may still be paid keeps its units; every order is settled in the
  end.
* Answers: what a buyer polls names his own order; a final answer stays; every
  request that was accepted is answered.
* After the payment: nothing follows a payment that was not marked; every paid
  order reaches the main order system.
* The sale: what was never withdrawn is not sold beyond its units; a verdict on an activity is not older
  than the caches allow; what is over is ended and its shelf cleared.
* The guards: each limit lets through at most its bound; a half-open breaker tries
  its route with one request.
* Addresses: a live instance stays registered, a dead one leaves, and the clients
  end up with what is registered.

## 2. The modules

| Module | What it is |
|---|---|
| `SeckillContract` | abstract specification: a request gets at most one order, within stock and limit, and one final, truthful answer |
| `SeckillProcessor` | the processor's purchase path with queue, two layers, stock, orders and keys; shown to implement `SeckillContract` |
| `SeckillProcessorProofs`, `SeckillContractProofs` | its invariants; its remaining invariants and the refinements of `SeckillContract` and `StockContract` |
| `SeckillGateway`, `SeckillGatewayProofs` | part-in, pool, polls; composes `SeckillContract` as the processor |
| `OrderLifecycle`, `OrderLifecycleProofs` | an order after its creation: timeout handler, prepay and callback, post-pay tasks, compensation jobs, over the cached order-service |
| `StockContract` | abstract specification of a stock store: units and reservations, one critical section per operation |
| `StockStore`, `StockStoreProofs` | stock-service over Redis, command by command, with its ledger and the clean-up; shown to implement `StockContract` |
| `GatewayGuards`, `GatewayGuardsProofs` | rate limits, circuit breaker, machine check and entry bucket in front of one route |
| `ActivitySale`, `ActivitySaleProofs` | an activity: its record, its stock key, administrators, jobs, and the caches of gateway and processor |
| `ServiceDiscovery`, `ServiceDiscoveryProofs` | registration of one service in Redis or etcd, and its clients' watchers |
| `MC*` | small instances for TLC |

The processor and the gateway meet in the contract: `SeckillProcessor` refines it
(`ImplementsContract`), `SeckillGateway` takes its `Place`, `Confirm` and `Refuse`
as the processor's behaviour for what was published. `OrderLifecycle` starts where
`SeckillProcessor` ends: with an unpaid order that holds its units and has a timeout
task in the queue (`OrdersTimed` says when that is so). `StockStore` is the detail
behind the `Reserve` and `Unreserve` of `SeckillProcessor`: there a call takes effect
at once or fails before or after its effect, and `StockStore` shows which chains of
Redis commands keep that (`StockContract` is the in-memory store, which has the same
two operations). `ActivitySale`, `GatewayGuards` and `ServiceDiscovery` stand before
them: what they decide is a free choice in the others (the verdict of the check, a
request that is refused, a call that fails).

### SeckillProcessor

State: JetStream's view of each message (`delivery`); per instance the step it is
at, the message, the order number minted for the attempt and the answer it is about
to write (`pc`, `held`, `orderNo`, `answer`: the locals of one call of
`HandleSeckill`); the two Redis keys of a trace (`idem` for Layer 1, `result` for
the poller); the stock service (`stock`, `purchases`, `reserved`); the order rows
(`orders`); the timeout queue (`timeouts`).

| Steps | Code |
|---|---|
| `Deliver`, `Ack`, `Nak`, `AckWaitPasses` | `NATSMessageQueue.Consume` |
| `TryStartWins/Loses/Fails`, `ReleaseIdem`, `IdemExpires` | `SubmitSeckill.Execute`, `ProcessorStore` |
| `CheckPasses/Rejects/Fails` | the second check of `SeckillService.Submit` |
| `DeductReserves/Rejects/Fails`, `Reserve`, `Unreserve` | `DeductStockWithLimit`, `ReleaseStock` |
| `CreateInserts/Duplicate/Fails`, `Undo`, `LookupFinds/Fails` | order creation, compensation, `handleDuplicateTraceID` |
| `PublishTimeout`, `MarkGateway`, `MarkIdem` | `onOrderCreated`, `onSeckillRejected` |

The event bus between `Submit` and the application is synchronous in the code, so an
answer belongs to the same handler. A fault is a conjunct `Fault(kind)`: at most
`MaxFaults` per behaviour, of the kinds in `Faults`, and `injected` remembers which
kinds occurred, so that a property can name the faults it survives and the runs
enable all of them together. `error` is a call without effect, `lost` a call whose
effect happened and whose reply did not arrive, `slow` a redelivery while the first
handler runs, `ttl` a key that expires early, `crash` an instance that dies.

### OrderLifecycle

State: the row, the copy in each order-service replica, the reservation (`units`:
held, or released by whom), the payment, the callback, the timeout task, the post-pay
tasks, what was synced and which cards were issued, and which orders the jobs' list
shows; and the program counter of each timeout consumer, support handler and job.
`Read` is `GetOrder` through any replica's cache, `Write` the conditional UPDATE that
reports success whether it matched or not, and drops only the writing replica's copy.

`NotifyCalled` has no guard on the order: the route of the callback is public, and
`Notify` checks no signature, caller or payment record (payment_handler.go:27,70-104,
payment.go:165-194). `callback` says who called: nobody, somebody although the buyer
was not charged (`claimed`), or the provider (`due` until it is answered). So no
property says that a paid order was charged; `AskersMarkCharged` says it of everybody
but `Notify`, and `PostPayFollowsMark` that what follows a payment follows a report.

`listed` is what `ListOrdersByActivities` shows the jobs: at most the 10000 newest rows
of 7 days, of any status, of the activities that activity-service still lists
(order.sql:41-47, postgres.go:148-160). `ListChanges` takes any order of `Droppable`
out and back; `SweepList`, `Reconcile` and `CheckSync` see only the rest.

`disturbed` remembers that a call failed or that a read was out of date; only
`ClosedUnitsReturn` looks at it.

### SeckillGateway

State: how far each part-in call is, the channel, each worker, what was published,
the result key, the queued trace, and the contract's two variables. A trace may be
sent twice (`TraceOf` is not injective): the client chooses it. The verdicts of the
machine check, the token bucket and the worker's risk, activity and stock checks are
free choices. `result` holds `text` for a failure reason that `RedisResultStore.Get`
does not know and takes for an order number: it counts as an answer, and is kept
apart from an order. `newest` is what `ListOrdersByActivity` shows: the `ListLimit` (100
in the code) newest orders of the activity, which the old poll searches for its buyer's
(order.sql:35-39, postgres.go:132-137); `OthersOrder` is a newer order of somebody else.

### StockStore

State: the stock key and its old name, the hash of reservations, the buyers' counts,
the two tables of the ledger, and for each call of the service the next command it
sends (`pc`).

| Steps | Code |
|---|---|
| `Begin`, `EnsureStockKey`, `CopyLegacyStock` | the head of both operations in `persistence/redis.go`: the key under its old name is copied once |
| `CheckLimit`, `DeductStockOrder`, `DeductRefused/Lost`, `RollbackLimit`, `Expire` | `DeductStockWithLimit`, a chain of separate scripts |
| `ReleaseStockOrder`, `ReleaseRefused`, `Uncount` | `ReleaseStock` |
| `PeekStock`, `PublishLocal`, `PublishRemote` | the rest of `ReserveStock` and `ReleaseStock` of the application, and the event on its way to the ledger |
| `CleanupActivityStock`, `CleanupActivityPurchases`, `PurchasesExpire` | the job's clean-up and the lifetime of a count |
| `CommandFails`, `Crash` | any command fails, the process dies between two |

The scripts themselves are go-common's, which is not in the repository; they are
modelled from their names, arguments and replies here (external in the map). `loose`
remembers the buyers whose count lost touch with what they hold.

### GatewayGuards

One route and one user. State: the store each limiter was built with (`off`, `local`
token bucket, `redis` sliding window, `perRequest`: a new store for every request, as
the dynamic middleware does without a `Store`), the breaker and how it was wired, the
clock, the buckets and windows, the stored answer of the user's challenge, and the step
of each goroutine. The window counts in one step and adds in another; the machine
check compares and deletes in two. Each request is served by some gateway, whose clock
reads up to `MaxSkew` more than the slowest one's (`now`): the shared window is scored
and trimmed by that reading (rate_limit.go:269), and the entry bucket is refilled by it. `admitted`, `sinceOpen`, `panicked` and `backs` only serve the properties.

### ActivitySale

State: the records in the memory of activity-service, the stock keys, the
products whose key is still to be set or deleted (a call is two writes), the rest of
the round of each of the two jobs, the gateway's cached verdicts and its two loads
(refresh loop and miss), the processor's two cache levels and its load, where each
request stands, what was sold, what was ever withdrawn, and the clock. A job lists once and then works through what it
listed; a load stores what it read earlier, within the timeout of its call. `past`
keeps replaced records for `VerdictsFresh` as long as a cache may still show them.
A deployment names what runs beside activity-service: the jobs, the gateway, or the
processor. They do not interact but through the records and shelves, which the
administrators and a restart change in every deployment.

### ServiceDiscovery

Setup: the registry (Redis, etcd or none), whether failures fall back to static
addresses, and what each instance advertises. Instances start, register in steps
(`Connect`, then `RegisterPut`, `RegisterExpire`, or `Grant`, `RegisterKey`,
`KeepAlive`), renew (`RefreshDue`, `RefreshPut`, `RefreshExpire`), stop (`Stop`, then
`Deregister`) or crash. In Redis `listed` are the fields of one hash and `left` its
TTL; in etcd `bound` says whose lease a key has. `Tick` is one unit of time: it ages
the tickers and the TTL, and a unit in which a due renewal does not finish is a
fault of kind `slow`. A client's watcher keeps the list it returned last (`last`) and
the addresses its connection uses (`addrs`), which stay when the list is empty.
`orphaned` and `untimed` say what keeps a dead address, for `DeadLeave`.

## 3. What is checked

Each passing run checks invariants or temporal properties over all behaviours of its
instance. The bounds are the smallest at which the hazards occur; the mutants show
that each property can fail there.

| Run | Instance | Shows |
|---|---|---|
| `processor_safety` | 2 instances, 3 messages (one request published twice), 1 buyer, 2 units, limit 1, any 2 faults of any kind | `TypeOK`, `StockConserved`, `AnswersNameOrders`, `Layer1Exclusive`, `LimitHolds`, `NoReservationLeaks`, `OrdersTimed`, `AnsweredWhenAcked` |
| `processor_contract` | the same messages, 1 unit, no limit, 1 error, crash or early redelivery | `NoOversell`, `ImplementsContract`, `EventuallyDrained`, `EveryRequestAnswered` |
| `lifecycle_safety` | 1 order, 2 timeout consumers, 1 handler, 1 job, 2 replicas, any 1 fault | `TypeOK`, `PendingKeepsUnits`, `TimeoutSparesPaid`, `AskersMarkCharged` |
| `lifecycle_live` | the same with 1 consumer and 1 replica; the jobs' list drops the order and shows it again at any time | `ClosedUnitsReturn`, `EventuallySettled`, `PaidOrdersSync` |
| `gateway_pool` | 3 calls of one buyer, two of them with one trace, 1 worker, channel of 1, 2 units, a list of 1 order, any 1 fault | `TypeOK`, `AnswerSurvives`, `RejectedNeverPublished`, `AcceptedIsAnswered`, `OrderIsShown` |
| `stock_store` | 3 reserve calls of 2 buyers, 2 releases of one order number, the clean-up, 2 units, limit 1, any 2 faults | `TypeOK`, `UnitsConserved`, `LimitCovers`, `LedgerNotEarly`, `ImplementsContract` |
| `gateway_guards` | 2 goroutines, 5 requests, a window of 3 ticks, limits of 1, threshold 2, clocks 0 or 1 apart, 6 wirings, any 1 fault or panic | `TypeOK`, `RateHolds`, `ProbeAlone` |
| `activity_sale` | 2 activities for the jobs, 1 for gateway or processor, a sale of one tick, 1 unit, cache lives of 1 (gateway, shared) and 0 (the processor's own), 3 ticks, 1 write, 1 error, lost reply or restart | `TypeOK`, `SoldOnce`, `VerdictsFresh`, `JobsCatchUp` |
| `service_discovery` | 2 instances started 3 times, 1 client, TTL of 3 units, refresh every unit, own or shared addresses, 3 registries, any 2 faults and any crashes | `TypeOK`, `StaysListed`, `DeadLeave`, `WatchersAgree` |

**Why these bounds.** Two instances and two copies of one message are what a race for a
key or an index needs; the third message makes buyers compete for the last unit and for
the limit. Two faults allow a fault during the recovery from another. In
`lifecycle_safety` two consumers share one task after a redelivery; orders do not
interact except through a job's list, whose order-by-order loop ends early in either
case. Its list holds the order throughout (`Droppable` is empty): what an order outside
it misses are steps, so the safety properties lose nothing, while `lifecycle_live` is
about them. In `gateway_pool` a channel of one is full with one waiting request while
the only worker is busy, and a list of one loses the buyer's first order to his second.
In `stock_store` two releases of one number and a second buyer's call are what breaks a
count, and the job's two clean-ups may fall between any two commands. In
`gateway_guards` two goroutines race for a window of three ticks, of which two are in
the window of every gateway when their clocks are one apart; the bound of `RateHolds` is
reached, and over a whole interval it is exceeded. Five requests open a breaker with the
second failure, wait out its time-out, probe it, see it opened again by a late result,
and probe it while the first probe is still with its handler. `activity_sale` gives the
gateway's and the shared cache one tick to be out of date in; the processor's own entry
runs out first, so that it is taken from the shared one, already old. The activity ends
inside the run. In `service_discovery` the TTL is three refresh intervals, the ratio of
the code's defaults, so that one missed renewal must be survived and two need not be;
the third start is a restart.

Workers (and replicas) are interchangeable, so the safety runs use symmetry; the runs
with temporal properties do not. The processor and lifecycle runs check for
deadlock (`SeckillProcessor` has an explicit `Drained` step). The others set
`CHECK_DEADLOCK FALSE`, because their instances may really stop: the gateway and the
stock store when every call was made, the guards and the sale at the bound of the
clock, discovery when every instance stopped for good and no client asks any more.

**Fairness.** Weak fairness of each consumer, handler, worker and job: they are loops
that run as long as the process does, and `docker-compose.yml` restarts processes
(`restart: unless-stopped`), which also justifies that a job comes back after its
first round failed (job.go:775). Weak fairness of delivery and of AckWait is
JetStream's. Strong fairness only for the provider's callback: the provider retries
until it is answered, while the handler it needs may be busy with other calls again
and again. Nothing forces a buyer to prepay or pay, a sale to close, a fault to
happen, or the payment gateway to learn of a payment by itself.
`SeckillGateway` assumes that the processor answers what was published, which is
`EveryRequestAnswered` of `SeckillProcessor`. `ActivitySale` assumes that the two jobs'
tickers go on, and nothing of administrators, loads or requests. `ServiceDiscovery`
assumes that goroutines and watcher loops run, that time passes and that an
unrenewed lease runs out; nobody is obliged to start, stop or crash.

### Findings

Three runs check one sentence of the code or its documents, and TLC refutes it.
`PROJECT.json` quotes the sentence.

| Run | What the code does |
|---|---|
| `processor_crash` | a crash after TryStart: the redelivery sees PROCESSING, is acked, and nobody answers the request |
| `lifecycle_paid_units` | the job releases an order that was paid after the list was read |
| `gateway_route_limit` | the limiter that main.go wires has a new store for every request and refuses nobody |

Other sequences that end badly are behaviours of the models and are described in the
hazard list, at their lines: the units of an order whose CreateOrder reply was lost are
sold again; after the key expired a redelivery overwrites the buyer's order number with
a rejection; the retry of a failed release finds the order closed and never releases; a
callback that loses against the close syncs the order and issues its card all the same;
a callback that nobody owes marks an order paid; the list of an activity's orders, which
admin.go:117 calls all of them, holds its 100 newest, and the old poll looks no further;
an order that left the jobs' list is neither closed nor synced by them; a gateway whose
clock is ahead trims entries that are in the window of the others, so that more than the
limit pass in one interval; a product that is delisted and added again, or cleared at
the end of its activity and stocked again by a restart, is on sale with all its units,
the sold ones included; the poll takes the worker's failure reason for an order number;
a second release of an order number lowers the buyer's count again; the address of a
stopped instance comes back with a refresh that was already sent.

The properties of the passing runs are stated so that they hold beside these:
`NoOversell` and `LimitHolds` until a reply is lost, `NoReservationLeaks` and
`AnsweredWhenAcked` under early redeliveries (the latter also under expiring keys),
`AnswerSurvives` for traces that were sent once and no fault touched,
`ClosedUnitsReturn` while no call fails and no read is out of date, `EventuallySettled`
but for an order outside the jobs' list whose task was dropped after a failure,
`PaidOrdersSync` but for one outside the list when something failed or the payment was
found by asking, `AskersMarkCharged` for everybody but `Notify`, `OrderIsShown` until
newer orders push the order off the list, `RateHolds` for the shared window over an
interval shortened by the skew, `SoldOnce` for what was never withdrawn, `LimitCovers`
for buyers whose count did not come loose, `StaysListed` while the failures do not add
up to a TTL, `DeadLeave` but for the addresses in `Kept`. In each case the condition is
an explicit part of the formula, and the hazard list says what happens without it.

## 4. What is proved

`SeckillProcessorProofs` proves, for any sets of messages, traces, buyers and
instances, any stock and limit, and any number of faults of any kind, from the
assumption `ProcessorAssumption` (types of the constants; `NoMessage` is not a
message). Nothing is assumed to be finite: that `reserved` is finite is part of the
invariant behind `StockSafe`, that `orders` is follows from the injection behind
`SaleSafe`.

| Theorem | Property | Argument |
|---|---|---|
| `TypeCorrect` | `TypeOK` | inductive with the relation of each step to what the instance then holds; `stock >= 1` guards the only decrement |
| `Layer1Safe` | `Layer1Exclusive` | invariant: an instance between TryStart and its settling write finds its key non-absent, so a second one cannot win; the compare-and-delete and the early return of a failed TryStart are what keep it |
| `Layer2Safe`, `AnswersSafe` | one order per trace (a lemma of the others), `AnswersNameOrders` | orders are inserted only for a trace without one, numbers are minted once, an answer is taken from the inserted or the looked-up row; holds under every fault |
| `StockSafe` | `StockConserved` | reservations are keyed by order number, so that a release removes exactly what its deduction added; needs that an instance about to deduct holds a number nobody reserved under |
| `SaleSafe`, `LimitSafe` | `NoOversell`, `LimitHolds` | `OrdersBacked`: until a reply is lost each order has the reservation of its own number, and an injection of orders into reservations bounds them by `Stock0`, a buyer's by his count |

`SeckillContractProofs` builds on it:

| Theorem | Property | Argument |
|---|---|---|
| `TimedSafe` | `OrdersTimed` | an order without a task is still with the instance that created it, and that one has not finished |
| `AckedSafe` | `AnsweredWhenAcked` | a key that is not absent has an answer behind it or an instance in front of it |
| `LeakSafe` | `NoReservationLeaks` | under early redeliveries alone, a number that is reserved is an order's or that of an attempt between its deduction and its undo |
| `Refinement` | `ImplementsContract` | without lost replies and expired keys each step is a step of the contract or a stutter: an insert is `Place`, the write of the buyer's key `Confirm` or `Refuse`, the repeated write of one answer a stutter |
| `StockIsAStore` | shelf and reservations implement `StockContract`, under every fault | a deduction is `Deduct` because `Numbered` says the number at hand holds no unit yet; a release is `GiveBack`, or a stutter where the number holds nothing. `StockStore` implements the same contract, so what the processor assumes of its stock is what the store's commands do |

`OrderLifecycleProofs` does the same for `OrderLifecycle`, for any sets of orders,
replicas, consumers, handlers and jobs and any number of faults of any kind, from
`LifecycleAssumption` (`NoOrder` is not an order; the types of `Faults` and
`MaxFaults`):

| Theorem | Property | Argument |
|---|---|---|
| `TypeCorrect` | `TypeOK` | inductive as it stands; the reads and the steps that may fail rest on two lemmas of their own |
| `UnitsSafe`, `TimeoutSafe` | `PendingKeepsUnits`, `TimeoutSparesPaid` | `CacheLags`: a cached copy is the row or still PENDING, because a row changes once; so a copy that says CLOSED is right, and `ReleasesFollowClose` holds: a consumer about to release has a CLOSED row, a job about to release a final one |
| `AskersSafe` | `AskersMarkCharged` | an action property, of every step that takes a row to PAID: the timeout handler and the reconciliation mark what they learnt from the gateway, and the invariant says what that knowledge is worth when they use it, whatever became of the payment since |
| `PaymentsSafe` | `PostPayFollowsMark`: nothing is synced, carded or queued before somebody reported a payment and the order left PENDING | whoever works on what follows has seen the row leave PENDING |
| `NobodyForgetsUnits` | `ReleaserAtHand`: a closed order whose units are out has somebody who will release them | the safety half of `ClosedUnitsReturn`: whoever closes an order keeps it until the release is behind him, and only a fault of a named kind takes it out of his hands |

The properties are not inductive alone: a release is guarded by the program counter of
the process that performs it, so the invariant has to say what each program counter
knows about the row, and a read what a cache can show.

The other modules' theorems, each for every value of the constants that the named
assumption of the module allows:

| Module | Theorem | Property | Argument |
|---|---|---|---|
| `SeckillGatewayProofs` | `TypeCorrect` | `TypeOK` | lemmas on what `Append` and `Tail` do to a channel's elements |
| | `AnswersSurvive` | `AnswerSurvives` | `InOnePlace`: a request under way was sent by its handler and is in one place; `DoneWithPublished`: what was published the gateway has done with; so the processor writes last |
| | `RejectedStayOut` | `RejectedNeverPublished` | from `DoneWithPublished`: what was published had been sent |
| | `AcceptedAreHandedOn` | `NothingDropped`: an accepted request is in one of the gateway's hands, published, or its trace says why not | the safety half of `AcceptedIsAnswered`: the channel refuses instead of losing, and a worker puts a request down only after it was published or its trace answered |
| `StockStoreProofs` | `TypeCorrect`, `UnitsAreConserved` | `TypeOK`, `UnitsConserved` | `UnitsInv`: units are under one name of the key, and when a late copy may come |
| | `LimitIsCovered` | `LimitCovers` | `CountInv`: a count is at least what the buyer holds and what his calls have counted and not yet taken or given back |
| | `LedgerIsNotEarly` | `LedgerNotEarly` | an order number is released only after its one reserve call came back, and nothing reserves it again |
| | `Refinement` | `ImplementsContract` | each command is a step of `StockContract` or a stutter |
| `GatewayGuardsProofs` | `ProbeIsAlone` | `ProbeAlone` | a breaker that is not half open has admitted nobody since it opened, and a half-open one only its probe |
| | `TypeCorrect` | `TypeOK` | the domain of the buckets is added; a refill stays between nothing and the limit whatever the clocks say, and a token is taken only where there is one |
| | `RatesHold` | `RateHolds` | `RateInv`: `Paid` is an account of tokens, for every tick and each bucket: what it let through since and what it holds came out of a full bucket, its inflow since, one skew for each step back of its clock and one request for each fault; `WindowKept`: a request of ticks that are in every gateway's window is in the shared one under some gateway's reading, about to be added, or owed to a fault: no gateway has trimmed it yet, however far ahead its clock is. What passed is counted as the members of a set, as Redis does, so that one more request is one more member and no sum is needed |
| `ActivitySaleProofs` | `SoldOnceAlways` | `SoldOnce` | `Withdrawing`: a key is put down for deletion, by an administrator or by the job, only for what is withdrawn from then on; `ShelfKept`: so the key of any other product is missing only before its first sale, and SetNX, however often it is repeated, stocks nothing that was sold |
| | `EndedStaysEnded` | an activity leaves its end only when its number is created again or the memory is lost | whatever a job listed, its target is open or ended, and the state machine lets neither overwrite ended |
| | `VerdictsAreFresh` | `VerdictsFresh` | `DateInv` dates every load and every fresh entry by a version of the record: in force when the load began, at most one call before the entry was stored, and for the processor's own level at most the life of the shared entry earlier still; no write loses the version it replaces, and the clock forgets none that still counts |
| | `TypeCorrect` | `TypeOK` | from `DateInv` and the bounds: a record is never dated after the clock, and what is kept of it is a copy |
| `ServiceDiscoveryProofs` | `TypeCorrect` | `TypeOK` | inductive as it stands |
| | `ListedSafe` | `StaysListed` | `Steady`, an account of time: what is left of the TTL, the age of the instance's ticker, and one interval for each fault and for the renewal under way never add up to less than the TTL; `Leased`: without a fault a live instance's own address has its own lease |
| | `DeadAreExpiring` | `DeadExpire`: an address whose instances are all gone is on its way out, or one of the cases the code leaves behind | the safety half of `DeadLeave`: `Held`: an address that nobody left behind has an instance that holds it; `Timed`: a hash has a TTL, or somebody is about to set one, or was cut off before; `LeasesHeld`: a lease that is renewed is that of an instance that holds the address |
| | `NoEventMissed` | `WaitersAgree`: a watcher that waits shows what is registered | the safety half of `WatchersAgree`: `Informed`: a watcher waits only when it returned what is registered, and in etcd nothing changes that without waking it |

Each theorem is the usual three facts (initially, preserved by every action, implies
the property), with one step per action.

Only model-checked: liveness (`EventuallyDrained`, `EveryRequestAnswered`, `ClosedUnitsReturn`,
`EventuallySettled`, `PaidOrdersSync`, `AcceptedIsAnswered`, `OrderIsShown`,
`JobsCatchUp`, `DeadLeave`, `WatchersAgree`): fairness and ENABLED are beyond the
prover. Where a liveness property has a part that is safety, that part is proved: nothing
that must come to an end is ever forgotten (`AckedSafe`, `NobodyForgetsUnits`,
`AcceptedAreHandedOn`, `DeadAreExpiring`, `NoEventMissed`), so what is left to TLC is that
the steps which carry it on happen in the end. The invariants of these theorems, and
`StockIsAStore`, held on the instances of the runs before they were proved. `JobsCatchUp`,
`EventuallySettled` and `OrderIsShown` have no such part: the jobs list the rows anew each
round and remember nothing, and the poll looks at what is stored.

## 5. What is left out, and why

* Quantities, prices, products, names and wording: one SKU, one unit per request.
* Time, except in `GatewayGuards`, `ActivitySale` and `ServiceDiscovery`: elsewhere a
  delay is the free choice of when a step happens, and TTLs are steps.
* The payment callback's distributed lock and the Redis cache that README.md:92-93
  describe: support-service's main.go wires neither. Nor are the stock map, the
  job's warm-up cache, and the Postgres store and application service of
  activity-service wired.
* What a callback is worth: `Notify` verifies nothing, so nothing is claimed about who
  calls it or whether an order it marks was charged.
* The stock store's answer for a shelf that does not exist (memory.go:49-53), which the
  processor naks without limit: `SeckillProcessor` has a shelf from the start.
* Paused activities (activity.go:14,29-30): no call of the system pauses one. The job
  would not end it (job.go:875-891), so `JobsCatchUp` would not hold of it.
* An EXPIRE of a renewal that takes effect although its reply is lost: `ServiceDiscovery`
  has the call fail without effect. The refresher goes on alike in both cases.
* The gateway's slow path: main.go always sets a worker pool.
* `max_deliver` and `ack_wait` of README.md:109-119: the code sets neither, so
  redelivery is unbounded and AckWait is the server's.
* The gateway's configuration changes while requests run: they replace the whole
  record under a lock. A route's rules are constants of `GatewayGuards`.
* Which wiring runs: `main.go:275-276` passes the limiter no store and the breaker no
  controller, so the Redis store and a breaker that outlives a request are wired only by
  tests. `GatewayGuards` has these wirings and that of `main.go`; `RateHolds` says nothing
  of the latter (`gateway_route_limit`), and `ProbeAlone` is about the former.
* The hybrid bus's batches and retries, and those of the ledger's writer: `StockStore`
  delivers an event once, twice or not at all.
* The processor's Redis, memory and ZSET queues: alternatives to JetStream that the
  repository's configurations do not choose.
* order-service's Redis and memory stores: fallbacks without a database.
* Members, free cards after their issue, and risk-service's blacklist: not
  reached from a purchase, or a verdict that is a free choice here.
* A registry without a TTL (`discovery.ttl` of 0), and a Redis that loses its data.
* Generated code (`api/`, `sqlcgen`), set-up, conversions between messages and
  records, tracing, metrics and logging, which are most of the repository's lines.

## 6. Plan

Done: all modules above. Left, in this order:

1. `GatewayGuards`: configuration changes under requests.
2. `DelayQueue`: the pending lists and the ZSET of the processor's Redis queues, and
   what a consumer loses that dies between the claim and the acknowledgement.
3. The hybrid bus and the ledger's writer with their batches and retries.
