--------------------------- MODULE OrderLifecycle ---------------------------
(***************************************************************************)
(* What happens to an order after it was created: the payment timeout task *)
(* of seckill-processor, the payment callback of support-service and the   *)
(* compensation jobs of seckill-job all read the order through the cached  *)
(* order-service, decide on what they read, and write the row, the stock   *)
(* and the payment one remote call at a time.                              *)
(*                                                                         *)
(* The row is Postgres: MarkOrderPaid and CloseOrder are conditional       *)
(* updates that report success when they matched nothing.  Any number of   *)
(* order-service replicas keep a local cache, invalidated only by their    *)
(* own writes.                                                             *)
(***************************************************************************)
EXTENDS Integers, FiniteSets

CONSTANTS
  Orders,      \* orders of one activity, created unpaid with a timeout task
  Replicas,    \* order-service processes
  Timers,      \* consumers of the payment timeout queue
  Callers,     \* request handlers of support-service
  Sweepers,    \* seckill-job processes
  NoOrder,     \* what an idle process holds
  Droppable,   \* orders the jobs' list may drop, and show again
  Faults,      \* the kinds of fault the environment may inject
  MaxFaults    \* how many faults it injects in one behaviour

FaultKinds ==
  { "error",    \* a call fails with a temporary error and had no effect
    "lost",     \* a call takes effect but its reply is a temporary error
    "terminal", \* a call fails with an error nobody retries
    "crash",    \* a process dies and restarts
    "slow",     \* AckWait passes while the task is still being handled
    "wipe" }    \* support-service restarts: its ledger and payments are memory

ASSUME LifecycleAssumption ==
  /\ NoOrder \notin Orders
  /\ Faults \subseteq FaultKinds
  /\ MaxFaults \in Nat

VARIABLES
  row,        \* sk_order.order_status
  cached,     \* the local cache of each replica
  units,      \* the order's reservation: held, or released by whom
  payment,    \* the payment record of support-service
  callback,   \* who told of a payment: nobody, somebody unproved (claimed),
              \* the provider once the buyer paid (due, then answered)
  task,       \* JetStream's view of the payment timeout task
  postPay,    \* post-pay tasks in the queue
  synced,     \* orders synced to the main order system
  cards,      \* orders a card was issued for
  timer,      \* the step and the order of each timeout consumer
  caller,     \* the same for each support-service handler, with what it
              \* still owes the order after failing to queue it
  sweeper,    \* the same for each job, with the rest of its list
  listed,     \* orders the jobs get to see
  faults,     \* how many faults so far
  disturbed   \* a call failed or a read was out of date

stateVars == <<row, cached, units, payment, callback, task, postPay, synced, cards>>
processVars == <<timer, caller, sweeper>>
envVars == <<listed, faults, disturbed>>
vars == <<stateVars, processVars, envVars>>

Statuses == {"PENDING", "PAID", "CLOSED"}
Idle == [at |-> "idle", order |-> NoOrder]
IdleCaller == [at |-> "idle", order |-> NoOrder, owes |-> {}]

Init ==
  /\ row = [o \in Orders |-> "PENDING"]
  /\ cached = [r \in Replicas |-> [o \in Orders |-> "none"]]
  /\ units = [o \in Orders |-> "held"]
  /\ payment = [o \in Orders |-> "none"]
  /\ callback = [o \in Orders |-> "none"]
  /\ task = [o \in Orders |-> "ready"]
  /\ postPay = {}
  /\ synced = {}
  /\ cards = {}
  /\ timer = [w \in Timers |-> Idle]
  /\ caller = [c \in Callers |-> IdleCaller]
  /\ sweeper = [s \in Sweepers |-> [at |-> "idle", order |-> NoOrder, todo |-> {}]]
  /\ listed = Orders
  /\ faults = 0
  /\ disturbed = FALSE

Fault(kind) ==
  /\ kind \in Faults
  /\ faults < MaxFaults
  /\ faults' = faults + 1
  /\ disturbed' = (disturbed \/ kind # "slow")
  /\ UNCHANGED listed

NoFault == UNCHANGED envVars

-----------------------------------------------------------------------------
(* order-service.                                                          *)

(* GetOrder through the cache of some replica; a hit may be out of date.    *)
Read(o, seen) ==
  \E r \in Replicas :
    \/ /\ cached[r][o] = "none"
       /\ seen = row[o]
       /\ cached' = [cached EXCEPT ![r][o] = row[o]]
       /\ NoFault
    \/ /\ cached[r][o] # "none"
       /\ seen = cached[r][o]
       /\ UNCHANGED <<cached, listed, faults>>
       /\ disturbed' = (disturbed \/ seen # row[o])

(* Mutant: the update is not conditional on PENDING_PAY. *)
WriteAnyway(o, status) ==
  /\ row' = [row EXCEPT ![o] = status]
  /\ \E r \in Replicas : cached' = [cached EXCEPT ![r][o] = "none"]

(* UPDATE ... WHERE order_status = 'PENDING_PAY' matches or not: success   *)
(* either way, and the replica that wrote drops its cached copy.           *)
Write(o, status) ==
  /\ row' = [row EXCEPT ![o] = IF @ = "PENDING" THEN status ELSE @]
  /\ \E r \in Replicas : cached' = [cached EXCEPT ![r][o] = "none"]

(* The update took effect but order-service was not told: the cached copy  *)
(* stays.                                                                  *)
WriteUntold(o, status) ==
  /\ row' = [row EXCEPT ![o] = IF @ = "PENDING" THEN status ELSE @]
  /\ UNCHANGED cached

(* The local TTL.                                                          *)
CacheExpires(r, o) ==
  /\ cached[r][o] # "none"
  /\ cached' = [cached EXCEPT ![r][o] = "none"]
  /\ NoFault
  /\ UNCHANGED <<row, units, payment, callback, task, postPay, synced, cards, processVars>>

(* ReleaseStock by order number: the second release finds no reservation.  *)
Release(o, who) == units' = [units EXCEPT ![o] = IF @ = "held" THEN who ELSE @]

(* ClosePayment: a paid one stays paid, a missing one is an error.         *)
ClosePayment(o) ==
  payment' = [payment EXCEPT ![o] = IF @ = "pending" THEN "closed" ELSE @]

-----------------------------------------------------------------------------
(* seckill-processor, HandlePaymentTimeout.Execute.                        *)

TimerTo(w, at) == timer' = [timer EXCEPT ![w].at = at]

TimerStep(w, from, to) ==
  /\ timer[w].at = from
  /\ TimerTo(w, to)
  /\ UNCHANGED <<caller, sweeper>>

(* A task that is not due yet goes back with a delay, unhandled.           *)
FetchTask(w, o) ==
  /\ timer[w].at = "idle"
  /\ task[o] = "ready"
  /\ task' = [task EXCEPT ![o] = "inflight"]
  /\ timer' = [timer EXCEPT ![w] = [at |-> "get", order |-> o]]
  /\ NoFault
  /\ UNCHANGED <<row, cached, units, payment, callback, postPay, synced, cards, caller, sweeper>>

TimeoutGet(w) ==
  /\ timer[w].at = "get"
  /\ \E seen \in Statuses :
       /\ Read(timer[w].order, seen)
       /\ TimerStep(w, "get", IF seen = "PENDING" THEN "query" ELSE "ack")
  /\ UNCHANGED <<row, units, payment, callback, task, postPay, synced, cards>>

(* Mutant: any payment record counts as paid. *)
TimeoutQueryAny(w) ==
  /\ TimerStep(w, "query", IF payment[timer[w].order] # "none" THEN "mark" ELSE "close")
  /\ NoFault
  /\ UNCHANGED stateVars

(* Mutant: an order without a payment is released before it is closed. *)
TimeoutQueryReleases(w) ==
  /\ TimerStep(w, "query", CASE payment[timer[w].order] = "paid" -> "mark"
                             [] payment[timer[w].order] = "none" -> "release"
                             [] OTHER -> "close")
  /\ NoFault
  /\ UNCHANGED stateVars

(* A missing payment is as good as an unpaid one.                          *)
TimeoutQuery(w) ==
  /\ TimerStep(w, "query", IF payment[timer[w].order] = "paid" THEN "mark" ELSE "close")
  /\ NoFault
  /\ UNCHANGED stateVars

TimeoutMark(w) ==
  /\ TimerStep(w, "mark", "ack")
  /\ Write(timer[w].order, "PAID")
  /\ NoFault
  /\ UNCHANGED <<units, payment, callback, task, postPay, synced, cards>>

(* Mutant: the closed order is not read back. *)
TimeoutCloseTrusts(w) ==
  /\ TimerStep(w, "close", "release")
  /\ Write(timer[w].order, "CLOSED")
  /\ NoFault
  /\ UNCHANGED <<units, payment, callback, task, postPay, synced, cards>>

TimeoutClose(w) ==
  /\ TimerStep(w, "close", "verify")
  /\ Write(timer[w].order, "CLOSED")
  /\ NoFault
  /\ UNCHANGED <<units, payment, callback, task, postPay, synced, cards>>

TimeoutVerify(w) ==
  /\ timer[w].at = "verify"
  /\ \E seen \in Statuses :
       /\ Read(timer[w].order, seen)
       /\ TimerStep(w, "verify", IF seen = "CLOSED" THEN "release" ELSE "ack")
  /\ UNCHANGED <<row, units, payment, callback, task, postPay, synced, cards>>

TimeoutRelease(w) ==
  /\ TimerStep(w, "release", "closepay")
  /\ Release(timer[w].order, "timeout")
  /\ NoFault
  /\ UNCHANGED <<row, cached, payment, callback, task, postPay, synced, cards>>

TimeoutClosePayment(w) ==
  /\ TimerStep(w, "closepay", "ack")
  /\ ClosePayment(timer[w].order)
  /\ NoFault
  /\ UNCHANGED <<row, cached, units, callback, task, postPay, synced, cards>>

(* What a failing call may have done before it failed.                     *)
Nothing == UNCHANGED stateVars
TimeoutEffect(w) ==
  LET o == timer[w].order IN
  \/ timer[w].at = "mark" /\ WriteUntold(o, "PAID")
     /\ UNCHANGED <<units, payment, callback, task, postPay, synced, cards>>
  \/ timer[w].at = "close" /\ WriteUntold(o, "CLOSED")
     /\ UNCHANGED <<units, payment, callback, task, postPay, synced, cards>>
  \/ timer[w].at = "release" /\ Release(o, "timeout")
     /\ UNCHANGED <<row, cached, payment, callback, task, postPay, synced, cards>>
  \/ timer[w].at = "closepay" /\ ClosePayment(o)
     /\ UNCHANGED <<row, cached, units, callback, task, postPay, synced, cards>>

TimerCalls == {"get", "query", "mark", "close", "verify", "release", "closepay"}

(* A temporary error is retried from the top; any other is terminal and    *)
(* the task is acked, except that a failed MarkOrderPaid is always retried. *)
(* A database error of CloseOrder reads as invalid state: acked as well.   *)
TimeoutFails(w) ==
  /\ timer[w].at \in TimerCalls
  /\ \/ Fault("error") /\ Nothing /\ TimerTo(w, "nak")
     \/ Fault("lost") /\ TimeoutEffect(w) /\ TimerTo(w, "nak")
     \/ /\ Fault("terminal")
        /\ Nothing \/ TimeoutEffect(w)
        /\ TimerTo(w, IF timer[w].at = "mark" THEN "nak" ELSE "ack")
  /\ UNCHANGED <<caller, sweeper>>

(* Mutant: the consumer keeps the order of the task it settled. *)
SettleTaskKeeps(w) ==
  /\ timer[w].at \in {"ack", "nak"}
  /\ task' = [task EXCEPT ![timer[w].order] =
                IF timer[w].at = "ack" THEN "acked"
                ELSE IF @ = "inflight" THEN "ready" ELSE @]
  /\ timer' = [timer EXCEPT ![w].at = "idle"]
  /\ NoFault
  /\ UNCHANGED <<row, cached, units, payment, callback, postPay, synced, cards, caller, sweeper>>

SettleTask(w) ==
  /\ timer[w].at \in {"ack", "nak"}
  /\ task' = [task EXCEPT ![timer[w].order] =
                IF timer[w].at = "ack" THEN "acked"
                ELSE IF @ = "inflight" THEN "ready" ELSE @]
  /\ timer' = [timer EXCEPT ![w] = Idle]
  /\ NoFault
  /\ UNCHANGED <<row, cached, units, payment, callback, postPay, synced, cards, caller, sweeper>>

AckWaitPasses(o) ==
  /\ task[o] = "inflight"
  /\ task' = [task EXCEPT ![o] = "ready"]
  /\ IF \E w \in Timers : timer[w].order = o
     THEN Fault("slow") ELSE NoFault
  /\ UNCHANGED <<row, cached, units, payment, callback, postPay, synced, cards, processVars>>

TimerCrashes(w) ==
  /\ timer[w].at # "idle"
  /\ timer' = [timer EXCEPT ![w] = Idle]
  /\ Fault("crash")
  /\ UNCHANGED <<stateVars, caller, sweeper>>

-----------------------------------------------------------------------------
(* support-service: Prepay and Notify, and the buyer and provider outside. *)

CallerStep(c, from, to) ==
  /\ caller[c].at = from
  /\ caller' = [caller EXCEPT ![c] =
                   IF to = "idle" THEN IdleCaller ELSE [at |-> to, order |-> @.order, owes |-> @.owes]]
  /\ UNCHANGED <<timer, sweeper>>

Accept(c, at, o) ==
  /\ caller[c].at = "idle"
  /\ caller' = [caller EXCEPT ![c] = [at |-> at, order |-> o, owes |-> {}]]
  /\ NoFault
  /\ UNCHANGED <<row, cached, units, payment, task, postPay, synced, cards, timer, sweeper>>

PrepayCalled(c, o) == Accept(c, "prepay", o) /\ UNCHANGED callback

PrepayGet(c) ==
  /\ caller[c].at = "prepay"
  /\ \E seen \in Statuses :
       /\ Read(caller[c].order, seen)
       /\ CallerStep(c, "prepay", IF seen = "PENDING" THEN "create" ELSE "idle")
  /\ UNCHANGED <<row, units, payment, callback, task, postPay, synced, cards>>

(* CreatePayment keeps an open or paid payment and replaces a closed one.  *)
PrepayCreate(c) ==
  /\ CallerStep(c, "create", "idle")
  /\ payment' = [payment EXCEPT ![caller[c].order] =
                   IF @ \in {"none", "closed"} THEN "pending" ELSE @]
  /\ NoFault
  /\ UNCHANGED <<row, cached, units, callback, task, postPay, synced, cards>>

(* The buyer pays an open payment; the provider owes a callback.           *)
BuyerPays(o) ==
  /\ payment[o] = "pending"
  /\ callback[o] \in {"none", "claimed"}
  /\ callback' = [callback EXCEPT ![o] = "due"]
  /\ NoFault
  /\ UNCHANGED <<row, cached, units, payment, task, postPay, synced, cards, processVars>>

Charged(o) == callback[o] \in {"due", "answered"}

(* The gateway learns of the payment by itself, at any time or never (the  *)
(* mock gateway wired today never does).                                   *)
GatewayLearns(o) ==
  /\ Charged(o)
  /\ payment[o] = "pending"
  /\ payment' = [payment EXCEPT ![o] = "paid"]
  /\ NoFault
  /\ UNCHANGED <<row, cached, units, callback, task, postPay, synced, cards, processVars>>

(* The provider calls until it is answered, and may call again after that; *)
(* so may anybody else, paid or not: Notify looks at no signature, caller  *)
(* or payment record.                                                      *)
NotifyCalled(c, o) ==
  /\ Accept(c, "get", o)
  /\ callback' = [callback EXCEPT ![o] = IF @ = "none" THEN "claimed" ELSE @]

NotifyGet(c) ==
  /\ caller[c].at = "get"
  /\ \E seen \in Statuses :
       /\ Read(caller[c].order, seen)
       /\ CallerStep(c, "get", IF seen = "PENDING" THEN "mark" ELSE "ok")
  /\ UNCHANGED <<row, units, payment, callback, task, postPay, synced, cards>>

(* A failed GetOrder is answered like a success, unless the breaker is open. *)
NotifyGetFails(c) ==
  /\ \E breakerOpen \in BOOLEAN : CallerStep(c, "get", IF breakerOpen THEN "idle" ELSE "ok")
  /\ Fault("error")
  /\ UNCHANGED stateVars

NotifyMark(c) ==
  /\ CallerStep(c, "mark", "sync")
  /\ Write(caller[c].order, "PAID")
  /\ NoFault
  /\ UNCHANGED <<units, payment, callback, task, postPay, synced, cards>>

NotifyMarkFails(c) ==
  /\ CallerStep(c, "mark", "idle")
  /\ \/ Fault("error") /\ UNCHANGED <<row, cached>>
     \/ Fault("lost") /\ WriteUntold(caller[c].order, "PAID")
  /\ UNCHANGED <<units, payment, callback, task, postPay, synced, cards>>

(* publishPostPayTasks queues both tasks; a publish that reports an error   *)
(* leaves the work to the handler, even when the task was queued.          *)
PublishTask(c, kind, to) ==
  LET o == caller[c].order IN
  /\ caller[c].at = kind
  /\ \/ NoFault /\ postPay' = postPay \cup {<<kind, o>>}
        /\ caller' = [caller EXCEPT ![c] = [at |-> to, order |-> o, owes |-> @.owes]]
     \/ /\ \/ Fault("error") /\ UNCHANGED postPay
           \/ Fault("lost") /\ postPay' = postPay \cup {<<kind, o>>}
        /\ caller' = [caller EXCEPT ![c] = [at |-> to, order |-> o, owes |-> @.owes \cup {kind}]]
  /\ UNCHANGED <<row, cached, units, payment, callback, task, synced, cards, timer, sweeper>>

PublishSync(c) == PublishTask(c, "sync", "card")

PublishCard(c) == PublishTask(c, "card", "ok")

PayOff(c, kind) ==
  /\ caller[c].at = "ok"
  /\ kind \in caller[c].owes
  /\ caller' = [caller EXCEPT ![c].owes = @ \ {kind}]
  /\ NoFault
  /\ UNCHANGED <<row, cached, units, payment, callback, task, postPay, timer, sweeper>>

(* Inline, best effort: a failure is logged, the sync may be degraded away. *)
SyncPaidOrder(c) ==
  /\ PayOff(c, "sync")
  /\ synced' \in {synced, synced \cup {caller[c].order}}
  /\ UNCHANGED cards

IssueCardAfterPay(c) ==
  /\ "sync" \notin caller[c].owes
  /\ PayOff(c, "card")
  /\ cards' \in {cards, cards \cup {caller[c].order}}
  /\ UNCHANGED synced

NotifyAnswered(c) ==
  /\ caller[c].owes = {}
  /\ CallerStep(c, "ok", "idle")
  /\ callback' = [callback EXCEPT ![caller[c].order] = IF @ = "due" THEN "answered" ELSE @]
  /\ NoFault
  /\ UNCHANGED <<row, cached, units, payment, task, postPay, synced, cards>>

CallerCrashes(c) ==
  /\ caller[c].at # "idle"
  /\ CallerStep(c, caller[c].at, "idle")
  /\ Fault("crash")
  /\ UNCHANGED stateVars

(* A post-pay task runs at least once; the ledger ignores the second time. *)
RunPostPay(kind, o) ==
  /\ <<kind, o>> \in postPay
  /\ \/ NoFault /\ postPay' = postPay \ {<<kind, o>>}
     \/ Fault("lost") /\ UNCHANGED postPay
  /\ synced' = IF kind = "sync" THEN synced \cup {o} ELSE synced
  /\ cards' = IF kind = "card" THEN cards \cup {o} ELSE cards
  /\ UNCHANGED <<row, cached, units, payment, callback, task, processVars>>

(* The ledger and the payments of support-service live in its memory.      *)
SupportRestarts ==
  /\ Fault("wipe")
  /\ payment' = [o \in Orders |-> "none"]
  /\ synced' = {}
  /\ cards' = {}
  /\ caller' = [c \in Callers |-> IdleCaller]
  /\ UNCHANGED <<row, cached, units, callback, task, postPay, timer, sweeper>>

-----------------------------------------------------------------------------
(* seckill-job, once the activity ended and the orders are 15 minutes old. *)

(* ListOrdersByActivities: the 10000 newest rows of 7 days, whatever their *)
(* status, of the activities activity-service still lists.  An order drops *)
(* out as it ages, newer ones arrive or its activity disappears, and comes *)
(* back with its activity.                                                 *)
ListChanges(o) ==
  /\ o \in Droppable
  /\ listed' = IF o \in listed THEN listed \ {o} ELSE listed \cup {o}
  /\ UNCHANGED <<stateVars, processVars, faults, disturbed>>

ListedPending == {o \in listed : row[o] = "PENDING"}

SweepStep(s, from, to) ==
  /\ sweeper[s].at = from
  /\ sweeper' = [sweeper EXCEPT ![s].at = to]
  /\ UNCHANGED <<timer, caller>>

(* Mutant: orders without a payment are not listed. *)
SweepListCharged(s) ==
  /\ sweeper[s].at = "idle"
  /\ \E o \in ListedPending : payment[o] # "none"
  /\ sweeper' = [sweeper EXCEPT ![s] =
                   [at |-> "next", order |-> NoOrder, todo |-> ListedPending]]
  /\ NoFault
  /\ UNCHANGED <<stateVars, timer, caller>>

(* CloseTimeoutOrders works through the pending rows of its list.          *)
SweepList(s) ==
  /\ sweeper[s].at = "idle"
  /\ ListedPending # {}
  /\ sweeper' = [sweeper EXCEPT ![s] =
                   [at |-> "next", order |-> NoOrder, todo |-> ListedPending]]
  /\ NoFault
  /\ UNCHANGED <<stateVars, timer, caller>>

(* Mutant: the units of a closed order are not released. *)
SweepCloseOnly(s, o) ==
  /\ sweeper[s].at = "next"
  /\ o \in sweeper[s].todo
  /\ sweeper' = [sweeper EXCEPT ![s] = [at |-> "closepay", order |-> o, todo |-> @.todo \ {o}]]
  /\ Write(o, "CLOSED")
  /\ NoFault
  /\ UNCHANGED <<units, payment, callback, task, postPay, synced, cards, timer, caller>>

SweepClose(s, o) ==
  /\ sweeper[s].at = "next"
  /\ o \in sweeper[s].todo
  /\ sweeper' = [sweeper EXCEPT ![s] = [at |-> "release", order |-> o, todo |-> @.todo \ {o}]]
  /\ Write(o, "CLOSED")
  /\ NoFault
  /\ UNCHANGED <<units, payment, callback, task, postPay, synced, cards, timer, caller>>

SweepRelease(s) ==
  /\ SweepStep(s, "release", "closepay")
  /\ Release(sweeper[s].order, "job")
  /\ NoFault
  /\ UNCHANGED <<row, cached, payment, callback, task, postPay, synced, cards>>

AbandonList(s) ==
  sweeper' = [sweeper EXCEPT ![s] = [at |-> "idle", order |-> NoOrder, todo |-> {}]]

(* The RPC error of a missing payment is not the ErrNotFound the job       *)
(* forgives: the rest of the list is left to the next pass.                *)
SweepClosePayment(s) ==
  LET o == sweeper[s].order IN
  /\ sweeper[s].at = "closepay"
  /\ ClosePayment(o)
  /\ IF payment[o] = "none" \/ sweeper[s].todo = {}
     THEN AbandonList(s)
     ELSE sweeper' = [sweeper EXCEPT ![s] = [at |-> "next", order |-> NoOrder, todo |-> @.todo]]
  /\ NoFault
  /\ UNCHANGED <<row, cached, units, callback, task, postPay, synced, cards, timer, caller>>

(* Any error ends the pass, and so does a crash.                           *)
SweepFails(s) ==
  LET o == sweeper[s].order IN
  /\ sweeper[s].at # "idle"
  /\ \/ \E kind \in {"error", "terminal", "crash"} : Fault(kind) /\ UNCHANGED stateVars
     \/ /\ Fault("lost")
        /\ \/ /\ sweeper[s].at = "next"
              /\ \E x \in sweeper[s].todo : WriteUntold(x, "CLOSED")
              /\ UNCHANGED units
           \/ /\ sweeper[s].at = "release"
              /\ Release(o, "job")
              /\ UNCHANGED <<row, cached>>
        /\ UNCHANGED <<payment, callback, task, postPay, synced, cards>>
  /\ AbandonList(s)
  /\ UNCHANGED <<timer, caller>>

(* ReconcilePayments marks the pending orders of its list that were paid.  *)
Reconcile(o) ==
  /\ o \in listed
  /\ row[o] = "PENDING"
  /\ payment[o] = "paid"
  /\ Write(o, "PAID")
  /\ NoFault
  /\ UNCHANGED <<units, payment, callback, task, postPay, synced, cards, processVars>>

(* Mutant: only orders whose payment is known to be paid are synced. *)
CheckSyncCharged(o) ==
  /\ o \in listed
  /\ row[o] = "PAID"
  /\ o \notin synced
  /\ payment[o] = "paid"
  /\ synced' = synced \cup {o}
  /\ NoFault
  /\ UNCHANGED <<row, cached, units, payment, callback, task, postPay, cards, processVars>>

(* CheckOrderSync syncs the paid orders of its list that were not; it      *)
(* issues no cards.                                                        *)
CheckSync(o) ==
  /\ o \in listed
  /\ row[o] = "PAID"
  /\ o \notin synced
  /\ synced' = synced \cup {o}
  /\ NoFault
  /\ UNCHANGED <<row, cached, units, payment, callback, task, postPay, cards, processVars>>

-----------------------------------------------------------------------------
HandleTask(w) ==
  \/ TimeoutGet(w) \/ TimeoutQuery(w) \/ TimeoutMark(w) \/ TimeoutClose(w)
  \/ TimeoutVerify(w) \/ TimeoutRelease(w) \/ TimeoutClosePayment(w)
  \/ TimeoutFails(w) \/ SettleTask(w)

HandleCall(c) ==
  \/ PrepayGet(c) \/ PrepayCreate(c)
  \/ NotifyGet(c) \/ NotifyGetFails(c) \/ NotifyMark(c) \/ NotifyMarkFails(c)
  \/ PublishSync(c) \/ PublishCard(c)
  \/ SyncPaidOrder(c) \/ IssueCardAfterPay(c) \/ NotifyAnswered(c)

Sweep(s) ==
  \/ SweepList(s) \/ SweepRelease(s) \/ SweepClosePayment(s) \/ SweepFails(s)
  \/ \E o \in Orders : SweepClose(s, o)

Next ==
  \/ \E w \in Timers : HandleTask(w) \/ TimerCrashes(w) \/ \E o \in Orders : FetchTask(w, o)
  \/ \E c \in Callers : \/ HandleCall(c) \/ CallerCrashes(c)
                       \/ \E o \in Orders : PrepayCalled(c, o) \/ NotifyCalled(c, o)
  \/ \E s \in Sweepers : Sweep(s)
  \/ \E o \in Orders : \/ AckWaitPasses(o) \/ BuyerPays(o) \/ GatewayLearns(o)
                      \/ Reconcile(o) \/ CheckSync(o) \/ ListChanges(o)
                      \/ \E r \in Replicas : CacheExpires(r, o)
                      \/ \E kind \in {"sync", "card"} : RunPostPay(kind, o)
  \/ SupportRestarts

Spec == Init /\ [][Next]_vars

(* Consumers, handlers and jobs keep running, the queue keeps delivering,  *)
(* the provider keeps calling until it is answered.  Nobody has to prepay, *)
(* pay, or fail.                                                           *)
Fairness ==
  /\ \A w \in Timers : WF_vars(HandleTask(w))
  /\ \A c \in Callers : WF_vars(HandleCall(c))
  /\ \A s \in Sweepers : WF_vars(Sweep(s))
  /\ \A o \in Orders : /\ WF_vars(\E w \in Timers : FetchTask(w, o))
                       /\ WF_vars(AckWaitPasses(o))
                       /\ WF_vars(CheckSync(o))
                       /\ \A kind \in {"sync", "card"} : WF_vars(RunPostPay(kind, o))
                       /\ SF_vars(callback[o] = "due" /\ \E c \in Callers : NotifyCalled(c, o))

FairSpec == Spec /\ Fairness

-----------------------------------------------------------------------------
(* Every variable has its type.                                            *)
TypeOK ==
  /\ row \in [Orders -> Statuses]
  /\ cached \in [Replicas -> [Orders -> Statuses \cup {"none"}]]
  /\ units \in [Orders -> {"held", "timeout", "job"}]
  /\ payment \in [Orders -> {"none", "pending", "paid", "closed"}]
  /\ callback \in [Orders -> {"none", "claimed", "due", "answered"}]
  /\ task \in [Orders -> {"ready", "inflight", "acked"}]
  /\ postPay \subseteq {"sync", "card"} \X Orders
  /\ synced \subseteq Orders
  /\ cards \subseteq Orders
  /\ timer \in [Timers -> {Idle} \cup [at : TimerCalls \cup {"ack", "nak"}, order : Orders]]
  /\ caller \in [Callers -> {IdleCaller} \cup
        [at : {"prepay", "create", "get", "mark", "sync", "card", "ok"}, order : Orders,
         owes : SUBSET {"sync", "card"}]]
  /\ sweeper \in [Sweepers -> [at : {"idle", "next", "release", "closepay"},
                               order : Orders \cup {NoOrder}, todo : SUBSET Orders]]
  /\ \A s \in Sweepers : sweeper[s].at \in {"release", "closepay"} => sweeper[s].order \in Orders
  /\ listed \subseteq Orders
  /\ faults \in 0 .. MaxFaults
  /\ disturbed \in BOOLEAN

(* An order that may still be paid keeps its units: both releases come     *)
(* after a close, whatever failed or was read out of date in between       *)
(* (HandlePaymentTimeout.Execute, closeActivityPendingOrders).             *)
PendingKeepsUnits == \A o \in Orders : units[o] # "held" => row[o] # "PENDING"

(* The timeout handler never releases the units of a paid order, although  *)
(* its close may match no row and its reads may be out of date: it reads   *)
(* the order back first.                                                   *)
TimeoutSparesPaid == \A o \in Orders : row[o] = "PAID" => units[o] # "timeout"

(* What follows a payment follows a report of one, and waits until the     *)
(* order has left PENDING.                                                 *)
PostPayFollowsMark ==
  \A o \in Orders :
    o \in synced \cup cards \/ <<"sync", o>> \in postPay \/ <<"card", o>> \in postPay =>
      callback[o] # "none" /\ row[o] # "PENDING"

(* Notify believes whoever calls it.  Nobody else marks an order paid that *)
(* its buyer was not charged for: the timeout handler and the job ask the  *)
(* gateway, and take no open, closed or missing payment for a paid one,    *)
(* though it may change or be lost between the query and the mark          *)
(* (HandlePaymentTimeout.Execute, reconcileActivityPayments).              *)
AskersMarkCharged ==
  [][\A o \in Orders :
       row[o] = "PENDING" /\ row'[o] = "PAID" /\ UNCHANGED caller => Charged(o)]_vars

(* While no read is out of date and no call fails, a closed order gives    *)
(* its units back (steps 3 to 5 of HandlePaymentTimeout.Execute).          *)
ClosedUnitsReturn ==
  [](~disturbed) =>
    \A o \in Orders : (row[o] = "CLOSED") ~> (units[o] # "held")

(* Every order is paid or closed in the end, whatever fails: the job       *)
(* sweeps what the timeout queue dropped.  Only an order whose task was    *)
(* dropped after a failure, and which the job does not get to see, may     *)
(* stay pending (the limits of ListOrdersByActivities).                    *)
EventuallySettled ==
  \A o \in Orders :
    \/ <>[](row[o] # "PENDING")
    \/ []<>(o \notin listed /\ task[o] = "acked" /\ disturbed)

(* Every paid order reaches the main order system and stays paid, whatever *)
(* fails: the job compensates for lost post-pay tasks and for a lost       *)
(* ledger.  An order the job does not get to see needs Notify to have done *)
(* it: it is left out after a failure or a stale read, or when the payment *)
(* was found by asking the gateway, for the timeout handler and the        *)
(* reconciliation queue no post-pay tasks.                                 *)
PaidOrdersSync ==
  \A o \in Orders :
    \/ (row[o] = "PAID") ~> [](row[o] = "PAID" /\ o \in synced)
    \/ []<>(o \notin listed /\ (disturbed \/ payment[o] = "paid"))

(* job.go:345: the compensation job releases the units of the pending      *)
(* orders it closes, so an order its buyer paid keeps its own.             *)
PaidKeepsUnits ==
  \A o \in Orders : row[o] = "PAID" /\ Charged(o) => units[o] = "held"
=============================================================================
