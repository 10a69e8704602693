-------------------------- MODULE SeckillProcessor --------------------------
(***************************************************************************)
(* The asynchronous half of a flash sale: seckill-processor instances pull *)
(* purchase messages from a JetStream work queue, claim the trace in Redis *)
(* (Layer 1), re-check the request, deduct stock, create the order behind  *)
(* the (user, trace) unique index (Layer 2), and write the answer the user *)
(* polls for.  Delivery is at least once, every remote call may fail       *)
(* before or after it took effect, processes may crash between any two     *)
(* steps, and Redis keys expire.                                           *)
(*                                                                         *)
(* One SKU, one unit per request.  The stock service appears here by its   *)
(* atomic contract.                                                        *)
(***************************************************************************)
EXTENDS Integers, FiniteSets

CONSTANTS
  Messages,    \* queue messages
  Traces,      \* trace ids, one per purchase request
  Users,       \* buyers
  TraceOf,     \* the trace a message carries
  UserOf,      \* the buyer of a trace
  Workers,     \* processor instances: each handles one message at a time
  NoMessage,   \* what an instance that never fetched anything holds
  Stock0,      \* units on sale
  Limit,       \* purchase limit per buyer, 0 when there is none
  Faults,      \* the kinds of fault the environment may inject
  MaxFaults    \* how many faults it injects in one behaviour

FaultKinds ==
  { "error",   \* a call returns an error and had no effect
    "lost",    \* a call takes effect but its reply is an error
    "crash",   \* an instance dies and restarts
    "slow",    \* AckWait passes while the message is still being handled
    "ttl" }    \* an idempotency key expires or is evicted

ASSUME ProcessorAssumption ==
  /\ TraceOf \in [Messages -> Traces]
  /\ UserOf \in [Traces -> Users]
  /\ NoMessage \notin Messages
  /\ Stock0 \in Nat
  /\ Limit \in Nat
  /\ Faults \subseteq FaultKinds
  /\ MaxFaults \in Nat

VARIABLES
  delivery,    \* JetStream's view of each message
  pc,          \* the step an instance is at
  held,        \* the message it handles
  orderNo,     \* the order number it minted for this attempt
  answer,      \* the answer it is about to write for the trace
  idem,        \* seckill:processor:idem:<trace> in Redis
  result,      \* seckill:order:result:<trace> in Redis
  stock,       \* units left
  purchases,   \* units counted against each buyer's limit
  reserved,    \* reservations, keyed by order number
  orders,      \* rows of sk_order
  timeouts,    \* order numbers with a payment timeout task in the queue
  minted,      \* order numbers handed out so far
  open,        \* the second check would still pass
  faults,      \* how many faults were injected so far
  injected     \* and of which kinds

workerVars == <<pc, held, orderNo, answer>>
stockVars  == <<stock, purchases, reserved>>
saleVars   == <<orders, timeouts, minted, open>>
faultVars  == <<faults, injected>>
vars == <<delivery, workerVars, idem, result, stockVars, saleVars, faultVars>>

(* What the two Redis keys of a trace can hold.                            *)
Absent      == [st |-> "absent", no |-> 0]
Processing  == [st |-> "processing", no |-> 0]
Failed      == [st |-> "failed", no |-> 0]
Success(n)  == [st |-> "order", no |-> n]

Labels == { "idle", "start", "check", "deduct", "create", "lookup", "undo",
            "timeout", "gateway", "idem", "release", "ack", "nak" }

(* The steps between winning TryStart and settling the idempotency key.    *)
CriticalLabels == Labels \ {"idle", "start", "ack", "nak"}

Trace(w) == TraceOf[held[w]]
Buyer(w) == UserOf[Trace(w)]
Holds(w, m) == pc[w] # "idle" /\ held[w] = m
HasOrder(t) == \E o \in orders : o.trace = t

-----------------------------------------------------------------------------
(* Faults are counted, so that a behaviour has finitely many of them, and  *)
(* remembered, so that a property can say which faults it survives.        *)

Fault(kind) ==
  /\ kind \in Faults
  /\ faults < MaxFaults
  /\ faults' = faults + 1
  /\ injected' = injected \cup {kind}

NoFault == UNCHANGED faultVars

Goto(w, l) == pc' = [pc EXCEPT ![w] = l]

(* Step w from label a to label b, touching nothing else of the worker.    *)
Step(w, a, b) == pc[w] = a /\ Goto(w, b) /\ UNCHANGED <<held, orderNo, answer>>

Init ==
  /\ delivery = [m \in Messages |-> "ready"]
  /\ pc = [w \in Workers |-> "idle"]
  /\ held = [w \in Workers |-> NoMessage]
  /\ orderNo = [w \in Workers |-> 0]
  /\ answer = [w \in Workers |-> Absent]
  /\ idem = [t \in Traces |-> Absent]
  /\ result = [t \in Traces |-> Processing]
  /\ stock = Stock0
  /\ purchases = [u \in Users |-> 0]
  /\ reserved = {}
  /\ orders = {}
  /\ timeouts = {}
  /\ minted = 0
  /\ open = TRUE
  /\ faults = 0
  /\ injected = {}

-----------------------------------------------------------------------------
(* The queue: JetStream, one durable consumer shared by the instances.     *)

(* Consume fetches one message; TraceID and quantity are normalised.       *)
Deliver(w, m) ==
  /\ pc[w] = "idle"
  /\ delivery[m] = "ready"
  /\ delivery' = [delivery EXCEPT ![m] = "inflight"]
  /\ Goto(w, "start")
  /\ held' = [held EXCEPT ![w] = m]
  /\ orderNo' = [orderNo EXCEPT ![w] = 0]
  /\ answer' = [answer EXCEPT ![w] = Absent]
  /\ NoFault
  /\ UNCHANGED <<idem, result, stockVars, saleVars>>

(* AckWait passes: the server will deliver the message again, whether its  *)
(* holder died, its ack was lost, or it is merely slow.                    *)
AckWaitPasses(m) ==
  /\ delivery[m] = "inflight"
  /\ delivery' = [delivery EXCEPT ![m] = "ready"]
  /\ IF \E w \in Workers : Holds(w, m) THEN Fault("slow") ELSE NoFault
  /\ UNCHANGED <<workerVars, idem, result, stockVars, saleVars>>

(* The ack names the message, so it also settles a later delivery of it;   *)
(* a failed ack is logged and nothing else.                                *)
Ack(w) ==
  /\ Step(w, "ack", "idle")
  /\ \/ NoFault /\ delivery' = [delivery EXCEPT ![held[w]] = "acked"]
     \/ Fault("error") /\ UNCHANGED delivery
  /\ UNCHANGED <<idem, result, stockVars, saleVars>>

(* A nak asks for redelivery at once, unless the message was acked.        *)
Nak(w) ==
  /\ Step(w, "nak", "idle")
  /\ delivery' = [delivery EXCEPT ![held[w]] =
                    IF @ = "inflight" THEN "ready" ELSE @]
  /\ NoFault
  /\ UNCHANGED <<idem, result, stockVars, saleVars>>

(* The instance dies and comes back fetching; JetStream keeps the message  *)
(* in flight until AckWait.                                                *)
Crash(w) ==
  /\ pc[w] # "idle"
  /\ Goto(w, "idle")
  /\ Fault("crash")
  /\ UNCHANGED <<delivery, held, orderNo, answer, idem, result, stockVars, saleVars>>

-----------------------------------------------------------------------------
(* SubmitSeckill.Execute, Layer 1: SETNX on the processor's own key.       *)

TryStartWins(w) ==
  /\ Step(w, "start", "check")
  /\ idem[Trace(w)] = Absent
  /\ idem' = [idem EXCEPT ![Trace(w)] = Processing]
  /\ NoFault
  /\ UNCHANGED <<delivery, result, stockVars, saleVars>>

(* Mutant: a lost race is answered with an error, so the message comes back. *)
TryStartLosesNaks(w) ==
  /\ Step(w, "start", "nak")
  /\ idem[Trace(w)] # Absent
  /\ NoFault
  /\ UNCHANGED <<delivery, idem, result, stockVars, saleVars>>

(* Already processing or processed: Execute returns nil and Consume acks.  *)
TryStartLoses(w) ==
  /\ Step(w, "start", "ack")
  /\ idem[Trace(w)] # Absent
  /\ NoFault
  /\ UNCHANGED <<delivery, idem, result, stockVars, saleVars>>

(* Mutant: an error of TryStart releases the key as an error of Submit does. *)
TryStartFailsReleases(w) ==
  /\ Step(w, "start", "release")
  /\ Fault("error")
  /\ UNCHANGED <<delivery, idem, result, stockVars, saleVars>>

(* A Redis error returns before anything else, Release included.           *)
TryStartFails(w) ==
  /\ Step(w, "start", "nak")
  /\ \/ Fault("error") /\ UNCHANGED idem
     \/ /\ Fault("lost")
        /\ idem[Trace(w)] = Absent
        /\ idem' = [idem EXCEPT ![Trace(w)] = Processing]
  /\ UNCHANGED <<delivery, result, stockVars, saleVars>>

(* A failed Submit deletes the key, but only while it says PROCESSING      *)
(* (compare-and-delete script); a failed delete is logged.                 *)
ReleaseIdem(w) ==
  /\ Step(w, "release", "nak")
  /\ \/ /\ NoFault
        /\ idem' = [idem EXCEPT ![Trace(w)] =
                      IF @ = Processing THEN Absent ELSE @]
     \/ Fault("error") /\ UNCHANGED idem
  /\ UNCHANGED <<delivery, result, stockVars, saleVars>>

(* The TTL of the key, or an eviction.                                     *)
IdemExpires(t) ==
  /\ idem[t] # Absent
  /\ idem' = [idem EXCEPT ![t] = Absent]
  /\ Fault("ttl")
  /\ UNCHANGED <<delivery, workerVars, result, stockVars, saleVars>>

-----------------------------------------------------------------------------
(* SeckillService.Submit, second check: activity and risk in parallel,     *)
(* then the SKU.                                                           *)

(* The check passes and the attempt mints a fresh order number.            *)
CheckPasses(w) ==
  /\ pc[w] = "check"
  /\ open
  /\ Goto(w, "deduct")
  /\ minted' = minted + 1
  /\ orderNo' = [orderNo EXCEPT ![w] = minted + 1]
  /\ NoFault
  /\ UNCHANGED <<delivery, held, answer, idem, result, stockVars, orders, timeouts, open>>

(* Mutant: the rejection is published to nobody. *)
RejectUnheard(w) ==
  /\ answer' = [answer EXCEPT ![w] = Failed]
  /\ Goto(w, "ack")
  /\ UNCHANGED <<held, orderNo>>

(* reject publishes SeckillRejected; its subscriber marks the failure.     *)
Reject(w) ==
  /\ answer' = [answer EXCEPT ![w] = Failed]
  /\ Goto(w, "gateway")
  /\ UNCHANGED <<held, orderNo>>

(* Closed, missing or blacklisted; an infrastructure error whose text has  *)
(* "closed" or "not found" in it is taken for the same.                    *)
CheckRejects(w) ==
  /\ pc[w] = "check"
  /\ Reject(w)
  /\ IF open THEN Fault("error") ELSE NoFault
  /\ UNCHANGED <<delivery, idem, result, stockVars, saleVars>>

CheckFails(w) ==
  /\ Step(w, "check", "release")
  /\ Fault("error")
  /\ UNCHANGED <<delivery, idem, result, stockVars, saleVars>>

(* The activity ends, or the buyer is blacklisted.                         *)
SaleCloses ==
  /\ open
  /\ open' = FALSE
  /\ NoFault
  /\ UNCHANGED <<delivery, workerVars, idem, result, stockVars, orders, timeouts, minted>>

-----------------------------------------------------------------------------
(* Submit, stock deduction under the attempt's own order number.           *)

(* Mutants: only a negative stock is refused; the limit is forgotten. *)
CanReserveAtZero(u) == stock >= 0

CanReserveNoLimit(u) == stock >= 1

CanReserve(u) ==
  /\ stock >= 1
  /\ Limit = 0 \/ purchases[u] + 1 <= Limit

Reserve(w) ==
  /\ stock' = stock - 1
  /\ purchases' = IF Limit > 0 THEN [purchases EXCEPT ![Buyer(w)] = @ + 1] ELSE purchases
  /\ reserved' = reserved \cup {[no |-> orderNo[w], user |-> Buyer(w)]}

(* Mutant: the reservation record outlives its release. *)
UnreserveKeepsRecord(w) ==
  LET mine == {r \in reserved : r.no = orderNo[w]} IN
  IF mine = {}
  THEN UNCHANGED stockVars
  ELSE /\ stock' = stock + 1
       /\ purchases' = [purchases EXCEPT ![Buyer(w)] = IF @ <= 1 THEN 0 ELSE @ - 1]
       /\ UNCHANGED reserved

(* Releasing an order number that holds no reservation changes nothing.    *)
Unreserve(w) ==
  LET mine == {r \in reserved : r.no = orderNo[w]} IN
  IF mine = {}
  THEN UNCHANGED stockVars
  ELSE /\ stock' = stock + 1
       /\ purchases' = [purchases EXCEPT ![Buyer(w)] = IF @ <= 1 THEN 0 ELSE @ - 1]
       /\ reserved' = reserved \ mine

DeductReserves(w) ==
  /\ Step(w, "deduct", "create")
  /\ CanReserve(Buyer(w))
  /\ Reserve(w)
  /\ NoFault
  /\ UNCHANGED <<delivery, idem, result, saleVars>>

(* Mutant: decrement first, check after, and no compensation. *)
DeductRejectsLate(w) ==
  /\ pc[w] = "deduct"
  /\ ~CanReserve(Buyer(w))
  /\ Reserve(w)
  /\ Reject(w)
  /\ NoFault
  /\ UNCHANGED <<delivery, idem, result, saleVars>>

(* Out of stock, or the buyer is at the limit: STOCK_EMPTY either way.     *)
DeductRejects(w) ==
  /\ pc[w] = "deduct"
  /\ ~CanReserve(Buyer(w))
  /\ Reject(w)
  /\ NoFault
  /\ UNCHANGED <<delivery, idem, result, stockVars, saleVars>>

(* Any error returns at once; nothing is released.                         *)
DeductFails(w) ==
  /\ Step(w, "deduct", "release")
  /\ \/ Fault("error") /\ UNCHANGED stockVars
     \/ Fault("lost") /\ CanReserve(Buyer(w)) /\ Reserve(w)
  /\ UNCHANGED <<delivery, idem, result, saleVars>>

-----------------------------------------------------------------------------
(* Submit, order creation behind the (user, trace) unique index: Layer 2.  *)

Insert(w) == orders' = orders \cup {[no |-> orderNo[w], trace |-> Trace(w)]}

(* Mutant: the order is answered before its timeout task is published. *)
CreateInsertsUntimed(w) ==
  /\ pc[w] = "create"
  /\ ~HasOrder(Trace(w))
  /\ Insert(w)
  /\ answer' = [answer EXCEPT ![w] = Success(orderNo[w])]
  /\ Goto(w, "gateway")
  /\ NoFault
  /\ UNCHANGED <<delivery, held, orderNo, idem, result, stockVars, timeouts, minted, open>>

CreateInserts(w) ==
  /\ pc[w] = "create"
  /\ ~HasOrder(Trace(w))
  /\ Insert(w)
  /\ answer' = [answer EXCEPT ![w] = Success(orderNo[w])]
  /\ Goto(w, "timeout")
  /\ NoFault
  /\ UNCHANGED <<delivery, held, orderNo, idem, result, stockVars, timeouts, minted, open>>

(* AlreadyExists: look the trace's order up; the new reservation stays.    *)
CreateDuplicate(w) ==
  /\ Step(w, "create", "lookup")
  /\ HasOrder(Trace(w))
  /\ NoFault
  /\ UNCHANGED <<delivery, idem, result, stockVars, saleVars>>

(* Mutant: the failure is answered for an order that was inserted. *)
CreateFailsAfterInsert(w) ==
  /\ pc[w] = "create"
  /\ Fault("error")
  /\ ~HasOrder(Trace(w))
  /\ Insert(w)
  /\ answer' = [answer EXCEPT ![w] = Failed]
  /\ Goto(w, "undo")
  /\ UNCHANGED <<delivery, held, orderNo, idem, result, stockVars, timeouts, minted, open>>

(* Any other error releases the stock; a temporary one then returns the    *)
(* error, a final one rejects the request.                                 *)
CreateFails(w) ==
  /\ pc[w] = "create"
  /\ \/ Fault("error") /\ UNCHANGED orders
     \/ Fault("lost") /\ ~HasOrder(Trace(w)) /\ Insert(w)
  /\ \E final \in BOOLEAN :
       answer' = [answer EXCEPT ![w] = IF final THEN Failed ELSE Absent]
  /\ Goto(w, "undo")
  /\ UNCHANGED <<delivery, held, orderNo, idem, result, stockVars, timeouts, minted, open>>

(* ReleaseStock is best effort: a failure is logged.                       *)
Undo(w) ==
  /\ Step(w, "undo", IF answer[w] = Failed THEN "gateway" ELSE "release")
  /\ \/ NoFault /\ Unreserve(w)
     \/ Fault("error") /\ UNCHANGED stockVars
  /\ UNCHANGED <<delivery, idem, result, saleVars>>

(* Mutant: the duplicate is answered with this attempt's own number. *)
LookupFindsOwn(w) ==
  /\ pc[w] = "lookup"
  /\ HasOrder(Trace(w))
  /\ answer' = [answer EXCEPT ![w] = Success(orderNo[w])]
  /\ Goto(w, "timeout")
  /\ NoFault
  /\ UNCHANGED <<delivery, held, orderNo, idem, result, stockVars, saleVars>>

LookupFinds(w) ==
  /\ pc[w] = "lookup"
  /\ \E o \in orders :
       /\ o.trace = Trace(w)
       /\ answer' = [answer EXCEPT ![w] = Success(o.no)]
  /\ Goto(w, "timeout")
  /\ NoFault
  /\ UNCHANGED <<delivery, held, orderNo, idem, result, stockVars, saleVars>>

LookupFails(w) ==
  /\ Step(w, "lookup", "release")
  /\ Fault("error")
  /\ UNCHANGED <<delivery, idem, result, stockVars, saleVars>>

-----------------------------------------------------------------------------
(* onOrderCreated and onSeckillRejected: every write is best effort.       *)

PublishTimeout(w) ==
  /\ Step(w, "timeout", "gateway")
  /\ \/ NoFault /\ timeouts' = timeouts \cup {answer[w].no}
     \/ Fault("error") /\ UNCHANGED timeouts
  /\ UNCHANGED <<delivery, idem, result, stockVars, orders, minted, open>>

(* First the key the user polls, then the processor's own.                 *)
MarkGateway(w) ==
  /\ Step(w, "gateway", "idem")
  /\ \/ NoFault /\ result' = [result EXCEPT ![Trace(w)] = answer[w]]
     \/ Fault("error") /\ UNCHANGED result
  /\ UNCHANGED <<delivery, idem, stockVars, saleVars>>

MarkIdem(w) ==
  /\ Step(w, "idem", "ack")
  /\ \/ NoFault /\ idem' = [idem EXCEPT ![Trace(w)] = answer[w]]
     \/ Fault("error") /\ UNCHANGED idem
  /\ UNCHANGED <<delivery, result, stockVars, saleVars>>

-----------------------------------------------------------------------------
(* One instance's own steps; the choice between them is the environment's. *)
Handle(w) ==
  \/ TryStartWins(w) \/ TryStartLoses(w) \/ TryStartFails(w)
  \/ CheckPasses(w) \/ CheckRejects(w) \/ CheckFails(w)
  \/ DeductReserves(w) \/ DeductRejects(w) \/ DeductFails(w)
  \/ CreateInserts(w) \/ CreateDuplicate(w) \/ CreateFails(w) \/ Undo(w)
  \/ LookupFinds(w) \/ LookupFails(w)
  \/ PublishTimeout(w) \/ MarkGateway(w) \/ MarkIdem(w) \/ ReleaseIdem(w)
  \/ Ack(w) \/ Nak(w)

Quiet == /\ \A w \in Workers : pc[w] = "idle"
         /\ \A m \in Messages : delivery[m] = "acked"

(* The workload is finite: once every message is acked nothing is left.    *)
Drained == Quiet /\ UNCHANGED vars

Next ==
  \/ \E w \in Workers : Handle(w) \/ Crash(w) \/ \E m \in Messages : Deliver(w, m)
  \/ \E m \in Messages : AckWaitPasses(m)
  \/ \E t \in Traces : IdemExpires(t)
  \/ SaleCloses
  \/ Drained

Spec == Init /\ [][Next]_vars

(* Instances keep running their loop, the server keeps delivering and its  *)
(* AckWait timer runs; the sale closing and faults are never forced.       *)
Fairness ==
  /\ \A w \in Workers : WF_vars(Handle(w))
  /\ \A m \in Messages : /\ WF_vars(\E w \in Workers : Deliver(w, m))
                         /\ WF_vars(AckWaitPasses(m))

FairSpec == Spec /\ Fairness

-----------------------------------------------------------------------------
Answers == {Absent, Failed} \cup {Success(n) : n \in 1 .. minted}

(* Every variable has its type; in particular stock and the buyers' counts *)
(* stay natural numbers whatever the interleaving of Reserve and Unreserve. *)
TypeOK ==
  /\ delivery \in [Messages -> {"ready", "inflight", "acked"}]
  /\ pc \in [Workers -> Labels]
  /\ held \in [Workers -> Messages \cup {NoMessage}]
  /\ \A w \in Workers : pc[w] # "idle" => held[w] \in Messages
  /\ minted \in Nat
  /\ orderNo \in [Workers -> 0 .. minted]
  /\ answer \in [Workers -> Answers]
  /\ idem \in [Traces -> Answers \cup {Processing}]
  /\ result \in [Traces -> Answers \cup {Processing}]
  /\ stock \in Nat
  /\ purchases \in [Users -> Nat]
  /\ reserved \subseteq [no : 1 .. minted, user : Users]
  /\ orders \subseteq [no : 1 .. minted, trace : Traces]
  /\ timeouts \subseteq 1 .. minted
  /\ open \in BOOLEAN
  /\ faults \in 0 .. MaxFaults
  /\ injected \subseteq Faults

Survives(kinds) == injected \subseteq kinds

(* No unit is created or destroyed: what is not on the shelf is reserved   *)
(* under exactly one order number, and a limited buyer's count is the      *)
(* number of reservations held, through retries, crashes and releases      *)
(* (DeductStockWithLimit and ReleaseStock as Submit calls them).           *)
StockConserved ==
  /\ stock + Cardinality(reserved) = Stock0
  /\ Limit > 0 => \A u \in Users :
                    purchases[u] = Cardinality({r \in reserved : r.user = u})

(* Layer 2: whatever Layer 1 let through twice, a trace has one order.     *)
OneOrderPerTrace ==
  \A o1, o2 \in orders : o1.trace = o2.trace => o1 = o2

(* An order number that a poller or Layer 1 can read is the number of an   *)
(* order of that very trace (onOrderCreated after Submit or the lookup).   *)
AnswersNameOrders ==
  \A t \in Traces : \A n \in 1 .. minted :
    Success(n) \in {result[t], idem[t]} => [no |-> n, trace |-> t] \in orders

(* Layer 1: until a key expires early, one instance at a time is between   *)
(* winning TryStart and settling the key of a trace.                       *)
Layer1Exclusive ==
  "ttl" \notin injected =>
    \A v, w \in Workers :
      /\ pc[v] \in CriticalLabels
      /\ pc[w] \in CriticalLabels
      /\ Trace(v) = Trace(w)
      => v = w

(* Until a reply is lost, an order keeps the reservation it was created    *)
(* under: the release after a failed CreateOrder never takes its units.    *)
OrdersBacked ==
  "lost" \notin injected => \A o \in orders : \E r \in reserved : r.no = o.no

(* Until a reply is lost, the sale hands out no more orders than units.    *)
NoOversell == "lost" \notin injected => Cardinality(orders) <= Stock0

(* Until a reply is lost, no buyer has more orders than the purchase limit. *)
LimitHolds ==
  /\ "lost" \notin injected
  /\ Limit > 0
  => \A u \in Users : Cardinality({o \in orders : UserOf[o.trace] = u}) <= Limit

(* A reservation backs an order, or the attempt that made it is still at   *)
(* work: nothing else would ever give the units back.                      *)
NoReservationLeaks ==
  Survives({"slow"}) =>
    \A r \in reserved :
      \/ \E o \in orders : o.no = r.no
      \/ \E w \in Workers : orderNo[w] = r.no /\ pc[w] \in {"create", "undo"}

(* When nothing is left to handle, every order has its payment timeout     *)
(* task: an unpaid order without one keeps its units.                      *)
OrdersTimed ==
  Survives({"slow", "ttl"}) /\ Quiet => \A o \in orders : o.no \in timeouts

(* A message is not acked before its user has an answer, unless another    *)
(* instance is still about to write it.                                    *)
Answerable(m) ==
  \/ result[TraceOf[m]] # Processing
  \/ \E w \in Workers : pc[w] \in CriticalLabels /\ Trace(w) = TraceOf[m]

AnsweredWhenAcked ==
  Survives({"slow", "ttl"}) =>
    \A m \in Messages : delivery[m] = "acked" => Answerable(m)

(* The queue drains for good, whatever the finite number of faults.        *)
EventuallyDrained == <>[](\A m \in Messages : delivery[m] = "acked")

(* While the only fault is a redelivery that comes too early, every        *)
(* request is answered in the end.                                         *)
EveryRequestAnswered ==
  []Survives({"slow"}) =>
    \A m \in Messages : <>[](result[TraceOf[m]] # Processing)

(* submit_seckill.go:17 and processor.go:15 call the 60 s of PROCESSING a  *)
(* crash recovery window: a message whose handler died is handled again.   *)
CrashedRequestsRecover ==
  \A m \in Messages : delivery[m] = "acked" => Answerable(m)

(* The detailed system implements the contract: the orders and answers in  *)
(* the stores are the contract's (no reply lost, no key expired).          *)
Contract == INSTANCE SeckillContract WITH
  placed <- {o.trace : o \in orders},
  told <- [t \in Traces |-> CASE result[t] = Processing -> "pending"
                             [] result[t] = Failed -> "failed"
                             [] OTHER -> "order"]

(* Requests are ordered once and answered once, truthfully.                *)
ImplementsContract == Contract!ContractSpec
=============================================================================
