--------------------------- MODULE SeckillGateway ---------------------------
(***************************************************************************)
(* The synchronous half of a flash sale: seckill-gateway answers a part-in *)
(* call at once and hands the request to a bounded pool of workers, which  *)
(* check it and publish it for seckill-processor.  The buyer polls one     *)
(* Redis key per trace that the HTTP handler, the worker and the processor *)
(* all overwrite without looking.                                          *)
(*                                                                         *)
(* The processor appears as its contract, which SeckillProcessor           *)
(* implements.                                                             *)
(***************************************************************************)
EXTENDS Integers, FiniteSets, Sequences

CONSTANTS
  Requests,    \* part-in calls
  Traces,      \* trace ids
  Users,       \* buyers
  TraceOf,     \* the trace of a call: a client may send the same one again
  UserOf,      \* the buyer of a trace
  Workers,     \* goroutines of the pool
  QueueSize,   \* capacity of the pool's channel
  NoRequest,   \* what an idle worker holds
  NoTrace,     \* no trace is queued for the buyer
  Stock0,      \* units on sale
  Limit,       \* purchase limit per buyer, 0 when there is none
  ListLimit,   \* how many orders the activity's list shows, 100 in the code
  Faults,      \* the kinds of fault the environment may inject
  MaxFaults    \* how many faults it injects in one behaviour

FaultKinds ==
  { "error",   \* a call returns an error and had no effect
    "lost",    \* a publish takes effect but its reply is an error
    "crash",   \* the gateway process dies and restarts
    "ttl" }    \* a result key expires or is evicted

ASSUME GatewayAssumption ==
  /\ TraceOf \in [Requests -> Traces]
  /\ UserOf \in [Traces -> Users]
  /\ NoRequest \notin Requests
  /\ NoTrace \notin Traces
  /\ QueueSize \in Nat \ {0}
  /\ Stock0 \in Nat
  /\ Limit \in Nat
  /\ ListLimit \in Nat \ {0}
  /\ Faults \subseteq FaultKinds
  /\ MaxFaults \in Nat

VARIABLES
  call,        \* how far each part-in call is
  events,      \* the pool's channel
  worker,      \* the step and the request of each worker
  published,   \* traces that are in the processor's queue or were
  result,      \* seckill:order:result:<trace> in Redis
  queued,      \* seckill:order:queuing:<user>:<activity> in Redis
  placed,      \* traces with an order
  told,        \* what the processor answered
  newest,      \* the orders on the activity's list, oldest first
  faults,      \* how many faults so far
  disturbed    \* traces whose key or message a fault may have touched

gatewayVars == <<call, events, worker>>
redisVars == <<result, queued>>
processorVars == <<placed, told, newest>>
faultVars == <<faults, disturbed>>
vars == <<gatewayVars, published, redisVars, processorVars, faultVars>>

Processor == INSTANCE SeckillContract

IdleWorker == [at |-> "idle", request |-> NoRequest]

Init ==
  /\ call = [r \in Requests |-> "new"]
  /\ events = <<>>
  /\ worker = [w \in Workers |-> IdleWorker]
  /\ published = {}
  /\ result = [t \in Traces |-> "none"]
  /\ queued = [u \in Users |-> NoTrace]
  /\ Processor!ContractInit
  /\ newest = <<>>
  /\ faults = 0
  /\ disturbed = {}

Fault(kind, traces) ==
  /\ kind \in Faults
  /\ faults < MaxFaults
  /\ faults' = faults + 1
  /\ disturbed' = disturbed \cup traces

NoFault == UNCHANGED faultVars

SetResult(t, value) == result' = [result EXCEPT ![t] = value]

(* A write of the result key whose failure is only logged.                 *)
TrySetResult(t, value) ==
  \/ SetResult(t, value) /\ NoFault
  \/ UNCHANGED result /\ Fault("error", {t})

-----------------------------------------------------------------------------
(* The HTTP handler, SeckillApp.partInFastPath.                            *)

CallTo(r, from, to) ==
  /\ call[r] = from
  /\ call' = [call EXCEPT ![r] = to]

(* Missing parameters or a failed machine check.                           *)
PartInRefused(r) ==
  /\ CallTo(r, "new", "rejected")
  /\ NoFault
  /\ UNCHANGED <<events, worker, published, redisVars, processorVars>>

(* One pipeline charges the buyer's token bucket and sets PROCESSING: the  *)
(* SET runs even when the bucket is empty.                                 *)
TryAcquireAndSetProcessing(r) ==
  /\ \E allowed \in BOOLEAN : CallTo(r, "new", IF allowed THEN "acquired" ELSE "rejected")
  /\ SetResult(TraceOf[r], "processing")
  /\ NoFault
  /\ UNCHANGED <<events, worker, published, queued, processorVars>>

(* A failed pipeline may have done its part; the calls are made again one  *)
(* by one, and may fail again.                                             *)
PipelineFails(r) ==
  /\ \E allowed \in BOOLEAN : CallTo(r, "new", IF allowed THEN "acquired" ELSE "rejected")
  /\ Fault("error", {TraceOf[r]})
  /\ SetResult(TraceOf[r], "processing") \/ UNCHANGED result
  /\ UNCHANGED <<events, worker, published, queued, processorVars>>

(* Mutant: the event is sent before the buffer is known to have room. *)
SubmitLate(r) ==
  /\ CallTo(r, "acquired", IF Len(events) < QueueSize THEN "submitted" ELSE "full")
  /\ events' = Append(events, r)
  /\ NoFault
  /\ UNCHANGED <<worker, published, redisVars, processorVars>>

(* WorkerPool.Submit never blocks.                                         *)
Submit(r) ==
  /\ CallTo(r, "acquired", IF Len(events) < QueueSize THEN "submitted" ELSE "full")
  /\ events' = IF Len(events) < QueueSize THEN Append(events, r) ELSE events
  /\ NoFault
  /\ UNCHANGED <<worker, published, redisVars, processorVars>>

SystemBusy(r) ==
  /\ CallTo(r, "full", "rejected")
  /\ TrySetResult(TraceOf[r], "text")
  /\ UNCHANGED <<events, worker, published, queued, processorVars>>

(* setQueuedTrace comes after Submit, and its failure is only logged.      *)
SetQueued(r) ==
  /\ CallTo(r, "submitted", "accepted")
  /\ LET t == TraceOf[r] IN
       \/ queued' = [queued EXCEPT ![UserOf[t]] = t] /\ NoFault
       \/ UNCHANGED queued /\ Fault("error", {})
  /\ UNCHANGED <<events, worker, published, result, processorVars>>

PartIn(r) ==
  \/ PartInRefused(r) \/ TryAcquireAndSetProcessing(r) \/ PipelineFails(r)
  \/ Submit(r) \/ SystemBusy(r) \/ SetQueued(r)

-----------------------------------------------------------------------------
(* A worker of the pool, WorkerPool.processEvent.                          *)

WorkerTo(w, from, to) ==
  /\ worker[w].at = from
  /\ worker' = [worker EXCEPT ![w] = IF to = "idle" THEN IdleWorker ELSE [@ EXCEPT !.at = to]]

TraceAt(w) == TraceOf[worker[w].request]

TakeEvent(w) ==
  /\ worker[w].at = "idle"
  /\ events # <<>>
  /\ events' = Tail(events)
  /\ worker' = [worker EXCEPT ![w] = [at |-> "check", request |-> Head(events)]]
  /\ TrySetResult(TraceOf[Head(events)], "processing")
  /\ UNCHANGED <<call, published, queued, processorVars>>

(* Risk, activity and stock are looked at once, before the publish.        *)
(* "failed" is a reason RedisResultStore.Get knows, "text" one it does not.*)
CheckEvent(w) ==
  /\ \E verdict \in {"publish", "failed", "text"} : WorkerTo(w, "check", verdict)
  /\ NoFault
  /\ UNCHANGED <<call, events, published, redisVars, processorVars>>

(* Mutant: PROCESSING is set again once the message is out. *)
PublishThenProcessing(w) ==
  /\ WorkerTo(w, "publish", "processing")
  /\ published' = published \cup {TraceAt(w)}
  /\ NoFault
  /\ UNCHANGED <<call, events, redisVars, processorVars>>

Publish(w) ==
  /\ WorkerTo(w, "publish", "idle")
  /\ published' = published \cup {TraceAt(w)}
  /\ NoFault
  /\ UNCHANGED <<call, events, redisVars, processorVars>>

PublishFails(w) ==
  /\ WorkerTo(w, "publish", "text")
  /\ \/ Fault("error", {}) /\ UNCHANGED published
     \/ Fault("lost", {TraceAt(w)}) /\ published' = published \cup {TraceAt(w)}
  /\ UNCHANGED <<call, events, redisVars, processorVars>>

(* Mutant: a failed publish is only logged. *)
MarkFailedKnown(w) ==
  \E reason \in {"failed", "text", "processing"} :
    /\ WorkerTo(w, reason, "idle")
    /\ IF reason = "text"
       THEN NoFault /\ UNCHANGED result
       ELSE TrySetResult(TraceAt(w), reason)
    /\ UNCHANGED <<call, events, published, queued, processorVars>>

MarkFailed(w) ==
  \E reason \in {"failed", "text", "processing"} :
    /\ WorkerTo(w, reason, "idle")
    /\ TrySetResult(TraceAt(w), reason)
    /\ UNCHANGED <<call, events, published, queued, processorVars>>

ProcessEvent(w) ==
  TakeEvent(w) \/ CheckEvent(w) \/ Publish(w) \/ PublishFails(w) \/ MarkFailed(w)

(* The process exits without draining the pool: its context is never       *)
(* cancelled.  Calls in progress get no answer.                            *)
GatewayCrashes ==
  /\ Fault("crash", Traces)
  /\ call' = [r \in Requests |->
                IF call[r] \in {"acquired", "submitted", "full"} THEN "dropped" ELSE call[r]]
  /\ events' = <<>>
  /\ worker' = [w \in Workers |-> IdleWorker]
  /\ UNCHANGED <<published, redisVars, processorVars>>

-----------------------------------------------------------------------------
(* seckill-processor, by its contract, writes the same key when it answers. *)

(* ListOrdersByActivity shows the newest orders of all buyers.             *)
Newest(list) == IF Len(list) > ListLimit THEN Tail(list) ELSE list

ProcessorPlaces(t) ==
  /\ t \in published
  /\ Processor!Place(t)
  /\ newest' = Newest(Append(newest, t))
  /\ NoFault
  /\ UNCHANGED <<gatewayVars, published, redisVars>>

ProcessorConfirms(t) ==
  /\ t \in published
  /\ Processor!Confirm(t)
  /\ SetResult(t, "order")
  /\ NoFault
  /\ UNCHANGED <<gatewayVars, published, queued, newest>>

ProcessorRefuses(t) ==
  /\ t \in published
  /\ Processor!Refuse(t)
  /\ SetResult(t, "failed")
  /\ NoFault
  /\ UNCHANGED <<gatewayVars, published, queued, newest>>

ProcessorHandles(t) == ProcessorPlaces(t) \/ ProcessorConfirms(t) \/ ProcessorRefuses(t)

(* Other buyers of the activity order too, and push the oldest order out.  *)
OthersOrder ==
  /\ newest # <<>>
  /\ newest' = Tail(newest)
  /\ NoFault
  /\ UNCHANGED <<gatewayVars, published, redisVars, placed, told>>

-----------------------------------------------------------------------------
(* Redis.                                                                  *)

ResultExpires(t) ==
  /\ result[t] # "none"
  /\ SetResult(t, "none")
  /\ Fault("ttl", {t})
  /\ UNCHANGED <<gatewayVars, published, queued, processorVars>>

(* Mutant: the queued trace is kept without a TTL. *)
QueuedStays(u) ==
  /\ FALSE
  /\ UNCHANGED vars

(* The one-minute TTL of the queued trace.                                 *)
QueuedExpires(u) ==
  /\ queued[u] # NoTrace
  /\ queued' = [queued EXCEPT ![u] = NoTrace]
  /\ NoFault
  /\ UNCHANGED <<gatewayVars, published, result, processorVars>>

-----------------------------------------------------------------------------
(* What the buyer reads.                                                   *)

Listed(t) == \E i \in 1 .. Len(newest) : newest[i] = t

(* CheckQueueByActivity shows the buyer an order of his own: that of the   *)
(* queued trace while there is one, else any on the activity's list, which *)
(* is cut before it is searched for his.                                   *)
ShownByActivity(u) ==
  IF queued[u] # NoTrace
  THEN result[queued[u]] = "order"
  ELSE \E t \in Traces : Listed(t) /\ UserOf[t] = u

-----------------------------------------------------------------------------
Next ==
  \/ \E r \in Requests : PartIn(r)
  \/ \E w \in Workers : ProcessEvent(w)
  \/ \E t \in Traces : ProcessorHandles(t) \/ ResultExpires(t)
  \/ \E u \in Users : QueuedExpires(u)
  \/ OthersOrder
  \/ GatewayCrashes

Spec == Init /\ [][Next]_vars

(* Handlers and workers run, the processor answers what was published (the *)
(* EveryRequestAnswered of SeckillProcessor), TTLs pass.                   *)
Fairness ==
  /\ \A r \in Requests : WF_vars(call[r] # "new" /\ PartIn(r))
  /\ \A w \in Workers : WF_vars(ProcessEvent(w))
  /\ \A t \in Traces : WF_vars(ProcessorHandles(t))
  /\ \A u \in Users : WF_vars(QueuedExpires(u))

FairSpec == Spec /\ Fairness

-----------------------------------------------------------------------------
(* Every variable has its type, and the channel its capacity.              *)
TypeOK ==
  /\ call \in [Requests -> {"new", "acquired", "submitted", "full",
                            "accepted", "rejected", "dropped"}]
  /\ events \in Seq(Requests) /\ Len(events) <= QueueSize
  /\ worker \in [Workers -> {IdleWorker} \cup
        [at : {"check", "publish", "failed", "text", "processing"}, request : Requests]]
  /\ published \subseteq Traces
  /\ result \in [Traces -> {"none", "processing", "order", "failed", "text"}]
  /\ queued \in [Users -> Traces \cup {NoTrace}]
  /\ placed \subseteq Traces
  /\ told \in [Traces -> {"pending", "order", "failed"}]
  /\ newest \in Seq(Traces) /\ Len(newest) <= ListLimit
  /\ faults \in 0 .. MaxFaults
  /\ disturbed \subseteq Traces

Once(t) == \A r1, r2 \in Requests : TraceOf[r1] = t /\ TraceOf[r2] = t => r1 = r2
CallOf(t) == {r \in Requests : TraceOf[r] = t}

(* Three writers share the key without looking, yet the processor's answer *)
(* stays readable: for a trace sent once, whose key and message no fault   *)
(* touched, the handler and the worker wrote theirs before it.             *)
AnswerSurvives ==
  \A t \in Traces :
    Once(t) /\ t \notin disturbed /\ told[t] # "pending" => result[t] = told[t]

(* A buyer who was turned away never gets an order for that trace.         *)
RejectedNeverPublished ==
  \A t \in published : \E r \in CallOf(t) : call[r] # "rejected"

(* A buyer who was told to poll gets an answer, if his trace was sent once *)
(* and no fault touched it; a publish that failed cleanly is one.          *)
AcceptedIsAnswered ==
  \A t \in {t \in Traces : Once(t)} :
    (\E r \in CallOf(t) : call[r] = "accepted") ~>
      (result[t] \in {"order", "failed", "text"} \/ t \in disturbed)

(* Whatever fails, a buyer with an order is shown one in the end by the    *)
(* old activity poll, although the queued trace may hide it for a minute,  *)
(* unless so many newer orders of the activity came that the list no       *)
(* longer holds it.                                                        *)
OrderIsShown ==
  \A t \in Traces : (t \in placed) ~> (ShownByActivity(UserOf[t]) \/ ~Listed(t))
=============================================================================
