------------------------ MODULE SeckillGatewayProofs ------------------------
(***************************************************************************)
(* Proofs about SeckillGateway, for any sets of calls, traces, buyers and  *)
(* workers, any capacity of the channel, and any number of faults of any   *)
(* kind.                                                                   *)
(***************************************************************************)
EXTENDS SeckillGateway, TLAPS

USE DEF gatewayVars, redisVars, processorVars, faultVars, NoFault, SetResult

-----------------------------------------------------------------------------
(* What the channel's two operations do to its elements.                   *)
LEMMA AppendElements ==
  ASSUME NEW s \in Seq(Requests), NEW r \in Requests
  PROVE  /\ Append(s, r) \in Seq(Requests)
         /\ Len(Append(s, r)) = Len(s) + 1
         /\ \A i \in 1 .. Len(s) : Append(s, r)[i] = s[i]
         /\ Append(s, r)[Len(s) + 1] = r
  OBVIOUS

LEMMA TailElements ==
  ASSUME NEW s \in Seq(Requests), s # <<>>
  PROVE  /\ Tail(s) \in Seq(Requests)
         /\ Len(s) \in Nat \ {0}
         /\ Len(Tail(s)) = Len(s) - 1
         /\ \A i \in 1 .. Len(s) - 1 : Tail(s)[i] = s[i + 1]
         /\ Head(s) = s[1]
         /\ Head(s) \in Requests
  OBVIOUS

-----------------------------------------------------------------------------
(* Type correctness.                                                       *)
LEMMA TypeInit == Init => TypeOK
  BY GatewayAssumption DEF Init, TypeOK, Processor!ContractInit

(* A fault is counted, and touches traces.                                 *)
LEMMA FaultTypes ==
  ASSUME TypeOK, NEW kind, NEW traces, traces \subseteq Traces, Fault(kind, traces)
  PROVE  faults' \in 0 .. MaxFaults /\ disturbed' \subseteq Traces
  BY GatewayAssumption DEF TypeOK, Fault

(* A write of the result key leaves it a value it may hold.                *)
LEMMA TrySetTypes ==
  ASSUME TypeOK, NEW t \in Traces,
         NEW value \in {"none", "processing", "order", "failed", "text"}, TrySetResult(t, value)
  PROVE  /\ result' \in [Traces -> {"none", "processing", "order", "failed", "text"}]
         /\ faults' \in 0 .. MaxFaults
         /\ disturbed' \subseteq Traces
  BY FaultTypes DEF TypeOK, TrySetResult

(* A worker between two steps of one event.                                *)
LEMMA WorkerTypes ==
  ASSUME TypeOK, NEW w \in Workers, NEW from, NEW to, WorkerTo(w, from, to), from # "idle",
         to \in {"idle", "check", "publish", "failed", "text", "processing"}
  PROVE  /\ worker[w].request \in Requests
         /\ TraceAt(w) \in Traces
         /\ worker' \in [Workers -> {IdleWorker} \cup
              [at : {"check", "publish", "failed", "text", "processing"}, request : Requests]]
  BY GatewayAssumption DEF TypeOK, WorkerTo, IdleWorker, TraceAt

(* Each step of the HTTP handler keeps the types.                          *)
LEMMA TypePartIn ==
  ASSUME TypeOK, NEW r \in Requests, PartIn(r)
  PROVE  TypeOK'
<1> USE GatewayAssumption DEF TypeOK, CallTo
<1>1. CASE PartInRefused(r)
  BY <1>1 DEF PartInRefused
<1>2. CASE TryAcquireAndSetProcessing(r)
  BY <1>2 DEF TryAcquireAndSetProcessing
<1>3. CASE PipelineFails(r)
  <2>1. faults' \in 0 .. MaxFaults /\ disturbed' \subseteq Traces
    BY <1>3, FaultTypes DEF PipelineFails
  <2> QED
    BY <1>3, <2>1 DEF PipelineFails
<1>4. CASE Submit(r)
  <2>1. events' \in Seq(Requests) /\ Len(events') <= QueueSize
    BY <1>4, AppendElements DEF Submit
  <2> QED
    BY <1>4, <2>1 DEF Submit
<1>5. CASE SystemBusy(r)
  <2>1. /\ result' \in [Traces -> {"none", "processing", "order", "failed", "text"}]
        /\ faults' \in 0 .. MaxFaults
        /\ disturbed' \subseteq Traces
    BY <1>5, TrySetTypes DEF SystemBusy
  <2> QED
    BY <1>5, <2>1 DEF SystemBusy
<1>6. CASE SetQueued(r)
  <2>1. faults' \in 0 .. MaxFaults /\ disturbed' \subseteq Traces
    BY <1>6, FaultTypes DEF SetQueued
  <2>2. queued' \in [Users -> Traces \cup {NoTrace}]
    BY <1>6 DEF SetQueued
  <2> QED
    BY <1>6, <2>1, <2>2 DEF SetQueued
<1> QED
  BY <1>1, <1>2, <1>3, <1>4, <1>5, <1>6 DEF PartIn

(* So does each step of a worker.                                          *)
LEMMA TypeProcessEvent ==
  ASSUME TypeOK, NEW w \in Workers, ProcessEvent(w)
  PROVE  TypeOK'
<1> USE GatewayAssumption DEF TypeOK
<1>1. CASE TakeEvent(w)
  <2>1. /\ Head(events) \in Requests
        /\ events' \in Seq(Requests)
        /\ Len(events') <= QueueSize
    BY <1>1, TailElements DEF TakeEvent
  <2>2. /\ result' \in [Traces -> {"none", "processing", "order", "failed", "text"}]
        /\ faults' \in 0 .. MaxFaults
        /\ disturbed' \subseteq Traces
    BY <1>1, <2>1, TrySetTypes DEF TakeEvent
  <2> QED
    BY <1>1, <2>1, <2>2 DEF TakeEvent
<1>2. CASE CheckEvent(w)
  BY <1>2, WorkerTypes DEF CheckEvent
<1>3. CASE Publish(w)
  BY <1>3, WorkerTypes DEF Publish
<1>4. CASE PublishFails(w)
  <2>1. TraceAt(w) \in Traces
    BY <1>4, WorkerTypes DEF PublishFails
  <2>2. faults' \in 0 .. MaxFaults /\ disturbed' \subseteq Traces /\ published' \subseteq Traces
    BY <1>4, <2>1, FaultTypes DEF PublishFails
  <2> QED
    BY <1>4, <2>2, WorkerTypes DEF PublishFails
<1>5. CASE MarkFailed(w)
  <2>1. PICK reason \in {"failed", "text", "processing"} :
          /\ WorkerTo(w, reason, "idle")
          /\ TrySetResult(TraceAt(w), reason)
          /\ UNCHANGED <<call, events, published, queued, processorVars>>
    BY <1>5 DEF MarkFailed
  <2>2. TraceAt(w) \in Traces /\ worker' \in [Workers -> {IdleWorker} \cup
          [at : {"check", "publish", "failed", "text", "processing"}, request : Requests]]
    BY <2>1, WorkerTypes
  <2>3. /\ result' \in [Traces -> {"none", "processing", "order", "failed", "text"}]
        /\ faults' \in 0 .. MaxFaults
        /\ disturbed' \subseteq Traces
    BY <2>1, <2>2, TrySetTypes
  <2> QED
    BY <2>1, <2>2, <2>3
<1> QED
  BY <1>1, <1>2, <1>3, <1>4, <1>5 DEF ProcessEvent

(* A list stays one, within its limit.                                     *)
LEMMA ListTypes ==
  ASSUME NEW s \in Seq(Traces), Len(s) <= ListLimit
  PROVE  /\ \A t \in Traces : LET l == Newest(Append(s, t)) IN l \in Seq(Traces) /\ Len(l) <= ListLimit
         /\ s # <<>> => Tail(s) \in Seq(Traces) /\ Len(Tail(s)) <= ListLimit
<1> USE GatewayAssumption
<1>1. ASSUME NEW t \in Traces
      PROVE  Newest(Append(s, t)) \in Seq(Traces) /\ Len(Newest(Append(s, t))) <= ListLimit
  <2>1. /\ Append(s, t) \in Seq(Traces)
        /\ Len(Append(s, t)) = Len(s) + 1
        /\ Len(s) \in Nat
    OBVIOUS
  <2>2. PICK a \in Seq(Traces) : a = Append(s, t) /\ Len(a) = Len(s) + 1
    BY <2>1
  <2>3. Tail(a) \in Seq(Traces) /\ Len(Tail(a)) = Len(a) - 1
    <3>1. a # <<>>
      BY <2>1, <2>2
    <3> QED
      BY <3>1
  <2> QED
    BY <2>1, <2>2, <2>3 DEF Newest
<1>2. ASSUME s # <<>> PROVE Tail(s) \in Seq(Traces) /\ Len(Tail(s)) <= ListLimit
  BY <1>2
<1> QED
  BY <1>1, <1>2

(* And each step of the processor, of Redis, and a crash.                  *)
LEMMA TypeNext == TypeOK /\ [Next]_vars => TypeOK'
<1> SUFFICES ASSUME TypeOK, [Next]_vars PROVE TypeOK'
  OBVIOUS
<1>1. CASE \E r \in Requests : PartIn(r)
  BY <1>1, TypePartIn
<1>2. CASE \E w \in Workers : ProcessEvent(w)
  BY <1>2, TypeProcessEvent
<1>3. ASSUME NEW t \in Traces, ProcessorHandles(t) PROVE TypeOK'
  <2>1. CASE ProcessorPlaces(t)
    <3>1. newest' \in Seq(Traces) /\ Len(newest') <= ListLimit
      BY <2>1, ListTypes DEF TypeOK, ProcessorPlaces
    <3> QED
      BY <2>1, <3>1 DEF TypeOK, ProcessorPlaces, Processor!Place
  <2>2. CASE ProcessorConfirms(t)
    BY <2>2 DEF TypeOK, ProcessorConfirms, Processor!Confirm
  <2>3. CASE ProcessorRefuses(t)
    BY <2>3 DEF TypeOK, ProcessorRefuses, Processor!Refuse
  <2> QED
    BY <1>3, <2>1, <2>2, <2>3 DEF ProcessorHandles
<1>4. ASSUME NEW t \in Traces, ResultExpires(t) PROVE TypeOK'
  <2>1. faults' \in 0 .. MaxFaults /\ disturbed' \subseteq Traces
    BY <1>4, FaultTypes DEF ResultExpires
  <2> QED
    BY <1>4, <2>1 DEF TypeOK, ResultExpires
<1>5. ASSUME NEW u \in Users, QueuedExpires(u) PROVE TypeOK'
  BY <1>5 DEF TypeOK, QueuedExpires
<1>6. CASE GatewayCrashes
  <2>1. faults' \in 0 .. MaxFaults /\ disturbed' \subseteq Traces
    BY <1>6, FaultTypes DEF GatewayCrashes
  <2> QED
    BY <1>6, <2>1, GatewayAssumption DEF TypeOK, GatewayCrashes
<1>7. CASE UNCHANGED vars
  BY <1>7 DEF TypeOK, vars
<1>8. CASE OthersOrder
  <2>1. newest' \in Seq(Traces) /\ Len(newest') <= ListLimit
    BY <1>8, ListTypes DEF TypeOK, OthersOrder
  <2> QED
    BY <1>8, <2>1 DEF TypeOK, OthersOrder
<1> QED
  BY <1>1, <1>2, <1>3, <1>4, <1>5, <1>6, <1>7, <1>8 DEF Next

(* Every reachable state is well typed; in particular the channel never    *)
(* holds more than its capacity (worker_pool.go, Submit).                  *)
THEOREM TypeCorrect == Spec => []TypeOK
  BY TypeInit, TypeNext, PTL DEF Spec

-----------------------------------------------------------------------------
(* Where a request is.                                                     *)

Sent == {"submitted", "accepted", "dropped"}

(* A request waits in the channel, or a worker holds it.                   *)
Queues(r) == \E i \in 1 .. Len(events) : events[i] = r
Underway(r) == Queues(r) \/ \E w \in Workers : worker[w].request = r

(* Whatever is under way was sent by its handler, and is in one place.     *)
InOnePlace ==
  /\ \A r \in Requests : Underway(r) => call[r] \in Sent
  /\ \A i, j \in 1 .. Len(events) : events[i] = events[j] => i = j
  /\ \A i \in 1 .. Len(events), w \in Workers : worker[w].request # events[i]
  /\ \A v, w \in Workers : worker[v].request = worker[w].request =>
       v = w \/ worker[v].request = NoRequest

(* What was published was sent by its handler; and if its trace was sent   *)
(* once and no fault touched it, the gateway has done with it.             *)
DoneWithPublished ==
  \A t \in published :
    /\ \E r \in CallOf(t) : call[r] \in Sent
    /\ Once(t) /\ t \notin disturbed =>
         \A r \in CallOf(t) : call[r] \in Sent /\ ~ Underway(r)

(* The processor answers only what was published.                          *)
AnswersFollow == \A t \in Traces : told[t] # "pending" => t \in published

IInv == TypeOK /\ InOnePlace /\ DoneWithPublished /\ AnswersFollow /\ AnswerSurvives

LEMMA InvInit == Init => IInv
<1> SUFFICES ASSUME Init PROVE IInv
  OBVIOUS
<1>1. TypeOK
  BY TypeInit
<1>2. \A r \in Requests : ~ Underway(r)
  BY GatewayAssumption DEF Init, Underway, Queues, IdleWorker
<1>3. InOnePlace
  BY <1>2, GatewayAssumption DEF Init, InOnePlace, IdleWorker
<1>4. DoneWithPublished /\ AnswersFollow /\ AnswerSurvives
  BY DEF Init, DoneWithPublished, AnswersFollow, AnswerSurvives, Processor!ContractInit
<1> QED
  BY <1>1, <1>3, <1>4 DEF IInv

-----------------------------------------------------------------------------
(* A fault adds to the traces it touched, and never forgets one.           *)
LEMMA FaultDisturbs ==
  ASSUME NEW kind, NEW traces, Fault(kind, traces)
  PROVE  disturbed' = disturbed \cup traces
  BY DEF Fault

(* A write of a trace's key leaves the others alone, and disturbs the      *)
(* trace when it fails.                                                    *)
LEMMA TrySetEffect ==
  ASSUME TypeOK, NEW t \in Traces, NEW value, TrySetResult(t, value)
  PROVE  /\ \A s \in Traces \ {t} : result'[s] = result[s]
         /\ disturbed \subseteq disturbed'
  BY DEF TrySetResult, TypeOK, Fault

(* While a trace's request is not done with, the processor has not been    *)
(* asked, or the trace is excused: any write of its key is harmless.       *)
LEMMA WriteIsHarmless ==
  ASSUME IInv, NEW t \in Traces, NEW r \in CallOf(t), call[r] \notin Sent \/ Underway(r),
         \A s \in Traces \ {t} : result'[s] = result[s],
         disturbed \subseteq disturbed', UNCHANGED told
  PROVE  AnswerSurvives'
<1> SUFFICES ASSUME NEW s \in Traces, Once(s), s \notin disturbed', told[s] # "pending"
             PROVE  result'[s] = told[s]
  BY DEF AnswerSurvives, Once
<1>1. result[s] = told[s]
  BY DEF IInv, AnswerSurvives
<1>2. s \in published
  BY DEF IInv, AnswersFollow
<1>3. s # t
  BY <1>2 DEF IInv, DoneWithPublished
<1> QED
  BY <1>1, <1>3

(* A step that sends nothing, moves nothing and publishes nothing keeps    *)
(* what is said of places; calls may only move towards being sent.         *)
LEMMA PlacesKept ==
  ASSUME IInv, UNCHANGED <<events, worker, published>>, disturbed \subseteq disturbed',
         \A r \in Requests : call[r] \in Sent => call'[r] \in Sent
  PROVE  InOnePlace' /\ DoneWithPublished'
<1>1. \A r \in Requests : Underway(r)' <=> Underway(r)
  BY DEF Underway, Queues
<1>2. InOnePlace'
  BY <1>1 DEF IInv, InOnePlace
<1>3. DoneWithPublished'
  BY <1>1 DEF IInv, DoneWithPublished, CallOf, Once
<1> QED
  BY <1>2, <1>3

(* The handler: it sends a request once, before anybody else knows it.     *)
LEMMA InvPartIn ==
  ASSUME IInv, NEW r \in Requests, PartIn(r)
  PROVE  InOnePlace' /\ DoneWithPublished' /\ AnswersFollow' /\ AnswerSurvives'
<1> USE GatewayAssumption DEF CallTo
<1>0. /\ TypeOK
      /\ TraceOf[r] \in Traces
      /\ r \in CallOf(TraceOf[r])
  BY DEF IInv, CallOf
<1>1. AnswersFollow'
  BY DEF IInv, AnswersFollow, PartIn, PartInRefused, TryAcquireAndSetProcessing, PipelineFails,
     Submit, SystemBusy, SetQueued
<1>2. CASE PartInRefused(r)
  <2>1. AnswerSurvives'
    BY <1>2 DEF IInv, AnswerSurvives, PartInRefused, Once
  <2> QED
    BY <1>0, <1>1, <1>2, <2>1, PlacesKept DEF PartInRefused, TypeOK, Sent
<1>3. CASE TryAcquireAndSetProcessing(r) \/ PipelineFails(r)
  <2>1. /\ call[r] = "new"
        /\ call' \in { [call EXCEPT ![r] = "acquired"], [call EXCEPT ![r] = "rejected"] }
        /\ UNCHANGED <<events, worker, published, told>>
        /\ disturbed \subseteq disturbed'
        /\ \A s \in Traces \ {TraceOf[r]} : result'[s] = result[s]
    BY <1>0, <1>3, FaultDisturbs DEF TryAcquireAndSetProcessing, PipelineFails, TypeOK
  <2>2. AnswerSurvives'
    BY <1>0, <2>1, WriteIsHarmless DEF Sent
  <2>3. InOnePlace' /\ DoneWithPublished'
    BY <1>0, <2>1, PlacesKept DEF TypeOK, Sent
  <2> QED
    BY <1>1, <2>2, <2>3
<1>4. CASE SystemBusy(r)
  <2>1. AnswerSurvives'
    BY <1>0, <1>4, TrySetEffect, WriteIsHarmless DEF SystemBusy, Sent
  <2>2. InOnePlace' /\ DoneWithPublished'
    BY <1>0, <1>4, TrySetEffect, PlacesKept DEF SystemBusy, TypeOK, Sent
  <2> QED
    BY <1>1, <2>1, <2>2
<1>5. CASE SetQueued(r)
  <2>1. disturbed' = disturbed
    BY <1>5, FaultDisturbs DEF SetQueued
  <2>2. AnswerSurvives'
    BY <1>5, <2>1 DEF IInv, AnswerSurvives, SetQueued, Once
  <2>3. InOnePlace' /\ DoneWithPublished'
    BY <1>0, <1>5, <2>1, PlacesKept DEF SetQueued, TypeOK, Sent
  <2> QED
    BY <1>1, <2>2, <2>3
<1>6. CASE Submit(r)
  <2>1. /\ call[r] = "acquired"
        /\ UNCHANGED <<worker, published, result, told, disturbed>>
    BY <1>6 DEF Submit
  <2>2. AnswerSurvives'
    BY <2>1 DEF IInv, AnswerSurvives, Once
  <2>3. CASE Len(events) < QueueSize
    <3>1. /\ events' = Append(events, r)
          /\ call' = [call EXCEPT ![r] = "submitted"]
      BY <1>6, <2>3 DEF Submit
    <3>2. ~ Underway(r)
      BY <2>1 DEF IInv, InOnePlace, Sent
    <3>3. /\ Len(events) \in Nat
          /\ Len(events') = Len(events) + 1
          /\ \A i \in 1 .. Len(events) : events'[i] = events[i]
          /\ events'[Len(events) + 1] = r
      BY <1>0, <3>1, AppendElements DEF TypeOK
    <3>4. \A q \in Requests : Underway(q)' => Underway(q) \/ q = r
      BY <2>1, <3>3 DEF Underway, Queues
    <3>5. InOnePlace'
      <4>1. \A q \in Requests : Underway(q)' => call'[q] \in Sent
        BY <1>0, <3>1, <3>4 DEF IInv, InOnePlace, Sent, TypeOK
      <4>2. \A i \in 1 .. Len(events) : events[i] # r
        BY <3>2 DEF Underway, Queues
      <4>3. \A i, j \in 1 .. Len(events') : events'[i] = events'[j] => i = j
        BY <3>3, <4>2 DEF IInv, InOnePlace
      <4>4. \A i \in 1 .. Len(events'), w \in Workers : worker'[w].request # events'[i]
        BY <2>1, <3>2, <3>3 DEF IInv, InOnePlace, Underway
      <4> QED
        BY <2>1, <4>1, <4>3, <4>4 DEF IInv, InOnePlace
    <3>6. DoneWithPublished'
      <4> SUFFICES ASSUME NEW t \in published
                   PROVE  /\ \E q \in CallOf(t) : call'[q] \in Sent
                          /\ Once(t) /\ t \notin disturbed =>
                               \A q \in CallOf(t) : call'[q] \in Sent /\ ~ Underway(q)'
        BY <2>1 DEF DoneWithPublished, CallOf, Once
      <4>1. PICK q \in CallOf(t) : call[q] \in Sent
        BY DEF IInv, DoneWithPublished
      <4>2. call'[q] \in Sent
        BY <1>0, <2>1, <3>1, <4>1 DEF Sent, TypeOK, CallOf
      <4>3. ASSUME Once(t), t \notin disturbed, NEW p \in CallOf(t)
            PROVE  call'[p] \in Sent /\ ~ Underway(p)'
        <5>1. call[p] \in Sent /\ ~ Underway(p)
          BY <4>3 DEF IInv, DoneWithPublished
        <5>2. p # r
          BY <2>1, <5>1 DEF Sent
        <5> QED
          BY <1>0, <3>1, <3>4, <5>1, <5>2 DEF CallOf, TypeOK
      <4> QED
        BY <4>1, <4>2, <4>3
    <3> QED
      BY <1>1, <2>2, <3>5, <3>6
  <2>4. CASE ~ (Len(events) < QueueSize)
    <3>1. /\ events' = events
          /\ call' = [call EXCEPT ![r] = "full"]
      BY <1>6, <2>4 DEF Submit
    <3> QED
      BY <1>0, <1>1, <2>1, <2>2, <3>1, PlacesKept DEF TypeOK, Sent
  <2> QED
    BY <2>3, <2>4
<1> QED
  BY <1>2, <1>3, <1>4, <1>5, <1>6 DEF PartIn

(* A worker holds a request from its channel until it is done with it.     *)
LEMMA InvProcessEvent ==
  ASSUME IInv, NEW w \in Workers, ProcessEvent(w)
  PROVE  InOnePlace' /\ DoneWithPublished' /\ AnswersFollow' /\ AnswerSurvives'
<1> USE GatewayAssumption
<1>0. TypeOK
  BY DEF IInv
<1>a. PICK q : q = worker[w].request
  OBVIOUS
<1>1. CASE TakeEvent(w)
  <2> DEFINE h == Head(events)
  <2>1. /\ h \in Requests
        /\ Len(events) \in Nat \ {0}
        /\ Len(events') = Len(events) - 1
        /\ \A i \in 1 .. Len(events) - 1 : events'[i] = events[i + 1]
        /\ h = events[1]
    BY <1>0, <1>1, TailElements DEF TakeEvent, TypeOK
  <2>2. /\ worker[w].request = NoRequest
        /\ worker'[w].request = h
        /\ \A v \in Workers \ {w} : worker'[v] = worker[v]
        /\ UNCHANGED <<call, published, told>>
    <3>1. /\ worker[w].at = "idle"
          /\ worker' = [worker EXCEPT ![w] = [at |-> "check", request |-> Head(events)]]
          /\ UNCHANGED <<call, published, told>>
      BY <1>1 DEF TakeEvent
    <3>2. /\ worker \in [Workers -> {IdleWorker} \cup
               [at : {"check", "publish", "failed", "text", "processing"}, request : Requests]]
      BY <1>0 DEF TypeOK
    <3>3. worker[w].request = NoRequest
      BY <3>1, <3>2 DEF IdleWorker
    <3> QED
      BY <3>1, <3>2, <3>3
  <2>3. TraceOf[h] \in Traces /\ h \in CallOf(TraceOf[h]) /\ Underway(h)
    BY <2>1 DEF CallOf, Underway, Queues
  <2>4. AnswersFollow' /\ AnswerSurvives'
    <3>1. AnswerSurvives'
      BY <1>0, <1>1, <2>2, <2>3, TrySetEffect, WriteIsHarmless DEF TakeEvent
    <3> QED
      BY <2>2, <3>1 DEF IInv, AnswersFollow
  <2>5. \A r \in Requests : Underway(r)' => Underway(r)
    BY <2>1, <2>2 DEF Underway, Queues
  <2>6. InOnePlace'
    <3>1. \A r \in Requests : Underway(r)' => call'[r] \in Sent
      BY <2>2, <2>5 DEF IInv, InOnePlace
    <3>2. \A i, j \in 1 .. Len(events') : events'[i] = events'[j] => i = j
      <4> SUFFICES ASSUME NEW i \in 1 .. Len(events'), NEW j \in 1 .. Len(events'),
                          events'[i] = events'[j]
                   PROVE  i = j
        OBVIOUS
      <4>1. i + 1 \in 1 .. Len(events) /\ j + 1 \in 1 .. Len(events)
        BY <2>1
      <4>2. events[i + 1] = events[j + 1]
        BY <2>1
      <4>3. i + 1 = j + 1
        BY <4>1, <4>2 DEF IInv, InOnePlace
      <4> QED
        BY <4>3
    <3>3. \A i \in 1 .. Len(events'), v \in Workers : worker'[v].request # events'[i]
      <4> SUFFICES ASSUME NEW i \in 1 .. Len(events'), NEW v \in Workers
                   PROVE  worker'[v].request # events'[i]
        OBVIOUS
      <4>1. i + 1 \in 1 .. Len(events) /\ 1 \in 1 .. Len(events) /\ i + 1 # 1
        BY <2>1
      <4>2. events'[i] = events[i + 1] /\ events[i + 1] # h
        BY <2>1, <4>1 DEF IInv, InOnePlace
      <4> QED
        BY <2>2, <4>1, <4>2 DEF IInv, InOnePlace
    <3>4. \A v \in Workers : worker[v].request # h
      BY <2>1 DEF IInv, InOnePlace
    <3>5. \A u, v \in Workers : worker'[u].request = worker'[v].request =>
            u = v \/ worker'[u].request = NoRequest
      BY <2>2, <3>4 DEF IInv, InOnePlace
    <3> QED
      BY <3>1, <3>2, <3>3, <3>5 DEF InOnePlace
  <2>7. disturbed \subseteq disturbed'
    BY <1>0, <1>1, <2>3, TrySetEffect DEF TakeEvent
  <2>8. DoneWithPublished'
    BY <2>2, <2>5, <2>7 DEF IInv, DoneWithPublished, CallOf, Once
  <2> QED
    BY <2>4, <2>6, <2>8
<1>2. ASSUME NEW from, NEW to, WorkerTo(w, from, to), from # "idle",
             to \in {"idle", "check", "publish", "failed", "text", "processing"},
             UNCHANGED <<call, events>>
      PROVE  /\ q \in Requests
             /\ TraceAt(w) \in Traces
             /\ q \in CallOf(TraceAt(w))
             /\ Underway(q)
             /\ worker'[w].request = IF to = "idle" THEN NoRequest ELSE q
             /\ \A v \in Workers \ {w} : worker'[v] = worker[v]
             /\ \A r \in Requests : Underway(r)' => Underway(r)
             /\ InOnePlace'
  <2>1. q \in Requests /\ TraceAt(w) \in Traces /\ q \in CallOf(TraceAt(w)) /\ Underway(q)
    BY <1>0, <1>a, <1>2, WorkerTypes DEF CallOf, TraceAt, Underway
  <2>2. worker' = [worker EXCEPT ![w] = IF to = "idle" THEN IdleWorker
                                         ELSE [worker[w] EXCEPT !.at = to]]
    BY <1>2 DEF WorkerTo
  <2>3. worker'[w].request = IF to = "idle" THEN NoRequest ELSE q
    BY <1>0, <1>a, <2>2 DEF TypeOK, IdleWorker
  <2>4. \A v \in Workers \ {w} : worker'[v] = worker[v]
    BY <1>0, <2>2 DEF TypeOK
  <2>5. \A r \in Requests : Underway(r)' => Underway(r)
    BY <1>a, <1>2, <2>3, <2>4 DEF Underway, Queues
  <2>6. \A i \in 1 .. Len(events) : events[i] \in Requests
    BY <1>0 DEF TypeOK
  <2>7. InOnePlace'
    BY <1>a, <1>2, <2>3, <2>4, <2>5, <2>6 DEF IInv, InOnePlace
  <2> QED
    BY <2>1, <2>3, <2>4, <2>5, <2>7
<1>3. CASE CheckEvent(w)
  <2>1. PICK verdict \in {"publish", "failed", "text"} : WorkerTo(w, "check", verdict)
    BY <1>3 DEF CheckEvent
  <2>2. UNCHANGED <<call, events, published, result, told, disturbed>>
    BY <1>3 DEF CheckEvent
  <2>3. InOnePlace' /\ \A r \in Requests : Underway(r)' => Underway(r)
    BY <1>2, <2>1, <2>2
  <2> QED
    BY <2>2, <2>3 DEF IInv, DoneWithPublished, AnswersFollow, AnswerSurvives, CallOf, Once
<1>4. CASE Publish(w) \/ PublishFails(w)
  <2>1. PICK to \in {"idle", "text"} : WorkerTo(w, "publish", to)
    BY <1>4 DEF Publish, PublishFails
  <2>2. /\ UNCHANGED <<call, events, result, told>>
        /\ disturbed \subseteq disturbed'
        /\ published \subseteq published'
        /\ published' \subseteq published \cup {TraceAt(w)}
    BY <1>4, FaultDisturbs DEF Publish, PublishFails
  <2>3. /\ q \in Requests /\ TraceAt(w) \in Traces /\ q \in CallOf(TraceAt(w)) /\ Underway(q)
        /\ \A r \in Requests : Underway(r)' => Underway(r)
        /\ InOnePlace'
    BY <1>2, <2>1, <2>2
  <2>4. call[q] \in Sent
    BY <2>3 DEF IInv, InOnePlace
  <2>5. ASSUME TraceAt(w) \in published', Once(TraceAt(w)), TraceAt(w) \notin disturbed'
        PROVE  ~ Underway(q)'
    <3>1. TraceAt(w) \notin published
      BY <2>2, <2>3, <2>5 DEF IInv, DoneWithPublished
    <3>2. Publish(w)
      <4>1. PublishFails(w) => UNCHANGED published \/ TraceAt(w) \in disturbed'
        BY FaultDisturbs DEF PublishFails
      <4> QED
        BY <1>4, <2>5, <3>1, <4>1
    <3>3. WorkerTo(w, "publish", "idle")
      BY <3>2 DEF Publish
    <3>4. worker'[w].request = NoRequest /\ \A v \in Workers \ {w} : worker'[v] = worker[v]
      BY <1>2, <2>2, <3>3
    <3>5. \A i \in 1 .. Len(events) : events[i] # q
      BY <1>a DEF IInv, InOnePlace
    <3>6. \A v \in Workers \ {w} : worker[v].request # q
      BY <1>a, <2>3, GatewayAssumption DEF IInv, InOnePlace
    <3> QED
      BY <2>2, <2>3, <3>4, <3>5, <3>6 DEF Underway, Queues
  <2>6. DoneWithPublished'
    <3> SUFFICES ASSUME NEW t \in published'
                 PROVE  /\ \E r \in CallOf(t) : call[r] \in Sent
                        /\ Once(t) /\ t \notin disturbed' =>
                             \A r \in CallOf(t) : call[r] \in Sent /\ ~ Underway(r)'
      BY <2>2 DEF DoneWithPublished, CallOf, Once
    <3>1. CASE t = TraceAt(w)
      <4>1. Once(t) => \A r \in CallOf(t) : r = q
        BY <2>3, <3>1 DEF Once, CallOf
      <4> QED
        BY <2>3, <2>4, <2>5, <3>1, <4>1
    <3>2. CASE t # TraceAt(w)
      <4>1. t \in published
        BY <2>2, <3>2
      <4> QED
        BY <2>2, <2>3, <4>1 DEF IInv, DoneWithPublished, CallOf
    <3> QED
      BY <3>1, <3>2
  <2> QED
    BY <2>2, <2>3, <2>6 DEF IInv, AnswersFollow, AnswerSurvives, Once
<1>5. CASE MarkFailed(w)
  <2>1. PICK reason \in {"failed", "text", "processing"} :
          /\ WorkerTo(w, reason, "idle")
          /\ TrySetResult(TraceAt(w), reason)
          /\ UNCHANGED <<call, events, published, queued, processorVars>>
    BY <1>5 DEF MarkFailed
  <2>2. /\ q \in Requests /\ TraceAt(w) \in Traces /\ q \in CallOf(TraceAt(w)) /\ Underway(q)
        /\ \A r \in Requests : Underway(r)' => Underway(r)
        /\ InOnePlace'
    BY <1>2, <2>1
  <2>3. /\ \A s \in Traces \ {TraceAt(w)} : result'[s] = result[s]
        /\ disturbed \subseteq disturbed'
    BY <1>0, <2>1, <2>2, TrySetEffect
  <2>4. AnswerSurvives'
    BY <2>1, <2>2, <2>3, WriteIsHarmless
  <2> QED
    BY <2>1, <2>2, <2>3, <2>4 DEF IInv, DoneWithPublished, AnswersFollow, CallOf, Once
<1> QED
  BY <1>1, <1>3, <1>4, <1>5 DEF ProcessEvent

(* The processor writes the answer it gives, and gives one.                *)
LEMMA InvProcessor ==
  ASSUME IInv, NEW t \in Traces, ProcessorHandles(t)
  PROVE  InOnePlace' /\ DoneWithPublished' /\ AnswersFollow' /\ AnswerSurvives'
<1>0. TypeOK
  BY DEF IInv
<1>1. InOnePlace' /\ DoneWithPublished'
  BY PlacesKept DEF ProcessorHandles, ProcessorPlaces, ProcessorConfirms, ProcessorRefuses
<1>2. CASE ProcessorPlaces(t)
  BY <1>1, <1>2 DEF IInv, ProcessorPlaces, Processor!Place, AnswersFollow, AnswerSurvives, Once
<1>3. CASE ProcessorConfirms(t) \/ ProcessorRefuses(t)
  <2>1. PICK a \in {"order", "failed"} :
          /\ t \in published
          /\ told' = [told EXCEPT ![t] = a]
          /\ result' = [result EXCEPT ![t] = a]
          /\ UNCHANGED <<call, published, disturbed>>
    BY <1>3 DEF ProcessorConfirms, ProcessorRefuses, Processor!Confirm, Processor!Refuse
  <2>2. AnswersFollow'
    BY <1>0, <2>1 DEF IInv, AnswersFollow, TypeOK
  <2>3. AnswerSurvives'
    BY <1>0, <2>1 DEF IInv, AnswerSurvives, TypeOK, Once
  <2> QED
    BY <1>1, <2>2, <2>3
<1> QED
  BY <1>2, <1>3 DEF ProcessorHandles

LEMMA InvNext == IInv /\ [Next]_vars => IInv'
<1> SUFFICES ASSUME IInv, [Next]_vars PROVE IInv'
  OBVIOUS
<1>0. TypeOK /\ TypeOK'
  BY TypeNext DEF IInv
<1>1. CASE \E r \in Requests : PartIn(r)
  BY <1>0, <1>1, InvPartIn DEF IInv
<1>2. CASE \E w \in Workers : ProcessEvent(w)
  BY <1>0, <1>2, InvProcessEvent DEF IInv
<1>3. CASE \E t \in Traces : ProcessorHandles(t)
  BY <1>0, <1>3, InvProcessor DEF IInv
<1>4. ASSUME NEW t \in Traces, ResultExpires(t) PROVE IInv'
  <2>1. /\ disturbed' = disturbed \cup {t}
        /\ result' = [result EXCEPT ![t] = "none"]
        /\ UNCHANGED <<call, events, worker, published, told>>
    BY <1>4, FaultDisturbs DEF ResultExpires
  <2>2. InOnePlace' /\ DoneWithPublished'
    BY <2>1, PlacesKept
  <2>3. AnswersFollow' /\ AnswerSurvives'
    BY <1>0, <2>1 DEF IInv, AnswersFollow, AnswerSurvives, Once, TypeOK
  <2> QED
    BY <1>0, <2>2, <2>3 DEF IInv
<1>5. ASSUME NEW u \in Users, QueuedExpires(u) PROVE IInv'
  <2>1. UNCHANGED <<call, events, worker, published, result, told, disturbed>>
    BY <1>5 DEF QueuedExpires
  <2> QED
    BY <1>0, <2>1, PlacesKept DEF IInv, AnswersFollow, AnswerSurvives, Once
<1>6. CASE GatewayCrashes
  <2>1. /\ events' = <<>>
        /\ worker' = [w \in Workers |-> IdleWorker]
        /\ Traces \subseteq disturbed'
        /\ UNCHANGED <<published, result, told>>
        /\ \A r \in Requests : call[r] \in Sent => call'[r] \in Sent
    BY <1>6, FaultDisturbs DEF GatewayCrashes, Sent
  <2>2. \A r \in Requests : ~ Underway(r)'
    BY <2>1, GatewayAssumption DEF Underway, Queues, IdleWorker
  <2>3. InOnePlace'
    BY <2>1, <2>2 DEF InOnePlace, IdleWorker
  <2>4. DoneWithPublished' /\ AnswersFollow' /\ AnswerSurvives'
    BY <1>0, <2>1 DEF IInv, DoneWithPublished, AnswersFollow, AnswerSurvives, CallOf, TypeOK
  <2> QED
    BY <1>0, <2>3, <2>4 DEF IInv
<1>7. CASE OthersOrder \/ UNCHANGED vars
  <2>1. UNCHANGED <<call, events, worker, published, result, told, disturbed>>
    BY <1>7 DEF OthersOrder, vars
  <2> QED
    BY <1>0, <2>1, PlacesKept DEF IInv, AnswersFollow, AnswerSurvives, Once
<1> QED
  BY <1>1, <1>2, <1>3, <1>4, <1>5, <1>6, <1>7 DEF Next

(* For a trace that was sent once and that no fault touched, what the      *)
(* processor answered stays readable: the handler and the worker wrote     *)
(* theirs before it (worker_pool.go, processEvent).                        *)
THEOREM AnswersSurvive == Spec => []AnswerSurvives
<1>1. IInv => AnswerSurvives
  BY DEF IInv
<1> QED
  BY InvInit, InvNext, <1>1, PTL DEF Spec

(* A buyer whose every call was turned away has nothing in the processor's *)
(* queue, whatever fails (seckill.go, partInFastPath).                     *)
THEOREM RejectedStayOut == Spec => []RejectedNeverPublished
<1>1. IInv => RejectedNeverPublished
  <2> SUFFICES ASSUME IInv, NEW t \in published
               PROVE  \E r \in CallOf(t) : call[r] # "rejected"
    BY DEF RejectedNeverPublished
  <2>1. PICK r \in CallOf(t) : call[r] \in Sent
    BY DEF IInv, DoneWithPublished
  <2> QED
    BY <2>1 DEF Sent
<1> QED
  BY InvInit, InvNext, <1>1, PTL DEF Spec

-----------------------------------------------------------------------------
(* AcceptedIsAnswered without its time: a request that was sent once and   *)
(* that no fault touched is never dropped.  It waits in the channel, a     *)
(* worker holds it, the processor owes it an answer, or its buyer reads    *)
(* why it was refused (worker_pool.go, Submit and processEvent).           *)
NothingDropped ==
  \A r \in Requests :
    call[r] \in {"submitted", "accepted"} /\ Once(TraceOf[r]) /\ TraceOf[r] \notin disturbed =>
      \/ Underway(r)
      \/ TraceOf[r] \in published
      \/ result[TraceOf[r]] \in {"failed", "text"}

(* A worker writes a reason, never PROCESSING, once it has looked.         *)
ReasonsGiven == \A w \in Workers : worker[w].at # "processing"

HandedOn == NothingDropped /\ ReasonsGiven

(* The handler puts a request into the channel before it counts as sent.   *)
LEMMA HandedOnPartIn == ASSUME IInv, HandedOn, NEW r \in Requests, PartIn(r) PROVE HandedOn'
<1> USE GatewayAssumption DEF CallTo
<1>0. TypeOK /\ TraceOf[r] \in Traces
  BY DEF IInv
<1>1. UNCHANGED <<worker, published>> /\ disturbed \subseteq disturbed'
  BY FaultDisturbs DEF PartIn, PartInRefused, TryAcquireAndSetProcessing, PipelineFails, Submit,
     SystemBusy, SetQueued, TrySetResult
<1>2. ReasonsGiven'
  BY <1>1 DEF HandedOn, ReasonsGiven
<1>3. CASE Submit(r)
  <2>1. UNCHANGED <<result, disturbed>> /\ call[r] = "acquired"
    BY <1>3 DEF Submit
  <2>2. CASE Len(events) < QueueSize
    <3>1. events' = Append(events, r) /\ call' = [call EXCEPT ![r] = "submitted"]
      BY <1>3, <2>2 DEF Submit
    <3>2. /\ Len(events) \in Nat
          /\ Len(events') = Len(events) + 1
          /\ \A i \in 1 .. Len(events) : events'[i] = events[i]
          /\ events'[Len(events) + 1] = r
      BY <1>0, <3>1, AppendElements DEF TypeOK
    <3>3. Underway(r)' /\ \A q \in Requests : Underway(q) => Underway(q)'
      BY <1>1, <3>2 DEF Underway, Queues
    <3>4. \A q \in Requests : q # r => call'[q] = call[q]
      BY <1>0, <3>1 DEF TypeOK
    <3>5. NothingDropped'
      BY <1>1, <2>1, <3>3, <3>4 DEF HandedOn, NothingDropped, Once
    <3> QED
      BY <1>2, <3>5 DEF HandedOn
  <2>3. CASE ~ (Len(events) < QueueSize)
    <3>1. UNCHANGED events /\ call' = [call EXCEPT ![r] = "full"]
      BY <1>3, <2>3 DEF Submit
    <3>2. \A q \in Requests : (q # r => call'[q] = call[q]) /\ call'[r] = "full"
      BY <1>0, <3>1 DEF TypeOK
    <3>3. \A q \in Requests : Underway(q)' <=> Underway(q)
      BY <1>1, <3>1 DEF Underway, Queues
    <3>4. NothingDropped'
      BY <1>1, <2>1, <3>2, <3>3 DEF HandedOn, NothingDropped, Once
    <3> QED
      BY <1>2, <3>4 DEF HandedOn
  <2> QED
    BY <2>2, <2>3
<1>4. CASE SetQueued(r)
  <2>1. UNCHANGED <<events, result>> /\ call[r] = "submitted"
    BY <1>4 DEF SetQueued
  <2>2. \A q \in Requests : q # r => call'[q] = call[q]
    BY <1>0, <1>4 DEF SetQueued, TypeOK
  <2>3. \A q \in Requests : Underway(q)' <=> Underway(q)
    BY <1>1, <2>1 DEF Underway, Queues
  <2>4. NothingDropped'
    BY <1>0, <1>1, <2>1, <2>2, <2>3 DEF HandedOn, NothingDropped, Once
  <2> QED
    BY <1>2, <2>4 DEF HandedOn
<1>5. CASE PartInRefused(r) \/ TryAcquireAndSetProcessing(r) \/ PipelineFails(r) \/ SystemBusy(r)
  <2>1. /\ UNCHANGED events
        /\ call[r] \in {"new", "full"}
        /\ \E to \in {"acquired", "rejected"} : call' = [call EXCEPT ![r] = to]
    BY <1>5 DEF PartInRefused, TryAcquireAndSetProcessing, PipelineFails, SystemBusy
  <2>2. \A q \in Requests :
          (q # r => call'[q] = call[q]) /\ call'[r] \in {"acquired", "rejected"}
    BY <1>0, <2>1 DEF TypeOK
  <2>3. \A q \in Requests : Underway(q)' <=> Underway(q)
    BY <1>1, <2>1 DEF Underway, Queues
  <2>4. \A s \in Traces \ {TraceOf[r]} : result'[s] = result[s]
    BY <1>0, <1>5, TrySetEffect
    DEF PartInRefused, TryAcquireAndSetProcessing, PipelineFails, SystemBusy, TypeOK
  <2>5. \A q \in Requests : TraceOf[q] = TraceOf[r] /\ Once(TraceOf[q]) => q = r
    BY DEF Once
  <2>6. NothingDropped'
    BY <1>0, <1>1, <2>2, <2>3, <2>4, <2>5 DEF HandedOn, NothingDropped, Once
  <2> QED
    BY <1>2, <2>6 DEF HandedOn
<1> QED
  BY <1>3, <1>4, <1>5 DEF PartIn

(* A step of one worker: the request it holds stays with it, is published, *)
(* or its buyer is told; nobody else's key is written.                     *)
LEMMA HandedOnWorker ==
  ASSUME IInv, HandedOn, NEW w \in Workers, UNCHANGED <<call, events>>,
         worker[w].request \in Requests,
         \A v \in Workers \ {w} : worker'[v] = worker[v],
         worker'[w].at # "processing",
         published \subseteq published', disturbed \subseteq disturbed',
         \A s \in Traces \ {TraceAt(w)} : result'[s] = result[s],
         \/ worker'[w].request = worker[w].request
         \/ TraceAt(w) \in published'
         \/ TraceAt(w) \in disturbed'
         \/ result'[TraceAt(w)] \in {"failed", "text"}
  PROVE  HandedOn'
<1>1. ReasonsGiven'
  BY DEF HandedOn, ReasonsGiven
<1>2. PICK q \in Requests : q = worker[w].request
  OBVIOUS
<1>3. TraceAt(w) = TraceOf[q] /\ Underway(q)
  BY <1>2 DEF TraceAt, Underway
<1>4. NothingDropped'
  <2> SUFFICES ASSUME NEW r \in Requests, call[r] \in {"submitted", "accepted"},
                      Once(TraceOf[r]), TraceOf[r] \notin disturbed'
               PROVE  \/ Underway(r)'
                      \/ TraceOf[r] \in published'
                      \/ result'[TraceOf[r]] \in {"failed", "text"}
    BY DEF NothingDropped, Once
  <2>1. CASE r = q
    BY <1>2, <1>3, <2>1 DEF Underway
  <2>2. CASE r # q
    <3>1. TraceOf[r] # TraceOf[q] /\ TraceOf[r] \in Traces
      BY <2>2, GatewayAssumption DEF Once
    <3>2. Underway(r) => Underway(r)'
      BY <1>2, <2>2 DEF Underway, Queues
    <3> QED
      BY <1>3, <3>1, <3>2 DEF HandedOn, NothingDropped
  <2> QED
    BY <2>1, <2>2
<1> QED
  BY <1>1, <1>4 DEF HandedOn

LEMMA HandedOnEvent == ASSUME IInv, HandedOn, NEW w \in Workers, ProcessEvent(w) PROVE HandedOn'
<1> USE GatewayAssumption
<1>0. TypeOK
  BY DEF IInv
<1>1. CASE TakeEvent(w)
  <2>a. /\ Len(events) \in Nat \ {0}
        /\ Len(events') = Len(events) - 1
        /\ \A i \in 1 .. Len(events) - 1 : events'[i] = events[i + 1]
        /\ Head(events) \in Requests
        /\ Head(events) = events[1]
    BY <1>0, <1>1, TailElements DEF TakeEvent, TypeOK
  <2>1. PICK h \in Requests : h = Head(events)
    BY <2>a
  <2>2. /\ worker[w].request = NoRequest
        /\ worker'[w] = [at |-> "check", request |-> h]
        /\ \A v \in Workers \ {w} : worker'[v] = worker[v]
        /\ UNCHANGED <<call, published>>
    <3>1. /\ worker[w].at = "idle"
          /\ worker' = [worker EXCEPT ![w] = [at |-> "check", request |-> Head(events)]]
          /\ UNCHANGED <<call, published>>
      BY <1>1 DEF TakeEvent
    <3>2. worker[w].request = NoRequest
      BY <1>0, <3>1 DEF TypeOK, IdleWorker
    <3>3. \A v \in Workers : worker'[v] = IF v = w THEN [at |-> "check", request |-> h] ELSE worker[v]
      BY <1>0, <2>1, <3>1 DEF TypeOK
    <3> QED
      BY <3>1, <3>2, <3>3
  <2>3. TraceOf[h] \in Traces
    BY <2>1
  <2>4. /\ \A s \in Traces \ {TraceOf[h]} : result'[s] = result[s]
        /\ disturbed \subseteq disturbed'
    BY <1>0, <1>1, <2>1, <2>3, TrySetEffect DEF TakeEvent
  <2>5. Underway(h)'
    BY <2>2 DEF Underway
  <2>6. \A r \in Requests : Underway(r) => Underway(r)'
    <3> SUFFICES ASSUME NEW r \in Requests, Underway(r) PROVE Underway(r)'
      OBVIOUS
    <3>1. CASE Queues(r)
      <4>1. PICK i \in 1 .. Len(events) : events[i] = r
        BY <3>1 DEF Queues
      <4>2. CASE i = 1
        BY <2>a, <2>1, <2>5, <4>1, <4>2
      <4>3. CASE i # 1
        <5>1. i - 1 \in 1 .. Len(events') /\ i - 1 \in 1 .. Len(events) - 1 /\ (i - 1) + 1 = i
          BY <2>a, <4>3
        <5>2. events'[i - 1] = r
          BY <2>a, <4>1, <5>1
        <5> QED
          BY <5>1, <5>2 DEF Underway, Queues
      <4> QED
        BY <4>2, <4>3
    <3>2. ASSUME NEW v \in Workers, worker[v].request = r PROVE Underway(r)'
      <4>1. v # w
        BY <2>2, <3>2
      <4> QED
        BY <2>2, <3>2, <4>1 DEF Underway
    <3> QED
      BY <3>1, <3>2 DEF Underway
  <2>7. ReasonsGiven'
    BY <2>2 DEF HandedOn, ReasonsGiven
  <2>8. \A r \in Requests : TraceOf[r] = TraceOf[h] /\ Once(TraceOf[r]) => r = h
    BY <2>1 DEF Once
  <2>9. NothingDropped'
    BY <2>2, <2>4, <2>5, <2>6, <2>8 DEF HandedOn, NothingDropped, Once
  <2> QED
    BY <2>7, <2>9 DEF HandedOn
<1>2. ASSUME NEW from, NEW to, WorkerTo(w, from, to), from # "idle",
             to \in {"idle", "check", "publish", "failed", "text"}
      PROVE  /\ worker[w].request \in Requests
             /\ TraceAt(w) \in Traces
             /\ \A v \in Workers \ {w} : worker'[v] = worker[v]
             /\ worker'[w].at = to
             /\ to # "idle" => worker'[w].request = worker[w].request
  <2>1. worker[w].request \in Requests /\ TraceAt(w) \in Traces
    BY <1>0, <1>2, WorkerTypes
  <2>2. worker' = [worker EXCEPT ![w] = IF to = "idle" THEN IdleWorker
                                         ELSE [worker[w] EXCEPT !.at = to]]
    BY <1>2 DEF WorkerTo
  <2>3. worker[w] \in [at : {"check", "publish", "failed", "text", "processing"}, request : Requests]
    BY <1>0, <1>2 DEF TypeOK, WorkerTo, IdleWorker
  <2> QED
    BY <1>0, <2>1, <2>2, <2>3 DEF TypeOK, IdleWorker
<1>3. CASE CheckEvent(w)
  <2>1. PICK verdict \in {"publish", "failed", "text"} : WorkerTo(w, "check", verdict)
    BY <1>3 DEF CheckEvent
  <2>2. UNCHANGED <<call, events, published, result, disturbed>>
    BY <1>3 DEF CheckEvent
  <2>3. /\ worker[w].request \in Requests
        /\ \A v \in Workers \ {w} : worker'[v] = worker[v]
        /\ worker'[w].at # "processing"
        /\ worker'[w].request = worker[w].request
    BY <1>2, <2>1
  <2> QED
    BY <2>2, <2>3, HandedOnWorker
<1>4. CASE Publish(w)
  <2>1. WorkerTo(w, "publish", "idle")
    BY <1>4 DEF Publish
  <2>2. /\ UNCHANGED <<call, events, result, disturbed>>
        /\ published \subseteq published' /\ TraceAt(w) \in published'
    BY <1>4 DEF Publish
  <2>3. /\ worker[w].request \in Requests
        /\ \A v \in Workers \ {w} : worker'[v] = worker[v]
        /\ worker'[w].at # "processing"
    BY <1>2, <2>1
  <2> QED
    BY <2>2, <2>3, HandedOnWorker
<1>5. CASE PublishFails(w)
  <2>1. WorkerTo(w, "publish", "text")
    BY <1>5 DEF PublishFails
  <2>2. /\ UNCHANGED <<call, events, result>>
        /\ published \subseteq published' /\ disturbed \subseteq disturbed'
    BY <1>5, FaultDisturbs DEF PublishFails
  <2>3. /\ worker[w].request \in Requests
        /\ \A v \in Workers \ {w} : worker'[v] = worker[v]
        /\ worker'[w].at # "processing"
        /\ worker'[w].request = worker[w].request
    BY <1>2, <2>1
  <2> QED
    BY <2>2, <2>3, HandedOnWorker
<1>6. CASE MarkFailed(w)
  <2>1. PICK reason \in {"failed", "text", "processing"} :
          /\ WorkerTo(w, reason, "idle")
          /\ TrySetResult(TraceAt(w), reason)
          /\ UNCHANGED <<call, events, published, queued, processorVars>>
    BY <1>6 DEF MarkFailed
  <2>2. reason \in {"failed", "text"}
    BY <2>1 DEF HandedOn, ReasonsGiven, WorkerTo
  <2>3. /\ worker[w].request \in Requests
        /\ TraceAt(w) \in Traces
        /\ \A v \in Workers \ {w} : worker'[v] = worker[v]
        /\ worker'[w].at # "processing"
    BY <1>2, <2>1
  <2>4. /\ \A s \in Traces \ {TraceAt(w)} : result'[s] = result[s]
        /\ disturbed \subseteq disturbed'
    BY <1>0, <2>1, <2>3, TrySetEffect
  <2>5. TraceAt(w) \in disturbed' \/ result'[TraceAt(w)] \in {"failed", "text"}
    BY <1>0, <2>1, <2>2, <2>3 DEF TrySetResult, Fault, TypeOK
  <2> QED
    BY <2>1, <2>3, <2>4, <2>5, HandedOnWorker
<1> QED
  BY <1>1, <1>3, <1>4, <1>5, <1>6 DEF ProcessEvent

LEMMA HandedOnStep == IInv /\ HandedOn /\ [Next]_vars => HandedOn'
<1> SUFFICES ASSUME IInv, HandedOn, [Next]_vars PROVE HandedOn'
  OBVIOUS
<1>0. TypeOK
  BY DEF IInv
<1>1. ASSUME UNCHANGED <<call, events, worker, published>>,
             \A t \in Traces : \/ result'[t] = result[t]
                               \/ t \in published
                               \/ t \in disturbed',
             disturbed \subseteq disturbed'
      PROVE  HandedOn'
  <2>1. \A r \in Requests : Underway(r)' <=> Underway(r)
    BY <1>1 DEF Underway, Queues
  <2>2. \A r \in Requests : TraceOf[r] \in Traces
    BY GatewayAssumption
  <2> QED
    BY <1>1, <2>1, <2>2 DEF HandedOn, NothingDropped, ReasonsGiven, Once
<1>2. CASE \E r \in Requests : PartIn(r)
  BY <1>2, HandedOnPartIn
<1>3. CASE \E w \in Workers : ProcessEvent(w)
  BY <1>3, HandedOnEvent
<1>4. ASSUME NEW t \in Traces, ProcessorHandles(t) PROVE HandedOn'
  BY <1>0, <1>1, <1>4 DEF ProcessorHandles, ProcessorPlaces, ProcessorConfirms, ProcessorRefuses, TypeOK
<1>5. ASSUME NEW t \in Traces, ResultExpires(t) PROVE HandedOn'
  BY <1>0, <1>1, <1>5, FaultDisturbs DEF ResultExpires, TypeOK
<1>6. ASSUME NEW u \in Users, QueuedExpires(u) PROVE HandedOn'
  BY <1>1, <1>6 DEF QueuedExpires
<1>7. CASE GatewayCrashes
  <2>1. worker' = [w \in Workers |-> IdleWorker] /\ Traces \subseteq disturbed'
    BY <1>7, FaultDisturbs DEF GatewayCrashes
  <2> QED
    BY <2>1, GatewayAssumption DEF HandedOn, NothingDropped, ReasonsGiven, IdleWorker
<1>8. CASE OthersOrder \/ UNCHANGED vars
  BY <1>1, <1>8 DEF OthersOrder, vars
<1> QED
  BY <1>2, <1>3, <1>4, <1>5, <1>6, <1>7, <1>8 DEF Next

(* No request is dropped between the handler, the channel, a worker and    *)
(* the queue of the processor, for any capacity and number of workers.     *)
THEOREM AcceptedAreHandedOn == Spec => []NothingDropped
<1>1. Init => HandedOn
  BY DEF Init, HandedOn, NothingDropped, ReasonsGiven, IdleWorker
<1>2. HandedOn => NothingDropped
  BY DEF HandedOn
<1> QED
  BY <1>1, <1>2, InvInit, InvNext, HandedOnStep, PTL DEF Spec
=============================================================================
