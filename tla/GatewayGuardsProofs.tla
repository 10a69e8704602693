------------------------- MODULE GatewayGuardsProofs -------------------------
(* Proofs about GatewayGuards, for every deployment, number of workers,    *)
(* limit, threshold and time-out: a probe is alone, no bucket is overdrawn, *)
(* and the rate limits hold.                                               *)
EXTENDS GatewayGuards, FiniteSetTheorems, TLAPS

Breakers == [state : {"closed", "open", "halfOpen"}, failures : Nat, openedAt : Nat, busy : BOOLEAN]

(* What the argument needs to know of the types.                           *)
BreakerType ==
  /\ now \in Nat
  /\ at \in [Workers -> Steps]
  /\ breaker \in Breakers
  /\ sinceOpen \subseteq Workers

(* A breaker that is not half open has admitted nobody since it opened: a  *)
(* result that moves it also forgets the probe.                            *)
NoProbeOutside ==
  /\ breaker.state # "halfOpen" => sinceOpen = {} /\ panicked = FALSE
  /\ breaker.state # "closed" => controller = "shared"

BreakerInv == BreakerType /\ NoProbeOutside /\ ProbeAlone

USE DEF Goto, Handling, Steps, Limited

(* The initial state.                                                      *)
LEMMA BreakerInit == ASSUME GuardAssumption, Init PROVE BreakerInv
<1>1. BreakerType
  BY DEF Init, BreakerType, Breakers
<1>2. NoProbeOutside
  BY DEF Init, NoProbeOutside
<1>3. ProbeAlone
  BY DEF Init, ProbeAlone
<1> QED BY <1>1, <1>2, <1>3 DEF BreakerInv

(* A step that leaves the breaker alone and lets no worker out of its      *)
(* handler.                                                                *)
LEMMA BreakerUntouched ==
  ASSUME BreakerInv, UNCHANGED <<controller, now, breakerVars>>,
         NEW w \in Workers, NEW from \in Steps, NEW to \in Steps, Goto(w, from, to),
         from \in Handling => to \in Handling
  PROVE  BreakerInv'
<1>1. BreakerType'
  BY DEF BreakerInv, BreakerType, breakerVars
<1>2. NoProbeOutside'
  BY DEF BreakerInv, NoProbeOutside, breakerVars
<1>3. ProbeAlone'
  <2>1. \A p \in Workers : at[p] \in Handling => at'[p] \in Handling
    BY DEF BreakerInv, BreakerType
  <2> QED BY <2>1 DEF BreakerInv, ProbeAlone, breakerVars
<1> QED BY <1>1, <1>2, <1>3 DEF BreakerInv

(* What Judged returns: a breaker, and never one that is half open.        *)
LEMMA JudgedLeaves ==
  ASSUME GuardAssumption, NEW b \in Breakers, NEW failed \in BOOLEAN, NEW t \in Nat
  PROVE  Judged(b, failed, t) \in Breakers /\ Judged(b, failed, t).state # "halfOpen"
<1>1. Opened(b, t) \in Breakers /\ Opened(b, t).state = "open"
  BY DEF Opened, Breakers
<1>2. Closed(b) \in Breakers /\ Closed(b).state = "closed"
  BY DEF Closed, Breakers
<1>3. [b EXCEPT !.failures = @ + 1] \in Breakers /\ [b EXCEPT !.failures = @ + 1].state = b.state
  BY DEF Breakers
<1> QED BY <1>1, <1>2, <1>3, Zenon DEF Judged

(* The limiter's steps happen before the breaker is asked.                 *)
LEMMA LimitStep == ASSUME GuardAssumption, BreakerInv, NEW w \in Workers, Limit(w) PROVE BreakerInv'
<1> PICK k \in Limited : NoRule(w, k) \/ AllowFresh(w, k) \/ AllowLocal(w, k) \/ CountWindow(w, k)
                         \/ AddToWindow(w, k) \/ WindowFails(w, k)
  BY DEF Limit
<1> USE DEF AfterLimit, AddStep
<1>1. UNCHANGED <<controller, now, breakerVars>>
  BY DEF NoRule, AllowFresh, AllowLocal, CountWindow, AddToWindow, WindowFails, wiring
<1>2. \E from \in {"route", "user", "routeAdd", "userAdd"}, to \in Steps : Goto(w, from, to)
  <2>1. CASE NoRule(w, k) \/ AllowFresh(w, k)
    BY <2>1 DEF NoRule, AllowFresh
  <2>2. CASE AllowLocal(w, k)
    BY <2>2, Zenon DEF AllowLocal
  <2>3. CASE CountWindow(w, k)
    BY <2>3, Zenon DEF CountWindow
  <2>4. CASE AddToWindow(w, k) \/ WindowFails(w, k)
    BY <2>4 DEF AddToWindow, WindowFails
  <2> QED BY <2>1, <2>2, <2>3, <2>4
<1>3. PICK from \in {"route", "user", "routeAdd", "userAdd"}, to \in Steps : Goto(w, from, to)
  BY <1>2
<1> QED BY <1>1, <1>3, BreakerUntouched

(* The breaker admits a probe only when it has none, and forgets it with   *)
(* the first result.                                                       *)
LEMMA BreakStep == ASSUME GuardAssumption, BreakerInv, NEW w \in Workers, Break(w) PROVE BreakerInv'
<1>1. CASE BreakerUnshared(w) \/ BreakerPasses(w) \/ BreakerRefuses(w)
  <2>1. UNCHANGED <<controller, now, breakerVars>>
    BY <1>1 DEF BreakerUnshared, BreakerPasses, BreakerRefuses, wiring
  <2>2. \E to \in {"idle", "handler"} : Goto(w, "breaker", to)
    BY <1>1 DEF BreakerUnshared, BreakerPasses, BreakerRefuses, wiring
  <2> QED BY <2>1, <2>2, BreakerUntouched
<1>2. CASE BreakerProbes(w)
  <2>1. breaker' \in Breakers /\ breaker'.state = "halfOpen" /\ breaker'.busy
    BY <1>2 DEF BreakerProbes, BreakerInv, BreakerType, Breakers
  <2>2. breaker.state = "open"
    BY <1>2 DEF BreakerProbes, ProbeAllowed, BreakerInv, ProbeAlone
  <2>3. sinceOpen' = {w}
    BY <1>2, <2>2 DEF BreakerProbes, BreakerInv, NoProbeOutside
  <2>4. BreakerType'
    BY <1>2, <2>1, <2>3 DEF BreakerProbes, BreakerInv, BreakerType
  <2>5. NoProbeOutside'
    BY <1>2, <2>1 DEF NoProbeOutside, BreakerProbes, wiring
  <2>6. at'[w] \in Handling
    BY <1>2 DEF BreakerProbes, BreakerInv, BreakerType
  <2>7. ProbeAlone'
    BY <2>1, <2>3, <2>6 DEF ProbeAlone
  <2> QED BY <2>4, <2>5, <2>7 DEF BreakerInv
<1>3. CASE Observe(w)
  <2>1. PICK failed \in BOOLEAN :
          /\ Goto(w, IF failed THEN "failed" ELSE "succeeded", "idle")
          /\ breaker' = IF controller = "shared" THEN Judged(breaker, failed, now) ELSE breaker
    BY <1>3 DEF Observe
  <2>2. UNCHANGED now
    BY <1>3 DEF Observe
  <2>3. at' \in [Workers -> Steps]
    BY <2>1 DEF BreakerInv, BreakerType
  <2>4. breaker' \in Breakers
    BY <2>1, JudgedLeaves DEF BreakerInv, BreakerType
  <2>5. BreakerType'
    BY <1>3, <2>2, <2>3, <2>4 DEF Observe, BreakerInv, BreakerType
  <2>6. breaker'.state # "halfOpen"
    <3>1. CASE controller = "shared"
      BY <2>1, <3>1, JudgedLeaves DEF BreakerInv, BreakerType
    <3>2. CASE controller # "shared"
      BY <2>1, <3>2 DEF BreakerInv, NoProbeOutside
    <3> QED BY <3>1, <3>2
  <2>7. sinceOpen' = {} /\ panicked' = FALSE
    BY <1>3, <2>6 DEF Observe, BreakerInv, NoProbeOutside
  <2>8. breaker'.state # "closed" => controller' = "shared"
    BY <1>3, <2>1 DEF Observe, wiring, BreakerInv, NoProbeOutside
  <2>9. NoProbeOutside' /\ ProbeAlone'
    BY <2>6, <2>7, <2>8 DEF NoProbeOutside, ProbeAlone
  <2> QED BY <2>5, <2>9 DEF BreakerInv
<1> QED BY <1>1, <1>2, <1>3 DEF Break

(* A handler that panics never reports: the probe is remembered as lost.   *)
LEMMA PanicStep == ASSUME BreakerInv, NEW w \in Workers, Panic(w) PROVE BreakerInv'
<1>1. UNCHANGED <<controller, now, breaker, sinceOpen>>
  BY DEF Panic, wiring
<1>2. BreakerType'
  BY <1>1 DEF Panic, BreakerInv, BreakerType
<1>3. NoProbeOutside'
  BY <1>1 DEF Panic, BreakerInv, NoProbeOutside
<1>4. ProbeAlone'
  <2> SUFFICES ASSUME breaker.state = "halfOpen" PROVE ProbeAlone'
    BY <1>1 DEF ProbeAlone
  <2>1. PICK p \in Workers : sinceOpen = {p} /\ (at[p] \in Handling \/ panicked)
    BY DEF BreakerInv, ProbeAlone
  <2>2. CASE p = w
    <3>1. panicked'
      BY <2>1, <2>2 DEF Panic
    <3> QED BY <1>1, <2>1, <3>1 DEF BreakerInv, ProbeAlone
  <2>3. CASE p # w
    <3>1. at'[p] = at[p]
      BY <2>3 DEF Panic, BreakerInv, BreakerType
    <3>2. panicked => panicked'
      BY DEF Panic
    <3> QED BY <1>1, <2>1, <3>1, <3>2 DEF BreakerInv, ProbeAlone
  <2> QED BY <2>2, <2>3
<1> QED BY <1>2, <1>3, <1>4 DEF BreakerInv

(* The handlers' own steps stay in the handler.                            *)
LEMMA HandlerStep ==
  ASSUME BreakerInv, NEW w \in Workers, Handle(w) \/ Challenge(w) \/ PartIn(w)
  PROVE  BreakerInv'
<1>1. UNCHANGED <<controller, now, breakerVars>>
  BY DEF Handle, Challenge, PartIn, CheckAnswer, ConsumeAnswer, ConsumeFails, SkipCheck,
         TryAcquire, TryAcquireFails, wiring
<1>2. \E from \in Handling, to \in Handling : Goto(w, from, to)
  <2>1. CASE Handle(w)
    BY <2>1 DEF Handle
  <2>2. CASE Challenge(w)
    BY <2>2 DEF Challenge
  <2>3. CASE CheckAnswer(w)
    BY <2>3 DEF CheckAnswer
  <2>4. CASE ConsumeAnswer(w) \/ ConsumeFails(w) \/ SkipCheck(w)
    BY <2>4 DEF ConsumeAnswer, ConsumeFails, SkipCheck
  <2>5. CASE TryAcquire(w) \/ TryAcquireFails(w)
    BY <2>5 DEF TryAcquire, TryAcquireFails
  <2> QED BY <2>1, <2>2, <2>3, <2>4, <2>5 DEF PartIn
<1>3. PICK from \in Handling, to \in Handling : Goto(w, from, to)
  BY <1>2
<1> QED BY <1>1, <1>3, BreakerUntouched

(* Every step keeps the invariant.                                         *)
LEMMA BreakerStep == ASSUME GuardAssumption, BreakerInv, [Next]_vars PROVE BreakerInv'
<1>1. ASSUME NEW w \in Workers, Arrive(w) PROVE BreakerInv'
  <2>1. UNCHANGED <<controller, now, breakerVars>>
    BY <1>1 DEF Arrive, wiring
  <2>2. \E to \in {"route", "breaker"} : Goto(w, "idle", to)
    BY <1>1 DEF Arrive
  <2> QED BY <2>1, <2>2, BreakerUntouched
<1>2. ASSUME NEW w \in Workers, Serve(w) PROVE BreakerInv'
  BY <1>1, <1>2, LimitStep, BreakStep, PanicStep, HandlerStep DEF Serve
<1>3. CASE AnswerExpires \/ UNCHANGED vars
  BY <1>3 DEF AnswerExpires, vars, wiring, breakerVars, BreakerInv, BreakerType, NoProbeOutside, ProbeAlone
<1>4. CASE Tick
  <2>1. now' \in Nat
    BY <1>4 DEF Tick, BreakerInv, BreakerType
  <2> QED BY <1>4, <2>1 DEF Tick, wiring, breakerVars, BreakerInv, BreakerType, NoProbeOutside, ProbeAlone
<1> QED BY <1>2, <1>3, <1>4 DEF Next

(* A half-open breaker has let one request through since it opened, and    *)
(* waits for that one, however late the results of older requests come in. *)
THEOREM ProbeIsAlone == ASSUME GuardAssumption PROVE Spec => []ProbeAlone
<1>1. Init => BreakerInv
  BY BreakerInit
<1>2. BreakerInv /\ [Next]_vars => BreakerInv'
  BY BreakerStep
<1>3. BreakerInv => ProbeAlone
  BY DEF BreakerInv
<1> QED BY <1>1, <1>2, <1>3, PTL DEF Spec

-----------------------------------------------------------------------------
(* Type correctness.  The bucket's domain is added to TypeOK, which speaks *)
(* of its values only.                                                     *)
BucketType(b, k) == b.tokens \in 0 .. Full(k) /\ b.last \in Nat

BucketsKept ==
  /\ bucket \in [Buckets -> [tokens : Nat, last : Nat]]
  /\ \A k \in Buckets : BucketType(bucket[k], k)

WorkersTyped == at \in [Workers -> Steps] /\ held \in [Workers -> Nat]

LimitsTyped ==
  /\ BucketsKept
  /\ window \in [Limited -> [Readings -> Nat]]
  /\ admitted \in [Buckets -> [Readings -> Nat]]
  /\ backs \in Nat

SafeBreakers ==
  [state : {"closed", "open", "halfOpen"}, failures : 0 .. Threshold - 1,
   openedAt : Ticks, busy : BOOLEAN]

BreakerTyped == breaker \in SafeBreakers /\ sinceOpen \subseteq Workers /\ panicked \in BOOLEAN

ChecksTyped == answer \in 0 .. issued /\ issued \in 0 .. MaxChallenges

CountsTyped ==
  wiring \in Deployments /\ now \in Ticks /\ served \in 0 .. MaxRequests /\ faults \in 0 .. MaxFaults

Typed == WorkersTyped /\ LimitsTyped /\ BreakerTyped /\ ChecksTyped /\ CountsTyped

(* A limit is a number, and so is a full bucket.                           *)
LEMMA FullIsNat == ASSUME GuardAssumption, NEW k \in Buckets PROVE LimitOf[k] \in Nat /\ Full(k) \in Nat
<1>1. LimitOf[k] \in Nat /\ Interval \in Nat
  BY DEF GuardAssumption
<1>2. \A m, n \in Nat : m * n \in Nat
  OBVIOUS
<1> QED BY <1>1, <1>2 DEF Full

(* A refilled bucket holds no more than its limit and owes nothing.        *)
LEMMA RefillBounds ==
  ASSUME GuardAssumption, NEW n \in Nat, NEW t \in Nat,
         NEW b \in [tokens : Nat, last : Nat]
  PROVE  Refilled(b, n, t) \in 0 .. n * Interval
<1> DEFINE gap == IF t > b.last THEN t - b.last ELSE 0
<1>1. \A i, j \in Nat : i * j \in Nat
  OBVIOUS
<1>2. gap \in Nat /\ Interval \in Nat /\ b.tokens \in Nat
  BY DEF GuardAssumption
<1>3. gap * n \in Nat /\ n * Interval \in Nat
  BY <1>1, <1>2
<1>4. Refilled(b, n, t) = IF b.tokens + gap * n > n * Interval THEN n * Interval ELSE b.tokens + gap * n
  BY DEF Refilled
<1> HIDE DEF gap
<1> QED BY <1>2, <1>3, <1>4

(* Taking a token from a refilled bucket, when it holds one, keeps it a    *)
(* bucket: both stores write such a record.                                *)
LEMMA BucketTaken ==
  ASSUME GuardAssumption, BucketsKept, NEW k \in Buckets, NEW t \in Nat, NEW n, n = LimitOf[k],
         bucket' = [bucket EXCEPT ![k] =
           [tokens |-> IF Refilled(bucket[k], n, t) >= Interval
                       THEN Refilled(bucket[k], n, t) - Interval ELSE Refilled(bucket[k], n, t),
            last |-> t]]
  PROVE  BucketsKept'
<1> DEFINE full == Refilled(bucket[k], n, t)
           left == IF full >= Interval THEN full - Interval ELSE full
<1>1. full \in 0 .. n * Interval
  BY FullIsNat, RefillBounds DEF BucketsKept
<1>2. n * Interval = Full(k) /\ Full(k) \in Nat /\ Interval \in Nat
  BY FullIsNat DEF Full, GuardAssumption
<1>3. left \in 0 .. Full(k)
  <2> HIDE DEF full
  <2> QED BY <1>1, <1>2
<1>4. bucket' = [bucket EXCEPT ![k] = [tokens |-> left, last |-> t]]
  OBVIOUS
<1> HIDE DEF left
<1>5. left \in Nat
  BY <1>2, <1>3
<1>6. BucketType([tokens |-> left, last |-> t], k)
  BY <1>3 DEF BucketType
<1>7. bucket' \in [Buckets -> [tokens : Nat, last : Nat]]
  BY <1>4, <1>5 DEF BucketsKept
<1>8. ASSUME NEW j \in Buckets PROVE BucketType(bucket'[j], j)
  BY <1>4, <1>6 DEF BucketsKept
<1> QED BY <1>7, <1>8 DEF BucketsKept, BucketType


LEMMA TypedInit == ASSUME GuardAssumption, Init PROVE Typed
<1>1. WorkersTyped
  BY DEF Init, WorkersTyped
<1>2. ASSUME NEW k \in Buckets PROVE Full(k) \in Nat
  BY FullIsNat
<1>3. BucketsKept
  <2>1. bucket = [k \in Buckets |-> [tokens |-> Full(k), last |-> 0]]
    BY DEF Init
  <2> QED BY <1>2, <2>1 DEF BucketsKept, BucketType
<1>4. LimitsTyped
  BY <1>3 DEF Init, LimitsTyped
<1>5. BreakerTyped
  <2>1. 0 \in 0 .. Threshold - 1 /\ 0 \in Ticks
    BY DEF GuardAssumption, Ticks
  <2> QED BY <2>1 DEF Init, BreakerTyped, SafeBreakers
<1>6. ChecksTyped
  BY DEF Init, ChecksTyped, GuardAssumption
<1>7. CountsTyped
  <2>1. wiring \in Deployments
    <3>1. PICK d \in Deployments : limiter = d[1] /\ controller = d[2] /\ serving = d[3]
      BY DEF Init
    <3>2. d = <<d[1], d[2], d[3]>>
      BY DEF GuardAssumption
    <3> QED BY <3>1, <3>2 DEF wiring
  <2> QED BY <2>1 DEF Init, CountsTyped, GuardAssumption, Ticks
<1> QED BY <1>1, <1>4, <1>5, <1>6, <1>7 DEF Typed

(* One more fault, or none, is within the bound.                           *)
LEMMA FaultsTyped ==
  ASSUME GuardAssumption, CountsTyped, NoFault \/ \E kind \in FaultKinds : Fault(kind)
  PROVE  faults' \in 0 .. MaxFaults
BY DEF GuardAssumption, CountsTyped, NoFault, Fault

(* A worker that moves to another step.                                    *)
LEMMA MoveTyped ==
  ASSUME WorkersTyped, NEW w \in Workers, NEW from, NEW to \in Steps, Goto(w, from, to)
  PROVE  at' \in [Workers -> Steps]
BY DEF WorkersTyped

(* A request let through is counted under the clock's reading.             *)
LEMMA AdmitTyped ==
  ASSUME LimitsTyped, NEW k \in Buckets, NEW t \in Readings, Admit(k, t)
  PROVE  admitted' \in [Buckets -> [Readings -> Nat]]
<1>1. admitted[k] \in [Readings -> Nat]
  BY DEF LimitsTyped
<1>2. [admitted[k] EXCEPT ![t] = @ + 1] \in [Readings -> Nat]
  BY <1>1
<1>3. admitted' = [admitted EXCEPT ![k] = [admitted[k] EXCEPT ![t] = admitted[k][t] + 1]]
  BY DEF Admit
<1> QED BY <1>2, <1>3 DEF LimitsTyped

(* A result leaves fewer failures than the threshold.                      *)
LEMMA JudgedTyped ==
  ASSUME GuardAssumption, NEW b \in SafeBreakers, NEW failed \in BOOLEAN, NEW t \in Ticks
  PROVE  Judged(b, failed, t) \in SafeBreakers
<1>0. 0 \in 0 .. Threshold - 1 /\ Threshold \in Nat
  BY DEF GuardAssumption
<1>1. Opened(b, t) \in SafeBreakers
  BY <1>0 DEF Opened, SafeBreakers
<1>2. Closed(b) \in SafeBreakers
  BY <1>0 DEF Closed, SafeBreakers
<1>3. ~(b.failures + 1 >= Threshold) => [b EXCEPT !.failures = @ + 1] \in SafeBreakers
  BY <1>0 DEF SafeBreakers
<1> QED BY <1>1, <1>2, <1>3, Zenon DEF Judged


(* The limiter's steps.                                                    *)
LEMMA LimitTyped == ASSUME GuardAssumption, Typed, NEW w \in Workers, Limit(w) PROVE Typed'
<1> PICK k \in Limited : NoRule(w, k) \/ AllowFresh(w, k) \/ AllowLocal(w, k) \/ CountWindow(w, k)
                         \/ AddToWindow(w, k) \/ WindowFails(w, k)
  BY DEF Limit
<1> USE DEF AfterLimit, AddStep
<1>0. /\ k \in Buckets /\ now \in Ticks /\ now \in Readings /\ now \in Nat
      /\ \A skew \in Skews : now + skew \in Nat
  BY DEF Buckets, Typed, CountsTyped, Ticks, Readings, Skews, GuardAssumption
<1>1. UNCHANGED <<wiring, now, breakerVars, checkVars, served>>
  BY Zenon DEF NoRule, AllowFresh, AllowLocal, CountWindow, AddToWindow, WindowFails
<1>2. NoFault \/ Fault("lost") \/ Fault("error")
  BY Zenon DEF NoRule, AllowFresh, AllowLocal, CountWindow, AddToWindow, WindowFails
<1>3. BreakerTyped' /\ ChecksTyped'
  BY <1>1 DEF Typed, BreakerTyped, ChecksTyped, breakerVars, checkVars
<1>4. CountsTyped'
  <2>1. faults' \in 0 .. MaxFaults
    BY <1>2, FaultsTyped DEF Typed, FaultKinds
  <2> QED BY <1>1, <2>1 DEF Typed, CountsTyped, wiring
<1>5. WorkersTyped'
  <2>1. \E from, to \in Steps : Goto(w, from, to)
    <3>1. CASE NoRule(w, k) \/ AllowFresh(w, k)
      BY <3>1 DEF NoRule, AllowFresh
    <3>2. CASE AllowLocal(w, k)
      BY <3>2, Zenon DEF AllowLocal
    <3>3. CASE CountWindow(w, k)
      BY <3>3, Zenon DEF CountWindow
    <3>4. CASE AddToWindow(w, k) \/ WindowFails(w, k)
      BY <3>4 DEF AddToWindow, WindowFails
    <3> QED BY <3>1, <3>2, <3>3, <3>4
  <2>2. at' \in [Workers -> Steps]
    BY <2>1, MoveTyped DEF Typed
  <2>3. held' = held \/ (\E skew \in Skews : held' = [held EXCEPT ![w] = now + skew])
        \/ held' = [held EXCEPT ![w] = 0]
    BY Zenon DEF NoRule, AllowFresh, AllowLocal, CountWindow, AddToWindow, WindowFails
  <2> QED BY <1>0, <2>2, <2>3 DEF Typed, WorkersTyped
<1>6. LimitsTyped'
  <2>1. UNCHANGED admitted \/ Admit(k, now)
    BY Zenon DEF NoRule, AllowFresh, AllowLocal, CountWindow, AddToWindow, WindowFails, limitVars
  <2>2. admitted' \in [Buckets -> [Readings -> Nat]]
    BY <1>0, <2>1, AdmitTyped DEF Typed, LimitsTyped
  <2>3. backs' \in Nat
    BY DEF NoRule, AllowFresh, AllowLocal, CountWindow, AddToWindow, WindowFails, limitVars, Typed, LimitsTyped
  <2>4. BucketsKept'
    <3>1. CASE AllowLocal(w, k)
      BY <1>0, <3>1, BucketTaken DEF AllowLocal, Typed, LimitsTyped
    <3>2. CASE ~AllowLocal(w, k)
      <4>1. UNCHANGED bucket
        BY <3>2 DEF NoRule, AllowFresh, CountWindow, AddToWindow, WindowFails, limitVars
      <4> QED BY <4>1 DEF Typed, LimitsTyped, BucketsKept, BucketType
    <3> QED BY <3>1, <3>2
  <2>5. window' \in [Limited -> [Readings -> Nat]]
    <3>1. window[k] \in [Readings -> Nat] /\ window \in [Limited -> [Readings -> Nat]]
      BY DEF Typed, LimitsTyped
    <3>2. ASSUME NEW t, window' = Trimmed(k, t) PROVE window' \in [Limited -> [Readings -> Nat]]
      <4>1. [s \in Readings |-> IF s > t - Interval THEN window[k][s] ELSE 0] \in [Readings -> Nat]
        BY <3>1
      <4> QED BY <3>1, <3>2, <4>1 DEF Trimmed
    <3>3. CASE AddToWindow(w, k)
      <4>1. window' = [window EXCEPT ![k] = [window[k] EXCEPT ![held[w]] = window[k][held[w]] + 1]]
        BY <3>3 DEF AddToWindow
      <4>2. [window[k] EXCEPT ![held[w]] = window[k][held[w]] + 1] \in [Readings -> Nat]
        <5>1. CASE held[w] \in Readings
          BY <3>1, <5>1
        <5>2. CASE held[w] \notin Readings
          BY <3>1, <5>2
        <5> QED BY <5>1, <5>2
      <4> QED BY <3>1, <4>1, <4>2
    <3>4. CASE ~AddToWindow(w, k)
      <4>1. UNCHANGED window \/ \E t : window' = Trimmed(k, t)
        BY <3>4, Zenon DEF NoRule, AllowFresh, AllowLocal, CountWindow, WindowFails, limitVars
      <4> QED BY <3>1, <3>2, <4>1
    <3> QED BY <3>3, <3>4
  <2> QED BY <2>2, <2>3, <2>4, <2>5 DEF LimitsTyped
<1> QED BY <1>3, <1>4, <1>5, <1>6 DEF Typed

(* The breaker's steps.                                                    *)
LEMMA BreakTyped == ASSUME GuardAssumption, Typed, NEW w \in Workers, Break(w) PROVE Typed'
<1>1. UNCHANGED <<wiring, now, held, limitVars, checkVars, served, faults>>
  BY DEF Break, BreakerUnshared, BreakerPasses, BreakerProbes, BreakerRefuses, Observe, NoFault
<1>2. LimitsTyped' /\ ChecksTyped' /\ CountsTyped'
  BY <1>1 DEF Typed, LimitsTyped, BucketsKept, BucketType, ChecksTyped, CountsTyped, limitVars, checkVars, wiring
<1>3. WorkersTyped'
  <2>1. \E from, to \in Steps : Goto(w, from, to)
    <3>1. CASE BreakerUnshared(w) \/ BreakerPasses(w) \/ BreakerProbes(w) \/ BreakerRefuses(w)
      BY <3>1 DEF BreakerUnshared, BreakerPasses, BreakerProbes, BreakerRefuses
    <3>2. CASE Observe(w)
      BY <3>2 DEF Observe
    <3> QED BY <3>1, <3>2 DEF Break
  <2>2. at' \in [Workers -> Steps]
    BY <2>1, MoveTyped DEF Typed
  <2> QED BY <1>1, <2>2 DEF Typed, WorkersTyped
<1>4. BreakerTyped'
  <2>1. CASE BreakerUnshared(w) \/ BreakerPasses(w) \/ BreakerRefuses(w)
    BY <2>1 DEF BreakerUnshared, BreakerPasses, BreakerRefuses, breakerVars, Typed, BreakerTyped
  <2>2. CASE BreakerProbes(w)
    <3>1. breaker' \in SafeBreakers
      BY <2>2 DEF BreakerProbes, Typed, BreakerTyped, SafeBreakers
    <3> QED BY <2>2, <3>1 DEF BreakerProbes, Typed, BreakerTyped
  <2>3. CASE Observe(w)
    <3>1. PICK failed \in BOOLEAN :
            breaker' = IF controller = "shared" THEN Judged(breaker, failed, now) ELSE breaker
      BY <2>3 DEF Observe
    <3>2. breaker' \in SafeBreakers
      BY <3>1, JudgedTyped DEF Typed, BreakerTyped, CountsTyped
    <3>3. sinceOpen' \subseteq Workers /\ panicked' \in BOOLEAN
      BY <2>3 DEF Observe, Typed, BreakerTyped
    <3> QED BY <3>2, <3>3 DEF BreakerTyped
  <2> QED BY <2>1, <2>2, <2>3 DEF Break
<1> QED BY <1>2, <1>3, <1>4 DEF Typed


(* The other steps of a request move its worker, and touch the buckets     *)
(* only through the script in Redis.                                       *)
LEMMA HandlerTyped ==
  ASSUME GuardAssumption, Typed, NEW w \in Workers,
         Arrive(w) \/ Handle(w) \/ Panic(w) \/ Challenge(w) \/ PartIn(w)
  PROVE  Typed'
<1> USE DEF PartIn
<1>0. "entry" \in Buckets /\ now \in Ticks /\ Ticks \subseteq Nat /\ LimitOf["entry"] = EntryRate
  BY DEF Buckets, LimitOf, Typed, CountsTyped, Ticks
<1>1. UNCHANGED <<wiring, now, window, breaker>>
  BY DEF Arrive, Handle, Panic, Challenge, CheckAnswer, ConsumeAnswer, ConsumeFails, SkipCheck,
         TryAcquire, TryAcquireFails, limitVars, breakerVars
<1>2. BreakerTyped'
  <2>1. sinceOpen' = sinceOpen /\ panicked' \in BOOLEAN
    BY DEF Arrive, Handle, Panic, Challenge, CheckAnswer, ConsumeAnswer, ConsumeFails, SkipCheck,
           TryAcquire, TryAcquireFails, breakerVars, Typed, BreakerTyped
  <2> QED BY <1>1, <2>1 DEF Typed, BreakerTyped
<1>3. CountsTyped'
  <2>1. NoFault \/ Fault("panic") \/ Fault("lost") \/ Fault("error")
    BY DEF Arrive, Handle, Panic, Challenge, CheckAnswer, ConsumeAnswer, ConsumeFails, SkipCheck,
           TryAcquire, TryAcquireFails
  <2>2. faults' \in 0 .. MaxFaults
    BY <2>1, FaultsTyped DEF Typed, FaultKinds
  <2>3. served' \in 0 .. MaxRequests
    BY DEF Arrive, Handle, Panic, Challenge, CheckAnswer, ConsumeAnswer, ConsumeFails, SkipCheck,
           TryAcquire, TryAcquireFails, Typed, CountsTyped, GuardAssumption
  <2> QED BY <1>1, <2>2, <2>3 DEF Typed, CountsTyped, wiring
<1>4. ChecksTyped'
  BY DEF Arrive, Handle, Panic, Challenge, CheckAnswer, ConsumeAnswer, ConsumeFails, SkipCheck,
         TryAcquire, TryAcquireFails, checkVars, Typed, ChecksTyped, GuardAssumption
<1>5. WorkersTyped'
  <2>1. \E from, to \in Steps : Goto(w, from, to)
    <3>1. CASE Arrive(w) \/ Handle(w) \/ Panic(w)
      BY <3>1 DEF Arrive, Handle, Panic
    <3>2. CASE Challenge(w)
      BY <3>2 DEF Challenge
    <3>3. CASE CheckAnswer(w)
      BY <3>3 DEF CheckAnswer
    <3>4. CASE ConsumeAnswer(w) \/ ConsumeFails(w) \/ SkipCheck(w)
      BY <3>4 DEF ConsumeAnswer, ConsumeFails, SkipCheck
    <3>5. CASE TryAcquire(w) \/ TryAcquireFails(w)
      BY <3>5 DEF TryAcquire, TryAcquireFails
    <3> QED BY <3>1, <3>2, <3>3, <3>4, <3>5
  <2>2. at' \in [Workers -> Steps]
    BY <2>1, MoveTyped DEF Typed
  <2>3. held' = held \/ \E n \in Nat : held' = [held EXCEPT ![w] = n]
    <3>1. CASE CheckAnswer(w)
      <4>1. PICK n \in 1 .. issued : held' = [held EXCEPT ![w] = IF answer = n THEN n ELSE 0]
        BY <3>1 DEF CheckAnswer
      <4>2. (IF answer = n THEN n ELSE 0) \in Nat
        BY DEF Typed, ChecksTyped
      <4> QED BY <4>1, <4>2
    <3>2. CASE ~CheckAnswer(w)
      BY <3>2 DEF Arrive, Handle, Panic, Challenge, ConsumeAnswer, ConsumeFails, SkipCheck,
                  TryAcquire, TryAcquireFails
    <3> QED BY <3>1, <3>2
  <2> QED BY <2>2, <2>3 DEF Typed, WorkersTyped
<1>6. LimitsTyped'
  <2>1. UNCHANGED <<bucket, backs>> \/
        \E skew \in Skews :
          /\ bucket' = [bucket EXCEPT !["entry"] =
               [tokens |-> IF Refilled(bucket["entry"], EntryRate, now + skew) >= Interval
                           THEN Refilled(bucket["entry"], EntryRate, now + skew) - Interval
                           ELSE Refilled(bucket["entry"], EntryRate, now + skew),
                last |-> now + skew]]
          /\ backs' \in {backs, backs + 1}
    <3>1. CASE TryAcquire(w)
      BY <3>1, Zenon DEF TryAcquire, ChargeUser
    <3>2. CASE TryAcquireFails(w)
      BY <3>2, Zenon DEF TryAcquireFails
    <3>3. CASE ~TryAcquire(w) /\ ~TryAcquireFails(w)
      BY <3>3 DEF Arrive, Handle, Panic, Challenge, CheckAnswer, ConsumeAnswer, ConsumeFails,
                  SkipCheck, limitVars
    <3> QED BY <3>1, <3>2, <3>3
  <2>2. BucketsKept' /\ backs' \in Nat
    <3>1. CASE UNCHANGED <<bucket, backs>>
      BY <3>1 DEF Typed, LimitsTyped, BucketsKept, BucketType
    <3>2. ASSUME NEW skew \in Skews,
                 bucket' = [bucket EXCEPT !["entry"] =
                   [tokens |-> IF Refilled(bucket["entry"], EntryRate, now + skew) >= Interval
                               THEN Refilled(bucket["entry"], EntryRate, now + skew) - Interval
                               ELSE Refilled(bucket["entry"], EntryRate, now + skew),
                    last |-> now + skew]],
                 backs' \in {backs, backs + 1}
          PROVE  BucketsKept' /\ backs' \in Nat
      <4>1. now + skew \in Nat
        BY <1>0 DEF GuardAssumption, Skews
      <4>2. BucketsKept'
        BY <1>0, <3>2, <4>1, BucketTaken DEF Typed, LimitsTyped
      <4> QED BY <3>2, <4>2 DEF Typed, LimitsTyped
    <3> QED BY <2>1, <3>1, <3>2
  <2>3. UNCHANGED admitted \/ Admit("entry", now)
    <3>1. CASE TryAcquire(w)
      BY <3>1, Zenon DEF TryAcquire, ChargeUser
    <3>2. CASE TryAcquireFails(w)
      BY <3>2, Zenon DEF TryAcquireFails
    <3>3. CASE ~TryAcquire(w) /\ ~TryAcquireFails(w)
      BY <3>3 DEF Arrive, Handle, Panic, Challenge, CheckAnswer, ConsumeAnswer, ConsumeFails,
                  SkipCheck, limitVars
    <3> QED BY <3>1, <3>2, <3>3
  <2>4. admitted' \in [Buckets -> [Readings -> Nat]]
    <3>1. now \in Readings
      BY <1>0 DEF Ticks, Readings, GuardAssumption
    <3> QED BY <1>0, <2>3, <3>1, AdmitTyped DEF Typed, LimitsTyped
  <2> QED BY <1>1, <2>2, <2>4 DEF Typed, LimitsTyped
<1> QED BY <1>2, <1>3, <1>4, <1>5, <1>6 DEF Typed

LEMMA TypedStep == ASSUME GuardAssumption, Typed, [Next]_vars PROVE Typed'
<1> USE DEF Typed, WorkersTyped, LimitsTyped, BucketsKept, BucketType, BreakerTyped, ChecksTyped,
            CountsTyped, wiring, limitVars, breakerVars, checkVars
<1>1. ASSUME NEW w \in Workers, Serve(w) PROVE Typed'
  BY <1>1, LimitTyped, BreakTyped, HandlerTyped DEF Serve
<1>2. CASE AnswerExpires
  <2>1. faults' \in 0 .. MaxFaults
    BY <1>2, FaultsTyped DEF AnswerExpires, FaultKinds
  <2> QED BY <1>2, <2>1 DEF AnswerExpires
<1>3. CASE Tick
  <2>1. now' \in Ticks
    BY <1>3 DEF Tick, Ticks, GuardAssumption
  <2> QED BY <1>3, <2>1 DEF Tick
<1>4. CASE UNCHANGED vars
  BY <1>4 DEF vars
<1> QED BY <1>1, <1>2, <1>3, <1>4 DEF Next

(* Every variable keeps its kind: no interleaving of requests, clock skews *)
(* and faults overdraws a bucket or overfills it, and a closed breaker     *)
(* never has as many failures as its threshold.                            *)
THEOREM TypeCorrect == ASSUME GuardAssumption PROVE Spec => []TypeOK
<1>1. Init => Typed
  BY TypedInit
<1>2. Typed /\ [Next]_vars => Typed'
  BY TypedStep
<1>3. Typed => TypeOK
  BY DEF Typed, WorkersTyped, LimitsTyped, BucketsKept, BucketType, BreakerTyped, SafeBreakers,
         ChecksTyped, CountsTyped, TypeOK
<1> QED BY <1>1, <1>2, <1>3, PTL DEF Spec

-----------------------------------------------------------------------------
(* The rate limits.                                                        *)
Span(t) == t .. t + Interval - 1

(* Of a bucket b of limit n, from tick t on: the requests it let through   *)
(* and the tokens it holds came out of a full bucket and what flowed in    *)
(* since.  Each of the again steps back of its clock let up to d ticks     *)
(* flow in twice, and free requests paid nothing.                          *)
Paid(count, b, t, n, d, again, free) ==
  /\ b.last < t => count <= free
  /\ b.last >= t =>
       count * Interval + b.tokens
         <= n * Interval + n * (b.last - t) + n * (d * again) + free * Interval
  /\ count * Interval <= n * (2 * Interval - 1 + d * (1 + again)) + free * Interval

LocalPaid(k) ==
  limiter = "local" /\ LimitOf[k] > 0 =>
    /\ bucket[k].last <= now
    /\ \A t \in Ticks : Paid(Within(k, t), bucket[k], t, LimitOf[k], 0, 0, 0)

(* Nothing is admitted ahead of the clock, and the bucket in Redis is at   *)
(* most the gateways' skew ahead of it.                                    *)
EntryPaid ==
  /\ bucket["entry"].last <= now + MaxSkew
  /\ \A s \in Readings : s > now => admitted["entry"][s] = 0
  /\ \A t \in Ticks :
       Paid(Within("entry", t), bucket["entry"], t, EntryRate, MaxSkew, backs, faults)

(* Requests that gateways counted between tick t and the end of the ticks  *)
(* all their windows share carry readings in Span(t), for the fastest      *)
(* clock is MaxSkew ahead.  These were counted and are not added yet.      *)
Pending(k, t) == {w \in Workers : at[w] = AddStep(k) /\ held[w] \in Span(t)}

(* Every request let through since tick t was added to the window, is      *)
(* about to be, or owes its admission to a fault, as long as no gateway    *)
(* can have dropped an entry of that tick.                                 *)
WindowKept(k) ==
  limiter = "redis" /\ LimitOf[k] > 0 =>
    \A t \in Ticks :
      /\ now < t + Interval - MaxSkew =>
           WithinAll(k, t) <= Cardinality(Members(window[k], Span(t)))
                                + Cardinality(Pending(k, t)) + faults
      /\ WithinAll(k, t) <= LimitOf[k] + Cardinality(Workers) - 1 + faults

ReadingsHeld == \A w \in Workers : at[w] \in {"routeAdd", "userAdd"} => held[w] \in Readings

RateInv ==
  /\ Typed
  /\ ReadingsHeld
  /\ EntryPaid
  /\ \A k \in Limited : LocalPaid(k) /\ WindowKept(k)

(* Members of a sorted set: there are finitely many, one call adds one, and *)
(* a narrower span holds no more of them.                                   *)
LEMMA MembersFinite ==
  ASSUME GuardAssumption, NEW f \in [Readings -> Nat], NEW span
  PROVE  IsFiniteSet(Members(f, span)) /\ Cardinality(Members(f, span)) \in Nat
<1> DEFINE S == Readings \cap span
           T == {{s} \X (1 .. f[s]) : s \in S}
           g == [s \in S |-> {s} \X (1 .. f[s])]
<1>1. IsFiniteSet(S)
  <2>1. IsFiniteSet(Readings)
    BY FS_Interval DEF Readings, GuardAssumption
  <2> QED BY <2>1, FS_Intersection
<1>2. IsFiniteSet(T)
  <2>1. g \in Surjection(S, T)
    BY DEF Surjection
  <2> HIDE DEF S, T, g
  <2> QED BY <1>1, <2>1, FS_Surjection
<1>3. ASSUME NEW U \in T PROVE IsFiniteSet(U)
  <2>1. PICK s \in S : U = {s} \X (1 .. f[s])
    OBVIOUS
  <2>2. IsFiniteSet({s})
    BY FS_Singleton
  <2>3. IsFiniteSet(1 .. f[s])
    BY FS_Interval
  <2> QED BY <2>1, <2>2, <2>3, FS_Product
<1>4. Members(f, span) = UNION T
  BY DEF Members
<1>5. IsFiniteSet(UNION T)
  <2> HIDE DEF T
  <2> QED BY <1>2, <1>3, FS_UNION
<1> QED BY <1>4, <1>5, FS_CardinalityType

LEMMA MembersAdd ==
  ASSUME GuardAssumption, NEW f \in [Readings -> Nat], NEW s \in Readings, NEW span
  PROVE  Cardinality(Members([f EXCEPT ![s] = f[s] + 1], span))
           = Cardinality(Members(f, span)) + (IF s \in span THEN 1 ELSE 0)
<1> DEFINE g == [f EXCEPT ![s] = f[s] + 1]
           new == <<s, f[s] + 1>>
<1>1. \A r \in Readings : g[r] = IF r = s THEN f[s] + 1 ELSE f[r]
  OBVIOUS
<1>2. 1 .. f[s] + 1 = (1 .. f[s]) \cup {f[s] + 1}
  OBVIOUS
<1>3. CASE s \in span
  <2>1. Members(g, span) = Members(f, span) \cup {new}
    <3>1. ASSUME NEW r \in Readings, r # s PROVE {r} \X (1 .. g[r]) = {r} \X (1 .. f[r])
      BY <1>1, <3>1
    <3>2. {s} \X (1 .. g[s]) = ({s} \X (1 .. f[s])) \cup {new}
      <4>1. {s} \X ((1 .. f[s]) \cup {f[s] + 1}) = ({s} \X (1 .. f[s])) \cup {<<s, f[s] + 1>>}
        OBVIOUS
      <4> QED BY <1>1, <1>2, <4>1
    <3> HIDE DEF g, new
    <3> QED BY <1>3, <3>1, <3>2 DEF Members
  <2>2. new \notin Members(f, span)
    <3> SUFFICES ASSUME new \in Members(f, span) PROVE FALSE
      OBVIOUS
    <3>1. PICK r \in Readings : new \in {r} \X (1 .. f[r])
      BY DEF Members
    <3>2. r = s /\ f[s] + 1 \in 1 .. f[r]
      BY <3>1
    <3> QED BY <3>2
  <2> HIDE DEF g, new
  <2>3. Cardinality(Members(f, span) \cup {new}) = Cardinality(Members(f, span)) + 1
    BY <2>2, MembersFinite, FS_AddElement
  <2> QED BY <1>3, <2>1, <2>3 DEF g
<1>4. CASE s \notin span
  <2>1. \A r \in Readings \cap span : g[r] = f[r]
    BY <1>1, <1>4
  <2>2. Members(g, span) = Members(f, span)
    <3> HIDE DEF g
    <3> QED BY <2>1 DEF Members
  <2> QED BY <1>4, <2>2, MembersFinite
<1> QED BY <1>3, <1>4

LEMMA MembersNarrower ==
  ASSUME GuardAssumption, NEW f \in [Readings -> Nat], NEW span, NEW wider,
         Readings \cap span \subseteq wider
  PROVE  Cardinality(Members(f, span)) <= Cardinality(Members(f, wider))
<1>1. Members(f, span) \subseteq Members(f, wider)
  BY DEF Members
<1> QED BY <1>1, MembersFinite, FS_Subset

LEMMA MembersSame ==
  ASSUME NEW f, NEW g, NEW span, \A s \in Readings \cap span : f[s] = g[s]
  PROVE  Members(f, span) = Members(g, span)
BY DEF Members

LEMMA Distribute == \A a, b, c \in Int : /\ a * (b + c) = a * b + a * c
                                       /\ a * (b - c) = a * b - a * c
                                       /\ a * b = b * a /\ a * b \in Int
OBVIOUS

LEMMA ProductGrows == \A n \in Nat : \A a, b \in Int : a <= b => n * a <= n * b
<1> SUFFICES ASSUME NEW n \in Nat, NEW a \in Int, NEW b \in Int, a <= b PROVE n * a <= n * b
  OBVIOUS
<1>1. n * (b - a) = n * b - n * a /\ n * a \in Int /\ n * b \in Int
  BY Distribute
<1>2. \A i, j \in Nat : i * j >= 0
  OBVIOUS
<1>3. n * (b - a) >= 0
  BY <1>2
<1> QED BY <1>1, <1>3

(* What a refill adds to a bucket.                                         *)
LEMMA RefillAdds ==
  ASSUME GuardAssumption, NEW n \in Nat, NEW r \in Nat, NEW b \in [tokens : Nat, last : Nat]
  PROVE  /\ Refilled(b, n, r) \in Nat
         /\ Refilled(b, n, r) <= n * Interval
         /\ r > b.last => Refilled(b, n, r) <= b.tokens + n * (r - b.last)
         /\ r <= b.last => Refilled(b, n, r) <= b.tokens
<1> DEFINE gap == IF r > b.last THEN r - b.last ELSE 0
<1>1. gap \in Nat /\ Interval \in Nat /\ b.tokens \in Nat /\ b.last \in Nat
  BY DEF GuardAssumption
<1>2. gap * n = n * gap /\ n * gap \in Nat /\ n * Interval \in Nat /\ n * 0 = 0
  <2>1. \A i, j \in Nat : i * j = j * i /\ i * j \in Nat /\ i * 0 = 0
    OBVIOUS
  <2> HIDE DEF gap
  <2> QED BY <1>1, <2>1
<1>3. Refilled(b, n, r) = IF b.tokens + gap * n > n * Interval THEN n * Interval ELSE b.tokens + gap * n
  BY DEF Refilled
<1>4. Refilled(b, n, r) \in Nat /\ Refilled(b, n, r) <= n * Interval
      /\ Refilled(b, n, r) <= b.tokens + n * gap
  <2> HIDE DEF gap
  <2> QED BY <1>1, <1>2, <1>3
<1>5. CASE r > b.last
  BY <1>1, <1>4, <1>5
<1>6. CASE r <= b.last
  BY <1>1, <1>2, <1>4, <1>6
<1> QED BY <1>1, <1>5, <1>6

(* The greatest number of units a bucket lets through in an Interval: what *)
(* it holds at first, and what flows in until the last admission.          *)
LEMMA CapSplits ==
  ASSUME GuardAssumption, NEW n \in Nat, NEW d \in Nat, NEW again \in Nat
  PROVE  /\ n * (2 * Interval - 1 + d * (1 + again))
              = n * Interval + n * (Interval - 1 + d) + n * (d * again)
         /\ n * Interval \in Nat /\ n * (Interval - 1 + d) \in Nat /\ n * (d * again) \in Nat
<1> DEFINE e == d * again
<1>1. Interval \in Nat /\ Interval >= 1
  BY DEF GuardAssumption
<1>2. \A i, j \in Nat : i * j \in Nat
  OBVIOUS
<1>3. d * (1 + again) = d + e /\ e \in Nat
  BY <1>2, Distribute
<1>4. 2 * Interval - 1 + d * (1 + again) = Interval + ((Interval - 1 + d) + e)
  <2> HIDE DEF e
  <2> QED BY <1>1, <1>3
<1> HIDE DEF e
<1>5. n * (Interval + ((Interval - 1 + d) + e)) = n * Interval + n * ((Interval - 1 + d) + e)
  BY <1>1, <1>3, Distribute
<1>6. n * ((Interval - 1 + d) + e) = n * (Interval - 1 + d) + n * e
  BY <1>1, <1>3, Distribute
<1>7. n * Interval \in Nat /\ n * (Interval - 1 + d) \in Nat /\ n * e \in Nat
  BY <1>1, <1>2, <1>3
<1> QED BY <1>4, <1>5, <1>6, <1>7 DEF e

(* A request that pays nothing is one of the free ones.                    *)
LEMMA PaidFree ==
  ASSUME GuardAssumption, NEW n \in Nat, NEW d \in Nat, NEW again \in Nat,
         NEW b \in [tokens : Nat, last : Nat], NEW t \in Nat,
         NEW count \in Nat, NEW count2 \in Nat, NEW free \in Nat, NEW free2 \in Nat,
         count2 - count <= free2 - free, free <= free2,
         Paid(count, b, t, n, d, again, free)
  PROVE  Paid(count2, b, t, n, d, again, free2)
<1>1. Interval \in Nat
  BY DEF GuardAssumption
<1>2. count2 * Interval - count * Interval <= free2 * Interval - free * Interval
  <2>1. Interval * (count2 - count) <= Interval * (free2 - free)
    BY <1>1, ProductGrows
  <2> QED BY <1>1, <2>1, Distribute
<1>3. n * Interval + n * (b.last - t) + n * (d * again) \in Int
      /\ n * (2 * Interval - 1 + d * (1 + again)) \in Int
  <2>1. b.last - t \in Int
    OBVIOUS
  <2>2. n * Interval \in Int /\ n * (d * again) \in Int /\ n * (2 * Interval - 1 + d * (1 + again)) \in Int
    BY CapSplits
  <2>3. n * (b.last - t) \in Int
    BY <2>1, Distribute
  <2> QED BY <2>2, <2>3
<1>4. /\ count * Interval \in Int /\ count2 * Interval \in Int
      /\ free * Interval \in Int /\ free2 * Interval \in Int
  BY <1>1, Distribute
<1>5. b.last < t => count2 <= free2
  BY DEF Paid
<1> DEFINE held0 == n * Interval + n * (b.last - t) + n * (d * again)
           cap == n * (2 * Interval - 1 + d * (1 + again))
<1>6. b.last >= t => count * Interval + b.tokens <= held0 + free * Interval
  BY DEF Paid
<1>7. count * Interval <= cap + free * Interval
  BY DEF Paid
<1>8. (b.last >= t => count2 * Interval + b.tokens <= held0 + free2 * Interval)
      /\ count2 * Interval <= cap + free2 * Interval
  <2>1. held0 \in Int /\ cap \in Int
    BY <1>3
  <2> HIDE DEF held0, cap
  <2> QED BY <1>2, <1>4, <1>6, <1>7, <2>1
<1> QED BY <1>5, <1>8 DEF Paid

(* A charge at clock reading r refills the bucket and takes a token for    *)
(* the request it lets through, or a fault hides it.                       *)
LEMMA PaidCharge ==
  ASSUME GuardAssumption, NEW n \in Nat, NEW d \in Nat, NEW again \in Nat,
         NEW b \in [tokens : Nat, last : Nat], NEW t \in Nat, NEW r \in Nat, now \in Nat,
         NEW count \in Nat, NEW count2 \in Nat, NEW free \in Nat, NEW free2 \in Nat,
         NEW left \in Nat, NEW again2 \in Nat,
         again2 = (IF r < b.last THEN again + 1 ELSE again),
         b.last <= now + d, now <= r, r <= now + d,
         now < t => count = 0,
         count <= count2, free <= free2,
         count2 > count => t <= now /\ now < t + Interval,
         (count2 - count) * Interval + left <= Refilled(b, n, r) + (free2 - free) * Interval,
         Paid(count, b, t, n, d, again, free)
  PROVE  Paid(count2, [tokens |-> left, last |-> r], t, n, d, again2, free2)
<1> DEFINE I == Interval
           full == n * I
           c == count * I
           c2 == count2 * I
           e == free * I
           e2 == free2 * I
           old == n * (d * again)
           old2 == n * (d * again2)
           tokens == Refilled(b, n, r)
           inflow == n * (I - 1 + d)
<1>1. I \in Nat /\ I >= 1
  BY DEF GuardAssumption
<1>2. /\ c \in Int /\ c2 \in Int /\ e \in Int /\ e2 \in Int
      /\ c2 - c + left <= tokens + (e2 - e) /\ e <= e2
  <2>1. (count2 - count) * I = c2 - c /\ (free2 - free) * I = e2 - e
    BY <1>1, Distribute
  <2>2. I * free <= I * free2
    BY <1>1, ProductGrows
  <2> QED BY <1>1, <2>1, <2>2, Distribute
<1>3. /\ n * (2 * I - 1 + d * (1 + again)) = full + inflow + old
      /\ n * (2 * I - 1 + d * (1 + again2)) = full + inflow + old2
      /\ full \in Nat /\ inflow \in Nat /\ old \in Nat /\ old2 \in Nat
  BY CapSplits
<1>4. old <= old2 /\ (r < b.last => old2 = old + n * d) /\ n * d \in Nat
  <2>1. \A i, j \in Nat : i * j \in Nat
    OBVIOUS
  <2>2. n * d \in Nat /\ d * again \in Nat /\ d * 1 = d
    BY <2>1
  <2>3. d * (again + 1) = d * again + d
    BY <2>2, Distribute
  <2>4. n * (d * again + d) = n * (d * again) + n * d
    BY <2>2, Distribute
  <2>5. CASE r < b.last
    BY <1>3, <2>2, <2>3, <2>4, <2>5
  <2>6. CASE ~(r < b.last)
    BY <1>3, <2>2, <2>6
  <2> QED BY <2>5, <2>6
<1>5. /\ tokens \in Nat /\ tokens <= full
      /\ r > b.last => tokens <= b.tokens + n * (r - b.last)
      /\ r <= b.last => tokens <= b.tokens
  BY RefillAdds
<1>6. /\ b.last < t => count <= free
      /\ b.last >= t => c + b.tokens <= full + n * (b.last - t) + old + e
      /\ c <= full + inflow + old + e
  BY <1>3 DEF Paid
<1>7. r >= t => c2 + left <= full + n * (r - t) + old2 + e2
  <2> SUFFICES ASSUME r >= t PROVE c2 + left <= full + n * (r - t) + old2 + e2
    OBVIOUS
  <2>1. n * (r - t) \in Nat
    BY ProductGrows, Distribute
  <2>2. CASE b.last < t
    <3>1. c <= e
      <4>1. I * count <= I * free
        BY <1>1, <1>6, <2>2, ProductGrows
      <4> QED BY <1>1, <4>1, Distribute
    <3> HIDE DEF full, c, c2, e, e2, old, old2, tokens, inflow
    <3> QED BY <1>2, <1>3, <1>4, <1>5, <2>1, <3>1
  <2>3. CASE b.last >= t /\ r > b.last
    <3>1. n * (r - t) = n * (r - b.last) + n * (b.last - t) /\ n * (r - b.last) \in Int /\ n * (b.last - t) \in Int
      <4>1. r - t = (r - b.last) + (b.last - t)
        OBVIOUS
      <4>2. r - b.last \in Int /\ b.last - t \in Int
        OBVIOUS
      <4> QED BY <4>1, <4>2, Distribute
    <3> HIDE DEF full, c, c2, e, e2, old, old2, tokens, inflow
    <3> QED BY <1>2, <1>3, <1>4, <1>5, <1>6, <2>1, <2>3, <3>1
  <2>4. CASE b.last >= t /\ r = b.last
    <3> HIDE DEF full, c, c2, e, e2, old, old2, tokens, inflow
    <3> QED BY <1>2, <1>3, <1>4, <1>5, <1>6, <2>1, <2>4
  <2>5. CASE b.last >= t /\ r < b.last
    <3>1. n * (b.last - t) <= n * (r - t) + n * d /\ n * (b.last - t) \in Int
      <4>1. b.last - t <= (r - t) + d /\ b.last - t \in Int /\ r - t \in Int
        OBVIOUS
      <4>2. n * (b.last - t) <= n * ((r - t) + d)
        BY <4>1, ProductGrows
      <4> QED BY <4>1, <4>2, Distribute
    <3> HIDE DEF full, c, c2, e, e2, old, old2, tokens, inflow
    <3> QED BY <1>2, <1>3, <1>4, <1>5, <1>6, <2>1, <2>5, <3>1
  <2> QED BY <2>2, <2>3, <2>4, <2>5
<1>8. c2 <= full + inflow + old2 + e2
  <2>1. CASE count2 = count
    <3>1. c2 = c
      BY <2>1
    <3> HIDE DEF full, c, c2, e, e2, old, old2, tokens, inflow
    <3> QED BY <1>2, <1>3, <1>4, <1>6, <3>1
  <2>2. CASE count2 # count
    <3>1. t <= now /\ now < t + Interval
      BY <2>2
    <3>2. r >= t /\ r - t <= I - 1 + d
      BY <1>1, <3>1
    <3>3. n * (r - t) <= inflow /\ n * (r - t) \in Int
      BY <1>1, <3>2, ProductGrows, Distribute
    <3> HIDE DEF full, c, c2, e, e2, old, old2, tokens, inflow
    <3> QED BY <1>2, <1>3, <1>7, <3>2, <3>3
  <2> QED BY <2>1, <2>2
<1>9. r < t => count2 <= free2
  OBVIOUS
<1> QED BY <1>3, <1>7, <1>8, <1>9 DEF Paid

(* What the counts and the clock are, in a typed state.                    *)
LEMMA RateTypes ==
  ASSUME GuardAssumption, Typed
  PROVE  /\ now \in Ticks /\ Ticks \subseteq Nat /\ faults \in Nat /\ backs \in Nat
         /\ now \in Readings /\ Ticks \subseteq Readings /\ Readings \subseteq Nat
         /\ \A skew \in Skews : now + skew \in Readings
         /\ Limited \subseteq Buckets /\ "entry" \in Buckets /\ LimitOf["entry"] = EntryRate
         /\ \A k \in Buckets : /\ bucket[k] \in [tokens : Nat, last : Nat]
                               /\ LimitOf[k] \in Nat
                               /\ admitted[k] \in [Readings -> Nat]
                               /\ \A t \in Ticks : Within(k, t) \in Nat /\ WithinAll(k, t) \in Nat
         /\ \A k \in Limited : window[k] \in [Readings -> Nat]
<1>1. /\ now \in Ticks /\ Ticks \subseteq Nat /\ faults \in Nat /\ backs \in Nat
      /\ now \in Readings /\ Ticks \subseteq Readings /\ Readings \subseteq Nat
      /\ \A skew \in Skews : now + skew \in Readings
  BY DEF Typed, CountsTyped, LimitsTyped, Ticks, Readings, Skews, GuardAssumption
<1>2. Limited \subseteq Buckets /\ "entry" \in Buckets /\ LimitOf["entry"] = EntryRate
  BY DEF Buckets, LimitOf
<1>3. ASSUME NEW k \in Buckets
      PROVE  /\ bucket[k] \in [tokens : Nat, last : Nat]
             /\ LimitOf[k] \in Nat
             /\ admitted[k] \in [Readings -> Nat]
  BY DEF Typed, LimitsTyped, BucketsKept, GuardAssumption
<1>4. ASSUME NEW k \in Buckets, NEW t \in Ticks PROVE Within(k, t) \in Nat /\ WithinAll(k, t) \in Nat
  BY <1>3, MembersFinite DEF Within, WithinAll, Through
<1>5. ASSUME NEW k \in Limited PROVE window[k] \in [Readings -> Nat]
  BY DEF Typed, LimitsTyped
<1> QED BY <1>1, <1>2, <1>3, <1>4, <1>5

(* The ticks from t on that every gateway's window shares.                 *)
Shared(t) == t .. t + Interval - MaxSkew - 1

(* An admission counts in every span that holds the clock's reading.       *)
LEMMA AdmitCounts ==
  ASSUME GuardAssumption, Typed, NEW k \in Buckets, Admit(k, now)
  PROVE  /\ \A t \in Ticks : Within(k, t)' = Within(k, t) + (IF now \in Span(t) THEN 1 ELSE 0)
         /\ \A t \in Ticks :
              WithinAll(k, t)' = WithinAll(k, t) + (IF now \in Shared(t) THEN 1 ELSE 0)
         /\ \A j \in Buckets : j # k => admitted'[j] = admitted[j]
         /\ \A s \in Readings : s # now => admitted'[k][s] = admitted[k][s]
<1>1. now \in Readings /\ admitted[k] \in [Readings -> Nat]
  BY RateTypes
<1>2. admitted' = [admitted EXCEPT ![k] = [admitted[k] EXCEPT ![now] = admitted[k][now] + 1]]
  BY DEF Admit
<1>3. admitted'[k] = [admitted[k] EXCEPT ![now] = admitted[k][now] + 1]
  BY <1>2 DEF Typed, LimitsTyped
<1>4. \A j \in Buckets : j # k => admitted'[j] = admitted[j]
  BY <1>2 DEF Typed, LimitsTyped
<1>5. ASSUME NEW span
      PROVE  Cardinality(Members(admitted'[k], span))
               = Cardinality(Members(admitted[k], span)) + (IF now \in span THEN 1 ELSE 0)
  <2>1. Cardinality(Members([admitted[k] EXCEPT ![now] = admitted[k][now] + 1], span))
          = Cardinality(Members(admitted[k], span)) + (IF now \in span THEN 1 ELSE 0)
    BY <1>1, MembersAdd
  <2> QED BY <1>3, <2>1
<1>6. ASSUME NEW t \in Ticks
      PROVE  /\ Within(k, t)' = Within(k, t) + (IF now \in Span(t) THEN 1 ELSE 0)
             /\ WithinAll(k, t)' = WithinAll(k, t) + (IF now \in Shared(t) THEN 1 ELSE 0)
  <2>1. /\ Within(k, t) = Cardinality(Members(admitted[k], Span(t)))
        /\ Within(k, t)' = Cardinality(Members(admitted'[k], Span(t)))
        /\ WithinAll(k, t) = Cardinality(Members(admitted[k], Shared(t)))
        /\ WithinAll(k, t)' = Cardinality(Members(admitted'[k], Shared(t)))
    BY DEF Within, WithinAll, Through, Span, Shared
  <2> QED BY <1>5, <2>1
<1> QED BY <1>1, <1>3, <1>4, <1>6

(* What a step leaves alone keeps its part of the invariant.               *)
LEMMA LocalSame ==
  ASSUME RateInv, NEW k \in Limited, limiter' = limiter, now' \in Nat, now <= now', GuardAssumption,
         (bucket'[k] = bucket[k] /\ admitted'[k] = admitted[k]) \/ limiter # "local"
  PROVE  LocalPaid(k)'
<1>1. LocalPaid(k)
  BY DEF RateInv
<1> SUFFICES ASSUME limiter = "local", LimitOf[k] > 0 PROVE LocalPaid(k)'
  BY DEF LocalPaid
<1>2. bucket[k].last \in Nat /\ now \in Nat
  BY RateTypes DEF RateInv
<1>3. \A t \in Ticks : Within(k, t)' = Within(k, t)
  BY DEF Within, Through
<1>4. bucket'[k].last <= now'
  BY <1>1, <1>2 DEF LocalPaid
<1> QED BY <1>1, <1>3, <1>4 DEF LocalPaid

LEMMA EntrySame ==
  ASSUME GuardAssumption, RateInv, now' \in Nat, now <= now', faults' \in Nat, faults <= faults',
         bucket'["entry"] = bucket["entry"], admitted'["entry"] = admitted["entry"], backs' = backs
  PROVE  EntryPaid'
<1>1. EntryPaid
  BY DEF RateInv
<1>2. /\ bucket["entry"] \in [tokens : Nat, last : Nat] /\ now \in Nat /\ EntryRate \in Nat
      /\ faults \in Nat /\ backs \in Nat /\ MaxSkew \in Nat /\ Ticks \subseteq Nat
      /\ \A t \in Ticks : Within("entry", t) \in Nat
  BY RateTypes DEF RateInv, GuardAssumption
<1>3. bucket'["entry"].last <= now' + MaxSkew
  BY <1>1, <1>2 DEF EntryPaid
<1>4. \A s \in Readings : s > now' => admitted'["entry"][s] = 0
  BY <1>1, <1>2, RateTypes DEF EntryPaid, RateInv
<1>5. ASSUME NEW t \in Ticks
      PROVE  Paid(Within("entry", t), bucket["entry"], t, EntryRate, MaxSkew, backs, faults)'
  <2>1. Within("entry", t)' = Within("entry", t)
    BY DEF Within, Through
  <2>2. Paid(Within("entry", t), bucket["entry"], t, EntryRate, MaxSkew, backs, faults)
    BY <1>1 DEF EntryPaid
  <2>3. Within("entry", t) - Within("entry", t) <= faults' - faults
    BY <1>2
  <2>4. Paid(Within("entry", t), bucket["entry"], t, EntryRate, MaxSkew, backs, faults')
    BY <1>2, <2>2, <2>3, PaidFree
  <2> QED BY <2>1, <2>4 DEF Paid
<1> QED BY <1>3, <1>4, <1>5 DEF EntryPaid

LEMMA WindowSame ==
  ASSUME GuardAssumption, RateInv, NEW k \in Limited, limiter' = limiter,
         now' \in Nat, now <= now', faults' \in Nat, faults <= faults',
         \/ limiter # "redis"
         \/ /\ window'[k] = window[k] /\ admitted'[k] = admitted[k]
            /\ \A t \in Ticks : Pending(k, t)' = Pending(k, t)
  PROVE  WindowKept(k)'
<1> SUFFICES ASSUME limiter = "redis", LimitOf[k] > 0, NEW t \in Ticks
             PROVE  (/\ now < t + Interval - MaxSkew =>
                          WithinAll(k, t) <= Cardinality(Members(window[k], Span(t)))
                                            + Cardinality(Pending(k, t)) + faults
                     /\ WithinAll(k, t) <= LimitOf[k] + Cardinality(Workers) - 1 + faults)'
  BY DEF WindowKept
<1>1. /\ now < t + Interval - MaxSkew =>
           WithinAll(k, t) <= Cardinality(Members(window[k], Span(t)))
                             + Cardinality(Pending(k, t)) + faults
      /\ WithinAll(k, t) <= LimitOf[k] + Cardinality(Workers) - 1 + faults
  BY DEF RateInv, WindowKept
<1>2. WithinAll(k, t)' = WithinAll(k, t) /\ Pending(k, t)' = Pending(k, t) /\ window'[k] = window[k]
  BY DEF WithinAll, Through
<1>3. /\ now \in Nat /\ t \in Nat /\ faults \in Nat /\ Interval \in Nat /\ MaxSkew \in Nat /\ LimitOf[k] \in Nat
      /\ WithinAll(k, t) \in Nat /\ Cardinality(Members(window[k], Span(t))) \in Nat
      /\ Cardinality(Pending(k, t)) \in Nat /\ Cardinality(Workers) \in Nat
  <2>1. Pending(k, t) \subseteq Workers /\ IsFiniteSet(Workers)
    BY DEF Pending, GuardAssumption
  <2>2. Cardinality(Pending(k, t)) \in Nat /\ Cardinality(Workers) \in Nat
    BY <2>1, FS_Subset, FS_CardinalityType
  <2> QED BY <2>2, RateTypes, MembersFinite DEF RateInv, GuardAssumption
<1> QED BY <1>1, <1>2, <1>3

(* The token bucket of this gateway reads one clock, which never goes back. *)
LEMMA LocalStep ==
  ASSUME GuardAssumption, RateInv, NEW w \in Workers, NEW k \in Limited, AllowLocal(w, k)
  PROVE  LocalPaid(k)'
<1> DEFINE n == LimitOf[k]
           b == bucket[k]
           tokens == Refilled(b, n, now)
           left == IF tokens >= Interval THEN tokens - Interval ELSE tokens
<1>1. /\ limiter = "local" /\ n > 0 /\ limiter' = limiter /\ now' = now
      /\ bucket' = [bucket EXCEPT ![k] = [tokens |-> left, last |-> now]]
      /\ IF tokens >= Interval THEN Admit(k, now) ELSE UNCHANGED admitted
  BY DEF AllowLocal, wiring
<1>2. /\ now \in Ticks /\ Ticks \subseteq Nat /\ k \in Buckets /\ n \in Nat
      /\ b \in [tokens : Nat, last : Nat] /\ \A t \in Ticks : Within(k, t) \in Nat
  BY RateTypes DEF RateInv
<1>3. /\ b.last <= now
      /\ \A t \in Ticks : Paid(Within(k, t), b, t, n, 0, 0, 0)
  BY <1>1 DEF RateInv, LocalPaid
<1>4. Interval \in Nat /\ Interval > 0
  BY DEF GuardAssumption
<1>5. tokens \in Nat
  BY <1>2, RefillAdds
<1>6. left \in Nat
  <2> HIDE DEF tokens
  <2> QED BY <1>4, <1>5
<1>7. bucket'[k] = [tokens |-> left, last |-> now]
  <2> HIDE DEF left
  <2> QED BY <1>1, <1>2 DEF RateInv, Typed, LimitsTyped, BucketsKept
<1>8. ASSUME NEW t \in Ticks
      PROVE  Paid(Within(k, t), bucket[k], t, LimitOf[k], 0, 0, 0)'
  <2>1. PICK more \in {0, 1} :
          /\ Within(k, t)' = Within(k, t) + more
          /\ more = 1 => t <= now /\ now < t + Interval
          /\ more * Interval + left <= tokens
    <3>1. CASE tokens >= Interval
      <4>1. Within(k, t)' = Within(k, t) + (IF now \in Span(t) THEN 1 ELSE 0)
        BY <1>1, <1>2, <3>1, AdmitCounts DEF RateInv
      <4>2. left = tokens - Interval
        BY <3>1
      <4>3. CASE now \in Span(t)
        <5>1. t <= now /\ now < t + Interval
          BY <1>2, <1>4, <4>3 DEF Span
        <5> HIDE DEF left, tokens
        <5>2. 1 * Interval + left <= tokens
          BY <1>4, <1>5, <4>2
        <5> QED BY <4>1, <4>3, <5>1, <5>2
      <4>4. CASE now \notin Span(t)
        <5> HIDE DEF left, tokens
        <5>1. 0 * Interval + left <= tokens
          BY <1>4, <1>5, <4>2
        <5> QED BY <1>2, <4>1, <4>4, <5>1
      <4> QED BY <4>3, <4>4
    <3>2. CASE ~(tokens >= Interval)
      <4>1. Within(k, t)' = Within(k, t)
        BY <1>1, <3>2 DEF Within, Through
      <4>2. left = tokens
        BY <3>2
      <4> HIDE DEF left, tokens
      <4>3. 0 * Interval + left <= tokens
        BY <1>4, <1>5, <4>2
      <4> QED BY <1>2, <4>1, <4>3
    <3> QED BY <3>1, <3>2
  <2>2. PICK count, count2 \in Nat :
          count = Within(k, t) /\ count2 = Within(k, t)' /\ count2 = count + more
    BY <1>2, <2>1
  <2>3. PICK none \in Nat : none = 0
    OBVIOUS
  <2>4. Paid(count2, [tokens |-> left, last |-> now], t, n, none, none, none)
    <3>1. Paid(count, b, t, n, none, none, none)
      BY <1>3, <2>2, <2>3
    <3>2. t \in Nat /\ now \in Nat /\ n \in Nat /\ b \in [tokens : Nat, last : Nat] /\ b.last <= now
      BY <1>2, <1>3
    <3>3. now < t => count = 0
      BY <2>3, <3>1, <3>2 DEF Paid
    <3>4. count <= count2 /\ (count2 > count => t <= now /\ now < t + Interval)
      BY <2>1, <2>2
    <3>5. (count2 - count) * Interval + left <= Refilled(b, n, now) + (none - none) * Interval
      <4>1. (none - none) * Interval = 0 /\ count2 - count = more
        BY <1>4, <2>2, <2>3
      <4>2. more * Interval + left <= tokens + 0
        <5>1. more * Interval + left <= tokens /\ tokens \in Nat
          BY <1>5, <2>1
        <5> HIDE DEF tokens, left
        <5> QED BY <5>1
      <4> QED BY Zenon, <4>1, <4>2
    <3>6. none <= none /\ now <= now /\ b.last <= now + none /\ now <= now + none /\ none = (IF now < b.last THEN none + 1 ELSE none)
      BY <2>3, <3>2
    <3>7. PICK limit, rest \in Nat, kept \in [tokens : Nat, last : Nat] :
            limit = n /\ rest = left /\ kept = b
      BY <1>6, <3>2
    <3>8. /\ Paid(count, kept, t, limit, none, none, none)
          /\ kept.last <= now + none /\ none = (IF now < kept.last THEN none + 1 ELSE none)
          /\ (count2 - count) * Interval + rest
               <= Refilled(kept, limit, now) + (none - none) * Interval
      BY <3>1, <3>5, <3>6, <3>7
    <3> HIDE DEF tokens, left, b, n
    <3>9. Paid(count2, [tokens |-> rest, last |-> now], t, limit, none, none, none)
      BY <3>2, <3>3, <3>4, <3>6, <3>8, PaidCharge
    <3> QED BY <3>7, <3>9
  <2>5. Paid(Within(k, t)', bucket'[k], t, LimitOf[k], 0, 0, 0)
    BY <1>7, <2>2, <2>3, <2>4
  <2> QED BY <2>5 DEF Paid
<1>9. bucket'[k].last <= now'
  BY <1>1, <1>2, <1>7
<1> QED BY <1>8, <1>9 DEF LocalPaid

(* One request, or none, that is counted for the user.                     *)
LEMMA EntryCounts ==
  ASSUME GuardAssumption, RateInv, NEW more \in {0, 1},
         IF more = 1 THEN Admit("entry", now) ELSE UNCHANGED admitted,
         NEW t \in Ticks
  PROVE  /\ Within("entry", t) \in Nat /\ Within("entry", t)' \in Nat
         /\ Within("entry", t) <= Within("entry", t)'
         /\ Within("entry", t)' <= Within("entry", t) + more
         /\ Within("entry", t)' > Within("entry", t) => t <= now /\ now < t + Interval
         /\ now < t => Within("entry", t) = 0
         /\ \A s \in Readings : s > now => admitted'["entry"][s] = 0
<1>1. Within("entry", t) \in Nat /\ now \in Nat /\ t \in Nat /\ Interval \in Nat /\ "entry" \in Buckets
  BY RateTypes DEF RateInv, GuardAssumption
<1>2. now < t => Within("entry", t) = 0
  <2> SUFFICES ASSUME now < t PROVE Within("entry", t) = 0
    OBVIOUS
  <2>1. \A s \in Readings : s \in Span(t) => admitted["entry"][s] = 0
    <3>1. \A s \in Readings : s > now => admitted["entry"][s] = 0
      BY DEF RateInv, EntryPaid
    <3>2. \A s \in Readings : s \in Span(t) => s > now
      BY <1>1, RateTypes DEF Span, RateInv
    <3> QED BY <3>1, <3>2
  <2>2. Members(admitted["entry"], Span(t)) = {}
    BY <2>1 DEF Members
  <2> QED BY <2>2, FS_EmptySet DEF Within, Through, Span
<1>3. \A s \in Readings : s > now => admitted["entry"][s] = 0
  BY DEF RateInv, EntryPaid
<1>4. CASE more = 1
  <2>1. /\ Within("entry", t)' = Within("entry", t) + (IF now \in Span(t) THEN 1 ELSE 0)
        /\ \A s \in Readings : s # now => admitted'["entry"][s] = admitted["entry"][s]
    BY <1>1, <1>4, AdmitCounts DEF RateInv
  <2>2. now \in Span(t) => t <= now /\ now < t + Interval
    BY <1>1 DEF Span
  <2>3. \A s \in Readings : s > now => s # now
    BY <1>1, RateTypes DEF RateInv
  <2> QED BY <1>1, <1>2, <1>3, <1>4, <2>1, <2>2, <2>3
<1>5. CASE more = 0
  <2>1. Within("entry", t)' = Within("entry", t)
    BY <1>5 DEF Within, Through
  <2> QED BY <1>1, <1>2, <1>3, <1>5, <2>1
<1> QED BY <1>4, <1>5

(* A request whose failed call took no token.                              *)
LEMMA EntryUnpaid ==
  ASSUME GuardAssumption, RateInv, NEW more \in {0, 1},
         IF more = 1 THEN Admit("entry", now) ELSE UNCHANGED admitted,
         UNCHANGED <<now, bucket, backs>>, faults' = faults + 1
  PROVE  EntryPaid'
<1>1. /\ bucket["entry"] \in [tokens : Nat, last : Nat] /\ EntryRate \in Nat
      /\ faults \in Nat /\ backs \in Nat /\ MaxSkew \in Nat /\ Ticks \subseteq Nat
  BY RateTypes DEF RateInv, GuardAssumption
<1>2. EntryPaid
  BY DEF RateInv
<1>3. ASSUME NEW t \in Ticks
      PROVE  Paid(Within("entry", t), bucket["entry"], t, EntryRate, MaxSkew, backs, faults)'
  <2>1. PICK count, count2, free2 \in Nat :
          count = Within("entry", t) /\ count2 = Within("entry", t)' /\ free2 = faults'
    BY <1>1, EntryCounts
  <2>2. count2 - count <= free2 - faults /\ faults <= free2
    BY <1>1, <2>1, EntryCounts
  <2>3. Paid(count, bucket["entry"], t, EntryRate, MaxSkew, backs, faults)
    BY <1>2, <2>1 DEF EntryPaid
  <2>4. Paid(count2, bucket["entry"], t, EntryRate, MaxSkew, backs, free2)
    BY <1>1, <2>2, <2>3, PaidFree
  <2> QED BY <2>1, <2>4 DEF Paid
<1>4. \A s \in Readings : s > now' => admitted'["entry"][s] = 0
  <2>1. now \in Ticks /\ now' = now
    BY RateTypes DEF RateInv
  <2> QED BY <2>1, EntryCounts
<1> QED BY <1>2, <1>3, <1>4 DEF EntryPaid

(* A call that reached the script; when its reply was lost the request may *)
(* be let through as well, or not at all.                                  *)
LEMMA EntryCharged ==
  ASSUME GuardAssumption, RateInv, NEW more \in {0, 1},
         IF more = 1 THEN Admit("entry", now) ELSE UNCHANGED admitted,
         NEW skew \in Skews, NEW left \in Nat, NEW given \in {0, 1},
         now' = now, faults' = faults + given,
         bucket'["entry"] = [tokens |-> left, last |-> now + skew],
         backs' = (IF now + skew < bucket["entry"].last THEN backs + 1 ELSE backs),
         more * Interval + left <= Refilled(bucket["entry"], EntryRate, now + skew) + given * Interval
  PROVE  EntryPaid'
<1>1. /\ bucket["entry"] \in [tokens : Nat, last : Nat] /\ EntryRate \in Nat /\ now \in Nat
      /\ faults \in Nat /\ backs \in Nat /\ MaxSkew \in Nat /\ Ticks \subseteq Nat
      /\ skew \in 0 .. MaxSkew /\ Interval \in Nat
  BY RateTypes DEF RateInv, GuardAssumption, Skews
<1>2. EntryPaid
  BY DEF RateInv
<1>3. PICK r \in Nat, b \in [tokens : Nat, last : Nat] : r = now + skew /\ b = bucket["entry"]
  BY <1>1
<1>4. /\ b.last <= now + MaxSkew /\ now <= r /\ r <= now + MaxSkew
      /\ backs' = (IF r < b.last THEN backs + 1 ELSE backs)
  BY <1>1, <1>2, <1>3 DEF EntryPaid
<1>5. ASSUME NEW t \in Ticks
      PROVE  Paid(Within("entry", t), bucket["entry"], t, EntryRate, MaxSkew, backs, faults)'
  <2>1. PICK count, count2, free, free2, again, again2 \in Nat :
          /\ count = Within("entry", t) /\ count2 = Within("entry", t)'
          /\ free = faults /\ free2 = faults' /\ again = backs /\ again2 = backs'
    BY <1>1, <1>4, EntryCounts
  <2>2. /\ now < t => count = 0
        /\ count <= count2 /\ free <= free2 /\ count2 <= count + more
        /\ count2 > count => t <= now /\ now < t + Interval
        /\ again2 = (IF r < b.last THEN again + 1 ELSE again)
    BY <1>1, <1>4, <2>1, EntryCounts
  <2>3. (count2 - count) * Interval + left <= Refilled(b, EntryRate, r) + (free2 - free) * Interval
    <3>1. free2 - free = given
      BY <1>1, <2>1
    <3>2. (count2 - count) * Interval <= more * Interval
      <4>0. count2 - count \in Int /\ more \in Int /\ count2 - count <= more
        BY <2>1, <2>2
      <4>1. Interval * (count2 - count) <= Interval * more
        BY <1>1, <4>0, ProductGrows
      <4> QED BY <1>1, <4>1, Distribute
    <3>3. (count2 - count) * Interval \in Int /\ more * Interval \in Int /\ given * Interval \in Int
      BY <1>1, Distribute
    <3>4. Refilled(b, EntryRate, r) \in Nat
      BY <1>1, RefillAdds
    <3>5. more * Interval + left <= Refilled(b, EntryRate, r) + given * Interval
      BY <1>3
    <3> QED BY <3>1, <3>2, <3>3, <3>4, <3>5
  <2>4. Paid(count, b, t, EntryRate, MaxSkew, again, free)
    BY <1>2, <1>3, <2>1 DEF EntryPaid
  <2>5. PICK n, d \in Nat : n = EntryRate /\ d = MaxSkew
    BY <1>1
  <2>6. Paid(count2, [tokens |-> left, last |-> r], t, n, d, again2, free2)
    BY <1>1, <1>4, <2>2, <2>3, <2>4, <2>5, PaidCharge
  <2> QED BY <1>3, <2>1, <2>5, <2>6 DEF Paid
<1>6. \A s \in Readings : s > now' => admitted'["entry"][s] = 0
  <2>1. now \in Ticks /\ now' = now
    BY RateTypes DEF RateInv
  <2> QED BY <2>1, EntryCounts
<1>7. bucket'["entry"].last <= now' + MaxSkew
  BY <1>1
<1> QED BY <1>5, <1>6, <1>7 DEF EntryPaid

LEMMA EntryStep ==
  ASSUME GuardAssumption, RateInv, NEW w \in Workers, TryAcquire(w) \/ TryAcquireFails(w)
  PROVE  EntryPaid'
<1>0. /\ bucket \in [Buckets -> [tokens : Nat, last : Nat]] /\ "entry" \in Buckets
      /\ bucket["entry"] \in [tokens : Nat, last : Nat]
      /\ EntryRate \in Nat /\ now \in Nat /\ faults \in Nat /\ Interval \in Nat
      /\ \A skew \in Skews : now + skew \in Nat
  BY RateTypes DEF RateInv, Typed, LimitsTyped, BucketsKept, GuardAssumption, Skews
<1> DEFINE tokens(skew) == Refilled(bucket["entry"], EntryRate, now + skew)
           left(skew) == IF tokens(skew) >= Interval THEN tokens(skew) - Interval ELSE tokens(skew)
<1>1. \A skew \in Skews : tokens(skew) \in Nat
  BY <1>0, RefillAdds
<1>2. \A skew \in Skews : left(skew) \in Nat /\ left(skew) <= tokens(skew)
  <2> HIDE DEF tokens
  <2> QED BY <1>0, <1>1
<1>3. CASE TryAcquire(w)
  <2>1. PICK skew \in Skews :
          /\ bucket' = [bucket EXCEPT !["entry"] = [tokens |-> left(skew), last |-> now + skew]]
          /\ backs' = IF now + skew < bucket["entry"].last THEN backs + 1 ELSE backs
          /\ IF tokens(skew) >= Interval THEN Admit("entry", now) ELSE UNCHANGED admitted
    BY <1>3, Zenon DEF TryAcquire, ChargeUser
  <2>2. now' = now /\ faults' = faults + 0
    BY <1>0, <1>3 DEF TryAcquire, NoFault
  <2>3. bucket'["entry"] = [tokens |-> left(skew), last |-> now + skew]
    <3> HIDE DEF left, tokens
    <3> QED BY <1>0, <2>1
  <2>4. CASE tokens(skew) >= Interval
    <3>1. 1 * Interval + left(skew) <= tokens(skew) + 0 * Interval
      <4>1. left(skew) = tokens(skew) - Interval
        BY <2>4
      <4> HIDE DEF left, tokens
      <4> QED BY <1>0, <1>1, <4>1
    <3>2. IF 1 = 1 THEN Admit("entry", now) ELSE UNCHANGED admitted
      BY <2>1, <2>4
    <3> HIDE DEF left
    <3> QED BY <1>2, <2>1, <2>2, <2>3, <3>1, <3>2, EntryCharged
  <2>5. CASE ~(tokens(skew) >= Interval)
    <3>1. 0 * Interval + left(skew) <= tokens(skew) + 0 * Interval
      <4> HIDE DEF left, tokens
      <4> QED BY <1>0, <1>1, <1>2
    <3>2. IF 0 = 1 THEN Admit("entry", now) ELSE UNCHANGED admitted
      BY <2>1, <2>5
    <3> HIDE DEF left
    <3> QED BY <1>2, <2>1, <2>2, <2>3, <3>1, <3>2, EntryCharged
  <2> QED BY <2>4, <2>5
<1>4. CASE TryAcquireFails(w)
  <2>1. PICK more \in {0, 1} : IF more = 1 THEN Admit("entry", now) ELSE UNCHANGED admitted
    BY <1>4 DEF TryAcquireFails
  <2>2. now' = now /\ faults' = faults + 1
    BY <1>4 DEF TryAcquireFails, Fault
  <2>3. CASE UNCHANGED <<bucket, backs>>
    BY <2>1, <2>2, <2>3, EntryUnpaid
  <2>4. CASE ~UNCHANGED <<bucket, backs>>
    <3>1. PICK skew \in Skews :
            /\ bucket' = [bucket EXCEPT !["entry"] = [tokens |-> left(skew), last |-> now + skew]]
            /\ backs' = IF now + skew < bucket["entry"].last THEN backs + 1 ELSE backs
      BY <1>4, <2>4, Zenon DEF TryAcquireFails
    <3>2. bucket'["entry"] = [tokens |-> left(skew), last |-> now + skew]
      <4> HIDE DEF left, tokens
      <4> QED BY <1>0, <3>1
    <3>3. more * Interval + left(skew) <= tokens(skew) + 1 * Interval
      <4> HIDE DEF left, tokens
      <4>1. more * Interval <= 1 * Interval /\ more * Interval \in Nat
        BY <1>0
      <4> QED BY <1>0, <1>1, <1>2, <4>1
    <3> HIDE DEF left
    <3> QED BY <1>2, <2>1, <2>2, <3>1, <3>2, <3>3, EntryCharged
  <2> QED BY <2>3, <2>4
<1> QED BY <1>3, <1>4

(* A worker's move changes who is about to add only by that worker.        *)
LEMMA PendingMoves ==
  ASSUME WorkersTyped, NEW w \in Workers, NEW from, NEW to, Goto(w, from, to),
         held' = held \/ \E x : held' = [held EXCEPT ![w] = x],
         NEW k \in Limited, NEW t
  PROVE  /\ Pending(k, t)' = IF to = AddStep(k) /\ held'[w] \in Span(t)
                             THEN Pending(k, t) \cup {w} ELSE Pending(k, t) \ {w}
         /\ to # AddStep(k) => Pending(k, t)' = Pending(k, t) \ {w}
         /\ from # AddStep(k) => w \notin Pending(k, t)
         /\ from # AddStep(k) /\ to # AddStep(k) => Pending(k, t)' = Pending(k, t)
<1>1. at'[w] = to /\ at[w] = from
  BY DEF WorkersTyped
<1>2. \A v \in Workers : v # w => at'[v] = at[v] /\ held'[v] = held[v]
  BY DEF WorkersTyped
<1>3. \A v \in Workers : v \in Pending(k, t) <=> at[v] = AddStep(k) /\ held[v] \in Span(t)
  BY DEF Pending
<1>4. \A v \in Workers : v \in Pending(k, t)' <=> at'[v] = AddStep(k) /\ held'[v] \in Span(t)
  BY DEF Pending, AddStep, Span
<1>5. Pending(k, t) \subseteq Workers /\ Pending(k, t)' \subseteq Workers
  BY DEF Pending
<1> QED BY <1>1, <1>2, <1>3, <1>4, <1>5

LEMMA PendingCounts ==
  ASSUME GuardAssumption, NEW k, NEW t
  PROVE  /\ Pending(k, t) \subseteq Workers /\ IsFiniteSet(Pending(k, t))
         /\ Cardinality(Pending(k, t)) \in Nat /\ Cardinality(Workers) \in Nat
         /\ \A w \in Workers : w \notin Pending(k, t) =>
              Cardinality(Pending(k, t)) <= Cardinality(Workers) - 1
<1>1. Pending(k, t) \subseteq Workers /\ IsFiniteSet(Workers)
  BY DEF Pending, GuardAssumption
<1>2. IsFiniteSet(Pending(k, t))
  BY <1>1, FS_Subset
<1>3. ASSUME NEW w \in Workers, w \notin Pending(k, t)
      PROVE  Cardinality(Pending(k, t)) <= Cardinality(Workers) - 1
  <2>1. IsFiniteSet(Workers \ {w}) /\ Cardinality(Workers \ {w}) = Cardinality(Workers) - 1
    BY <1>1, FS_RemoveElement
  <2>2. Pending(k, t) \subseteq Workers \ {w}
    BY <1>1, <1>3
  <2> QED BY <2>1, <2>2, FS_Subset
<1> QED BY <1>1, <1>2, <1>3, FS_CardinalityType

(* What WindowKept says of one span, with its numbers typed.               *)
LEMMA WindowNumbers ==
  ASSUME GuardAssumption, RateInv, NEW k \in Limited, limiter = "redis", LimitOf[k] > 0,
         NEW t \in Ticks
  PROVE  /\ now \in Nat /\ t \in Nat /\ faults \in Nat /\ Interval \in Nat /\ LimitOf[k] \in Nat
         /\ MaxSkew \in Nat
         /\ WithinAll(k, t) \in Nat /\ Cardinality(Members(window[k], Span(t))) \in Nat
         /\ now < t + Interval - MaxSkew =>
              WithinAll(k, t) <= Cardinality(Members(window[k], Span(t)))
                                + Cardinality(Pending(k, t)) + faults
         /\ WithinAll(k, t) <= LimitOf[k] + Cardinality(Workers) - 1 + faults
<1>1. /\ now \in Nat /\ t \in Nat /\ faults \in Nat /\ Interval \in Nat /\ LimitOf[k] \in Nat
      /\ MaxSkew \in Nat /\ WithinAll(k, t) \in Nat
  BY RateTypes DEF RateInv, GuardAssumption
<1>2. Cardinality(Members(window[k], Span(t))) \in Nat
  BY RateTypes, MembersFinite DEF RateInv
<1> QED BY <1>1, <1>2 DEF RateInv, WindowKept

(* A gateway drops nothing of a tick as long as all windows share it.      *)
LEMMA TrimSpares ==
  ASSUME GuardAssumption, RateInv, NEW k \in Limited, NEW skew \in Skews, NEW t \in Ticks,
         now < t + Interval - MaxSkew, window' = Trimmed(k, now + skew)
  PROVE  Members(window'[k], Span(t)) = Members(window[k], Span(t))
<1>1. /\ now \in Nat /\ Readings \subseteq Nat /\ t \in Nat /\ skew \in Nat /\ skew <= MaxSkew
      /\ Interval \in Nat /\ MaxSkew \in Nat
  BY RateTypes DEF RateInv, Skews, GuardAssumption
<1>2. window'[k] = [s \in Readings |-> IF s > (now + skew) - Interval THEN window[k][s] ELSE 0]
  <2>1. window \in [Limited -> [Readings -> Nat]]
    BY DEF RateInv, Typed, LimitsTyped
  <2>2. window' = [window EXCEPT ![k] =
                     [s \in Readings |-> IF s > (now + skew) - Interval THEN window[k][s] ELSE 0]]
    BY DEF Trimmed
  <2>3. PICK f : f = [s \in Readings |-> IF s > (now + skew) - Interval THEN window[k][s] ELSE 0]
    OBVIOUS
  <2>4. window' = [window EXCEPT ![k] = f]
    BY <2>2, <2>3, Zenon
  <2>5. k \in Limited
    OBVIOUS
  <2>6. window'[k] = f
    BY ONLY <2>1, <2>4, <2>5
  <2> QED BY <2>3, <2>6
<1>3. \A s \in Readings \cap Span(t) : s > (now + skew) - Interval
  BY <1>1 DEF Span
<1>4. \A s \in Readings \cap Span(t) : window'[k][s] = window[k][s]
  BY <1>2, <1>3
<1> QED BY <1>4, MembersSame

(* The first pipeline: it lets a request in while it counts fewer than the *)
(* limit, so that only the other workers' requests can come on top.        *)
LEMMA WindowCount ==
  ASSUME GuardAssumption, RateInv, NEW w \in Workers, NEW k \in Limited, CountWindow(w, k)
  PROVE  WindowKept(k)'
<1> PICK skew \in Skews :
      /\ Goto(w, k, IF Live(k, now + skew) < LimitOf[k] THEN AddStep(k) ELSE "idle")
      /\ window' = Trimmed(k, now + skew)
      /\ IF Live(k, now + skew) < LimitOf[k]
         THEN held' = [held EXCEPT ![w] = now + skew] /\ Admit(k, now)
         ELSE UNCHANGED <<held, admitted>>
  BY Zenon DEF CountWindow
<1> DEFINE n == LimitOf[k]
           room == Live(k, now + skew) < n
<1>0. /\ limiter = "redis" /\ n > 0 /\ limiter' = limiter /\ now' = now /\ faults' = faults
      /\ Goto(w, k, IF room THEN AddStep(k) ELSE "idle")
      /\ room => held' = [held EXCEPT ![w] = now + skew] /\ Admit(k, now)
      /\ ~room => UNCHANGED <<held, admitted>>
  BY DEF CountWindow, NoFault, wiring
<1>2. /\ now \in Ticks /\ Ticks \subseteq Nat /\ k \in Buckets /\ n \in Nat /\ Interval \in Nat
      /\ window[k] \in [Readings -> Nat] /\ WorkersTyped /\ MaxTime \in Nat /\ MaxSkew \in Nat
      /\ skew \in Nat /\ skew <= MaxSkew
  BY RateTypes DEF RateInv, Typed, GuardAssumption, Skews
<1>3. AddStep(k) # k /\ AddStep(k) # "idle"
  BY DEF AddStep
<1> SUFFICES ASSUME NEW t \in Ticks
             PROVE  /\ now' < t + Interval - MaxSkew =>
                         WithinAll(k, t)' <= Cardinality(Members(window'[k], Span(t)))
                                            + Cardinality(Pending(k, t)') + faults'
                    /\ WithinAll(k, t)' <= LimitOf[k] + Cardinality(Workers) - 1 + faults'
  BY DEF WindowKept, Span
<1>4. now < t + Interval - MaxSkew => Members(window'[k], Span(t)) = Members(window[k], Span(t))
  BY TrimSpares
<1>5. CASE room /\ now \in Shared(t)
  <2>1. now < t + Interval - MaxSkew /\ t <= now
    BY <1>2, <1>5 DEF Shared
  <2>2. WithinAll(k, t)' = WithinAll(k, t) + 1
    BY <1>0, <1>2, <1>5, AdmitCounts DEF RateInv
  <2>3. Pending(k, t)' = Pending(k, t) \cup {w} /\ w \notin Pending(k, t)
    <3>1. held'[w] = now + skew
      BY <1>0, <1>2, <1>5 DEF WorkersTyped
    <3>2. now + skew \in Span(t)
      BY <1>2, <2>1 DEF Span
    <3>3. Goto(w, k, AddStep(k)) /\ held' = [held EXCEPT ![w] = now + skew]
      BY <1>0, <1>5
    <3>4. held'[w] \in Span(t)
      BY <3>1, <3>2
    <3> HIDE DEF Goto, room, n
    <3>5. PICK to : to = AddStep(k) /\ Goto(w, k, to)
      BY <3>3
    <3>6. held' = held \/ \E x : held' = [held EXCEPT ![w] = x]
      BY <3>3
    <3>7. /\ Pending(k, t)' = IF to = AddStep(k) /\ held'[w] \in Span(t)
                              THEN Pending(k, t) \cup {w} ELSE Pending(k, t) \ {w}
          /\ k # AddStep(k) => w \notin Pending(k, t)
      BY <1>2, <3>5, <3>6, PendingMoves
    <3> QED BY <1>3, <3>4, <3>5, <3>7
  <2>4. Cardinality(Pending(k, t)') = Cardinality(Pending(k, t)) + 1
    BY <2>3, PendingCounts, FS_AddElement
  <2>5. Cardinality(Pending(k, t)) <= Cardinality(Workers) - 1
    BY <2>3, PendingCounts
  <2>6. Cardinality(Members(window[k], Span(t))) <= n - 1
    <3>1. Readings \cap Span(t) \subseteq (now + skew) - Interval + 1 .. MaxTime + MaxSkew
      <4>1. ASSUME NEW s \in Readings, s \in Span(t)
            PROVE  s \in (now + skew) - Interval + 1 .. MaxTime + MaxSkew
        <5>1. s \in Nat /\ s <= MaxTime + MaxSkew /\ t <= s /\ t \in Nat /\ now \in Nat
          BY <1>2, <4>1 DEF Span, Readings
        <5>2. (now + skew) - Interval + 1 <= s
          BY <1>2, <2>1, <5>1
        <5> QED BY <1>2, <5>1, <5>2
      <4> QED BY <4>1
    <3>2. Cardinality(Members(window[k], Span(t))) <= Live(k, now + skew)
      <4>1. PICK wider : wider = (now + skew) - Interval + 1 .. MaxTime + MaxSkew
        OBVIOUS
      <4>2. Cardinality(Members(window[k], Span(t))) <= Cardinality(Members(window[k], wider))
        BY <1>2, <3>1, <4>1, MembersNarrower
      <4>3. Live(k, now + skew) = Cardinality(Members(window[k], wider))
        BY <4>1, Zenon DEF Live
      <4> QED BY <4>2, <4>3, Zenon
    <3>3. Live(k, now + skew) \in Nat /\ Cardinality(Members(window[k], Span(t))) \in Nat
      BY <1>2, MembersFinite DEF Live
    <3>4. Live(k, now + skew) < n
      BY <1>5
    <3> QED BY <1>2, <3>2, <3>3, <3>4
  <2>7. /\ limiter = "redis" /\ LimitOf[k] > 0 /\ now' = now /\ faults' = faults
        /\ Cardinality(Members(window'[k], Span(t))) = Cardinality(Members(window[k], Span(t)))
        /\ Cardinality(Members(window[k], Span(t))) <= LimitOf[k] - 1
    BY <1>0, <1>4, <2>1, <2>6
  <2>8. /\ WithinAll(k, t) <= Cardinality(Members(window[k], Span(t)))
                             + Cardinality(Pending(k, t)) + faults
        /\ faults \in Nat /\ WithinAll(k, t) \in Nat /\ LimitOf[k] \in Nat
        /\ Cardinality(Members(window[k], Span(t))) \in Nat
        /\ Cardinality(Pending(k, t)) \in Nat /\ Cardinality(Workers) \in Nat
    BY <2>1, <2>7, WindowNumbers, PendingCounts
  <2>9. /\ WithinAll(k, t)' <= Cardinality(Members(window[k], Span(t)))
                              + Cardinality(Pending(k, t)') + faults
        /\ WithinAll(k, t)' <= LimitOf[k] + Cardinality(Workers) - 1 + faults
    BY <2>2, <2>4, <2>5, <2>7, <2>8
  <2> QED BY <2>7, <2>9
<1>6. CASE ~(room /\ now \in Shared(t))
  <2>1. WithinAll(k, t)' = WithinAll(k, t)
    <3>1. CASE room
      <4>1. WithinAll(k, t)' = WithinAll(k, t) + 0
        BY <1>0, <1>2, <1>6, <3>1, AdmitCounts DEF RateInv
      <4> QED BY <1>0, <4>1, WindowNumbers
    <3>2. CASE ~room
      BY <1>0, <3>2 DEF WithinAll, Through
    <3> QED BY <3>1, <3>2
  <2>2. Cardinality(Pending(k, t)) <= Cardinality(Pending(k, t)')
        /\ Cardinality(Pending(k, t)') \in Nat
    <3>1. CASE room
      <4>1. Goto(w, k, AddStep(k)) /\ held' = [held EXCEPT ![w] = now + skew]
        BY <1>0, <3>1
      <4>2. Pending(k, t) \subseteq Pending(k, t)' /\ Pending(k, t)' \subseteq Workers
        <5> HIDE DEF Goto, room, n
        <5>1. Pending(k, t)' = Pending(k, t) \cup {w}
              \/ (Pending(k, t)' = Pending(k, t) \ {w} /\ w \notin Pending(k, t))
          BY <1>2, <1>3, <4>1, PendingMoves
        <5>2. Pending(k, t) \subseteq Workers
          BY PendingCounts
        <5> QED BY <5>1, <5>2
      <4>3. IsFiniteSet(Pending(k, t)')
        BY <4>2, FS_Subset DEF GuardAssumption
      <4> QED BY <4>2, <4>3, FS_Subset, FS_CardinalityType
    <3>2. CASE ~room
      <4>1. Goto(w, k, "idle") /\ held' = held
        BY <1>0, <3>2
      <4>2. Pending(k, t)' = Pending(k, t)
        <5> HIDE DEF Goto, room, n
        <5> QED BY <1>2, <1>3, <4>1, PendingMoves
      <4> QED BY <4>2, PendingCounts
    <3> QED BY <3>1, <3>2
  <2>3. /\ limiter = "redis" /\ LimitOf[k] > 0 /\ now' = now /\ faults' = faults
        /\ now < t + Interval - MaxSkew =>
             Cardinality(Members(window'[k], Span(t))) = Cardinality(Members(window[k], Span(t)))
    BY <1>0, <1>4
  <2>4. WithinAll(k, t) \in Nat /\ faults \in Nat /\ Cardinality(Pending(k, t)) \in Nat
        /\ Cardinality(Members(window[k], Span(t))) \in Nat
    BY <2>3, WindowNumbers, PendingCounts
  <2> HIDE DEF n, room
  <2> QED BY <2>1, <2>2, <2>3, <2>4, WindowNumbers
<1> QED BY <1>5, <1>6

(* The second pipeline: what was pending is now in the window.             *)
LEMMA WindowAdd ==
  ASSUME GuardAssumption, RateInv, NEW w \in Workers, NEW k \in Limited, AddToWindow(w, k),
         faults' \in Nat, faults <= faults'
  PROVE  WindowKept(k)'
<1> DEFINE h == held[w]
<1>0. /\ limiter' = limiter /\ now' = now /\ admitted' = admitted
      /\ Goto(w, AddStep(k), AfterLimit(k)) /\ held' = [held EXCEPT ![w] = 0]
      /\ window' = [window EXCEPT ![k] = [window[k] EXCEPT ![h] = window[k][h] + 1]]
  BY DEF AddToWindow, wiring
<1>1. h \in Readings /\ window[k] \in [Readings -> Nat] /\ WorkersTyped /\ at[w] = AddStep(k)
  BY <1>0, RateTypes DEF RateInv, ReadingsHeld, Typed, AddStep
<1>2. window'[k] = [window[k] EXCEPT ![h] = window[k][h] + 1]
  BY <1>0 DEF RateInv, Typed, LimitsTyped
<1>3. AfterLimit(k) # AddStep(k) /\ \E x : held' = [held EXCEPT ![w] = x]
  BY <1>0 DEF AfterLimit, AddStep
<1> HIDE DEF h
<1> SUFFICES ASSUME limiter = "redis", LimitOf[k] > 0, NEW t \in Ticks
             PROVE  /\ now' < t + Interval - MaxSkew =>
                         WithinAll(k, t)' <= Cardinality(Members(window'[k], Span(t)))
                                            + Cardinality(Pending(k, t)') + faults'
                    /\ WithinAll(k, t)' <= LimitOf[k] + Cardinality(Workers) - 1 + faults'
  BY <1>0 DEF WindowKept, Span
<1>4. Cardinality(Members(window'[k], Span(t)))
        = Cardinality(Members(window[k], Span(t))) + (IF h \in Span(t) THEN 1 ELSE 0)
  BY <1>1, <1>2, MembersAdd
<1>5. Cardinality(Pending(k, t)')
        = Cardinality(Pending(k, t)) - (IF h \in Span(t) THEN 1 ELSE 0)
  <2>1. Pending(k, t)' = Pending(k, t) \ {w}
    <3> HIDE DEF Goto
    <3>1. Goto(w, AddStep(k), AfterLimit(k)) /\ (held' = held \/ \E x : held' = [held EXCEPT ![w] = x])
      BY <1>0, <1>3
    <3>2. PICK from, to : from = AddStep(k) /\ to = AfterLimit(k) /\ Goto(w, from, to)
      BY <3>1
    <3>3. to # AddStep(k)
      BY <1>3, <3>2
    <3> QED BY <1>1, <3>1, <3>2, <3>3, PendingMoves
  <2>2. w \in Pending(k, t) <=> h \in Span(t)
    BY <1>1 DEF Pending, h
  <2>3. Cardinality(Pending(k, t) \ {w}) =
          IF w \in Pending(k, t) THEN Cardinality(Pending(k, t)) - 1 ELSE Cardinality(Pending(k, t))
    BY PendingCounts, FS_RemoveElement
  <2>4. Cardinality(Pending(k, t)) \in Nat
    BY PendingCounts
  <2> QED BY <2>1, <2>2, <2>3, <2>4
<1>6. WithinAll(k, t)' = WithinAll(k, t)
  BY <1>0 DEF WithinAll, Through
<1>7. Cardinality(Pending(k, t)) \in Nat /\ Cardinality(Workers) \in Nat
  BY PendingCounts
<1> QED BY <1>0, <1>4, <1>5, <1>6, <1>7, WindowNumbers

(* A pipeline that fails lets its request in, at the price of a fault.     *)
LEMMA WindowFail ==
  ASSUME GuardAssumption, RateInv, NEW w \in Workers, NEW k \in Limited, WindowFails(w, k)
  PROVE  WindowKept(k)'
<1>0. /\ limiter' = limiter /\ now' = now /\ faults' = faults + 1
      /\ UNCHANGED window \/ \E skew \in Skews : window' = Trimmed(k, now + skew)
      /\ held' = [held EXCEPT ![w] = 0]
      /\ \/ Goto(w, k, AfterLimit(k)) /\ Admit(k, now)
         \/ Goto(w, AddStep(k), AfterLimit(k)) /\ admitted' = admitted
  BY Zenon DEF WindowFails, Fault, wiring
<1>1. WorkersTyped /\ k \in Buckets
  BY RateTypes DEF RateInv, Typed
<1>2. AfterLimit(k) # AddStep(k) /\ k # AddStep(k) /\ \E x : held' = [held EXCEPT ![w] = x]
  BY <1>0 DEF AfterLimit, AddStep
<1> SUFFICES ASSUME limiter = "redis", LimitOf[k] > 0, NEW t \in Ticks
             PROVE  /\ now' < t + Interval - MaxSkew =>
                         WithinAll(k, t)' <= Cardinality(Members(window'[k], Span(t)))
                                            + Cardinality(Pending(k, t)') + faults'
                    /\ WithinAll(k, t)' <= LimitOf[k] + Cardinality(Workers) - 1 + faults'
  BY <1>0 DEF WindowKept, Span
<1>3. WithinAll(k, t) \in Nat /\ Cardinality(Pending(k, t)) \in Nat /\ Cardinality(Workers) \in Nat
  BY WindowNumbers, PendingCounts
<1>6. now < t + Interval - MaxSkew =>
        Cardinality(Members(window'[k], Span(t))) = Cardinality(Members(window[k], Span(t)))
  BY <1>0, TrimSpares
<1>4. CASE Goto(w, k, AfterLimit(k)) /\ Admit(k, now)
  <2>1. WithinAll(k, t)' <= WithinAll(k, t) + 1
    BY <1>1, <1>3, <1>4, AdmitCounts DEF RateInv
  <2>2. WithinAll(k, t)' \in Nat
    BY <1>1, <1>3, <1>4, AdmitCounts DEF RateInv
  <2>3. Pending(k, t)' = Pending(k, t)
    <3> HIDE DEF Goto
    <3>1. PICK from, to : from = k /\ to = AfterLimit(k) /\ Goto(w, from, to)
      BY <1>4
    <3>2. from # AddStep(k) /\ to # AddStep(k)
      BY <1>2, <3>1
    <3>3. held' = held \/ \E x : held' = [held EXCEPT ![w] = x]
      BY <1>2
    <3> QED BY <1>1, <3>1, <3>2, <3>3, PendingMoves
  <2> QED BY <1>0, <1>3, <1>6, <2>1, <2>2, <2>3, WindowNumbers
<1>5. CASE Goto(w, AddStep(k), AfterLimit(k)) /\ admitted' = admitted
  <2>1. WithinAll(k, t)' = WithinAll(k, t)
    BY <1>5 DEF WithinAll, Through
  <2>2. Cardinality(Pending(k, t)') >= Cardinality(Pending(k, t)) - 1 /\ Cardinality(Pending(k, t)') \in Nat
    <3>1. Pending(k, t)' = Pending(k, t) \ {w}
      <4> HIDE DEF Goto
      <4>1. Goto(w, AddStep(k), AfterLimit(k)) /\ (held' = held \/ \E x : held' = [held EXCEPT ![w] = x])
        BY <1>2, <1>5
      <4>2. PICK from, to : from = AddStep(k) /\ to = AfterLimit(k) /\ Goto(w, from, to)
        BY <4>1
      <4>3. to # AddStep(k)
        BY <1>2, <4>2
      <4> QED BY <1>1, <4>1, <4>2, <4>3, PendingMoves
    <3>2. IsFiniteSet(Pending(k, t) \ {w}) /\
          Cardinality(Pending(k, t) \ {w}) =
            IF w \in Pending(k, t) THEN Cardinality(Pending(k, t)) - 1 ELSE Cardinality(Pending(k, t))
      BY PendingCounts, FS_RemoveElement
    <3>3. Cardinality(Pending(k, t) \ {w}) \in Nat
      BY <3>2, FS_CardinalityType
    <3> QED BY <1>3, <3>1, <3>2, <3>3
  <2> QED BY <1>0, <1>3, <1>6, <2>1, <2>2, WindowNumbers
<1> QED BY <1>0, <1>4, <1>5

(* A limit is untouched by a worker at the other limit.                    *)
LEMMA OtherLimit ==
  ASSUME GuardAssumption, RateInv, NEW w \in Workers, NEW k \in Limited, NEW j \in Limited, j # k,
         AllowFresh(w, k) \/ AllowLocal(w, k) \/ CountWindow(w, k) \/ AddToWindow(w, k) \/ WindowFails(w, k)
  PROVE  /\ bucket'[j] = bucket[j] /\ admitted'[j] = admitted[j] /\ window'[j] = window[j]
         /\ \A t \in Ticks : Pending(j, t)' = Pending(j, t)
<1>0. k \in Buckets /\ j \in Buckets /\ WorkersTyped
  BY RateTypes DEF RateInv, Typed
<1>1. bucket'[j] = bucket[j]
  <2>1. bucket' = bucket \/ \E b : bucket' = [bucket EXCEPT ![k] = b]
    BY Zenon DEF AllowFresh, AllowLocal, CountWindow, AddToWindow, WindowFails
  <2> QED BY <1>0, <2>1 DEF RateInv, Typed, LimitsTyped, BucketsKept
<1>2. admitted'[j] = admitted[j]
  <2>1. UNCHANGED admitted \/ Admit(k, now)
    BY Zenon DEF AllowFresh, AllowLocal, CountWindow, AddToWindow, WindowFails
  <2> QED BY <1>0, <2>1, AdmitCounts DEF RateInv
<1>3. window'[j] = window[j]
  <2>1. window' = window \/ \E f : window' = [window EXCEPT ![k] = f]
    <3>1. CASE CountWindow(w, k) \/ WindowFails(w, k)
      <4>1. UNCHANGED window \/ \E t : window' = Trimmed(k, t)
        BY <3>1, Zenon DEF CountWindow, WindowFails
      <4> QED BY <4>1 DEF Trimmed
    <3>2. CASE AddToWindow(w, k)
      <4>1. window' = [window EXCEPT ![k] = [window[k] EXCEPT ![held[w]] = window[k][held[w]] + 1]]
        BY <3>2 DEF AddToWindow
      <4> QED BY <4>1
    <3>3. CASE AllowFresh(w, k) \/ AllowLocal(w, k)
      BY <3>3, Zenon DEF AllowFresh, AllowLocal
    <3> QED BY <3>1, <3>2, <3>3
  <2> QED BY <1>0, <2>1 DEF RateInv, Typed, LimitsTyped
<1>4. ASSUME NEW t \in Ticks PROVE Pending(j, t)' = Pending(j, t)
  <2>1. held' = held \/ \E x : held' = [held EXCEPT ![w] = x]
    BY Zenon DEF AllowFresh, AllowLocal, CountWindow, AddToWindow, WindowFails
  <2>2. \E from \in {k, AddStep(k)}, to \in {AddStep(k), AfterLimit(k), "idle"} : Goto(w, from, to)
    <3> HIDE DEF Goto
    <3>1. CASE AllowFresh(w, k) \/ AllowLocal(w, k)
      BY <3>1, Zenon DEF AllowFresh, AllowLocal
    <3>2. CASE CountWindow(w, k)
      BY <3>2, Zenon DEF CountWindow
    <3>3. CASE AddToWindow(w, k) \/ WindowFails(w, k)
      BY <3>3, Zenon DEF AddToWindow, WindowFails
    <3> QED BY <3>1, <3>2, <3>3
  <2>3. PICK from \in {k, AddStep(k)}, to \in {AddStep(k), AfterLimit(k), "idle"} : Goto(w, from, to)
    BY <2>2
  <2>4. from # AddStep(j) /\ to # AddStep(j)
    BY DEF AddStep, AfterLimit
  <2> HIDE DEF Goto
  <2> QED BY <1>0, <2>1, <2>3, <2>4, PendingMoves
<1> QED BY <1>1, <1>2, <1>3, <1>4

(* Only a request that was counted waits to be added, with its reading.    *)
LEMMA ReadingsKept ==
  ASSUME GuardAssumption, RateInv, NEW w \in Workers, Serve(w)
  PROVE  ReadingsHeld'
<1> USE DEF AddStep, AfterLimit
<1>0. WorkersTyped /\ ReadingsHeld
  BY RateTypes DEF RateInv, Typed
<1>1. \E to \in Steps :
        /\ at' = [at EXCEPT ![w] = to]
        /\ to \in {"routeAdd", "userAdd"} => \E r \in Readings : held' = [held EXCEPT ![w] = r]
        /\ held' = held \/ \E x : held' = [held EXCEPT ![w] = x]
  <2>1. CASE Arrive(w) \/ Handle(w) \/ Panic(w) \/ Challenge(w)
    BY <2>1 DEF Arrive, Handle, Panic, Challenge
  <2>2. CASE Break(w)
    BY <2>2 DEF Break, BreakerUnshared, BreakerPasses, BreakerProbes, BreakerRefuses, Observe
  <2>3. CASE CheckAnswer(w)
    <3>1. PICK n \in 1 .. issued :
            /\ Goto(w, "handler", IF answer = n THEN "consume" ELSE "succeeded")
            /\ held' = [held EXCEPT ![w] = IF answer = n THEN n ELSE 0]
      BY <2>3 DEF CheckAnswer
    <3> QED BY <3>1
  <2>4. CASE ConsumeAnswer(w) \/ ConsumeFails(w) \/ SkipCheck(w)
    BY <2>4 DEF ConsumeAnswer, ConsumeFails, SkipCheck
  <2>5. CASE TryAcquire(w) \/ TryAcquireFails(w)
    BY <2>5 DEF TryAcquire, TryAcquireFails
  <2>6. CASE Limit(w)
    <3> PICK k \in Limited : NoRule(w, k) \/ AllowFresh(w, k) \/ AllowLocal(w, k) \/ CountWindow(w, k)
                             \/ AddToWindow(w, k) \/ WindowFails(w, k)
      BY <2>6 DEF Limit
    <3>1. CASE NoRule(w, k) \/ AllowFresh(w, k)
      BY <3>1 DEF NoRule, AllowFresh
    <3>2. CASE AllowLocal(w, k)
      <4>1. held' = held /\ \E to \in {"user", "breaker", "idle"} : at' = [at EXCEPT ![w] = to]
        BY <3>2, Zenon DEF AllowLocal
      <4> QED BY <4>1
    <3>3. CASE CountWindow(w, k)
      <4>1. PICK skew \in Skews :
              /\ Goto(w, k, IF Live(k, now + skew) < LimitOf[k] THEN AddStep(k) ELSE "idle")
              /\ IF Live(k, now + skew) < LimitOf[k]
                 THEN held' = [held EXCEPT ![w] = now + skew]
                 ELSE UNCHANGED held
        BY <3>3 DEF CountWindow
      <4>2. now + skew \in Readings
        BY RateTypes DEF RateInv
      <4>3. CASE Live(k, now + skew) < LimitOf[k]
        BY <4>1, <4>2, <4>3
      <4>4. CASE ~(Live(k, now + skew) < LimitOf[k])
        BY <4>1, <4>4
      <4> QED BY <4>3, <4>4
    <3>4. CASE AddToWindow(w, k) \/ WindowFails(w, k)
      BY <3>4 DEF AddToWindow, WindowFails
    <3> QED BY <3>1, <3>2, <3>3, <3>4
  <2> QED BY <2>1, <2>2, <2>3, <2>4, <2>5, <2>6 DEF Serve, PartIn
<1>2. PICK to \in Steps :
        /\ at' = [at EXCEPT ![w] = to]
        /\ to \in {"routeAdd", "userAdd"} => \E r \in Readings : held' = [held EXCEPT ![w] = r]
        /\ held' = held \/ \E x : held' = [held EXCEPT ![w] = x]
  BY <1>1
<1>3. ASSUME NEW v \in Workers, at'[v] \in {"routeAdd", "userAdd"} PROVE held'[v] \in Readings
  <2>1. CASE v = w
    <3>1. at'[w] = to
      BY <1>0, <1>2 DEF WorkersTyped
    <3> QED BY <1>0, <1>2, <1>3, <2>1, <3>1 DEF WorkersTyped
  <2>2. CASE v # w
    BY <1>0, <1>2, <1>3, <2>2 DEF WorkersTyped, ReadingsHeld
  <2> QED BY <2>1, <2>2
<1>4. Readings' = Readings
  BY DEF Readings
<1> QED BY <1>3, <1>4 DEF ReadingsHeld

(* A step that lets nobody through and adds nothing.                       *)
LEMMA QuietStep ==
  ASSUME GuardAssumption, RateInv, Typed', ReadingsHeld',
         UNCHANGED <<limiter, bucket, window, admitted, backs>>,
         now <= now', faults <= faults',
         \A k \in Limited, t \in Ticks : Pending(k, t)' = Pending(k, t)
  PROVE  RateInv'
<1>1. now' \in Nat /\ faults' \in Nat
  BY DEF Typed, CountsTyped, Ticks, GuardAssumption
<1>2. EntryPaid'
  BY <1>1, EntrySame
<1>3. ASSUME NEW k \in Limited PROVE LocalPaid(k)' /\ WindowKept(k)'
  BY <1>1, LocalSame, WindowSame
<1> QED BY <1>2, <1>3 DEF RateInv

(* A step keeps the fault count, or raises it.                             *)
LEMMA FaultsGrow ==
  ASSUME GuardAssumption, Typed, NoFault \/ \E kind \in FaultKinds : Fault(kind)
  PROVE  faults <= faults' /\ faults' \in Nat
BY DEF GuardAssumption, Typed, CountsTyped, NoFault, Fault

(* The limiter's steps, one limit at a time.                               *)
LEMMA LimitRates ==
  ASSUME GuardAssumption, RateInv, Typed', NEW w \in Workers, Limit(w)
  PROVE  RateInv'
<1> PICK k \in Limited : NoRule(w, k) \/ AllowFresh(w, k) \/ AllowLocal(w, k) \/ CountWindow(w, k)
                         \/ AddToWindow(w, k) \/ WindowFails(w, k)
  BY DEF Limit
<1>0. Typed /\ WorkersTyped /\ k \in Buckets /\ k # "entry" /\ "entry" \in Buckets
  BY RateTypes DEF RateInv, Typed
<1>1. ReadingsHeld'
  BY ReadingsKept DEF Serve
<1>2. limiter' = limiter /\ now' = now /\ now \in Nat /\ now' \in Nat /\ now <= now' /\ UNCHANGED backs
  <2>1. limiter' = limiter /\ now' = now /\ UNCHANGED backs
    BY DEF NoRule, AllowFresh, AllowLocal, CountWindow, AddToWindow, WindowFails, wiring, limitVars
  <2>2. now \in Nat
    BY RateTypes DEF RateInv
  <2> QED BY <2>1, <2>2
<1>3. faults <= faults' /\ faults' \in Nat
  <2>1. NoFault \/ Fault("lost") \/ Fault("error")
    BY Zenon DEF NoRule, AllowFresh, AllowLocal, CountWindow, AddToWindow, WindowFails
  <2> QED BY <1>0, <2>1, FaultsGrow DEF FaultKinds
<1>4. CASE NoRule(w, k)
  <2>1. \A j \in Limited, t \in Ticks : Pending(j, t)' = Pending(j, t)
    <3>1. PICK to \in {"user", "breaker"} : Goto(w, k, to)
      BY <1>4 DEF NoRule, AfterLimit
    <3>2. held' = held
      BY <1>4 DEF NoRule
    <3>3. \A j \in Limited : k # AddStep(j) /\ to # AddStep(j)
      BY DEF AddStep
    <3> HIDE DEF Goto
    <3> QED BY <1>0, <3>1, <3>2, <3>3, PendingMoves
  <2> QED BY <1>0, <1>1, <1>2, <1>3, <1>4, <2>1, QuietStep DEF NoRule, limitVars
<1>5. CASE ~NoRule(w, k)
  <2>1. AllowFresh(w, k) \/ AllowLocal(w, k) \/ CountWindow(w, k) \/ AddToWindow(w, k) \/ WindowFails(w, k)
    BY <1>5
  <2>2. ASSUME NEW j \in Limited, j # k PROVE LocalPaid(j)' /\ WindowKept(j)'
    BY <1>2, <1>3, <2>1, <2>2, OtherLimit, LocalSame, WindowSame
  <2>3. EntryPaid'
    <3>1. admitted'["entry"] = admitted["entry"]
      <4>1. UNCHANGED admitted \/ Admit(k, now)
        BY <2>1, Zenon DEF AllowFresh, AllowLocal, CountWindow, AddToWindow, WindowFails
      <4> QED BY <1>0, <4>1, AdmitCounts
    <3>2. bucket'["entry"] = bucket["entry"]
      <4>1. bucket' = bucket \/ \E b : bucket' = [bucket EXCEPT ![k] = b]
        BY <2>1, Zenon DEF AllowFresh, AllowLocal, CountWindow, AddToWindow, WindowFails
      <4> QED BY <1>0, <4>1 DEF Typed, LimitsTyped, BucketsKept
    <3> QED BY <1>2, <1>3, <3>1, <3>2, EntrySame
  <2>4. LocalPaid(k)'
    <3>1. CASE AllowLocal(w, k)
      BY <3>1, LocalStep
    <3>2. CASE AllowFresh(w, k) \/ CountWindow(w, k)
      <4>1. limiter # "local"
        BY <3>2 DEF AllowFresh, CountWindow
      <4> QED BY <1>2, <4>1, LocalSame
    <3>3. CASE AddToWindow(w, k)
      <4>1. UNCHANGED <<bucket, admitted>>
        BY <3>3 DEF AddToWindow
      <4> QED BY <1>2, <4>1, LocalSame
    <3>4. CASE WindowFails(w, k)
      <4>1. bucket' = bucket /\ (admitted' = admitted \/ limiter # "local")
        BY <3>4 DEF WindowFails
      <4> QED BY <1>2, <4>1, LocalSame
    <3> QED BY <2>1, <3>1, <3>2, <3>3, <3>4
  <2>5. WindowKept(k)'
    <3>1. CASE AllowFresh(w, k) \/ AllowLocal(w, k)
      <4>1. limiter # "redis"
        BY <3>1 DEF AllowFresh, AllowLocal
      <4> QED BY <1>2, <1>3, <4>1, WindowSame
    <3>2. CASE CountWindow(w, k)
      BY <3>2, WindowCount
    <3>3. CASE AddToWindow(w, k)
      BY <1>3, <3>3, WindowAdd
    <3>4. CASE WindowFails(w, k)
      BY <3>4, WindowFail
    <3> QED BY <2>1, <3>1, <3>2, <3>3, <3>4
  <2> QED BY <1>1, <2>2, <2>3, <2>4, <2>5 DEF RateInv
<1> QED BY <1>4, <1>5

(* The user's bucket, behind the part-in pre-check.                        *)
LEMMA EntryRates ==
  ASSUME GuardAssumption, RateInv, Typed', NEW w \in Workers, TryAcquire(w) \/ TryAcquireFails(w)
  PROVE  RateInv'
<1>0. Typed /\ WorkersTyped /\ "entry" \in Buckets /\ Limited \subseteq Buckets /\ now \in Nat
  BY RateTypes DEF RateInv, Typed
<1>1. ReadingsHeld'
  BY ReadingsKept DEF Serve, PartIn
<1>2. limiter' = limiter /\ now' = now /\ held' = held /\ window' = window
  BY DEF TryAcquire, TryAcquireFails, wiring
<1>3. faults <= faults' /\ faults' \in Nat
  <2>1. NoFault \/ Fault("lost") \/ Fault("error")
    BY DEF TryAcquire, TryAcquireFails
  <2> QED BY <1>0, <2>1, FaultsGrow DEF FaultKinds
<1>4. EntryPaid'
  BY EntryStep
<1>5. ASSUME NEW j \in Limited PROVE LocalPaid(j)' /\ WindowKept(j)'
  <2>1. admitted'[j] = admitted[j]
    <3>1. UNCHANGED admitted \/ Admit("entry", now)
      BY Zenon DEF TryAcquire, ChargeUser, TryAcquireFails
    <3> QED BY <1>0, <3>1, AdmitCounts
  <2>2. bucket'[j] = bucket[j]
    <3>1. bucket' = bucket \/ \E b : bucket' = [bucket EXCEPT !["entry"] = b]
      BY Zenon DEF TryAcquire, ChargeUser, TryAcquireFails
    <3> QED BY <1>0, <3>1 DEF Typed, LimitsTyped, BucketsKept
  <2>3. \A t \in Ticks : Pending(j, t)' = Pending(j, t)
    <3>1. \E from, to \in Handling : Goto(w, from, to)
      BY DEF TryAcquire, TryAcquireFails
    <3>2. PICK from, to \in Handling : Goto(w, from, to)
      BY <3>1
    <3>3. from # AddStep(j) /\ to # AddStep(j)
      BY DEF AddStep
    <3> HIDE DEF Goto
    <3> QED BY <1>0, <1>2, <3>2, <3>3, PendingMoves
  <2> QED BY <1>0, <1>2, <1>3, <2>1, <2>2, <2>3, LocalSame, WindowSame
<1> QED BY <1>1, <1>4, <1>5 DEF RateInv

(* The other steps of a worker.                                            *)
LEMMA OtherRates ==
  ASSUME GuardAssumption, RateInv, Typed', NEW w \in Workers,
         Arrive(w) \/ Break(w) \/ Handle(w) \/ Panic(w) \/ Challenge(w) \/ CheckAnswer(w)
         \/ ConsumeAnswer(w) \/ ConsumeFails(w) \/ SkipCheck(w)
  PROVE  RateInv'
<1>0. Typed /\ WorkersTyped /\ now \in Nat
  BY RateTypes DEF RateInv, Typed
<1>1. ReadingsHeld'
  BY ReadingsKept DEF Serve, PartIn
<1>2. UNCHANGED <<limiter, now, bucket, window, admitted, backs>>
  BY DEF Arrive, Break, BreakerUnshared, BreakerPasses, BreakerProbes, BreakerRefuses, Observe, Handle,
         Panic, Challenge, CheckAnswer, ConsumeAnswer, ConsumeFails, SkipCheck, wiring, limitVars
<1>3. faults <= faults'
  <2>1. NoFault \/ Fault("lost") \/ Fault("error") \/ Fault("panic")
    BY DEF Arrive, Break, BreakerUnshared, BreakerPasses, BreakerProbes, BreakerRefuses, Observe, Handle,
           Panic, Challenge, CheckAnswer, ConsumeAnswer, ConsumeFails, SkipCheck
  <2> QED BY <1>0, <2>1, FaultsGrow DEF FaultKinds
<1>4. held' = held \/ \E x : held' = [held EXCEPT ![w] = x]
  BY Zenon DEF Arrive, Break, BreakerUnshared, BreakerPasses, BreakerProbes, BreakerRefuses, Observe, Handle,
         Panic, Challenge, CheckAnswer, ConsumeAnswer, ConsumeFails, SkipCheck
<1>5. \E from, to \in Handling \cup {"idle", "route", "breaker"} : Goto(w, from, to)
  <2>1. CASE Arrive(w) \/ Handle(w) \/ Panic(w)
    BY <2>1 DEF Arrive, Handle, Panic
  <2>2. CASE Challenge(w)
    BY <2>2 DEF Challenge
  <2>3. CASE CheckAnswer(w)
    BY <2>3 DEF CheckAnswer
  <2>4. CASE ConsumeAnswer(w) \/ ConsumeFails(w) \/ SkipCheck(w)
    BY <2>4 DEF ConsumeAnswer, ConsumeFails, SkipCheck
  <2>5. CASE BreakerUnshared(w) \/ BreakerPasses(w) \/ BreakerProbes(w) \/ BreakerRefuses(w)
    BY <2>5 DEF BreakerUnshared, BreakerPasses, BreakerProbes, BreakerRefuses
  <2>6. CASE Observe(w)
    BY <2>6 DEF Observe
  <2> QED BY <2>1, <2>2, <2>3, <2>4, <2>5, <2>6 DEF Break
<1>6. PICK from, to \in Handling \cup {"idle", "route", "breaker"} : Goto(w, from, to)
  BY <1>5
<1>7. \A j \in Limited : from # AddStep(j) /\ to # AddStep(j)
  BY DEF AddStep
<1>8. \A j \in Limited, t \in Ticks : Pending(j, t)' = Pending(j, t)
  <2> HIDE DEF Goto
  <2> QED BY <1>0, <1>4, <1>6, <1>7, PendingMoves
<1> QED BY <1>0, <1>1, <1>2, <1>3, <1>8, QuietStep

LEMMA RateStep == ASSUME GuardAssumption, RateInv, [Next]_vars PROVE RateInv'
<1>0. Typed /\ Typed' /\ now \in Nat
  BY TypedStep, RateTypes DEF RateInv
<1>1. ASSUME NEW w \in Workers, Serve(w) PROVE RateInv'
  BY <1>0, <1>1, LimitRates, EntryRates, OtherRates DEF Serve, PartIn
<1>2. CASE AnswerExpires \/ Tick \/ UNCHANGED vars
  <2>1. UNCHANGED <<limiter, at, held, bucket, window, admitted, backs>>
    BY <1>2 DEF AnswerExpires, Tick, vars, wiring, limitVars
  <2>2. now <= now'
    BY <1>0, <1>2 DEF AnswerExpires, Tick, vars
  <2>3. faults <= faults'
    <3>1. NoFault \/ Fault("ttl")
      BY <1>2 DEF AnswerExpires, Tick, vars, NoFault
    <3> QED BY <1>0, <3>1, FaultsGrow DEF FaultKinds
  <2>4. ReadingsHeld'
    BY <2>1 DEF RateInv, ReadingsHeld, Readings
  <2>5. \A j \in Limited, t \in Ticks : Pending(j, t)' = Pending(j, t)
    BY <2>1 DEF Pending, AddStep, Span
  <2> QED BY <1>0, <2>1, <2>2, <2>3, <2>4, <2>5, QuietStep
<1> QED BY <1>1, <1>2 DEF Next

LEMMA RateInit == ASSUME GuardAssumption, Init PROVE RateInv
<1>0. /\ now = 0 /\ faults = 0 /\ backs = 0 /\ MaxSkew \in Nat /\ Interval \in Nat /\ Interval >= 1
      /\ Ticks \subseteq Nat /\ Limited \subseteq Buckets /\ "entry" \in Buckets
      /\ LimitOf["entry"] = EntryRate /\ \A k \in Buckets : LimitOf[k] \in Nat
      /\ \A k \in Buckets : bucket[k] = [tokens |-> Full(k), last |-> 0]
      /\ \A k \in Buckets, s \in Readings : admitted[k][s] = 0
      /\ \A w \in Workers : at[w] = "idle"
  BY DEF Init, GuardAssumption, Ticks, Buckets, LimitOf
<1>1. Typed
  BY TypedInit
<1>7. \A k \in Buckets : bucket[k].last = 0 /\ bucket[k].tokens = Full(k)
  BY DEF Init
<1>2. ReadingsHeld
  BY <1>0 DEF ReadingsHeld
<1>3. ASSUME NEW k \in Buckets, NEW t \in Ticks PROVE Within(k, t) = 0 /\ WithinAll(k, t) = 0
  <2>1. \A span : Members(admitted[k], span) = {}
    BY <1>0 DEF Members
  <2> QED BY <2>1, FS_EmptySet DEF Within, WithinAll, Through
<1>4. ASSUME NEW k \in Buckets, NEW t \in Ticks, NEW d \in Nat
      PROVE  Paid(0, bucket[k], t, LimitOf[k], d, 0, 0)
  <2> DEFINE n == LimitOf[k]
  <2>1. n \in Nat /\ t \in Nat /\ bucket[k].last = 0 /\ bucket[k].tokens = n * Interval
    BY <1>0, <1>7 DEF Full
  <2> HIDE DEF n
  <2>2. n * (2 * Interval - 1 + d * (1 + 0)) = n * Interval + n * (Interval - 1 + d) + n * (d * 0)
        /\ n * Interval \in Nat /\ n * (Interval - 1 + d) \in Nat /\ n * (d * 0) \in Nat
    BY <2>1, CapSplits
  <2>3. 0 * Interval = 0
    BY <1>0
  <2>4. bucket[k].last >= t => n * (bucket[k].last - t) = 0
    BY <2>1
  <2>5. bucket[k].last < t => 0 <= 0
    OBVIOUS
  <2>6. bucket[k].last >= t =>
          0 * Interval + bucket[k].tokens
            <= n * Interval + n * (bucket[k].last - t) + n * (d * 0) + 0 * Interval
    BY <2>1, <2>2, <2>3, <2>4
  <2>7. 0 * Interval <= n * (2 * Interval - 1 + d * (1 + 0)) + 0 * Interval
    BY <2>2, <2>3
  <2> QED BY <2>5, <2>6, <2>7 DEF Paid, n
<1>5. EntryPaid
  <2>1. ASSUME NEW t \in Ticks
        PROVE  Paid(Within("entry", t), bucket["entry"], t, EntryRate, MaxSkew, backs, faults)
    <3>1. Paid(0, bucket["entry"], t, LimitOf["entry"], MaxSkew, 0, 0)
      BY <1>0, <1>4
    <3>2. Within("entry", t) = 0
      BY <1>0, <1>3
    <3> QED BY <1>0, <3>1, <3>2
  <2>2. bucket["entry"].last <= now + MaxSkew
    <3>1. bucket["entry"].last = 0
      BY <1>0, <1>7
    <3> QED BY <1>0, <3>1
  <2>3. \A s \in Readings : s > now => admitted["entry"][s] = 0
    BY <1>0
  <2> QED BY <2>1, <2>2, <2>3 DEF EntryPaid
<1>6. ASSUME NEW k \in Limited PROVE LocalPaid(k) /\ WindowKept(k)
  <2>1. LocalPaid(k)
    <3>1. \A t \in Ticks : Paid(Within(k, t), bucket[k], t, LimitOf[k], 0, 0, 0)
      <4> SUFFICES ASSUME NEW t \in Ticks PROVE Paid(Within(k, t), bucket[k], t, LimitOf[k], 0, 0, 0)
        OBVIOUS
      <4>1. PICK d \in Nat : d = 0
        OBVIOUS
      <4>2. Paid(0, bucket[k], t, LimitOf[k], d, 0, 0)
        BY <1>0, <1>4
      <4>3. Within(k, t) = 0
        BY <1>0, <1>3
      <4> QED BY <4>1, <4>2, <4>3
    <3>2. bucket[k].last = 0
      BY <1>0, <1>7
    <3> QED BY <1>0, <3>1, <3>2 DEF LocalPaid
  <2>2. WindowKept(k)
    <3> SUFFICES ASSUME LimitOf[k] > 0, NEW t \in Ticks
                 PROVE  /\ WithinAll(k, t) <= Cardinality(Members(window[k], Span(t)))
                                             + Cardinality(Pending(k, t)) + faults
                        /\ WithinAll(k, t) <= LimitOf[k] + Cardinality(Workers) - 1 + faults
      BY DEF WindowKept
    <3>1. Cardinality(Members(window[k], Span(t))) \in Nat
      BY <1>1, RateTypes, MembersFinite
    <3>2. Cardinality(Pending(k, t)) \in Nat /\ Cardinality(Workers) \in Nat
      BY PendingCounts
    <3> QED BY <1>0, <1>3, <3>1, <3>2
  <2> QED BY <2>1, <2>2
<1> QED BY <1>1, <1>2, <1>5, <1>6 DEF RateInv

(* In any Interval a bucket lets through its bound and no more, and in the *)
(* ticks that all gateways' windows share so does the sliding window, for  *)
(* every limit, number of goroutines, clock skew and fault.                *)
THEOREM RatesHold == ASSUME GuardAssumption PROVE Spec => []RateHolds
<1>1. Init => RateInv
  BY RateInit
<1>2. RateInv /\ [Next]_vars => RateInv'
  BY RateStep
<1>3. RateInv => RateHolds
  <2> SUFFICES ASSUME RateInv, NEW t \in Ticks
               PROVE  /\ \A k \in Limited : LimitOf[k] > 0 =>
                           /\ limiter = "local" =>
                                Within(k, t) * Interval <= LimitOf[k] * (2 * Interval - 1)
                           /\ limiter = "redis" =>
                                WithinAll(k, t) <= LimitOf[k] + Cardinality(Workers) - 1 + faults
                      /\ Within("entry", t) * Interval
                           <= EntryRate * (2 * Interval - 1 + MaxSkew * (1 + backs)) + faults * Interval
    BY DEF RateHolds
  <2>1. ASSUME NEW k \in Limited, LimitOf[k] > 0, limiter = "local"
        PROVE  Within(k, t) * Interval <= LimitOf[k] * (2 * Interval - 1)
    <3>1. Within(k, t) * Interval <= LimitOf[k] * (2 * Interval - 1 + 0 * (1 + 0)) + 0 * Interval
      BY <2>1 DEF RateInv, LocalPaid, Paid
    <3>2. Interval \in Nat /\ 0 * (1 + 0) = 0 /\ 0 * Interval = 0
      BY DEF GuardAssumption
    <3>3. LimitOf[k] * (2 * Interval - 1) \in Int
      BY <3>2, RateTypes, Distribute DEF RateInv
    <3>4. 2 * Interval - 1 + 0 = 2 * Interval - 1
      BY <3>2
    <3> QED BY <3>1, <3>2, <3>3, <3>4
  <2>2. ASSUME NEW k \in Limited, LimitOf[k] > 0, limiter = "redis"
        PROVE  WithinAll(k, t) <= LimitOf[k] + Cardinality(Workers) - 1 + faults
    BY <2>2 DEF RateInv, WindowKept
  <2>3. Within("entry", t) * Interval
          <= EntryRate * (2 * Interval - 1 + MaxSkew * (1 + backs)) + faults * Interval
    BY DEF RateInv, EntryPaid, Paid
  <2> QED BY <2>1, <2>2, <2>3
<1> QED BY <1>1, <1>2, <1>3, PTL DEF Spec

=============================================================================
