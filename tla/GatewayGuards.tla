---------------------------- MODULE GatewayGuards ----------------------------
(***************************************************************************)
(* What stands between a request and its handler in seckill-gateway, for   *)
(* one route and one user: the rate limits of the route and of the user,   *)
(* over a token bucket in the process or a sliding window in Redis; the    *)
(* circuit breaker of the route; and, inside the part-in handler, the      *)
(* machine check and the user's token bucket in Redis.                     *)
(*                                                                         *)
(* What is in the process belongs to one gateway.  What is in Redis serves *)
(* every gateway, and each brings the reading of its own clock: up to      *)
(* MaxSkew ahead of the slowest clock, which is the clock of the model.    *)
(*                                                                         *)
(* Time is counted in ticks.  A bucket is counted in 1/Interval of a       *)
(* token, so that a limit of n per Interval refills n of them per tick.    *)
(***************************************************************************)
EXTENDS Integers, FiniteSets

CONSTANTS
  Workers,        \* goroutines that serve requests
  RouteLimit,     \* requests per Interval on the route, 0 when there is no rule
  UserLimit,      \* requests per Interval of the user, 0 when there is no rule
  EntryRate,      \* part-in calls per Interval of the user
  Interval,       \* length of every window, in ticks
  Threshold,      \* failures in a row that open the breaker
  Timeout,        \* ticks until an open breaker lets a probe through
  Deployments,    \* triples: the limiter's store, the breaker's wiring, the route
  MaxSkew,        \* how far the clocks of two gateways may be apart
  MaxTime,        \* bound on the clock
  MaxRequests,    \* bound on the requests of one behaviour
  MaxChallenges,  \* bound on the challenges of one behaviour
  Faults,         \* the kinds of fault the environment may inject
  MaxFaults       \* how many faults it injects in one behaviour

LimiterKinds == {"off", "local", "redis", "perRequest"}
ControllerKinds == {"off", "shared", "perRequest"}
Routes == {"partIn", "other"}   \* part-in with its pre-check, or any other route
FaultKinds ==
  { "error",   \* a Redis call fails and had no effect
    "lost",    \* a Redis call takes effect but its reply is an error
    "ttl",     \* an answer expires
    "panic" }  \* the handler panics; gin.Recovery answers 500

Limited == {"route", "user"}
Buckets == Limited \cup {"entry"}
LimitOf == [k \in Buckets |->
              CASE k = "route" -> RouteLimit [] k = "user" -> UserLimit [] OTHER -> EntryRate]
Ticks == 0 .. MaxTime
Skews == 0 .. MaxSkew
Readings == 0 .. MaxTime + MaxSkew   \* what the gateways' clocks may show

ASSUME GuardAssumption ==
  /\ IsFiniteSet(Workers)
  /\ LimitOf \in [Buckets -> Nat]
  /\ EntryRate > 0
  /\ Interval \in Nat \ {0}
  /\ Threshold \in Nat \ {0}
  /\ Timeout \in Nat
  /\ Deployments \subseteq LimiterKinds \X ControllerKinds \X Routes
  /\ MaxSkew \in Nat
  /\ MaxTime \in Nat
  /\ MaxRequests \in Nat
  /\ MaxChallenges \in Nat
  /\ Faults \subseteq FaultKinds
  /\ MaxFaults \in Nat

VARIABLES
  limiter,     \* the store this gateway's limiter was built with
  controller,  \* how this gateway's breaker was wired
  serving,     \* the route the requests are for
  now,         \* the clock
  at,          \* the step of each worker
  held,        \* the clock reading or the answer a worker carries to its next step
  bucket,      \* the token buckets
  window,      \* the sliding windows in Redis: entries per reading they carry
  breaker,     \* the breaker of the route
  answer,      \* the stored answer of the user's challenge, 0 when there is none
  issued,      \* challenges issued
  served,      \* requests so far
  admitted,    \* requests each limit let through, per tick
  sinceOpen,   \* workers the breaker admitted since it last opened
  panicked,    \* one of these never reported back
  backs,       \* how often the entry bucket's clock stepped back
  faults       \* how many faults so far

wiring == <<limiter, controller, serving>>
limitVars == <<bucket, window, admitted, backs>>
breakerVars == <<breaker, sinceOpen, panicked>>
checkVars == <<answer, issued>>
vars == <<wiring, now, at, held, limitVars, breakerVars, checkVars, served, faults>>

Fault(kind) ==
  /\ kind \in Faults
  /\ faults < MaxFaults
  /\ faults' = faults + 1

NoFault == UNCHANGED faults

Goto(w, from, to) == at[w] = from /\ at' = [at EXCEPT ![w] = to]

Full(k) == LimitOf[k] * Interval

Init ==
  /\ \E d \in Deployments : limiter = d[1] /\ controller = d[2] /\ serving = d[3]
  /\ now = 0
  /\ at = [w \in Workers |-> "idle"]
  /\ held = [w \in Workers |-> 0]
  /\ bucket = [k \in Buckets |-> [tokens |-> Full(k), last |-> 0]]
  /\ window = [k \in Limited |-> [t \in Readings |-> 0]]
  /\ breaker = [state |-> "closed", failures |-> 0, openedAt |-> 0, busy |-> FALSE]
  /\ answer = 0
  /\ issued = 0
  /\ served = 0
  /\ admitted = [k \in Buckets |-> [t \in Readings |-> 0]]
  /\ sinceOpen = {}
  /\ panicked = FALSE
  /\ backs = 0
  /\ faults = 0

-----------------------------------------------------------------------------
(* The rate limiter: the route's limit first, then the user's.             *)

AfterLimit(k) == IF k = "route" THEN "user" ELSE "breaker"

Admit(k, t) == admitted' = [admitted EXCEPT ![k][t] = @ + 1]

Arrive(w) ==
  /\ served < MaxRequests
  /\ Goto(w, "idle", IF limiter = "off" THEN "breaker" ELSE "route")
  /\ served' = served + 1
  /\ NoFault
  /\ UNCHANGED <<wiring, now, held, limitVars, breakerVars, checkVars>>

(* No rule for the route, or none for the user; or the request names no    *)
(* user, and a limit per user passes it by.                                *)
NoRule(w, k) ==
  /\ limiter # "off"
  /\ LimitOf[k] = 0 \/ k = "user"
  /\ Goto(w, k, AfterLimit(k))
  /\ NoFault
  /\ UNCHANGED <<wiring, now, held, limitVars, breakerVars, checkVars, served>>

(* main.go gives the middleware no store: every request brings a new one,  *)
(* whose buckets are full.                                                 *)
AllowFresh(w, k) ==
  /\ limiter = "perRequest"
  /\ LimitOf[k] > 0
  /\ Goto(w, k, AfterLimit(k))
  /\ Admit(k, now)
  /\ NoFault
  /\ UNCHANGED <<wiring, now, held, bucket, window, backs, breakerVars, checkVars, served>>

(* Mutant: the refill is not capped. *)
RefilledUncapped(b, n, t) == b.tokens + (IF t > b.last THEN t - b.last ELSE 0) * n

(* What bucket b of limit n holds at time t.                               *)
Refilled(b, n, t) ==
  LET tokens == b.tokens + (IF t > b.last THEN t - b.last ELSE 0) * n
  IN  IF tokens > n * Interval THEN n * Interval ELSE tokens

(* LocalRateLimitStore and ShardedRateLimitStore: a bucket behind a mutex. *)
AllowLocal(w, k) ==
  LET n == LimitOf[k]
      tokens == Refilled(bucket[k], n, now)
      allowed == tokens >= Interval
  IN  /\ limiter = "local"
      /\ n > 0
      /\ Goto(w, k, IF allowed THEN AfterLimit(k) ELSE "idle")
      /\ bucket' = [bucket EXCEPT ![k] =
                      [tokens |-> IF allowed THEN tokens - Interval ELSE tokens, last |-> now]]
      /\ IF allowed THEN Admit(k, now) ELSE UNCHANGED admitted
      /\ NoFault
      /\ UNCHANGED <<wiring, now, held, window, backs, breakerVars, checkVars, served>>

AddStep(k) == IF k = "route" THEN "routeAdd" ELSE "userAdd"

(* The members of f scored in span, when f[s] of them have score s: each   *)
(* call adds a member of its own, its score and a random number.           *)
Members(f, span) == UNION {{s} \X (1 .. f[s]) : s \in Readings \cap span}

(* Mutant: the entry on the border of the window is not counted. *)
LiveNarrow(k, t) == Cardinality(Members(window[k], t - Interval + 2 .. MaxTime + MaxSkew))

(* What a gateway reading t counts: all that its trimming leaves, the      *)
(* entries of faster gateways that lie ahead of t among them.              *)
Live(k, t) == Cardinality(Members(window[k], t - Interval + 1 .. MaxTime + MaxSkew))

Trimmed(k, t) ==
  [window EXCEPT ![k] = [s \in Readings |-> IF s > t - Interval THEN window[k][s] ELSE 0]]

(* RedisRateLimitStore: the first pipeline drops what left the window of   *)
(* this gateway's clock and counts the rest ...                            *)
CountWindow(w, k) ==
  \E skew \in Skews :
    LET t == now + skew
        room == Live(k, t) < LimitOf[k]
    IN  /\ limiter = "redis"
        /\ LimitOf[k] > 0
        /\ Goto(w, k, IF room THEN AddStep(k) ELSE "idle")
        /\ window' = Trimmed(k, t)
        /\ IF room
           THEN held' = [held EXCEPT ![w] = t] /\ Admit(k, now)
           ELSE UNCHANGED <<held, admitted>>
        /\ NoFault
        /\ UNCHANGED <<wiring, now, bucket, backs, breakerVars, checkVars, served>>

(* ... and the second adds the request under the reading of the first.     *)
(* The key outlives the window by five seconds, so its expiry drops        *)
(* nothing that any of the bounds below counts.                            *)
AddToWindow(w, k) ==
  /\ Goto(w, AddStep(k), AfterLimit(k))
  /\ window' = [window EXCEPT ![k][held[w]] = @ + 1]
  /\ held' = [held EXCEPT ![w] = 0]
  /\ Fault("lost") \/ NoFault
  /\ UNCHANGED <<wiring, now, bucket, admitted, backs, breakerVars, checkVars, served>>

(* Either pipeline fails open; the first may have trimmed.                 *)
WindowFails(w, k) ==
  /\ \/ /\ limiter = "redis"
        /\ LimitOf[k] > 0
        /\ Goto(w, k, AfterLimit(k))
        /\ Admit(k, now)
        /\ \/ Fault("error") /\ UNCHANGED window
           \/ Fault("lost") /\ \E skew \in Skews : window' = Trimmed(k, now + skew)
     \/ /\ Goto(w, AddStep(k), AfterLimit(k))
        /\ Fault("error")
        /\ UNCHANGED <<window, admitted>>
  /\ held' = [held EXCEPT ![w] = 0]
  /\ UNCHANGED <<wiring, now, bucket, backs, breakerVars, checkVars, served>>

-----------------------------------------------------------------------------
(* The circuit breaker of the route.                                       *)

Opened(b, t) == [b EXCEPT !.state = "open", !.openedAt = t, !.failures = 0, !.busy = FALSE]
Closed(b) == [b EXCEPT !.state = "closed", !.failures = 0, !.busy = FALSE]

(* A controller of one request is closed when it is asked.                 *)
BreakerUnshared(w) ==
  /\ controller # "shared"
  /\ Goto(w, "breaker", "handler")
  /\ NoFault
  /\ UNCHANGED <<wiring, now, held, limitVars, breakerVars, checkVars, served>>

BreakerPasses(w) ==
  /\ controller = "shared"
  /\ breaker.state = "closed"
  /\ Goto(w, "breaker", "handler")
  /\ NoFault
  /\ UNCHANGED <<wiring, now, held, limitVars, breakerVars, checkVars, served>>

(* One probe when an open breaker has waited long enough, and one whenever *)
(* a half-open breaker is free.                                            *)
ProbeAllowed ==
  \/ breaker.state = "open" /\ now - breaker.openedAt >= Timeout
  \/ breaker.state = "halfOpen" /\ ~breaker.busy

BreakerProbes(w) ==
  /\ controller = "shared"
  /\ ProbeAllowed
  /\ Goto(w, "breaker", "handler")
  /\ breaker' = [breaker EXCEPT !.state = "halfOpen", !.busy = TRUE]
  /\ sinceOpen' = sinceOpen \cup {w}
  /\ NoFault
  /\ UNCHANGED <<wiring, now, held, limitVars, panicked, checkVars, served>>

BreakerRefuses(w) ==
  /\ controller = "shared"
  /\ breaker.state # "closed"
  /\ ~ProbeAllowed
  /\ Goto(w, "breaker", "idle")
  /\ NoFault
  /\ UNCHANGED <<wiring, now, held, limitVars, breakerVars, checkVars, served>>

(* Mutant: a success only frees the slot of a half-open breaker. *)
JudgedFrees(b, failed, t) ==
  IF b.state = "open" THEN b
  ELSE IF ~failed THEN [b EXCEPT !.failures = 0, !.busy = FALSE]
  ELSE IF b.state = "halfOpen" \/ b.failures + 1 >= Threshold THEN Opened(b, t)
  ELSE [b EXCEPT !.failures = @ + 1]

(* What the breaker makes of a result, whichever request it belongs to.    *)
Judged(b, failed, t) ==
  IF b.state = "open" THEN b
  ELSE IF ~failed THEN Closed(b)
  ELSE IF b.state = "halfOpen" \/ b.failures + 1 >= Threshold THEN Opened(b, t)
  ELSE [b EXCEPT !.failures = @ + 1]

Observe(w) ==
  /\ \E failed \in BOOLEAN :
       /\ Goto(w, IF failed THEN "failed" ELSE "succeeded", "idle")
       /\ breaker' = IF controller = "shared" THEN Judged(breaker, failed, now) ELSE breaker
  /\ IF breaker'.state = breaker.state
     THEN sinceOpen' = sinceOpen \ {w} /\ UNCHANGED panicked
     ELSE sinceOpen' = {} /\ panicked' = FALSE
  /\ NoFault
  /\ UNCHANGED <<wiring, now, held, limitVars, checkVars, served>>

-----------------------------------------------------------------------------
(* The handlers.                                                           *)

Handle(w) ==
  /\ serving = "other"
  /\ \E outcome \in {"succeeded", "failed"} : Goto(w, "handler", outcome)
  /\ NoFault
  /\ UNCHANGED <<wiring, now, held, limitVars, breakerVars, checkVars, served>>

(* A panic unwinds through the breaker's middleware, which never observes. *)
Panic(w) ==
  /\ Fault("panic")
  /\ Goto(w, "handler", "idle")
  /\ panicked' = (panicked \/ w \in sinceOpen)
  /\ UNCHANGED <<wiring, now, held, limitVars, breaker, sinceOpen, checkVars, served>>

(* JavaMachineChecker.Challenge keeps one answer per user.                 *)
Challenge(w) ==
  /\ serving = "partIn"
  /\ issued < MaxChallenges
  /\ issued' = issued + 1
  /\ \/ answer' = issued' /\ (NoFault \/ Fault("lost"))
     \/ UNCHANGED answer /\ Fault("error")
  /\ Goto(w, "handler", IF faults' = faults THEN "succeeded" ELSE "failed")
  /\ UNCHANGED <<wiring, now, held, limitVars, breakerVars, served>>

(* JavaMachineChecker.Check compares ...                                   *)
CheckAnswer(w) ==
  /\ serving = "partIn"
  /\ \E n \in 1 .. issued :
       LET same == answer = n
       IN  /\ Goto(w, "handler", IF same THEN "consume" ELSE "succeeded")
           /\ held' = [held EXCEPT ![w] = IF same THEN n ELSE 0]
  /\ NoFault
  /\ UNCHANGED <<wiring, now, limitVars, breakerVars, checkVars, served>>

(* ... and then deletes whatever the key holds by then.                    *)
ConsumeAnswer(w) ==
  /\ Goto(w, "consume", "entry")
  /\ answer' = 0
  /\ held' = [held EXCEPT ![w] = 0]
  /\ NoFault
  /\ UNCHANGED <<wiring, now, limitVars, breakerVars, issued, served>>

ConsumeFails(w) ==
  /\ Goto(w, "consume", "succeeded")
  /\ \/ answer' = 0 /\ Fault("lost")
     \/ UNCHANGED answer /\ Fault("error")
  /\ held' = [held EXCEPT ![w] = 0]
  /\ UNCHANGED <<wiring, now, limitVars, breakerVars, issued, served>>

AnswerExpires ==
  /\ Fault("ttl")
  /\ answer # 0
  /\ answer' = 0
  /\ UNCHANGED <<wiring, now, at, held, limitVars, breakerVars, issued, served>>

(* The machine check is switched on and off at run time.                   *)
SkipCheck(w) ==
  /\ serving = "partIn"
  /\ Goto(w, "handler", "entry")
  /\ NoFault
  /\ UNCHANGED <<wiring, now, held, limitVars, breakerVars, checkVars, served>>

(* The script of RedisStore, with this gateway's clock; it stores that     *)
(* reading also when it lies before the last one.                          *)
ChargeUser ==
  \E skew \in Skews :
    LET t == now + skew
        tokens == Refilled(bucket["entry"], EntryRate, t)
        allowed == tokens >= Interval
    IN  /\ bucket' = [bucket EXCEPT !["entry"] =
                        [tokens |-> IF allowed THEN tokens - Interval ELSE tokens, last |-> t]]
        /\ backs' = IF t < bucket["entry"].last THEN backs + 1 ELSE backs
        /\ IF allowed THEN Admit("entry", now) ELSE UNCHANGED admitted

(* TryAcquireAndSetProcessing, and TryAcquire after it has failed.         *)
TryAcquire(w) ==
  /\ \E step \in {"entry", "entryAgain"} : Goto(w, step, "succeeded")
  /\ ChargeUser
  /\ NoFault
  /\ UNCHANGED <<wiring, now, held, window, breakerVars, checkVars, served>>

(* A failed pipeline may have charged the bucket; a failed TryAcquire lets *)
(* the call in.                                                            *)
TryAcquireFails(w) ==
  /\ \/ Goto(w, "entry", "entryAgain") /\ UNCHANGED admitted
     \/ Goto(w, "entryAgain", "succeeded") /\ Admit("entry", now)
  /\ \/ UNCHANGED <<bucket, backs>> /\ Fault("error")
     \/ \E skew \in Skews :
          LET t == now + skew
              tokens == Refilled(bucket["entry"], EntryRate, t)
          IN  /\ bucket' = [bucket EXCEPT !["entry"] =
                   [tokens |-> IF tokens >= Interval THEN tokens - Interval ELSE tokens, last |-> t]]
              /\ backs' = IF t < bucket["entry"].last THEN backs + 1 ELSE backs
              /\ Fault("lost")
  /\ UNCHANGED <<wiring, now, held, window, breakerVars, checkVars, served>>

Tick ==
  /\ now < MaxTime
  /\ now' = now + 1
  /\ UNCHANGED <<wiring, at, held, limitVars, breakerVars, checkVars, served, faults>>

-----------------------------------------------------------------------------
Limit(w) ==
  \E k \in Limited :
    NoRule(w, k) \/ AllowFresh(w, k) \/ AllowLocal(w, k) \/ CountWindow(w, k)
    \/ AddToWindow(w, k) \/ WindowFails(w, k)

Break(w) ==
  BreakerUnshared(w) \/ BreakerPasses(w) \/ BreakerProbes(w) \/ BreakerRefuses(w) \/ Observe(w)

PartIn(w) ==
  CheckAnswer(w) \/ ConsumeAnswer(w) \/ ConsumeFails(w) \/ SkipCheck(w)
  \/ TryAcquire(w) \/ TryAcquireFails(w)

Serve(w) == Arrive(w) \/ Limit(w) \/ Break(w) \/ Handle(w) \/ Panic(w) \/ Challenge(w) \/ PartIn(w)

Next ==
  \/ \E w \in Workers : Serve(w)
  \/ AnswerExpires
  \/ Tick

Spec == Init /\ [][Next]_vars

-----------------------------------------------------------------------------
Handling == {"handler", "consume", "entry", "entryAgain", "succeeded", "failed"}
Steps == {"idle", "route", "routeAdd", "user", "userAdd", "breaker"} \cup Handling

(* Every variable holds a value of its kind; in particular no bucket is    *)
(* ever overdrawn or fuller than its limit, and a closed breaker has fewer *)
(* failures than its threshold.                                            *)
TypeOK ==
  /\ wiring \in Deployments
  /\ now \in Ticks
  /\ at \in [Workers -> Steps]
  /\ held \in [Workers -> Nat]
  /\ \A k \in Buckets :
       /\ bucket[k].tokens \in 0 .. Full(k)
       /\ bucket[k].last \in Nat
  /\ window \in [Limited -> [Readings -> Nat]]
  /\ breaker \in [state : {"closed", "open", "halfOpen"}, failures : 0 .. Threshold - 1,
                  openedAt : Ticks, busy : BOOLEAN]
  /\ answer \in 0 .. issued
  /\ issued \in 0 .. MaxChallenges
  /\ served \in 0 .. MaxRequests
  /\ admitted \in [Buckets -> [Readings -> Nat]]
  /\ sinceOpen \subseteq Workers
  /\ panicked \in BOOLEAN
  /\ backs \in Nat
  /\ faults \in 0 .. MaxFaults

(* Requests that limit k let through from tick t on, for one Interval, and *)
(* for the ticks that are in every gateway's window together.              *)
Through(k, span) == Cardinality(Members(admitted[k], span))
Within(k, t) == Through(k, t .. t + Interval - 1)
WithinAll(k, t) == Through(k, t .. t + Interval - MaxSkew - 1)

(* The rate limits limit, whatever requests run side by side.  In any      *)
(* Interval a bucket lets through what it holds and what it is refilled    *)
(* with, and the bucket in Redis what the gateways' clocks add each time   *)
(* they disagree.  The sliding window counts in one pipeline and adds in   *)
(* another, so that one request per further worker may pass beyond its     *)
(* limit; and since a gateway whose clock is ahead drops entries that are  *)
(* still in the window of the others, it keeps that bound over             *)
(* Interval - MaxSkew ticks, and over no Interval once MaxSkew > 0.        *)
(* Every fault lets at most one request more through.                      *)
RateHolds ==
  \A t \in Ticks :
    /\ \A k \in Limited : LimitOf[k] > 0 =>
         /\ limiter = "local" => Within(k, t) * Interval <= LimitOf[k] * (2 * Interval - 1)
         /\ limiter = "redis" => WithinAll(k, t) <= LimitOf[k] + Cardinality(Workers) - 1 + faults
    /\ Within("entry", t) * Interval
         <= EntryRate * (2 * Interval - 1 + MaxSkew * (1 + backs)) + faults * Interval

(* A half-open breaker tries the route with one request at a time: since   *)
(* it last opened it has admitted exactly one, and that one is still with  *)
(* its handler, so that it will report -- unless its handler panicked.     *)
(* Results of requests admitted before the breaker opened come in between. *)
ProbeAlone ==
  breaker.state = "halfOpen" =>
    /\ breaker.busy
    /\ \E p \in Workers : sinceOpen = {p} /\ (at[p] \in Handling \/ panicked)

(* README.md:53 and rate_limit.go:69: the gateway limits the requests of a *)
(* route, whatever its limiter is built with.  The bound is one that every *)
(* store keeps that outlives a request, by RateHolds.                      *)
RouteIsLimited ==
  limiter # "off" /\ RouteLimit > 0 =>
    \A t \in Ticks : WithinAll("route", t) <= 2 * RouteLimit + Cardinality(Workers) - 1 + faults
=============================================================================
