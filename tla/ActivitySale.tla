----------------------------- MODULE ActivitySale -----------------------------
(***************************************************************************)
(* The life of an activity: the record activity-service keeps in memory,   *)
(* the stock key it puts in Redis, the administrators who write both, the  *)
(* two jobs of seckill-job that end activities and clear their shelves,    *)
(* and the caches through which the gateway and the processor decide that  *)
(* an activity is open and a unit may be sold.                             *)
(*                                                                         *)
(* An activity has one SKU.  Time is counted in ticks.                     *)
(***************************************************************************)
EXTENDS Integers, FiniteSets

CONSTANTS
  Activities,    \* activity numbers
  Sample,        \* the one the service creates whenever it starts
  Requests,      \* part-in requests, one unit each
  Deployments,   \* what runs beside activity-service, and the numbers created
  Units,         \* the stock of a SKU
  Windows,       \* the pairs <<start, end>> an administrator writes
  SaleTime,      \* how long the sample activity lasts
  GatewayTTL,    \* life of an entry of the gateway's cache
  LocalTTL,      \* life of an entry of the processor's own cache
  RedisTTL,      \* life of an entry of the cache the processors share
  RpcTime,       \* the timeout of a remote call
  MaxTime,       \* bound on the clock
  MaxEdits,      \* bound on the administrators' writes
  Faults,        \* the kinds of fault the environment may inject
  MaxFaults      \* how many faults it injects in one behaviour

FaultKinds ==
  { "error",    \* a remote call fails and had no effect
    "lost",     \* a remote call takes effect but its reply is an error
    "restart" } \* activity-service restarts and its memory is gone

Times == 0 .. MaxTime + SaleTime

ASSUME SaleAssumption ==
  /\ Sample \in Activities
  /\ Deployments \subseteq [parts : SUBSET {"job", "gateway", "processor"},
                              numbers : SUBSET Activities]
  /\ Units \in Nat
  /\ Windows \subseteq Nat \X Nat
  /\ {SaleTime, GatewayTTL, LocalTTL, RedisTTL, RpcTime} \subseteq Nat
  /\ {MaxTime, MaxEdits, MaxFaults} \subseteq Nat
  /\ Faults \subseteq FaultKinds

VARIABLES
  up,         \* the deployment
  clock,
  record,     \* the activities in the memory of activity-service
  shelf,      \* their stock keys in Redis
  stocking,   \* products listed whose stock key is still to be set
  removing,   \* products delisted whose stock key is still to be deleted
  due,        \* the rest of the status job's round: activities and targets
  ended,      \* the rest of the stock release job's round
  gateway,    \* the gateway's cached verdicts
  fetching,   \* the gateway's loads under way: its refresh loop's and a miss's
  local,      \* the processor's cached activities
  shared,     \* those in Redis
  loading,    \* the processor's load under way
  request,    \* where each request stands
  sold,       \* units sold so far
  withdrawn,  \* what was ever delisted, or found over by the release job
  past,       \* superseded records and when they were in force
  edits,      \* administrators' writes so far
  faults      \* faults so far

store == <<record, past>>
shelfVars == <<shelf, sold, withdrawn>>
jobVars == <<due, ended>>
adminVars == <<stocking, removing, edits>>
cacheVars == <<gateway, fetching, local, shared, loading>>
vars == <<up, clock, store, shelfVars, adminVars, jobVars, cacheVars, request, faults>>

None == [status |-> "none"]   \* no activity, no entry, no load
Missing == -1

Fault(kind) ==
  /\ kind \in Faults
  /\ faults < MaxFaults
  /\ faults' = faults + 1

NoFault == UNCHANGED faults

-----------------------------------------------------------------------------
(* The record and its state machine.                                       *)

Statuses == {"pending", "open", "ended"}

ActivityAllowedTransitions ==
  [pending |-> {"open", "ended"}, open |-> {"ended"}, ended |-> {}]

TransitActivity(from, to) == to = from \/ to \in ActivityAllowedTransitions[from]

Exists(a) == record[a].status # "none"

InWindow(info, t) == info.start <= t /\ t < info.end

(* activityDetailFromPB and ActivityInfo.IsOpen.                           *)
IsOpen(info, t) == info.status = "open" /\ InWindow(info, t)

(* Every write of a record keeps the one it replaces, for the properties.  *)
Superseded(a) ==
  IF Exists(a) THEN {[info |-> record[a], until |-> clock]} ELSE {}

SetRecord(a, info) ==
  /\ record' = [record EXCEPT ![a] = info]
  /\ past' = [past EXCEPT ![a] = @ \cup Superseded(a)]

SetStatus(a, status) ==
  SetRecord(a, [record[a] EXCEPT !.status = status, !.since = clock])

SetListed(a, listed) ==
  SetRecord(a, [record[a] EXCEPT !.listed = listed, !.since = clock])

(* Mutant: the key is written also when it exists.                         *)
SeededAnyway(a) ==
  /\ shelf' = [shelf EXCEPT ![a] = Units]
  /\ UNCHANGED <<sold, withdrawn>>

(* SetNX of the stock key: a key that exists is left alone, and one that   *)
(* is missing is set to all units, whatever was sold before it was deleted.*)
Seeded(a) ==
  /\ shelf' = [shelf EXCEPT ![a] = IF shelf[a] = Missing THEN Units ELSE shelf[a]]
  /\ UNCHANGED <<sold, withdrawn>>

SampleActivity(t) ==
  [status |-> "open", start |-> t, end |-> t + SaleTime, listed |-> TRUE, since |-> t]

Pending(w, listed, t) ==
  [status |-> "pending", start |-> w[1], end |-> w[2], listed |-> listed, since |-> t]

(* The service has started; perhaps its sample was already replaced by an  *)
(* activity an administrator created under that number.  Where no gateway  *)
(* runs, the requests are those it left in the stream.                     *)
Init ==
  /\ up \in Deployments
  /\ clock = 0
  /\ \E info \in {SampleActivity(0)} \cup {Pending(w, TRUE, 0) : w \in Windows} :
       record = [a \in Activities |-> IF a = Sample THEN info ELSE None]
  /\ past = [a \in Activities |-> {}]
  /\ shelf = [a \in Activities |-> IF a = Sample THEN Units ELSE Missing]
  /\ sold = [a \in Activities |-> 0]
  /\ withdrawn = {}
  /\ stocking = {}
  /\ removing = {}
  /\ edits = 0
  /\ due = {}
  /\ ended = {}
  /\ gateway = [a \in Activities |-> None]
  /\ fetching = [l \in {"refresh", "miss"} |-> None]
  /\ local = [a \in Activities |-> None]
  /\ shared = [a \in Activities |-> None]
  /\ loading = None
  /\ \/ "gateway" \in up.parts /\ request = [r \in Requests |-> [stage |-> "new"]]
     \/ "gateway" \notin up.parts
        /\ request \in [Requests -> [stage : {"queued"}, activity : Activities]]
  /\ faults = 0

(* The memory is gone; the sample activity is created anew, and its shelf  *)
(* is stocked if there is none in Redis.                                   *)
Restart ==
  /\ Fault("restart")
  /\ record' = [a \in Activities |-> IF a = Sample THEN SampleActivity(clock) ELSE None]
  /\ past' = [a \in Activities |-> past[a] \cup Superseded(a)]
  /\ Seeded(Sample)
  /\ stocking' = {}
  /\ removing' = {}
  /\ UNCHANGED <<up, clock, edits, jobVars, cacheVars, request>>

-----------------------------------------------------------------------------
(* What administrators write, each through one call of activity-service.   *)

Edit == edits < MaxEdits /\ edits' = edits + 1

AdminUntouched == UNCHANGED <<up, clock, jobVars, cacheVars, request, faults>>

(* AddActivity over whatever had the number; its SKU is stocked next.      *)
CreateActivity(a) ==
  /\ Edit
  /\ a \in up.numbers
  /\ \E w \in Windows, listed \in BOOLEAN :
       /\ SetRecord(a, Pending(w, listed, clock))
       /\ stocking' = IF listed THEN stocking \cup {a} ELSE stocking
  /\ UNCHANGED <<removing, shelfVars>>
  /\ AdminUntouched

(* A time that is not given keeps its value, and the status always does.   *)
UpdateActivity(a) ==
  /\ Edit
  /\ Exists(a)
  /\ \E w \in Windows :
       \E start \in {w[1], record[a].start}, end \in {w[2], record[a].end} :
         SetRecord(a, [record[a] EXCEPT !.start = start, !.end = end, !.since = clock])
  /\ UNCHANGED <<stocking, removing, shelfVars>>
  /\ AdminUntouched

EndActivity(a) ==
  /\ Edit
  /\ Exists(a)
  /\ TransitActivity(record[a].status, "ended")
  /\ SetStatus(a, "ended")
  /\ UNCHANGED <<stocking, removing, shelfVars>>
  /\ AdminUntouched

AddProduct(a) ==
  /\ Edit
  /\ Exists(a)
  /\ SetListed(a, TRUE)
  /\ stocking' = stocking \cup {a}
  /\ UNCHANGED <<removing, shelfVars>>
  /\ AdminUntouched

RemoveProduct(a) ==
  /\ Edit
  /\ Exists(a)
  /\ record[a].listed
  /\ SetListed(a, FALSE)
  /\ removing' = removing \cup {a}
  /\ withdrawn' = withdrawn \cup {a}
  /\ UNCHANGED <<stocking, shelf, sold>>
  /\ AdminUntouched

(* The second half of CreateActivity and AddProduct.                       *)
StockShelf(a) ==
  /\ a \in stocking
  /\ stocking' = stocking \ {a}
  /\ \/ Seeded(a) /\ NoFault
     \/ Seeded(a) /\ Fault("lost")
     \/ UNCHANGED shelfVars /\ Fault("error")
  /\ UNCHANGED <<up, clock, store, removing, edits, jobVars, cacheVars, request>>

ClearShelf(a) == shelf' = [shelf EXCEPT ![a] = Missing] /\ UNCHANGED <<sold, withdrawn>>

(* The second half of RemoveProduct.                                       *)
DeleteKey(a) ==
  /\ a \in removing
  /\ removing' = removing \ {a}
  /\ \/ ClearShelf(a) /\ NoFault
     \/ ClearShelf(a) /\ Fault("lost")
     \/ UNCHANGED shelfVars /\ Fault("error")
  /\ UNCHANGED <<up, clock, store, stocking, edits, jobVars, cacheVars, request>>

Admin ==
  \E a \in Activities :
    \/ CreateActivity(a) \/ UpdateActivity(a) \/ EndActivity(a)
    \/ AddProduct(a) \/ RemoveProduct(a)

-----------------------------------------------------------------------------
(* The jobs list the activities once a round and then call for each.       *)

(* Mutant: a sale that was never opened is not ended either.               *)
TargetsForgotten(info, now) ==
  CASE info.status = "pending" -> IF InWindow(info, now) THEN {"open"} ELSE {}
    [] info.status = "open"    -> IF info.end <= now THEN {"ended"} ELSE {}
    [] OTHER                   -> {}

(* What nextActivityStatus makes of an activity, if anything.              *)
Targets(info, now) ==
  CASE info.status = "pending" -> IF info.start > now THEN {}
                                  ELSE IF info.end > now THEN {"open"} ELSE {"ended"}
    [] info.status = "open"    -> IF info.end <= now THEN {"ended"} ELSE {}
    [] OTHER                   -> {}

ListDue ==
  /\ due = {}
  /\ due' = UNION {{a} \X Targets(record[a], clock) : a \in {b \in Activities : Exists(b)}}
  /\ due' # {}
  /\ UNCHANGED <<up, clock, store, shelfVars, adminVars, ended, cacheVars, request, faults>>

(* A failed update ends the round: an unknown activity, a status the state *)
(* machine refuses, or a call that fails.                                  *)
UpdateStatus(a, status) ==
  /\ <<a, status>> \in due
  /\ IF Exists(a) /\ TransitActivity(record[a].status, status)
       THEN \/ SetStatus(a, status) /\ due' = due \ {<<a, status>>} /\ NoFault
            \/ SetStatus(a, status) /\ due' = {} /\ Fault("lost")
            \/ UNCHANGED store /\ due' = {} /\ Fault("error")
       ELSE UNCHANGED store /\ due' = {} /\ NoFault
  /\ UNCHANGED <<up, clock, shelfVars, adminVars, ended, cacheVars, request>>

UpdateActivityStatuses ==
  /\ "job" \in up.parts
  /\ \/ ListDue
     \/ \E a \in Activities, status \in Statuses : UpdateStatus(a, status)

IsEnded(info, now) == info.status = "ended" \/ info.end <= now

ListEnded ==
  /\ ended = {}
  /\ ended' = {a \in Activities : Exists(a) /\ IsEnded(record[a], clock)}
  /\ ended' # {}
  /\ withdrawn' = withdrawn \cup ended'
  /\ UNCHANGED <<up, clock, store, shelf, sold, adminVars, due, cacheVars, request, faults>>

CleanupStock(a) ==
  /\ a \in ended
  /\ \/ ClearShelf(a) /\ ended' = ended \ {a} /\ NoFault
     \/ ClearShelf(a) /\ ended' = {} /\ Fault("lost")
     \/ UNCHANGED shelfVars /\ ended' = {} /\ Fault("error")
  /\ UNCHANGED <<up, clock, store, adminVars, due, cacheVars, request>>

ReleaseEndedActivityKeys ==
  /\ "job" \in up.parts
  /\ ListEnded \/ \E a \in Activities : CleanupStock(a)

-----------------------------------------------------------------------------
(* Cached entries.  A load reads the record and stores its entry later.    *)

(* Mutant: an entry never expires.                                         *)
FreshForever(entry, ttl) == entry # None

Fresh(entry, ttl) == entry # None /\ clock <= entry.at + ttl

(* The gateway caches the verdict of the moment of the read.               *)
ReadDetail(l, a) ==
  /\ fetching[l] = None
  /\ Exists(a)
  /\ fetching' = [fetching EXCEPT ![l] =
                    [activity |-> a, read |-> clock, open |-> IsOpen(record[a], clock)]]
  /\ UNCHANGED <<up, clock, store, shelfVars, adminVars, jobVars, gateway, local, shared, loading,
                 request, faults>>

(* The background loop: the refresh of one listed activity.                *)
RefreshRead(a) == ReadDetail("refresh", a)

StoreDetail(l) ==
  /\ fetching[l] # None
  /\ fetching' = [fetching EXCEPT ![l] = None]
  /\ \/ /\ NoFault
        /\ gateway' = [gateway EXCEPT ![fetching[l].activity] =
                         [at |-> clock, open |-> fetching[l].open]]
     \/ l = "refresh" /\ UNCHANGED gateway /\ Fault("error")
  /\ UNCHANGED <<up, clock, store, shelfVars, adminVars, jobVars, local, shared, loading, request>>

(* A request misses, this one or another: GetOrLoad fetches for all.       *)
MissRead(a) ==
  /\ \E r \in Requests : request[r].stage = "new"
  /\ ~ Fresh(gateway[a], GatewayTTL)
  /\ ReadDetail("miss", a)

MoveTo(r, stage, a) == request' = [request EXCEPT ![r] = [stage |-> stage, activity |-> a]]

(* The pool's worker: a request for an activity that is not open is        *)
(* answered activity_not_open, any other goes on to the processor.         *)
PartIn(r, a) ==
  /\ request[r].stage = "new"
  /\ Fresh(gateway[a], GatewayTTL)
  /\ MoveTo(r, IF gateway[a].open THEN "queued" ELSE "turned away", a)
  /\ UNCHANGED <<up, clock, store, shelfVars, adminVars, jobVars, cacheVars, faults>>

(* A miss whose load fails is answered activity_not_found.                 *)
Unfound(r, a) ==
  /\ request[r].stage = "new"
  /\ ~ Fresh(gateway[a], GatewayTTL)
  /\ \/ ~ Exists(a) /\ NoFault
     \/ Fault("error")
  /\ MoveTo(r, "unknown", a)
  /\ UNCHANGED <<up, clock, store, shelfVars, adminVars, jobVars, cacheVars>>

(* The processor's cache, for some request in hand: its own memory, then   *)
(* Redis, then the service.                                                *)
TakeShared(a) ==
  /\ \E r \in Requests : request[r].stage = "queued"
  /\ ~ Fresh(local[a], LocalTTL)
  /\ Fresh(shared[a], RedisTTL)
  /\ local' = [local EXCEPT ![a] = [at |-> clock, info |-> shared[a].info]]
  /\ UNCHANGED <<up, clock, store, shelfVars, adminVars, jobVars, gateway, fetching, shared, loading,
                 request, faults>>

ReadActivity(a) ==
  /\ \E r \in Requests : request[r].stage = "queued"
  /\ ~ Fresh(local[a], LocalTTL)
  /\ ~ Fresh(shared[a], RedisTTL)
  /\ loading = None
  /\ Exists(a)
  /\ loading' = [activity |-> a, read |-> clock, info |-> record[a]]
  /\ UNCHANGED <<up, clock, store, shelfVars, adminVars, jobVars, gateway, fetching, local, shared,
                 request, faults>>

StoreActivity ==
  /\ loading # None
  /\ loading' = None
  /\ \/ LET entry == [at |-> clock, info |-> loading.info] IN
        /\ local' = [local EXCEPT ![loading.activity] = entry]
        /\ shared' = [shared EXCEPT ![loading.activity] = entry]
        /\ NoFault
     \/ UNCHANGED <<local, shared>> /\ Fault("error")
  /\ UNCHANGED <<up, clock, store, shelfVars, adminVars, jobVars, gateway, fetching, request>>

(* Submit: an activity that is not open is rejected for good.              *)
Check(r) ==
  LET a == request[r].activity IN
  /\ request[r].stage = "queued"
  /\ Fresh(local[a], LocalTTL)
  /\ MoveTo(r, IF IsOpen(local[a].info, clock) THEN "checked" ELSE "rejected", a)
  /\ UNCHANGED <<up, clock, store, shelfVars, adminVars, jobVars, cacheVars, faults>>

(* An activity that is gone is rejected as well.                           *)
NotFound(r) ==
  LET a == request[r].activity IN
  /\ request[r].stage = "queued"
  /\ ~ Fresh(local[a], LocalTTL)
  /\ ~ Fresh(shared[a], RedisTTL)
  /\ ~ Exists(a)
  /\ MoveTo(r, "unknown", a)
  /\ UNCHANGED <<up, clock, store, shelfVars, adminVars, jobVars, cacheVars, faults>>

(* Mutant: the shelf is not looked at before it is decremented.            *)
SellUnseen(r) ==
  LET a == request[r].activity IN
  /\ request[r].stage = "checked"
  /\ shelf' = [shelf EXCEPT ![a] = @ - 1]
  /\ sold' = [sold EXCEPT ![a] = @ + 1]
  /\ MoveTo(r, "sold", a)
  /\ UNCHANGED <<up, clock, store, withdrawn, adminVars, jobVars, cacheVars, faults>>

(* The deduction, however long after the check: no stock, no key, no sale. *)
Sell(r) ==
  LET a == request[r].activity IN
  /\ request[r].stage = "checked"
  /\ IF shelf[a] > 0
       THEN /\ shelf' = [shelf EXCEPT ![a] = @ - 1]
            /\ sold' = [sold EXCEPT ![a] = @ + 1]
            /\ MoveTo(r, "sold", a)
            /\ UNCHANGED withdrawn
       ELSE /\ MoveTo(r, "no stock", a)
            /\ UNCHANGED shelfVars
  /\ UNCHANGED <<up, clock, store, adminVars, jobVars, cacheVars, faults>>

GatewayStep ==
  /\ "gateway" \in up.parts
  /\ \/ \E a \in Activities :
          RefreshRead(a) \/ MissRead(a) \/ \E r \in Requests : Unfound(r, a) \/ PartIn(r, a)
     \/ \E l \in {"refresh", "miss"} : StoreDetail(l)

ProcessorStep ==
  /\ "processor" \in up.parts
  /\ \/ \E a \in Activities : TakeShared(a) \/ ReadActivity(a)
     \/ StoreActivity
     \/ \E r \in Requests : Check(r) \/ NotFound(r) \/ Sell(r)

-----------------------------------------------------------------------------
(* A call that is not answered within RpcTime has failed.                  *)

InTime(load) == load # None => clock < load.read + RpcTime

GatewayLag == GatewayTTL + RpcTime
ProcessorLag == LocalTTL + RedisTTL + RpcTime
Recent(v, lag) == clock <= v.until + lag

Tick ==
  /\ clock < MaxTime
  /\ InTime(loading) /\ \A l \in {"refresh", "miss"} : InTime(fetching[l])
  /\ clock' = clock + 1
  /\ past' = [a \in Activities |->
                {v \in past[a] : Recent(v, GatewayLag) \/ Recent(v, ProcessorLag)}]
  /\ UNCHANGED <<up, record, shelfVars, adminVars, jobVars, cacheVars, request, faults>>

Next ==
  \/ Admin
  \/ \E a \in Activities : StockShelf(a) \/ DeleteKey(a)
  \/ Restart
  \/ UpdateActivityStatuses
  \/ ReleaseEndedActivityKeys
  \/ GatewayStep
  \/ ProcessorStep
  \/ Tick

Spec == Init /\ [][Next]_vars

(* The jobs' tickers never stop; nothing else is assumed.                  *)
FairSpec ==
  Spec /\ WF_vars(UpdateActivityStatuses) /\ WF_vars(ReleaseEndedActivityKeys)

-----------------------------------------------------------------------------
Info == [status : Statuses, start : Nat, end : Nat, listed : BOOLEAN, since : Times]
Stages == {"queued", "turned away", "checked", "rejected", "unknown", "sold", "no stock"}

(* Every variable holds a value of its kind; in particular no shelf is     *)
(* sold below zero or stocked above its units.                             *)
TypeOK ==
  /\ up \in Deployments
  /\ clock \in 0 .. MaxTime
  /\ record \in [Activities -> Info \cup {None}]
  /\ \A a \in Activities : past[a] \subseteq [info : Info, until : Times]
  /\ shelf \in [Activities -> {Missing} \cup 0 .. Units]
  /\ sold \in [Activities -> Nat]
  /\ withdrawn \subseteq Activities
  /\ stocking \subseteq Activities /\ removing \subseteq Activities
  /\ due \subseteq Activities \X Statuses
  /\ ended \subseteq Activities
  /\ gateway \in [Activities -> [at : Times, open : BOOLEAN] \cup {None}]
  /\ local \in [Activities -> [at : Times, info : Info] \cup {None}]
  /\ shared \in [Activities -> [at : Times, info : Info] \cup {None}]
  /\ request \in [Requests -> {[stage |-> "new"]} \cup [stage : Stages, activity : Activities]]
  /\ edits \in 0 .. MaxEdits
  /\ faults \in 0 .. MaxFaults

OnShelf(a) == IF shelf[a] = Missing THEN 0 ELSE shelf[a]

(* As long as nobody delisted the product and the release job never found  *)
(* its activity over, the units sold and those still on sale are no more   *)
(* than it has: activity-service may lose its memory and create its sample *)
(* again, an administrator may create the number or add the product again, *)
(* and a stocking may be lost, late or repeated, without a sold unit being *)
(* put on sale anew (SetNX in AddActivity and AddActivitySKU).  Of a       *)
(* withdrawn product nothing is claimed: its key is deleted, and the next  *)
(* stocking puts all its units on sale, the sold ones included.            *)
SoldOnce ==
  \A a \in Activities : a \notin withdrawn => sold[a] + OnShelf(a) <= Units

(* An activity that ended stays so, whoever calls with whatever it listed  *)
(* before, until the number is created again or the memory is lost         *)
(* (TransitActivity under UpdateActivityStatus).                           *)
EndedForGood ==
  [][\A a \in Activities :
       record[a].status = "ended" =>
         \/ record'[a].status = "ended"
         \/ record'[a].status = "pending" /\ edits' = edits + 1
         \/ record' = [b \in Activities |->
                          IF b = Sample THEN SampleActivity(clock) ELSE None]]_vars

Versions(a) ==
  past[a] \cup (IF Exists(a) THEN {[info |-> record[a], until |-> clock]} ELSE {})

(* At some moment of the last lag ticks the activity was open (closed).    *)
WasOpen(a, lag, open) ==
  \E v \in Versions(a) : \E t \in v.info.since .. v.until :
    clock <= t + lag /\ IsOpen(v.info, t) = open

(* The record of some moment of the last lag ticks is open (closed) now.   *)
HadRecord(a, lag, open) ==
  \E v \in Versions(a) : Recent(v, lag) /\ IsOpen(v.info, clock) = open

Moves(r, from, to) == request[r].stage = from /\ request'[r].stage = to

(* Nobody passes or is turned away for a state of the activity that is     *)
(* older than the caches' lifetimes and one call together: loads that      *)
(* finish late, in another order, or from the other cache level included   *)
(* (ActivityCache of the gateway and of the processor).                    *)
VerdictsFresh ==
  [][\A r \in Requests :
       LET a == request'[r].activity IN
       /\ Moves(r, "new", "queued") => WasOpen(a, GatewayLag, TRUE)
       /\ Moves(r, "new", "turned away") => WasOpen(a, GatewayLag, FALSE)
       /\ Moves(r, "queued", "checked") => HadRecord(a, ProcessorLag, TRUE)
       /\ Moves(r, "queued", "rejected") => HadRecord(a, ProcessorLag, FALSE)]_vars

Overdue(a) ==
  /\ record[a].status \in {"pending", "open"}
  /\ record[a].start <= clock
  /\ record[a].end <= clock

OnShow(a) == record[a].status = "ended" /\ shelf[a] # Missing

(* Whatever the administrators do and whichever calls fail, an activity    *)
(* whose time is over is ended, and the shelf of an ended one is cleared   *)
(* (UpdateActivityStatuses and ReleaseEndedActivityKeys of the job).       *)
JobsCatchUp ==
  \A a \in Activities :
    /\ "job" \in up.parts /\ Overdue(a) ~> ~ Overdue(a)
    /\ "job" \in up.parts /\ OnShow(a) ~> ~ OnShow(a)
=============================================================================
