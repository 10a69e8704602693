-------------------------- MODULE ActivitySaleProofs --------------------------
(* For every number of activities, requests, units, administrators' writes *)
(* and faults, in every deployment: no unit of a product that was never    *)
(* withdrawn is sold twice, an activity that ended stays ended, and nobody *)
(* is judged by a state of the activity older than the caches allow.       *)
EXTENDS ActivitySale, TLAPS

(* A stock key is deleted only of what was withdrawn.                      *)
Withdrawing == removing \subseteq withdrawn /\ ended \subseteq withdrawn

(* Of what was not, the key is missing only before the first sale.         *)
ShelfKept ==
  /\ shelf \in [Activities -> Int] /\ sold \in [Activities -> Int]
  /\ \A a \in Activities : a \notin withdrawn /\ shelf[a] = Missing => sold[a] = 0
  /\ SoldOnce

ShelfInv == Withdrawing /\ ShelfKept

LEMMA ShelfInit == ASSUME SaleAssumption, Init PROVE ShelfInv
BY DEF SaleAssumption, Init, ShelfInv, Withdrawing, ShelfKept, SoldOnce, OnShelf, Missing

LEMMA ShelfUntouched ==
  ASSUME ShelfKept, UNCHANGED <<shelf, sold>>, withdrawn \subseteq withdrawn'
  PROVE  ShelfKept'
BY DEF ShelfKept, SoldOnce, OnShelf

(* SetNX stocks an empty shelf and leaves every other alone.               *)
LEMMA SeededShelf ==
  ASSUME SaleAssumption, ShelfKept, NEW a \in Activities, Seeded(a) PROVE ShelfKept'
<1>1. CASE shelf[a] = Missing
  BY <1>1 DEF SaleAssumption, Seeded, ShelfKept, SoldOnce, OnShelf, Missing
<1>2. CASE shelf[a] # Missing
  <2>1. shelf' = shelf
    BY <1>2 DEF Seeded, ShelfKept
  <2> QED BY <2>1, ShelfUntouched DEF Seeded
<1> QED BY <1>1, <1>2

LEMMA ClearedShelf ==
  ASSUME ShelfKept, NEW a \in Activities, a \in withdrawn, ClearShelf(a) PROVE ShelfKept'
BY DEF ClearShelf, ShelfKept, SoldOnce, OnShelf, Missing

(* What leaves the shelf is counted as sold.                               *)
LEMMA SoldShelf ==
  ASSUME SaleAssumption, ShelfKept, NEW r \in Requests, request[r].activity \in Activities, Sell(r)
  PROVE  ShelfKept'
<1> DEFINE a == request[r].activity
<1>1. CASE shelf[a] > 0
  <2>1. /\ shelf' = [shelf EXCEPT ![a] = @ - 1] /\ sold' = [sold EXCEPT ![a] = @ + 1]
        /\ withdrawn' = withdrawn
    BY <1>1 DEF Sell
  <2> QED BY <1>1, <2>1 DEF ShelfKept, SoldOnce, OnShelf, Missing
<1>2. CASE ~ (shelf[a] > 0)
  BY <1>2, ShelfUntouched DEF Sell, shelfVars
<1> QED BY <1>1, <1>2

-----------------------------------------------------------------------------
(* The types the two theorems need.                                        *)
Known == [status : Statuses, start : Nat, end : Nat, listed : BOOLEAN, since : Nat]
Served == {[stage |-> "new"]} \cup [stage : Stages, activity : Activities]

SaleType ==
  /\ clock \in Nat
  /\ record \in [Activities -> Known \cup {None}]
  /\ due \subseteq Activities \X Statuses
  /\ request \in [Requests -> Served]

others == <<clock, due, request>>

USE DEF Statuses, Stages, None

LEMMA SampleKnown ==
  ASSUME SaleAssumption, NEW t \in Nat, NEW w \in Windows, NEW listed \in BOOLEAN
  PROVE  SampleActivity(t) \in Known /\ Pending(w, listed, t) \in Known
BY DEF SaleAssumption, SampleActivity, Pending, Known

LEMMA TypeInit == ASSUME SaleAssumption, Init PROVE SaleType
<1>1. record \in [Activities -> Known \cup {None}]
  <2>1. PICK info \in {SampleActivity(0)} \cup {Pending(w, TRUE, 0) : w \in Windows} :
          record = [a \in Activities |-> IF a = Sample THEN info ELSE None]
    BY DEF Init
  <2>2. info \in Known
    <3>1. SampleActivity(0) \in Known
      BY DEF SaleAssumption, SampleActivity, Known
    <3>2. \A w \in Windows : Pending(w, TRUE, 0) \in Known
      BY SampleKnown
    <3> QED BY <3>1, <3>2
  <2> QED BY <2>1, <2>2
<1>2. request \in [Requests -> Served]
  BY DEF Init, Served
<1> QED BY <1>1, <1>2 DEF Init, SaleType

(* A record is only ever replaced by one of the same shape.                *)
LEMMA RecordSet ==
  ASSUME SaleType, NEW a \in Activities, NEW info \in Known, SetRecord(a, info), UNCHANGED others
  PROVE  SaleType'
BY DEF SaleType, SetRecord, others

LEMMA KnownRecord == ASSUME SaleType, NEW a \in Activities, Exists(a) PROVE record[a] \in Known
BY DEF SaleType, Exists

LEMMA StatusSet ==
  ASSUME SaleType, NEW a \in Activities, Exists(a), NEW status \in Statuses
  PROVE  /\ [record[a] EXCEPT !.status = status, !.since = clock] \in Known
         /\ [record[a] EXCEPT !.status = status, !.since = clock].status = status
<1>1. record[a] \in Known /\ clock \in Nat
  BY KnownRecord DEF SaleType
<1> QED BY <1>1 DEF Known

LEMMA ListedSet ==
  ASSUME SaleType, NEW a \in Activities, Exists(a), NEW listed \in BOOLEAN
  PROVE  /\ [record[a] EXCEPT !.listed = listed, !.since = clock] \in Known
         /\ [record[a] EXCEPT !.listed = listed, !.since = clock].status = record[a].status
<1>1. record[a] \in Known /\ clock \in Nat
  BY KnownRecord DEF SaleType
<1> QED BY <1>1 DEF Known

(* A request in hand names its activity.                                   *)
LEMMA InHand ==
  ASSUME NEW asked \in Served, asked.stage # "new" PROVE asked.activity \in Activities
<1>1. asked # [stage |-> "new"]
  OBVIOUS
<1>2. asked \in [stage : Stages, activity : Activities]
  BY <1>1 DEF Served
<1> QED BY <1>2

-----------------------------------------------------------------------------
(* An administrator's write of a record keeps the types, and an ended      *)
(* activity stays ended unless its number is created again.                *)
KeepsEnded(a) ==
  record[a].status = "ended" =>
    \/ record'[a].status = "ended"
    \/ record'[a].status = "pending" /\ edits' = edits + 1
    \/ record' = [b \in Activities |-> IF b = Sample THEN SampleActivity(clock) ELSE None]

LEMMA WriteKeeps ==
  ASSUME SaleType, NEW a \in Activities, NEW info \in Known, SetRecord(a, info),
         \/ info.status = record[a].status
         \/ info.status = "ended"
         \/ record[a].status # "ended"
         \/ info.status = "pending" /\ edits' = edits + 1
  PROVE  \A b \in Activities : KeepsEnded(b)
<1> SUFFICES ASSUME NEW b \in Activities PROVE KeepsEnded(b)
  OBVIOUS
<1>1. CASE b = a
  <2>1. record'[b] = info
    BY <1>1 DEF SaleType, SetRecord
  <2> QED BY <1>1, <2>1 DEF KeepsEnded
<1>2. CASE b # a
  <2>1. record'[b] = record[b]
    BY <1>2 DEF SaleType, SetRecord
  <2> QED BY <2>1 DEF KeepsEnded
<1> QED BY <1>1, <1>2

LEMMA RecordKept ==
  ASSUME UNCHANGED record PROVE \A a \in Activities : KeepsEnded(a)
BY DEF KeepsEnded

LEMMA AdminStep ==
  ASSUME SaleAssumption, SaleType, Admin
  PROVE  SaleType' /\ \A a \in Activities : KeepsEnded(a)
<1>1. PICK a \in Activities : \/ CreateActivity(a) \/ UpdateActivity(a) \/ EndActivity(a)
                              \/ AddProduct(a) \/ RemoveProduct(a)
  BY DEF Admin
<1>2. UNCHANGED others
  BY <1>1 DEF CreateActivity, UpdateActivity, EndActivity, AddProduct, RemoveProduct,
              AdminUntouched, jobVars, others
<1>3. CASE CreateActivity(a)
  <2>1. PICK w \in Windows, listed \in BOOLEAN : SetRecord(a, Pending(w, listed, clock))
    BY <1>3 DEF CreateActivity
  <2>2. Pending(w, listed, clock) \in Known
    BY SampleKnown DEF SaleType
  <2>3. Pending(w, listed, clock).status = "pending" /\ edits' = edits + 1
    BY <1>3 DEF Pending, CreateActivity, Edit
  <2> QED BY <1>2, <2>1, <2>2, <2>3, RecordSet, WriteKeeps
<1>4. CASE UpdateActivity(a)
  <2>1. Exists(a)
    BY <1>4 DEF UpdateActivity
  <2>2. PICK w \in Windows : \E start \in {w[1], record[a].start}, end \in {w[2], record[a].end} :
          SetRecord(a, [record[a] EXCEPT !.start = start, !.end = end, !.since = clock])
    BY <1>4 DEF UpdateActivity
  <2>3. PICK start \in {w[1], record[a].start}, end \in {w[2], record[a].end} :
          SetRecord(a, [record[a] EXCEPT !.start = start, !.end = end, !.since = clock])
    BY <2>2
  <2>4. start \in Nat /\ end \in Nat
    BY <2>1, KnownRecord DEF SaleAssumption, Known
  <2> DEFINE info == [record[a] EXCEPT !.start = start, !.end = end, !.since = clock]
  <2>5. info \in Known /\ info.status = record[a].status
    <3>1. record[a] \in Known /\ clock \in Nat
      BY <2>1, KnownRecord DEF SaleType
    <3> QED BY <2>4, <3>1 DEF Known
  <2>6. SetRecord(a, info)
    BY <2>3
  <2> HIDE DEF info
  <2> QED BY <1>2, <2>5, <2>6, RecordSet, WriteKeeps
<1>5. CASE EndActivity(a)
  BY <1>2, <1>5, StatusSet, RecordSet, WriteKeeps DEF EndActivity, SetStatus
<1>6. CASE AddProduct(a)
  BY <1>2, <1>6, ListedSet, RecordSet, WriteKeeps DEF AddProduct, SetListed
<1>7. CASE RemoveProduct(a)
  BY <1>2, <1>7, ListedSet, RecordSet, WriteKeeps DEF RemoveProduct, SetListed
<1> QED BY <1>1, <1>3, <1>4, <1>5, <1>6, <1>7

(* A restart forgets all but the sample activity, which is created anew.   *)
LEMMA RestartStep ==
  ASSUME SaleAssumption, SaleType, Restart
  PROVE  SaleType' /\ \A a \in Activities : KeepsEnded(a)
<1>1. record' = [a \in Activities |-> IF a = Sample THEN SampleActivity(clock) ELSE None]
  BY DEF Restart
<1>2. SampleActivity(clock) \in Known
  BY DEF SaleAssumption, SaleType, SampleActivity, Known
<1>3. UNCHANGED others
  BY DEF Restart, jobVars, others
<1>4. SaleType'
  BY <1>1, <1>2, <1>3 DEF SaleType, others
<1> QED BY <1>1, <1>4 DEF KeepsEnded

(* The job asks for open or ended, and the state machine lets neither      *)
(* overwrite ended.                                                        *)
LEMMA TargetsKnown ==
  ASSUME NEW info, NEW now PROVE Targets(info, now) \subseteq Statuses
BY DEF Targets

LEMMA ListDueStep ==
  ASSUME SaleType, ListDue PROVE SaleType' /\ UNCHANGED record
<1>1. due' = UNION {{a} \X Targets(record[a], clock) : a \in {b \in Activities : Exists(b)}}
  BY DEF ListDue
<1>2. \A a \in Activities : {a} \X Targets(record[a], clock) \subseteq Activities \X Statuses
  BY TargetsKnown
<1>3. due' \subseteq Activities \X Statuses
  BY <1>1, <1>2
<1>4. UNCHANGED <<clock, record, request>>
  BY DEF ListDue, store
<1> QED BY <1>3, <1>4 DEF SaleType

LEMMA UpdateStep ==
  ASSUME SaleType, NEW a \in Activities, NEW status \in Statuses, UpdateStatus(a, status)
  PROVE  SaleType' /\ \A b \in Activities : KeepsEnded(b)
<1>1. UNCHANGED <<clock, request>> /\ due' \subseteq Activities \X Statuses
  BY DEF UpdateStatus, SaleType
<1>2. CASE UNCHANGED record
  BY <1>1, <1>2, RecordKept DEF SaleType
<1>3. CASE Exists(a) /\ TransitActivity(record[a].status, status) /\ SetStatus(a, status)
  <2> DEFINE info == [record[a] EXCEPT !.status = status, !.since = clock]
  <2>1. info \in Known /\ info.status = status
    BY <1>3, StatusSet
  <2>2. SetRecord(a, info)
    BY <1>3 DEF SetStatus
  <2>3. record[a].status = "ended" => status = "ended"
    BY <1>3 DEF TransitActivity, ActivityAllowedTransitions
  <2> HIDE DEF info
  <2>4. \A b \in Activities : KeepsEnded(b)
    BY <2>1, <2>2, <2>3, WriteKeeps
  <2>5. SaleType'
    BY <1>1, <2>1, <2>2 DEF SaleType, SetRecord
  <2> QED BY <2>4, <2>5
<1> QED BY <1>2, <1>3 DEF UpdateStatus, store

(* The steps of the two programs of the sale write no record.              *)
LEMMA SaleStep ==
  ASSUME SaleType, GatewayStep \/ ProcessorStep PROVE SaleType' /\ UNCHANGED record
<1>1. UNCHANGED <<clock, record, due>>
  BY DEF GatewayStep, ProcessorStep, RefreshRead, MissRead, ReadDetail, StoreDetail, Unfound,
         PartIn, TakeShared, ReadActivity, StoreActivity, Check, NotFound, Sell, store, jobVars
<1>2. request' \in [Requests -> Served]
  <2>1. CASE UNCHANGED request
    BY <2>1 DEF SaleType
  <2>2. ASSUME NEW r \in Requests, NEW stage \in Stages, NEW a \in Activities, MoveTo(r, stage, a)
        PROVE  request' \in [Requests -> Served]
    BY <2>2 DEF SaleType, MoveTo, Served
  <2>3. CASE GatewayStep
    <3>1. CASE \E r \in Requests, a \in Activities : Unfound(r, a) \/ PartIn(r, a)
      <4>1. PICK r \in Requests, a \in Activities : Unfound(r, a) \/ PartIn(r, a)
        BY <3>1
      <4>2. \E stage \in Stages : MoveTo(r, stage, a)
        BY <4>1 DEF Unfound, PartIn
      <4> QED BY <2>2, <4>2
    <3>2. CASE UNCHANGED request
      BY <2>1, <3>2
    <3> QED BY <2>3, <3>1, <3>2 DEF GatewayStep, RefreshRead, MissRead, ReadDetail, StoreDetail
  <2>4. CASE ProcessorStep
    <3>1. CASE \E r \in Requests : Check(r) \/ NotFound(r) \/ Sell(r)
      <4>1. PICK r \in Requests : Check(r) \/ NotFound(r) \/ Sell(r)
        BY <3>1
      <4>2. \E stage \in Stages : MoveTo(r, stage, request[r].activity)
        BY <4>1 DEF Check, NotFound, Sell
      <4>3. request[r].stage \in {"queued", "checked"}
        BY <4>1 DEF Check, NotFound, Sell
      <4>4. request[r] \in Served
        BY DEF SaleType
      <4>5. request[r].activity \in Activities
        BY <4>3, <4>4, InHand
      <4> QED BY <2>2, <4>2, <4>5
    <3>2. CASE UNCHANGED request
      BY <2>1, <3>2
    <3> QED BY <2>4, <3>1, <3>2 DEF ProcessorStep, TakeShared, ReadActivity, StoreActivity
  <2> QED BY <2>3, <2>4
<1> QED BY <1>1, <1>2 DEF SaleType

(* Every step keeps the types, and no activity comes back from its end.    *)
LEMMA TypeStep ==
  ASSUME SaleAssumption, SaleType, [Next]_vars
  PROVE  SaleType' /\ \A a \in Activities : KeepsEnded(a)
<1>1. CASE Admin
  BY <1>1, AdminStep
<1>2. CASE \E a \in Activities : StockShelf(a) \/ DeleteKey(a)
  BY <1>2, RecordKept DEF StockShelf, DeleteKey, SaleType, store, jobVars
<1>3. CASE Restart
  BY <1>3, RestartStep
<1>4. CASE UpdateActivityStatuses
  BY <1>4, ListDueStep, UpdateStep, RecordKept DEF UpdateActivityStatuses
<1>5. CASE ReleaseEndedActivityKeys
  BY <1>5, RecordKept
     DEF ReleaseEndedActivityKeys, ListEnded, CleanupStock, SaleType, store
<1>6. CASE GatewayStep \/ ProcessorStep
  BY <1>6, SaleStep, RecordKept
<1>7. CASE Tick
  BY <1>7, RecordKept DEF Tick, SaleType, jobVars
<1>8. CASE UNCHANGED vars
  BY <1>8, RecordKept DEF vars, store, jobVars, SaleType
<1> QED BY <1>1, <1>2, <1>3, <1>4, <1>5, <1>6, <1>7, <1>8 DEF Next

(* Only what is withdrawn is put down for the deletion of its key.         *)
LEMMA WithdrawnStep ==
  ASSUME SaleType, Withdrawing, [Next]_vars
  PROVE  Withdrawing' /\ withdrawn \subseteq withdrawn'
<1>1. CASE Admin
  BY <1>1 DEF Withdrawing, shelfVars, adminVars, jobVars, AdminUntouched,
              Admin, CreateActivity, UpdateActivity, EndActivity, AddProduct, RemoveProduct
<1>2. CASE \E a \in Activities : StockShelf(a) \/ DeleteKey(a)
  BY <1>2 DEF Withdrawing, StockShelf, DeleteKey, Seeded, ClearShelf, shelfVars, jobVars
<1>3. CASE Restart
  BY <1>3 DEF Withdrawing, Restart, Seeded, jobVars
<1>4. CASE UpdateActivityStatuses
  BY <1>4 DEF Withdrawing, UpdateActivityStatuses, ListDue, UpdateStatus, shelfVars, adminVars
<1>5. CASE ReleaseEndedActivityKeys
  BY <1>5 DEF Withdrawing, ReleaseEndedActivityKeys, ListEnded, CleanupStock, ClearShelf,
              shelfVars, adminVars
<1>6. CASE GatewayStep
  BY <1>6 DEF Withdrawing, GatewayStep, RefreshRead, MissRead, ReadDetail, StoreDetail, Unfound,
              PartIn, shelfVars, adminVars, jobVars
<1>7. CASE ProcessorStep
  BY <1>7 DEF Withdrawing, ProcessorStep, TakeShared, ReadActivity, StoreActivity, Check, NotFound,
              Sell, shelfVars, adminVars, jobVars
<1>8. CASE Tick
  BY <1>8 DEF Withdrawing, Tick, shelfVars, adminVars, jobVars
<1>9. CASE UNCHANGED vars
  BY <1>9 DEF Withdrawing, vars, shelfVars, adminVars, jobVars
<1> QED BY <1>1, <1>2, <1>3, <1>4, <1>5, <1>6, <1>7, <1>8, <1>9 DEF Next

(* What a step does to the shelves: it stocks, clears or sells from one.   *)
LEMMA ShelfStep ==
  ASSUME SaleAssumption, SaleType, ShelfInv, [Next]_vars PROVE ShelfInv'
<1>1. Withdrawing' /\ withdrawn \subseteq withdrawn'
  BY WithdrawnStep DEF ShelfInv
<1> SUFFICES ShelfKept'
  BY <1>1 DEF ShelfInv
<1>2. ASSUME UNCHANGED <<shelf, sold>> PROVE ShelfKept'
  BY <1>1, <1>2, ShelfUntouched DEF ShelfInv
<1>3. ASSUME NEW a \in Activities, Seeded(a) PROVE ShelfKept'
  BY <1>3, SeededShelf DEF ShelfInv
<1>4. ASSUME NEW a \in Activities, a \in withdrawn, ClearShelf(a) PROVE ShelfKept'
  BY <1>4, ClearedShelf DEF ShelfInv
<1>5. CASE Admin
  BY <1>2, <1>5
     DEF Admin, CreateActivity, UpdateActivity, EndActivity, AddProduct, RemoveProduct, shelfVars
<1>6. CASE \E a \in Activities : StockShelf(a) \/ DeleteKey(a)
  BY <1>2, <1>3, <1>4, <1>6 DEF StockShelf, DeleteKey, shelfVars, ShelfInv, Withdrawing
<1>7. CASE Restart
  BY <1>3, <1>7 DEF Restart, SaleAssumption
<1>8. CASE UpdateActivityStatuses
  BY <1>2, <1>8 DEF UpdateActivityStatuses, ListDue, UpdateStatus, shelfVars
<1>9. CASE ReleaseEndedActivityKeys
  BY <1>2, <1>4, <1>9
     DEF ReleaseEndedActivityKeys, ListEnded, CleanupStock, shelfVars, ShelfInv, Withdrawing
<1>10. CASE GatewayStep
  BY <1>2, <1>10
     DEF GatewayStep, RefreshRead, MissRead, ReadDetail, StoreDetail, Unfound, PartIn, shelfVars
<1>11. CASE ProcessorStep
  <2>1. CASE \E r \in Requests : Sell(r)
    <3>1. PICK r \in Requests : Sell(r)
      BY <2>1
    <3>2. request[r] \in Served /\ request[r].stage = "checked"
      BY <3>1 DEF SaleType, Sell
    <3>3. request[r].activity \in Activities
      BY <3>2, InHand
    <3> QED BY <3>1, <3>3, SoldShelf DEF ShelfInv
  <2>2. CASE UNCHANGED shelfVars
    BY <1>2, <2>2 DEF shelfVars
  <2> QED BY <1>11, <2>1, <2>2
          DEF ProcessorStep, TakeShared, ReadActivity, StoreActivity, Check, NotFound
<1>12. CASE Tick
  BY <1>2, <1>12 DEF Tick, shelfVars
<1>13. CASE UNCHANGED vars
  BY <1>2, <1>13 DEF vars, shelfVars
<1> QED BY <1>5, <1>6, <1>7, <1>8, <1>9, <1>10, <1>11, <1>12, <1>13 DEF Next

-----------------------------------------------------------------------------
(* A product that was never delisted, and whose activity the release job   *)
(* never found over, is not sold beyond its units, restarts, re-created    *)
(* numbers and repeated stockings included (SetNX in AddActivity and       *)
(* AddActivitySKU; the two deletions of the key are the exception).        *)
THEOREM SoldOnceAlways == Spec => []SoldOnce
<1>1. Init => SaleType /\ ShelfInv
  BY SaleAssumption, TypeInit, ShelfInit
<1>2. (SaleType /\ ShelfInv) /\ [Next]_vars => (SaleType /\ ShelfInv)'
  BY SaleAssumption, TypeStep, ShelfStep
<1>3. SaleType /\ ShelfInv => SoldOnce
  BY DEF ShelfInv, ShelfKept
<1> QED BY <1>1, <1>2, <1>3, PTL DEF Spec

(* An activity that ended stays so against stale rounds of the job, until  *)
(* its number is created again or the service restarts (TransitActivity).  *)
THEOREM EndedStaysEnded == Spec => EndedForGood
<1>1. Init => SaleType
  BY SaleAssumption, TypeInit
<1>2. SaleType /\ [Next]_vars => SaleType'
  BY SaleAssumption, TypeStep
<1>3. SaleType /\ [Next]_vars =>
        [\A a \in Activities :
           record[a].status = "ended" =>
             \/ record'[a].status = "ended"
             \/ record'[a].status = "pending" /\ edits' = edits + 1
             \/ record' = [b \in Activities |->
                              IF b = Sample THEN SampleActivity(clock) ELSE None]]_vars
  BY SaleAssumption, TypeStep DEF KeepsEnded
<1> QED BY <1>1, <1>2, <1>3, PTL DEF Spec, EndedForGood

-----------------------------------------------------------------------------
(* How old a verdict can be.  The invariant dates every load and every     *)
(* cached entry by a version of the record that was in force when it was   *)
(* read: a load since its call began, an entry since one call, or one call *)
(* and the life of the shared entry it was taken from, before it was kept. *)
Loads == {"refresh", "miss"}
Version == [info : Known, until : Nat]

RecordsDated ==
  /\ \A a \in Activities : Exists(a) => record[a].since <= clock
  /\ past \in [Activities -> SUBSET Version]

CacheType ==
  /\ gateway \in [Activities -> [at : Nat, open : BOOLEAN] \cup {None}]
  /\ local \in [Activities -> [at : Nat, info : Known] \cup {None}]
  /\ shared \in [Activities -> [at : Nat, info : Known] \cup {None}]
  /\ fetching \in [Loads -> [activity : Activities, read : Nat, open : BOOLEAN] \cup {None}]
  /\ loading \in [activity : Activities, read : Nat, info : Known] \cup {None}

SeenOpen(a, from, open) ==
  \E v \in Versions(a) : \E t \in v.info.since .. v.until : from <= t /\ IsOpen(v.info, t) = open

SeenRecord(a, from, info) == \E v \in Versions(a) : v.info = info /\ from <= v.until

Underway(load) == load # None => clock <= load.read + RpcTime

FetchesDated ==
  \A l \in Loads :
    /\ Underway(fetching[l])
    /\ fetching[l] # None =>
         SeenOpen(fetching[l].activity, fetching[l].read, fetching[l].open)

GatewayDated ==
  \A a \in Activities : Fresh(gateway[a], GatewayTTL) =>
    SeenOpen(a, gateway[a].at - RpcTime, gateway[a].open)

LoadingDated ==
  /\ Underway(loading)
  /\ loading # None => SeenRecord(loading.activity, loading.read, loading.info)

SharedDated ==
  \A a \in Activities : Fresh(shared[a], RedisTTL) =>
    SeenRecord(a, shared[a].at - RpcTime, shared[a].info)

LocalDated ==
  \A a \in Activities : Fresh(local[a], LocalTTL) =>
    SeenRecord(a, local[a].at - RedisTTL - RpcTime, local[a].info)

CachesDated == FetchesDated /\ GatewayDated /\ LoadingDated /\ SharedDated /\ LocalDated

DateInv == RecordsDated /\ CacheType /\ CachesDated

LEMMA DateInit == ASSUME SaleAssumption, Init PROVE DateInv
<1>1. RecordsDated
  <2>1. PICK info \in {SampleActivity(0)} \cup {Pending(w, TRUE, 0) : w \in Windows} :
          record = [a \in Activities |-> IF a = Sample THEN info ELSE None]
    BY DEF Init
  <2>2. info.since = 0
    BY DEF SampleActivity, Pending
  <2>3. \A a \in Activities : Exists(a) => record[a].since <= clock
    BY <2>1, <2>2 DEF Init, Exists
  <2> QED BY <2>3 DEF Init, RecordsDated
<1>2. CacheType
  BY DEF Init, CacheType, Loads
<1>3. CachesDated
  BY DEF Init, CachesDated, FetchesDated, GatewayDated, LoadingDated, SharedDated, LocalDated,
         Underway, Fresh, Loads
<1> QED BY <1>1, <1>2, <1>3 DEF DateInv

(* A version once seen stays seen, while time stands still.                *)
LEMMA SeenKept ==
  ASSUME NEW a, Versions(a) \subseteq Versions(a)', NEW from, NEW open, NEW info
  PROVE  /\ SeenOpen(a, from, open) => SeenOpen(a, from, open)'
         /\ SeenRecord(a, from, info) => SeenRecord(a, from, info)'
BY DEF SeenOpen, SeenRecord, IsOpen, InWindow

(* The versions of an activity are versions.                               *)
LEMMA VersionType ==
  ASSUME SaleType, RecordsDated, NEW a \in Activities PROVE Versions(a) \subseteq Version
<1>1. Exists(a) => [info |-> record[a], until |-> clock] \in Version
  BY KnownRecord DEF SaleType, Version
<1>2. past[a] \subseteq Version
  BY DEF RecordsDated
<1> QED BY <1>1, <1>2 DEF Versions

(* Writing a record keeps the version it replaces.                         *)
LEMMA WriteDated ==
  ASSUME SaleType, RecordsDated, NEW a \in Activities, NEW info \in Known, info.since = clock,
         SetRecord(a, info), UNCHANGED clock
  PROVE  RecordsDated' /\ \A b \in Activities : Versions(b) \subseteq Versions(b)'
<1>1. record' = [record EXCEPT ![a] = info] /\ past' = [past EXCEPT ![a] = @ \cup Superseded(a)]
  BY DEF SetRecord
<1>2. past'[a] = past[a] \cup Superseded(a) /\ \A b \in Activities \ {a} : past'[b] = past[b]
  BY <1>1 DEF RecordsDated
<1>3. record'[a] = info /\ \A b \in Activities \ {a} : record'[b] = record[b]
  BY <1>1 DEF SaleType
<1>4. Versions(a) = past'[a]
  BY <1>2 DEF Versions, Superseded
<1>5. past' \in [Activities -> SUBSET Version]
  <2>1. past'[a] \subseteq Version
    BY <1>4, VersionType
  <2> QED BY <1>1, <1>2, <2>1 DEF RecordsDated
<1>6. \A b \in Activities : Exists(b)' => record'[b].since <= clock'
  BY <1>3 DEF RecordsDated, Exists, SaleType
<1>7. \A b \in Activities : Versions(b) \subseteq Versions(b)'
  BY <1>2, <1>3, <1>4 DEF Versions, Exists
<1> QED BY <1>5, <1>6, <1>7 DEF RecordsDated

LEMMA StoreKept ==
  ASSUME RecordsDated, UNCHANGED <<clock, store>>
  PROVE  RecordsDated' /\ \A b \in Activities : Versions(b) \subseteq Versions(b)'
BY DEF RecordsDated, Versions, Exists, store


(* What administrators, the job and a restart write is dated now, and      *)
(* replaces no version without a trace.                                    *)
LEMMA AdminDated ==
  ASSUME SaleAssumption, SaleType, RecordsDated, Admin
  PROVE  RecordsDated' /\ \A b \in Activities : Versions(b) \subseteq Versions(b)'
<1>1. PICK a \in Activities : \/ CreateActivity(a) \/ UpdateActivity(a) \/ EndActivity(a)
                              \/ AddProduct(a) \/ RemoveProduct(a)
  BY DEF Admin
<1>2. \E info \in Known : info.since = clock /\ SetRecord(a, info)
  <2>1. CASE CreateActivity(a)
    <3>1. PICK w \in Windows, listed \in BOOLEAN : SetRecord(a, Pending(w, listed, clock))
      BY <2>1 DEF CreateActivity
    <3>2. Pending(w, listed, clock) \in Known /\ Pending(w, listed, clock).since = clock
      BY SampleKnown DEF SaleType, Pending
    <3> QED BY <3>1, <3>2
  <2>2. CASE ~ CreateActivity(a)
    <3>1. record[a] \in Known /\ clock \in Nat
      BY <1>1, <2>2, KnownRecord
         DEF UpdateActivity, EndActivity, AddProduct, RemoveProduct, SaleType
    <3>2. CASE UpdateActivity(a)
      <4>1. PICK w \in Windows : \E start \in {w[1], record[a].start}, end \in {w[2], record[a].end} :
              SetRecord(a, [record[a] EXCEPT !.start = start, !.end = end, !.since = clock])
        BY <3>2 DEF UpdateActivity
      <4>2. PICK start \in {w[1], record[a].start}, end \in {w[2], record[a].end} :
              SetRecord(a, [record[a] EXCEPT !.start = start, !.end = end, !.since = clock])
        BY <4>1
      <4>3. start \in Nat /\ end \in Nat
        BY <3>1 DEF SaleAssumption, Known
      <4>4. /\ [record[a] EXCEPT !.start = start, !.end = end, !.since = clock] \in Known
            /\ [record[a] EXCEPT !.start = start, !.end = end, !.since = clock].since = clock
        BY <3>1, <4>3 DEF Known
      <4> QED BY <4>2, <4>4
    <3>3. ASSUME NEW status \in Statuses
          PROVE  /\ [record[a] EXCEPT !.status = status, !.since = clock] \in Known
                 /\ [record[a] EXCEPT !.status = status, !.since = clock].since = clock
      BY <3>1 DEF Known
    <3>4. ASSUME NEW listed \in BOOLEAN
          PROVE  /\ [record[a] EXCEPT !.listed = listed, !.since = clock] \in Known
                 /\ [record[a] EXCEPT !.listed = listed, !.since = clock].since = clock
      BY <3>1 DEF Known
    <3>5. CASE EndActivity(a)
      BY <3>3, <3>5 DEF EndActivity, SetStatus
    <3>6. CASE AddProduct(a) \/ RemoveProduct(a)
      BY <3>4, <3>6 DEF AddProduct, RemoveProduct, SetListed
    <3> QED BY <1>1, <2>2, <3>2, <3>5, <3>6
  <2> QED BY <2>1, <2>2
<1>3. UNCHANGED clock
  BY <1>1 DEF CreateActivity, UpdateActivity, EndActivity, AddProduct, RemoveProduct, AdminUntouched
<1> QED BY <1>2, <1>3, WriteDated

LEMMA JobDated ==
  ASSUME SaleType, RecordsDated, UpdateActivityStatuses
  PROVE  RecordsDated' /\ \A b \in Activities : Versions(b) \subseteq Versions(b)'
<1>1. UNCHANGED clock
  BY DEF UpdateActivityStatuses, ListDue, UpdateStatus
<1>2. CASE UNCHANGED store
  BY <1>1, <1>2, StoreKept
<1>3. ASSUME NEW a \in Activities, NEW status \in Statuses, Exists(a), SetStatus(a, status)
      PROVE  RecordsDated' /\ \A b \in Activities : Versions(b) \subseteq Versions(b)'
  <2>1. record[a] \in Known /\ clock \in Nat
    BY <1>3, KnownRecord DEF SaleType
  <2>2. /\ [record[a] EXCEPT !.status = status, !.since = clock] \in Known
        /\ [record[a] EXCEPT !.status = status, !.since = clock].since = clock
    BY <2>1 DEF Known
  <2> QED BY <1>1, <1>3, <2>2, WriteDated DEF SetStatus
<1> QED BY <1>2, <1>3 DEF UpdateActivityStatuses, ListDue, UpdateStatus

LEMMA RestartDated ==
  ASSUME SaleAssumption, SaleType, RecordsDated, Restart
  PROVE  RecordsDated' /\ \A b \in Activities : Versions(b) \subseteq Versions(b)'
<1>1. /\ record' = [a \in Activities |-> IF a = Sample THEN SampleActivity(clock) ELSE None]
      /\ past' = [a \in Activities |-> past[a] \cup Superseded(a)]
      /\ clock' = clock
  BY DEF Restart
<1>2. \A a \in Activities : Versions(a) = past'[a]
  BY <1>1 DEF Versions, Superseded
<1>3. past' \in [Activities -> SUBSET Version]
  BY <1>1, <1>2, VersionType
<1>4. SampleActivity(clock).since = clock
  BY DEF SampleActivity
<1>5. \A a \in Activities : Exists(a)' => record'[a].since <= clock'
  BY <1>1, <1>4 DEF Exists, SaleType
<1> QED BY <1>2, <1>3, <1>5 DEF RecordsDated, Versions

(* No version that counts is forgotten when the clock moves.               *)
LEMMA TickSeen ==
  ASSUME SaleAssumption, SaleType, RecordsDated, Tick, NEW a \in Activities, NEW from \in Int
  PROVE  /\ \A open \in BOOLEAN :
              clock <= from + GatewayLag /\ SeenOpen(a, from, open) => SeenOpen(a, from, open)'
         /\ \A info : clock <= from + ProcessorLag /\ SeenRecord(a, from, info)
                        => SeenRecord(a, from, info)'
<1>1. /\ clock' = clock + 1 /\ record' = record
      /\ past'[a] = {v \in past[a] : Recent(v, GatewayLag) \/ Recent(v, ProcessorLag)}
  BY DEF Tick
<1>2. GatewayLag \in Nat /\ ProcessorLag \in Nat /\ clock \in Nat
  BY DEF SaleAssumption, GatewayLag, ProcessorLag, SaleType
<1>3. ASSUME NEW v \in Versions(a), from <= v.until,
             clock <= from + GatewayLag \/ clock <= from + ProcessorLag
      PROVE  \E u \in Versions(a)' : u.info = v.info /\ v.until <= u.until
  <2>1. v \in Version
    BY VersionType
  <2>2. v.until \in Nat
    BY <2>1 DEF Version
  <2>3. CASE v \in past[a]
    <3>1. Recent(v, GatewayLag) \/ Recent(v, ProcessorLag)
      BY <1>2, <1>3, <2>2 DEF Recent
    <3>2. v \in Versions(a)'
      BY <1>1, <2>3, <3>1 DEF Versions
    <3> QED BY <2>2, <3>2
  <2>4. CASE v \notin past[a]
    <3>1. Exists(a) /\ v = [info |-> record[a], until |-> clock]
      BY <1>3, <2>4 DEF Versions
    <3>2. [info |-> record[a], until |-> clock + 1] \in Versions(a)'
      BY <1>1, <3>1 DEF Versions, Exists
    <3> QED BY <1>2, <3>1, <3>2
  <2> QED BY <2>3, <2>4
<1>4. ASSUME NEW open \in BOOLEAN, clock <= from + GatewayLag, SeenOpen(a, from, open)
      PROVE  SeenOpen(a, from, open)'
  <2>1. PICK v \in Versions(a) : \E t \in v.info.since .. v.until : from <= t /\ IsOpen(v.info, t) = open
    BY <1>4 DEF SeenOpen
  <2>2. PICK t \in v.info.since .. v.until : from <= t /\ IsOpen(v.info, t) = open
    BY <2>1
  <2>3. v \in Version
    BY VersionType
  <2>4. v.until \in Nat /\ v.info.since \in Nat
    BY <2>3 DEF Version, Known
  <2>5. PICK u \in Versions(a)' : u.info = v.info /\ v.until <= u.until
    BY <1>3, <1>4, <2>2, <2>4
  <2>6. u.until \in Nat
    BY <1>1, <1>2, <2>5, VersionType DEF Versions, Version, RecordsDated
  <2>7. t \in u.info.since .. u.until
    BY <2>2, <2>4, <2>5, <2>6
  <2>8. IsOpen(u.info, t) = open
    BY <2>2, <2>5
  <2> QED BY <2>2, <2>5, <2>7, <2>8 DEF SeenOpen, IsOpen, InWindow
<1>5. ASSUME NEW info, clock <= from + ProcessorLag, SeenRecord(a, from, info)
      PROVE  SeenRecord(a, from, info)'
  <2>1. PICK v \in Versions(a) : v.info = info /\ from <= v.until
    BY <1>5 DEF SeenRecord
  <2>2. PICK u \in Versions(a)' : u.info = v.info /\ v.until <= u.until
    BY <1>3, <1>5, <2>1
  <2>3. v.until \in Nat
    BY VersionType DEF Version
  <2>4. u.until \in Nat
    BY <1>1, <1>2, <2>2, VersionType DEF Versions, Version, RecordsDated
  <2> QED BY <2>1, <2>2, <2>3, <2>4 DEF SeenRecord
<1> QED BY <1>4, <1>5


(* While time stands still, what a step leaves in a cache stays dated.     *)
Grown == clock' = clock /\ \A b \in Activities : Versions(b) \subseteq Versions(b)'

LEMMA FetchKept ==
  ASSUME CacheType, FetchesDated, Grown, NEW l \in Loads, fetching'[l] = fetching[l]
  PROVE  /\ Underway(fetching[l])'
         /\ fetching'[l] # None =>
              SeenOpen(fetching[l].activity, fetching[l].read, fetching[l].open)'
<1>1. Underway(fetching[l])'
  BY DEF FetchesDated, Underway, Grown
<1>2. ASSUME fetching[l] # None
      PROVE  SeenOpen(fetching[l].activity, fetching[l].read, fetching[l].open)'
  <2>1. fetching[l].activity \in Activities
    BY <1>2 DEF CacheType
  <2>2. SeenOpen(fetching[l].activity, fetching[l].read, fetching[l].open)
    BY <1>2 DEF FetchesDated
  <2>3. \A a \in Activities : \A from, open : SeenOpen(a, from, open) => SeenOpen(a, from, open)'
    BY SeenKept DEF Grown
  <2> QED BY <2>1, <2>2, <2>3
<1> QED BY <1>1, <1>2

LEMMA GatewayKept ==
  ASSUME GatewayDated, Grown, NEW a \in Activities, gateway'[a] = gateway[a]
  PROVE  Fresh(gateway[a], GatewayTTL)' => SeenOpen(a, gateway[a].at - RpcTime, gateway[a].open)'
BY SeenKept DEF GatewayDated, Grown, Fresh

LEMMA LoadingKept ==
  ASSUME CacheType, LoadingDated, Grown, loading' = loading PROVE LoadingDated'
<1>1. Underway(loading)'
  BY DEF LoadingDated, Underway, Grown
<1>2. ASSUME loading # None PROVE SeenRecord(loading.activity, loading.read, loading.info)'
  <2>1. loading.activity \in Activities
    BY <1>2 DEF CacheType
  <2> QED BY <1>2, <2>1, SeenKept DEF LoadingDated, Grown
<1> QED BY <1>1, <1>2 DEF LoadingDated

LEMMA SharedKept ==
  ASSUME SharedDated, Grown, NEW a \in Activities, shared'[a] = shared[a]
  PROVE  Fresh(shared[a], RedisTTL)' => SeenRecord(a, shared[a].at - RpcTime, shared[a].info)'
BY SeenKept DEF SharedDated, Grown, Fresh

LEMMA LocalKept ==
  ASSUME LocalDated, Grown, NEW a \in Activities, local'[a] = local[a]
  PROVE  Fresh(local[a], LocalTTL)' =>
           SeenRecord(a, local[a].at - RedisTTL - RpcTime, local[a].info)'
BY SeenKept DEF LocalDated, Grown, Fresh

LEMMA CachesKept ==
  ASSUME CacheType, CachesDated, Grown, UNCHANGED cacheVars PROVE CacheType' /\ CachesDated'
<1>0. UNCHANGED <<gateway, fetching, local, shared, loading>>
  BY DEF cacheVars
<1>1. CacheType'
  BY <1>0 DEF CacheType
<1>2. FetchesDated'
  BY <1>0, FetchKept DEF FetchesDated, CachesDated
<1>3. GatewayDated'
  BY <1>0, GatewayKept DEF GatewayDated, CachesDated
<1>4. LoadingDated'
  BY <1>0, LoadingKept DEF CachesDated
<1>5. SharedDated'
  BY <1>0, SharedKept DEF SharedDated, CachesDated
<1>6. LocalDated'
  BY <1>0, LocalKept DEF LocalDated, CachesDated
<1> QED BY <1>1, <1>2, <1>3, <1>4, <1>5, <1>6 DEF CachesDated


(* What a load reads is in force now, and what was seen since some moment  *)
(* was seen since an earlier one.                                          *)
LEMMA NowSeen ==
  ASSUME SaleType, RecordsDated, NEW a \in Activities, Exists(a)
  PROVE  SeenOpen(a, clock, IsOpen(record[a], clock)) /\ SeenRecord(a, clock, record[a])
<1> DEFINE v == [info |-> record[a], until |-> clock]
<1>1. v \in Versions(a) /\ v.info = record[a] /\ v.until = clock
  BY DEF Versions
<1>2. clock \in v.info.since .. v.until
  BY KnownRecord DEF SaleType, RecordsDated, Known
<1>3. clock <= clock
  BY DEF SaleType
<1> HIDE DEF v
<1> QED BY <1>1, <1>2, <1>3 DEF SeenOpen, SeenRecord

LEMMA EarlierSeen ==
  ASSUME SaleType, RecordsDated, NEW a \in Activities,
         NEW from \in Int, NEW before \in Int, before <= from, NEW open, NEW info
  PROVE  /\ SeenOpen(a, from, open) => SeenOpen(a, before, open)
         /\ SeenRecord(a, from, info) => SeenRecord(a, before, info)
<1>1. \A v \in Versions(a) : v.until \in Nat /\ v.info.since \in Nat
  BY VersionType DEF Version, Known
<1>2. ASSUME SeenOpen(a, from, open) PROVE SeenOpen(a, before, open)
  <2>1. PICK v \in Versions(a) : \E t \in v.info.since .. v.until : from <= t /\ IsOpen(v.info, t) = open
    BY <1>2 DEF SeenOpen
  <2>2. PICK t \in v.info.since .. v.until : from <= t /\ IsOpen(v.info, t) = open
    BY <2>1
  <2>3. before <= t
    BY <1>1, <2>2
  <2> QED BY <2>2, <2>3 DEF SeenOpen
<1>3. ASSUME SeenRecord(a, from, info) PROVE SeenRecord(a, before, info)
  BY <1>1, <1>3 DEF SeenRecord
<1> QED BY <1>2, <1>3

(* The steps of the caches themselves.                                     *)
LEMMA ReadDetailDated ==
  ASSUME SaleAssumption, SaleType, DateInv, NEW l \in Loads, NEW a \in Activities, ReadDetail(l, a)
  PROVE  DateInv'
<1> DEFINE load == [activity |-> a, read |-> clock, open |-> IsOpen(record[a], clock)]
<1>1. fetching' = [fetching EXCEPT ![l] = load] /\ Exists(a)
  BY DEF ReadDetail
<1>2. UNCHANGED <<clock, store, gateway, local, shared, loading>>
  BY DEF ReadDetail
<1>3. RecordsDated' /\ Grown
  BY <1>2, StoreKept DEF DateInv, Grown
<1>4. load \in [activity : Activities, read : Nat, open : BOOLEAN]
  BY DEF SaleType, IsOpen
<1>5. CacheType'
  <2> HIDE DEF load
  <2> QED BY <1>1, <1>2, <1>4 DEF DateInv, CacheType
<1>6. FetchesDated'
  <2>1. ASSUME NEW m \in Loads, m # l
        PROVE  /\ Underway(fetching[m])'
               /\ fetching'[m] # None => SeenOpen(fetching[m].activity, fetching[m].read, fetching[m].open)'
    <3>1. fetching'[m] = fetching[m]
      BY <1>1, <2>1 DEF DateInv, CacheType
    <3> QED BY <1>3, <3>1, FetchKept DEF DateInv, CachesDated
  <2>2. fetching'[l] = load
    BY <1>1 DEF DateInv, CacheType
  <2>3. SeenOpen(a, clock, IsOpen(record[a], clock))
    BY <1>1, NowSeen DEF DateInv
  <2>4. SeenOpen(a, clock, IsOpen(record[a], clock))'
    <3>1. UNCHANGED <<clock, record, past>>
      BY <1>2 DEF store
    <3> QED BY <2>3, <3>1 DEF SeenOpen, Versions, Exists
  <2>5. UNCHANGED <<clock, record>>
    BY <1>2 DEF store
  <2>6. Underway(fetching[l])'
    BY <1>2, <2>2 DEF Underway, SaleAssumption, SaleType
  <2>7. SeenOpen(fetching[l].activity, fetching[l].read, fetching[l].open)'
    BY <2>2, <2>4, <2>5
  <2> QED BY <2>1, <2>6, <2>7 DEF FetchesDated
<1>7. GatewayDated' /\ LoadingDated' /\ SharedDated' /\ LocalDated'
  <2>1. GatewayDated'
    BY <1>2, <1>3, GatewayKept DEF GatewayDated, DateInv, CachesDated
  <2>2. LoadingDated'
    BY <1>2, <1>3, LoadingKept DEF DateInv, CachesDated
  <2>3. SharedDated'
    BY <1>2, <1>3, SharedKept DEF SharedDated, DateInv, CachesDated
  <2>4. LocalDated'
    BY <1>2, <1>3, LocalKept DEF LocalDated, DateInv, CachesDated
  <2> QED BY <2>1, <2>2, <2>3, <2>4
<1> QED BY <1>3, <1>5, <1>6, <1>7 DEF DateInv, CachesDated

LEMMA StoreDetailDated ==
  ASSUME SaleAssumption, SaleType, DateInv, NEW l \in Loads, StoreDetail(l)
  PROVE  DateInv'
<1>1. fetching[l] # None /\ fetching' = [fetching EXCEPT ![l] = None]
  BY DEF StoreDetail
<1>2. UNCHANGED <<clock, store, local, shared, loading>>
  BY DEF StoreDetail
<1>3. RecordsDated' /\ Grown
  BY <1>2, StoreKept DEF DateInv, Grown
<1>4. PICK load \in [activity : Activities, read : Nat, open : BOOLEAN] : load = fetching[l]
  BY <1>1 DEF DateInv, CacheType
<1> DEFINE a == load.activity
           entry == [at |-> clock, open |-> load.open]
<1>5. a \in Activities /\ entry \in [at : Nat, open : BOOLEAN] /\ entry.at = clock
  BY <1>4 DEF SaleType
<1>6. UNCHANGED gateway \/ gateway' = [gateway EXCEPT ![a] = entry]
  BY <1>4 DEF StoreDetail
<1>7. CacheType'
  <2>1. gateway' \in [Activities -> [at : Nat, open : BOOLEAN] \cup {None}]
    <3> HIDE DEF entry, a
    <3> QED BY <1>5, <1>6 DEF DateInv, CacheType
  <2>2. fetching' \in [Loads -> [activity : Activities, read : Nat, open : BOOLEAN] \cup {None}]
    BY <1>1 DEF DateInv, CacheType
  <2> QED BY <1>2, <2>1, <2>2 DEF DateInv, CacheType
<1>8. FetchesDated'
  <2>1. ASSUME NEW m \in Loads, m # l
        PROVE  /\ Underway(fetching[m])'
               /\ fetching'[m] # None => SeenOpen(fetching[m].activity, fetching[m].read, fetching[m].open)'
    <3>1. fetching'[m] = fetching[m]
      BY <1>1, <2>1 DEF DateInv, CacheType
    <3> QED BY <1>3, <3>1, FetchKept DEF DateInv, CachesDated
  <2>2. fetching'[l] = None
    BY <1>1 DEF DateInv, CacheType
  <2> QED BY <2>1, <2>2 DEF FetchesDated, Underway
<1>9. GatewayDated'
  <2>1. ASSUME NEW b \in Activities, gateway'[b] = gateway[b]
        PROVE  Fresh(gateway[b], GatewayTTL)' => SeenOpen(b, gateway[b].at - RpcTime, gateway[b].open)'
    BY <1>3, <2>1, GatewayKept DEF DateInv, CachesDated
  <2>2. SeenOpen(a, clock - RpcTime, load.open)'
    <3>1. SeenOpen(a, load.read, load.open) /\ clock <= load.read + RpcTime
      BY <1>1, <1>4 DEF DateInv, CachesDated, FetchesDated, Underway
    <3>2. clock - RpcTime <= load.read /\ clock - RpcTime \in Int /\ load.read \in Int
      BY <1>4, <3>1 DEF SaleAssumption, SaleType
    <3>3. SeenOpen(a, clock - RpcTime, load.open)
      BY <1>5, <3>1, <3>2, EarlierSeen DEF DateInv
    <3>4. UNCHANGED <<clock, record, past>>
      BY <1>2 DEF store
    <3> QED BY <3>3, <3>4 DEF SeenOpen, Versions, Exists
  <2>3. ASSUME NEW b \in Activities, Fresh(gateway[b], GatewayTTL)'
        PROVE  SeenOpen(b, gateway[b].at - RpcTime, gateway[b].open)'
    <3>1. CASE gateway'[b] = gateway[b]
      BY <2>1, <2>3, <3>1
    <3>2. CASE gateway'[b] # gateway[b]
      <4>1. b = a /\ gateway'[a] = entry
        BY <1>5, <1>6, <3>2 DEF DateInv, CacheType
      <4>2. gateway'[b].at = clock /\ gateway'[b].open = load.open
        BY <4>1
      <4> HIDE DEF a
      <4> QED BY <1>2, <2>2, <4>1, <4>2 DEF SeenOpen
    <3> QED BY <3>1, <3>2
  <2> QED BY <2>3 DEF GatewayDated
<1>10. LoadingDated' /\ SharedDated' /\ LocalDated'
  <2>1. LoadingDated'
    BY <1>2, <1>3, LoadingKept DEF DateInv, CachesDated
  <2>2. SharedDated'
    BY <1>2, <1>3, SharedKept DEF SharedDated, DateInv, CachesDated
  <2>3. LocalDated'
    BY <1>2, <1>3, LocalKept DEF LocalDated, DateInv, CachesDated
  <2> QED BY <2>1, <2>2, <2>3
<1> QED BY <1>3, <1>7, <1>8, <1>9, <1>10 DEF DateInv, CachesDated

(* The processor's own entry is at worst the shared one's life younger     *)
(* than that, and the shared one a call younger than what it was read from.*)
LEMMA TakeSharedDated ==
  ASSUME SaleAssumption, SaleType, DateInv, NEW a \in Activities, TakeShared(a)
  PROVE  DateInv'
<1>1. Fresh(shared[a], RedisTTL) /\ UNCHANGED <<clock, store, gateway, fetching, shared, loading>>
  BY DEF TakeShared
<1>2. RecordsDated' /\ Grown
  BY <1>1, StoreKept DEF DateInv, Grown
<1>3. PICK old \in [at : Nat, info : Known] : old = shared[a]
  BY <1>1 DEF DateInv, CacheType, Fresh
<1> DEFINE entry == [at |-> clock, info |-> old.info]
<1>4. local' = [local EXCEPT ![a] = entry]
  BY <1>3 DEF TakeShared
<1>5. entry \in [at : Nat, info : Known]
  BY <1>3 DEF SaleType
<1>6. CacheType'
  <2> HIDE DEF entry
  <2> QED BY <1>1, <1>4, <1>5 DEF DateInv, CacheType
<1>7. SeenRecord(a, clock - RedisTTL - RpcTime, old.info)'
  <2>1. SeenRecord(a, old.at - RpcTime, old.info) /\ clock <= old.at + RedisTTL
    BY <1>1, <1>3 DEF DateInv, CachesDated, SharedDated, Fresh
  <2>2. /\ clock - RedisTTL - RpcTime <= old.at - RpcTime
        /\ clock - RedisTTL - RpcTime \in Int /\ old.at - RpcTime \in Int
    BY <1>3, <2>1 DEF SaleAssumption, SaleType
  <2>3. SeenRecord(a, clock - RedisTTL - RpcTime, old.info)
    BY <2>1, <2>2, EarlierSeen DEF DateInv
  <2>4. UNCHANGED <<clock, record, past>>
    BY <1>1 DEF store
  <2> QED BY <2>3, <2>4 DEF SeenRecord, Versions, Exists
<1>8. LocalDated'
  <2>1. ASSUME NEW b \in Activities, b # a, Fresh(local[b], LocalTTL)'
        PROVE  SeenRecord(b, local[b].at - RedisTTL - RpcTime, local[b].info)'
    <3>1. local'[b] = local[b]
      BY <1>4, <2>1 DEF DateInv, CacheType
    <3> QED BY <1>2, <2>1, <3>1, LocalKept DEF DateInv, CachesDated
  <2>2. local'[a] = entry
    BY <1>4 DEF DateInv, CacheType
  <2>3. local'[a].at = clock /\ local'[a].info = old.info
    BY <2>2
  <2>4. SeenRecord(a, local[a].at - RedisTTL - RpcTime, local[a].info)'
    BY <1>1, <1>7, <2>3
  <2> QED BY <2>1, <2>4 DEF LocalDated
<1>9. FetchesDated' /\ GatewayDated' /\ LoadingDated' /\ SharedDated'
  <2>1. FetchesDated'
    BY <1>1, <1>2, FetchKept DEF FetchesDated, DateInv, CachesDated
  <2>2. GatewayDated'
    BY <1>1, <1>2, GatewayKept DEF GatewayDated, DateInv, CachesDated
  <2>3. LoadingDated'
    BY <1>1, <1>2, LoadingKept DEF DateInv, CachesDated
  <2>4. SharedDated'
    BY <1>1, <1>2, SharedKept DEF SharedDated, DateInv, CachesDated
  <2> QED BY <2>1, <2>2, <2>3, <2>4
<1> QED BY <1>2, <1>6, <1>8, <1>9 DEF DateInv, CachesDated

LEMMA ReadActivityDated ==
  ASSUME SaleAssumption, SaleType, DateInv, NEW a \in Activities, ReadActivity(a)
  PROVE  DateInv'
<1> DEFINE load == [activity |-> a, read |-> clock, info |-> record[a]]
<1>1. loading' = load /\ Exists(a) /\ UNCHANGED <<clock, store, gateway, fetching, local, shared>>
  BY DEF ReadActivity
<1>2. RecordsDated' /\ Grown
  BY <1>1, StoreKept DEF DateInv, Grown
<1>3. load \in [activity : Activities, read : Nat, info : Known]
  BY <1>1, KnownRecord DEF SaleType
<1>4. CacheType'
  <2> HIDE DEF load
  <2> QED BY <1>1, <1>3 DEF DateInv, CacheType
<1>5. LoadingDated'
  <2>1. UNCHANGED <<clock, record, past>>
    BY <1>1 DEF store
  <2>2. SeenRecord(a, clock, record[a])
    BY <1>1, NowSeen DEF DateInv
  <2>3. SeenRecord(a, clock, record[a])'
    BY <2>1, <2>2 DEF SeenRecord, Versions, Exists
  <2>4. Underway(loading)'
    BY <1>1 DEF Underway, SaleAssumption, SaleType
  <2>5. SeenRecord(loading.activity, loading.read, loading.info)'
    BY <1>1, <2>1, <2>3
  <2> QED BY <2>4, <2>5 DEF LoadingDated
<1>6. FetchesDated' /\ GatewayDated' /\ SharedDated' /\ LocalDated'
  <2>1. FetchesDated'
    BY <1>1, <1>2, FetchKept DEF FetchesDated, DateInv, CachesDated
  <2>2. GatewayDated'
    BY <1>1, <1>2, GatewayKept DEF GatewayDated, DateInv, CachesDated
  <2>3. SharedDated'
    BY <1>1, <1>2, SharedKept DEF SharedDated, DateInv, CachesDated
  <2>4. LocalDated'
    BY <1>1, <1>2, LocalKept DEF LocalDated, DateInv, CachesDated
  <2> QED BY <2>1, <2>2, <2>3, <2>4
<1> QED BY <1>2, <1>4, <1>5, <1>6 DEF DateInv, CachesDated

LEMMA StoreActivityDated ==
  ASSUME SaleAssumption, SaleType, DateInv, StoreActivity
  PROVE  DateInv'
<1>1. loading # None /\ loading' = None /\ UNCHANGED <<clock, store, gateway, fetching>>
  BY DEF StoreActivity
<1>2. RecordsDated' /\ Grown
  BY <1>1, StoreKept DEF DateInv, Grown
<1>3. PICK load \in [activity : Activities, read : Nat, info : Known] : load = loading
  BY <1>1 DEF DateInv, CacheType
<1> DEFINE a == load.activity
           entry == [at |-> clock, info |-> load.info]
<1>4. \/ UNCHANGED <<local, shared>>
      \/ local' = [local EXCEPT ![a] = entry] /\ shared' = [shared EXCEPT ![a] = entry]
  BY <1>3 DEF StoreActivity
<1>5. a \in Activities /\ entry \in [at : Nat, info : Known]
  BY <1>3 DEF SaleType
<1>6. CacheType'
  <2> HIDE DEF a, entry
  <2> QED BY <1>1, <1>4, <1>5 DEF DateInv, CacheType
<1>7. SeenRecord(a, clock - RpcTime, load.info)' /\ SeenRecord(a, clock - RedisTTL - RpcTime, load.info)'
  <2>1. SeenRecord(a, load.read, load.info) /\ clock <= load.read + RpcTime
    BY <1>1, <1>3 DEF DateInv, CachesDated, LoadingDated, Underway
  <2>2. /\ clock - RpcTime <= load.read /\ clock - RedisTTL - RpcTime <= load.read
        /\ clock - RpcTime \in Int /\ clock - RedisTTL - RpcTime \in Int /\ load.read \in Int
    BY <1>3, <2>1 DEF SaleAssumption, SaleType
  <2>3. SeenRecord(a, clock - RpcTime, load.info) /\ SeenRecord(a, clock - RedisTTL - RpcTime, load.info)
    BY <1>5, <2>1, <2>2, EarlierSeen DEF DateInv
  <2>4. UNCHANGED <<clock, record, past>>
    BY <1>1 DEF store
  <2> QED BY <2>3, <2>4 DEF SeenRecord, Versions, Exists
<1>8. SharedDated'
  <2>1. ASSUME NEW b \in Activities, shared'[b] = shared[b], Fresh(shared[b], RedisTTL)'
        PROVE  SeenRecord(b, shared[b].at - RpcTime, shared[b].info)'
    BY <1>2, <2>1, SharedKept DEF DateInv, CachesDated
  <2>2. ASSUME NEW b \in Activities, shared'[b] # shared[b]
        PROVE  SeenRecord(b, shared[b].at - RpcTime, shared[b].info)'
    <3>1. b = a /\ shared'[a] = entry
      BY <1>4, <1>5, <2>2 DEF DateInv, CacheType
    <3>2. shared'[b].at = clock /\ shared'[b].info = load.info
      BY <3>1
    <3> HIDE DEF a
    <3> QED BY <1>1, <1>7, <3>1, <3>2 DEF SeenRecord
  <2> QED BY <2>1, <2>2 DEF SharedDated
<1>9. LocalDated'
  <2>1. ASSUME NEW b \in Activities, local'[b] = local[b], Fresh(local[b], LocalTTL)'
        PROVE  SeenRecord(b, local[b].at - RedisTTL - RpcTime, local[b].info)'
    BY <1>2, <2>1, LocalKept DEF DateInv, CachesDated
  <2>2. ASSUME NEW b \in Activities, local'[b] # local[b]
        PROVE  SeenRecord(b, local[b].at - RedisTTL - RpcTime, local[b].info)'
    <3>1. b = a /\ local'[a] = entry
      BY <1>4, <1>5, <2>2 DEF DateInv, CacheType
    <3>2. local'[b].at = clock /\ local'[b].info = load.info
      BY <3>1
    <3> HIDE DEF a
    <3> QED BY <1>1, <1>7, <3>1, <3>2 DEF SeenRecord
  <2> QED BY <2>1, <2>2 DEF LocalDated
<1>10. FetchesDated' /\ GatewayDated'
  <2>1. FetchesDated'
    BY <1>1, <1>2, FetchKept DEF FetchesDated, DateInv, CachesDated
  <2>2. GatewayDated'
    BY <1>1, <1>2, GatewayKept DEF GatewayDated, DateInv, CachesDated
  <2> QED BY <2>1, <2>2
<1>11. LoadingDated'
  BY <1>1 DEF LoadingDated, Underway
<1> QED BY <1>2, <1>6, <1>8, <1>9, <1>10, <1>11 DEF DateInv, CachesDated


(* The clock waits for a call that is due to fail, and what the clock      *)
(* leaves fresh still has its version.                                     *)
LEMMA TickDated ==
  ASSUME SaleAssumption, SaleType, DateInv, Tick PROVE DateInv'
<1>1. /\ clock' = clock + 1 /\ record' = record
      /\ past' = [a \in Activities |->
                    {v \in past[a] : Recent(v, GatewayLag) \/ Recent(v, ProcessorLag)}]
      /\ InTime(loading) /\ \A l \in Loads : InTime(fetching[l])
  BY DEF Tick, Loads
<1>2. UNCHANGED <<gateway, fetching, local, shared, loading>>
  BY DEF Tick, cacheVars
<1>3. clock \in Nat /\ {GatewayTTL, LocalTTL, RedisTTL, RpcTime} \subseteq Nat
  BY DEF SaleAssumption, SaleType
<1>4. RecordsDated'
  <2>1. \A a \in Activities : Exists(a)' => record'[a].since <= clock'
    <3>1. \A a \in Activities : Exists(a) => record[a].since \in Nat
      BY KnownRecord DEF Known
    <3> QED BY <1>1, <1>3, <3>1 DEF DateInv, RecordsDated, Exists
  <2> QED BY <1>1, <2>1 DEF DateInv, RecordsDated
<1>5. CacheType'
  BY <1>2 DEF DateInv, CacheType
<1>6. FetchesDated'
  <2> SUFFICES ASSUME NEW l \in Loads, fetching[l] # None
               PROVE  /\ Underway(fetching[l])'
                      /\ SeenOpen(fetching[l].activity, fetching[l].read, fetching[l].open)'
    BY <1>2 DEF FetchesDated, Underway
  <2>1. PICK load \in [activity : Activities, read : Nat, open : BOOLEAN] : load = fetching[l]
    BY DEF DateInv, CacheType
  <2>2. clock < load.read + RpcTime /\ SeenOpen(load.activity, load.read, load.open)
    BY <1>1, <2>1 DEF InTime, DateInv, CachesDated, FetchesDated
  <2>3. clock <= load.read + GatewayLag /\ clock + 1 <= load.read + RpcTime
    BY <1>3, <2>1, <2>2 DEF GatewayLag
  <2>4. SeenOpen(load.activity, load.read, load.open)'
    BY <2>1, <2>2, <2>3, TickSeen DEF DateInv
  <2>5. fetching'[l] = load
    BY <1>2, <2>1
  <2> QED BY <1>1, <2>3, <2>4, <2>5 DEF Underway, SeenOpen
<1>7. GatewayDated'
  <2> SUFFICES ASSUME NEW a \in Activities, Fresh(gateway[a], GatewayTTL)'
               PROVE  SeenOpen(a, gateway[a].at - RpcTime, gateway[a].open)'
    BY DEF GatewayDated
  <2>1. PICK entry \in [at : Nat, open : BOOLEAN] : entry = gateway[a]
    BY <1>2 DEF DateInv, CacheType, Fresh
  <2>2. clock + 1 <= entry.at + GatewayTTL /\ Fresh(gateway[a], GatewayTTL)
    BY <1>1, <1>2, <1>3, <2>1 DEF Fresh
  <2>3. SeenOpen(a, entry.at - RpcTime, entry.open)
    BY <2>1, <2>2 DEF DateInv, CachesDated, GatewayDated
  <2>4. entry.at - RpcTime \in Int /\ clock <= entry.at - RpcTime + GatewayLag
    BY <1>3, <2>2 DEF GatewayLag
  <2>5. SeenOpen(a, entry.at - RpcTime, entry.open)'
    BY <2>3, <2>4, TickSeen DEF DateInv
  <2> QED BY <1>2, <2>1, <2>5 DEF SeenOpen
<1>8. LoadingDated'
  <2> SUFFICES ASSUME loading # None
               PROVE  /\ Underway(loading)'
                      /\ SeenRecord(loading.activity, loading.read, loading.info)'
    BY <1>2 DEF LoadingDated, Underway
  <2>1. PICK load \in [activity : Activities, read : Nat, info : Known] : load = loading
    BY DEF DateInv, CacheType
  <2>2. clock < load.read + RpcTime /\ SeenRecord(load.activity, load.read, load.info)
    BY <1>1, <2>1 DEF InTime, DateInv, CachesDated, LoadingDated
  <2>3. clock <= load.read + ProcessorLag /\ clock + 1 <= load.read + RpcTime
    BY <1>3, <2>1, <2>2 DEF ProcessorLag
  <2>4. SeenRecord(load.activity, load.read, load.info)'
    BY <2>1, <2>2, <2>3, TickSeen DEF DateInv
  <2>5. loading' = load
    BY <1>2, <2>1
  <2> QED BY <1>1, <2>3, <2>4, <2>5 DEF Underway, SeenRecord
<1>9. SharedDated'
  <2> SUFFICES ASSUME NEW a \in Activities, Fresh(shared[a], RedisTTL)'
               PROVE  SeenRecord(a, shared[a].at - RpcTime, shared[a].info)'
    BY DEF SharedDated
  <2>1. PICK entry \in [at : Nat, info : Known] : entry = shared[a]
    BY <1>2 DEF DateInv, CacheType, Fresh
  <2>2. clock + 1 <= entry.at + RedisTTL /\ Fresh(shared[a], RedisTTL)
    BY <1>1, <1>2, <1>3, <2>1 DEF Fresh
  <2>3. SeenRecord(a, entry.at - RpcTime, entry.info)
    BY <2>1, <2>2 DEF DateInv, CachesDated, SharedDated
  <2>4. entry.at - RpcTime \in Int /\ clock <= entry.at - RpcTime + ProcessorLag
    BY <1>3, <2>2 DEF ProcessorLag
  <2>5. SeenRecord(a, entry.at - RpcTime, entry.info)'
    BY <2>3, <2>4, TickSeen DEF DateInv
  <2> QED BY <1>2, <2>1, <2>5 DEF SeenRecord
<1>10. LocalDated'
  <2> SUFFICES ASSUME NEW a \in Activities, Fresh(local[a], LocalTTL)'
               PROVE  SeenRecord(a, local[a].at - RedisTTL - RpcTime, local[a].info)'
    BY DEF LocalDated
  <2>1. PICK entry \in [at : Nat, info : Known] : entry = local[a]
    BY <1>2 DEF DateInv, CacheType, Fresh
  <2>2. clock + 1 <= entry.at + LocalTTL /\ Fresh(local[a], LocalTTL)
    BY <1>1, <1>2, <1>3, <2>1 DEF Fresh
  <2>3. SeenRecord(a, entry.at - RedisTTL - RpcTime, entry.info)
    BY <2>1, <2>2 DEF DateInv, CachesDated, LocalDated
  <2>4. /\ entry.at - RedisTTL - RpcTime \in Int
        /\ clock <= entry.at - RedisTTL - RpcTime + ProcessorLag
    BY <1>3, <2>2 DEF ProcessorLag
  <2>5. SeenRecord(a, entry.at - RedisTTL - RpcTime, entry.info)'
    BY <2>3, <2>4, TickSeen DEF DateInv
  <2> QED BY <1>2, <2>1, <2>5 DEF SeenRecord
<1> QED BY <1>4, <1>5, <1>6, <1>7, <1>8, <1>9, <1>10 DEF DateInv, CachesDated

LEMMA DateStep ==
  ASSUME SaleAssumption, SaleType, DateInv, [Next]_vars PROVE DateInv'
<1>1. ASSUME RecordsDated', Grown, UNCHANGED cacheVars PROVE DateInv'
  BY <1>1, CachesKept DEF DateInv
<1>2. ASSUME UNCHANGED <<clock, store, cacheVars>> PROVE DateInv'
  BY <1>1, <1>2, StoreKept DEF DateInv, Grown
<1>3. CASE Admin
  <2>1. UNCHANGED <<clock, cacheVars>>
    BY <1>3 DEF Admin, CreateActivity, UpdateActivity, EndActivity, AddProduct, RemoveProduct,
                AdminUntouched
  <2> QED BY <1>1, <1>3, <2>1, AdminDated DEF DateInv, Grown
<1>4. CASE \E a \in Activities : StockShelf(a) \/ DeleteKey(a)
  BY <1>2, <1>4 DEF StockShelf, DeleteKey
<1>5. CASE Restart
  <2>1. UNCHANGED <<clock, cacheVars>>
    BY <1>5 DEF Restart
  <2> QED BY <1>1, <1>5, <2>1, RestartDated DEF DateInv, Grown
<1>6. CASE UpdateActivityStatuses
  <2>1. UNCHANGED <<clock, cacheVars>>
    BY <1>6 DEF UpdateActivityStatuses, ListDue, UpdateStatus
  <2> QED BY <1>1, <1>6, <2>1, JobDated DEF DateInv, Grown
<1>7. CASE ReleaseEndedActivityKeys
  BY <1>2, <1>7 DEF ReleaseEndedActivityKeys, ListEnded, CleanupStock
<1>8. CASE GatewayStep
  <2>1. CASE \E a \in Activities : RefreshRead(a) \/ MissRead(a)
    BY <2>1, ReadDetailDated DEF RefreshRead, MissRead, Loads
  <2>2. CASE \E a \in Activities, r \in Requests : Unfound(r, a) \/ PartIn(r, a)
    BY <1>2, <2>2 DEF Unfound, PartIn
  <2>3. CASE \E l \in Loads : StoreDetail(l)
    BY <2>3, StoreDetailDated
  <2> QED BY <1>8, <2>1, <2>2, <2>3 DEF GatewayStep, Loads
<1>9. CASE ProcessorStep
  <2>1. CASE \E r \in Requests : Check(r) \/ NotFound(r) \/ Sell(r)
    BY <1>2, <2>1 DEF Check, NotFound, Sell
  <2> QED BY <1>9, <2>1, TakeSharedDated, ReadActivityDated, StoreActivityDated DEF ProcessorStep
<1>10. CASE Tick
  BY <1>10, TickDated
<1>11. CASE UNCHANGED vars
  BY <1>2, <1>11 DEF vars
<1> QED BY <1>3, <1>4, <1>5, <1>6, <1>7, <1>8, <1>9, <1>10, <1>11 DEF Next


(* A request moves only by a step of its own.                              *)
LEMMA Mover ==
  ASSUME SaleType, [Next]_vars, NEW r \in Requests, request'[r] # request[r]
  PROVE  \/ \E a \in Activities : PartIn(r, a) \/ Unfound(r, a)
         \/ Check(r) \/ NotFound(r) \/ Sell(r)
<1>1. ASSUME NEW q \in Requests, NEW stage, NEW a, MoveTo(q, stage, a) PROVE q = r
  BY <1>1 DEF MoveTo, SaleType
<1>2. request' # request
  OBVIOUS
<1>3. ~ UNCHANGED vars /\ ~ Admin /\ ~ Restart /\ ~ Tick
  BY <1>2 DEF vars, Admin, CreateActivity, UpdateActivity, EndActivity, AddProduct, RemoveProduct,
              AdminUntouched, Restart, Tick
<1>4. /\ ~ \E a \in Activities : StockShelf(a) \/ DeleteKey(a)
      /\ ~ UpdateActivityStatuses /\ ~ ReleaseEndedActivityKeys
  BY <1>2 DEF StockShelf, DeleteKey, UpdateActivityStatuses, ListDue, UpdateStatus,
              ReleaseEndedActivityKeys, ListEnded, CleanupStock
<1>5. CASE GatewayStep
  <2>1. \E q \in Requests, a \in Activities : PartIn(q, a) \/ Unfound(q, a)
    BY <1>2, <1>5 DEF GatewayStep, RefreshRead, MissRead, ReadDetail, StoreDetail
  <2>2. PICK q \in Requests, a \in Activities : PartIn(q, a) \/ Unfound(q, a)
    BY <2>1
  <2>3. q = r
    BY <1>1, <2>2 DEF PartIn, Unfound
  <2> QED BY <2>2, <2>3
<1>6. CASE ProcessorStep
  <2>1. PICK q \in Requests : Check(q) \/ NotFound(q) \/ Sell(q)
    BY <1>2, <1>6 DEF ProcessorStep, TakeShared, ReadActivity, StoreActivity
  <2>2. q = r
    BY <1>1, <2>1 DEF Check, NotFound, Sell
  <2> QED BY <2>1, <2>2
<1> QED BY <1>3, <1>4, <1>5, <1>6 DEF Next

(* What a fresh entry says was so, or is still the record of a moment,     *)
(* within the lag.                                                         *)
LEMMA FreshVerdicts ==
  ASSUME SaleAssumption, SaleType, DateInv, NEW a \in Activities
  PROVE  /\ Fresh(gateway[a], GatewayTTL) => WasOpen(a, GatewayLag, gateway[a].open)
         /\ Fresh(local[a], LocalTTL) => HadRecord(a, ProcessorLag, IsOpen(local[a].info, clock))
<1>1. clock \in Nat /\ {GatewayTTL, LocalTTL, RedisTTL, RpcTime} \subseteq Nat
  BY DEF SaleAssumption, SaleType
<1>2. \A v \in Versions(a) : v.until \in Nat /\ v.info.since \in Nat
  BY VersionType DEF DateInv, Version, Known
<1>3. ASSUME Fresh(gateway[a], GatewayTTL) PROVE WasOpen(a, GatewayLag, gateway[a].open)
  <2>1. gateway[a].at \in Nat /\ clock <= gateway[a].at + GatewayTTL
    BY <1>3 DEF DateInv, CacheType, Fresh
  <2>2. PICK v \in Versions(a) : \E t \in v.info.since .. v.until :
          gateway[a].at - RpcTime <= t /\ IsOpen(v.info, t) = gateway[a].open
    BY <1>3 DEF DateInv, CachesDated, GatewayDated, SeenOpen
  <2>3. PICK t \in v.info.since .. v.until :
          gateway[a].at - RpcTime <= t /\ IsOpen(v.info, t) = gateway[a].open
    BY <2>2
  <2>4. clock <= t + GatewayLag
    BY <1>1, <1>2, <2>1, <2>3 DEF GatewayLag
  <2> QED BY <2>3, <2>4 DEF WasOpen
<1>4. ASSUME Fresh(local[a], LocalTTL)
      PROVE  HadRecord(a, ProcessorLag, IsOpen(local[a].info, clock))
  <2>1. local[a].at \in Nat /\ clock <= local[a].at + LocalTTL
    BY <1>4 DEF DateInv, CacheType, Fresh
  <2>2. PICK v \in Versions(a) :
          v.info = local[a].info /\ local[a].at - RedisTTL - RpcTime <= v.until
    BY <1>4 DEF DateInv, CachesDated, LocalDated, SeenRecord
  <2>3. Recent(v, ProcessorLag)
    BY <1>1, <1>2, <2>1, <2>2 DEF Recent, ProcessorLag
  <2> QED BY <2>2, <2>3 DEF HadRecord
<1> QED BY <1>3, <1>4

LEMMA VerdictStep ==
  ASSUME SaleAssumption, SaleType, DateInv, [Next]_vars, NEW r \in Requests
  PROVE  LET a == request'[r].activity IN
         /\ Moves(r, "new", "queued") => WasOpen(a, GatewayLag, TRUE)
         /\ Moves(r, "new", "turned away") => WasOpen(a, GatewayLag, FALSE)
         /\ Moves(r, "queued", "checked") => HadRecord(a, ProcessorLag, TRUE)
         /\ Moves(r, "queued", "rejected") => HadRecord(a, ProcessorLag, FALSE)
<1> DEFINE goal == LET a == request'[r].activity IN
         /\ Moves(r, "new", "queued") => WasOpen(a, GatewayLag, TRUE)
         /\ Moves(r, "new", "turned away") => WasOpen(a, GatewayLag, FALSE)
         /\ Moves(r, "queued", "checked") => HadRecord(a, ProcessorLag, TRUE)
         /\ Moves(r, "queued", "rejected") => HadRecord(a, ProcessorLag, FALSE)
<1>1. ASSUME NEW stage, NEW a, MoveTo(r, stage, a)
      PROVE  request'[r].stage = stage /\ request'[r].activity = a
  BY <1>1 DEF MoveTo, SaleType
<1>2. ASSUME NEW a \in Activities, PartIn(r, a) PROVE goal
  <2>1. /\ request[r].stage = "new" /\ Fresh(gateway[a], GatewayTTL)
        /\ request'[r].stage = IF gateway[a].open THEN "queued" ELSE "turned away"
        /\ request'[r].activity = a
    BY <1>1, <1>2 DEF PartIn
  <2>2. gateway[a].open \in BOOLEAN
    BY <2>1 DEF DateInv, CacheType, Fresh
  <2>3. WasOpen(a, GatewayLag, gateway[a].open)
    BY <2>1, FreshVerdicts
  <2>4. CASE gateway[a].open = TRUE
    BY <2>1, <2>3, <2>4 DEF Moves
  <2>5. CASE gateway[a].open = FALSE
    BY <2>1, <2>3, <2>5 DEF Moves
  <2> QED BY <2>2, <2>4, <2>5
<1>3. ASSUME NEW a \in Activities, Unfound(r, a) PROVE goal
  <2>1. request'[r].stage = "unknown"
    BY <1>1, <1>3 DEF Unfound
  <2> QED BY <2>1 DEF Moves
<1>4. CASE Check(r)
  <2> DEFINE a == request[r].activity
  <2>1. /\ request[r].stage = "queued" /\ Fresh(local[a], LocalTTL)
        /\ request'[r].stage = IF IsOpen(local[a].info, clock) THEN "checked" ELSE "rejected"
        /\ request'[r].activity = a
    BY <1>1, <1>4 DEF Check
  <2>2. a \in Activities
    BY <2>1, InHand DEF SaleType
  <2>3. HadRecord(a, ProcessorLag, IsOpen(local[a].info, clock))
    BY <2>1, <2>2, FreshVerdicts
  <2>4. IsOpen(local[a].info, clock) \in BOOLEAN
    BY DEF IsOpen
  <2>5. CASE IsOpen(local[a].info, clock) = TRUE
    <3>1. HadRecord(request'[r].activity, ProcessorLag, TRUE)
      BY <2>1, <2>3, <2>5
    <3> QED BY <2>1, <2>5, <3>1 DEF Moves
  <2>6. CASE IsOpen(local[a].info, clock) = FALSE
    <3>1. HadRecord(request'[r].activity, ProcessorLag, FALSE)
      BY <2>1, <2>3, <2>6
    <3> QED BY <2>1, <2>6, <3>1 DEF Moves
  <2> QED BY <2>4, <2>5, <2>6
<1>5. CASE NotFound(r) \/ Sell(r)
  <2>1. request'[r].stage \in {"unknown", "sold", "no stock"}
    BY <1>1, <1>5 DEF NotFound, Sell
  <2> QED BY <2>1 DEF Moves
<1>6. CASE request'[r] = request[r]
  BY <1>6 DEF Moves
<1> QED BY <1>2, <1>3, <1>4, <1>5, <1>6, Mover

(* Nobody passes or is turned away for a state of the activity older than  *)
(* the caches' lifetimes and one call together, however slowly and in      *)
(* whatever order the loads finish (ActivityCache of the gateway and of    *)
(* the processor).                                                         *)
THEOREM VerdictsAreFresh == Spec => VerdictsFresh
<1>1. Init => SaleType /\ DateInv
  BY SaleAssumption, TypeInit, DateInit
<1>2. (SaleType /\ DateInv) /\ [Next]_vars => (SaleType /\ DateInv)'
  BY SaleAssumption, TypeStep, DateStep
<1>3. (SaleType /\ DateInv) /\ [Next]_vars =>
        [\A r \in Requests :
           LET a == request'[r].activity IN
           /\ Moves(r, "new", "queued") => WasOpen(a, GatewayLag, TRUE)
           /\ Moves(r, "new", "turned away") => WasOpen(a, GatewayLag, FALSE)
           /\ Moves(r, "queued", "checked") => HadRecord(a, ProcessorLag, TRUE)
           /\ Moves(r, "queued", "rejected") => HadRecord(a, ProcessorLag, FALSE)]_vars
  BY SaleAssumption, VerdictStep
<1> QED BY <1>1, <1>2, <1>3, PTL DEF Spec, VerdictsFresh


-----------------------------------------------------------------------------
(* Type correctness: what DateInv leaves out are the bounds.  A record is  *)
(* never dated after the clock, and what is kept of it is a copy.          *)
PastBounded == \A a \in Activities : past[a] \subseteq [info : Info, until : Times]

CopiesBounded ==
  /\ gateway \in [Activities -> [at : Times, open : BOOLEAN] \cup {None}]
  /\ local \in [Activities -> [at : Times, info : Info] \cup {None}]
  /\ shared \in [Activities -> [at : Times, info : Info] \cup {None}]
  /\ loading # None => loading.info \in Info

ShelvesBounded ==
  /\ shelf \in [Activities -> {Missing} \cup 0 .. Units]
  /\ sold \in [Activities -> Nat]
  /\ withdrawn \subseteq Activities

CountsBounded ==
  /\ up \in Deployments /\ clock \in 0 .. MaxTime
  /\ stocking \subseteq Activities /\ removing \subseteq Activities /\ ended \subseteq Activities
  /\ edits \in 0 .. MaxEdits /\ faults \in 0 .. MaxFaults

Bounded == PastBounded /\ CopiesBounded /\ ShelvesBounded /\ CountsBounded

LEMMA BoundedInit == ASSUME SaleAssumption, Init PROVE Bounded
<1>1. PastBounded
  BY DEF Init, PastBounded
<1>2. CopiesBounded
  BY DEF Init, CopiesBounded
<1>3. ShelvesBounded
  BY DEF SaleAssumption, Init, ShelvesBounded
<1>4. CountsBounded
  BY DEF SaleAssumption, Init, CountsBounded
<1> QED BY <1>1, <1>2, <1>3, <1>4 DEF Bounded

(* The clock's readings and the records in force are within the bounds.    *)
LEMMA NowBounded ==
  ASSUME SaleAssumption, SaleType, RecordsDated, CountsBounded
  PROVE  /\ clock \in Times
         /\ \A a \in Activities : Exists(a) => record[a] \in Info
<1>1. MaxTime \in Nat /\ SaleTime \in Nat /\ clock \in 0 .. MaxTime
  BY DEF SaleAssumption, CountsBounded
<1>2. ASSUME NEW a \in Activities, Exists(a) PROVE record[a] \in Info
  <2>1. record[a] \in Known /\ record[a].since <= clock
    BY <1>2, KnownRecord DEF RecordsDated
  <2>2. record[a].since \in Times
    BY <1>1, <2>1 DEF Known, Times
  <2> QED BY <2>1, <2>2 DEF Known, Info
<1> QED BY <1>1, <1>2 DEF Times

LEMMA CountsStep ==
  ASSUME SaleAssumption, CountsBounded, [Next]_vars PROVE CountsBounded'
<1>1. {MaxTime, MaxEdits, MaxFaults} \subseteq Nat
  BY DEF SaleAssumption
<1>2. ASSUME UNCHANGED faults \/ \E kind : Fault(kind) PROVE faults' \in 0 .. MaxFaults
  BY <1>1, <1>2 DEF Fault, CountsBounded
<1>3. ASSUME UNCHANGED <<up, clock, adminVars>>, ended' \subseteq Activities,
             UNCHANGED faults \/ \E kind : Fault(kind)
      PROVE  CountsBounded'
  BY <1>2, <1>3 DEF CountsBounded, adminVars
<1>4. CASE Admin
  <2>1. /\ UNCHANGED <<up, clock, ended, faults>> /\ Edit
        /\ stocking' \subseteq Activities /\ removing' \subseteq Activities
    <3>1. PICK a \in Activities : \/ CreateActivity(a) \/ UpdateActivity(a) \/ EndActivity(a)
                                  \/ AddProduct(a) \/ RemoveProduct(a)
      BY <1>4 DEF Admin
    <3>2. AdminUntouched /\ Edit
      BY <3>1, Zenon DEF CreateActivity, UpdateActivity, EndActivity, AddProduct, RemoveProduct
    <3>3. stocking' \in {stocking, stocking \cup {a}} /\ removing' \in {removing, removing \cup {a}}
      BY <3>1 DEF CreateActivity, UpdateActivity, EndActivity, AddProduct, RemoveProduct
    <3> QED BY <3>2, <3>3 DEF AdminUntouched, jobVars, CountsBounded
  <2> QED BY <1>1, <2>1 DEF Edit, CountsBounded
<1>5. CASE \E a \in Activities : StockShelf(a) \/ DeleteKey(a)
  BY <1>1, <1>5 DEF StockShelf, DeleteKey, Fault, NoFault, jobVars, CountsBounded
<1>6. CASE Restart
  BY <1>1, <1>6 DEF Restart, Fault, jobVars, CountsBounded
<1>7. CASE UpdateActivityStatuses
  <2>1. UNCHANGED <<up, clock, adminVars, ended>>
    BY <1>7 DEF UpdateActivityStatuses, ListDue, UpdateStatus
  <2>2. UNCHANGED faults \/ \E kind : Fault(kind)
    BY <1>7 DEF UpdateActivityStatuses, ListDue, UpdateStatus, NoFault
  <2> QED BY <1>3, <2>1, <2>2 DEF CountsBounded
<1>8. CASE ReleaseEndedActivityKeys
  <2>1. UNCHANGED <<up, clock, adminVars>> /\ ended' \subseteq Activities
    BY <1>8 DEF ReleaseEndedActivityKeys, ListEnded, CleanupStock, CountsBounded
  <2>2. UNCHANGED faults \/ \E kind : Fault(kind)
    BY <1>8 DEF ReleaseEndedActivityKeys, ListEnded, CleanupStock, NoFault
  <2> QED BY <1>3, <2>1, <2>2
<1>9. CASE GatewayStep
  <2>1. UNCHANGED <<up, clock, adminVars, ended>>
    BY <1>9 DEF GatewayStep, RefreshRead, MissRead, ReadDetail, StoreDetail, Unfound, PartIn, jobVars
  <2>2. UNCHANGED faults \/ \E kind : Fault(kind)
    BY <1>9, Zenon DEF GatewayStep, RefreshRead, MissRead, ReadDetail, StoreDetail, Unfound, PartIn,
                       NoFault
  <2> QED BY <1>3, <2>1, <2>2 DEF CountsBounded
<1>10. CASE ProcessorStep
  <2>1. UNCHANGED <<up, clock, adminVars, ended>>
    BY <1>10 DEF ProcessorStep, TakeShared, ReadActivity, StoreActivity, Check, NotFound, Sell,
                 jobVars
  <2>2. UNCHANGED faults \/ \E kind : Fault(kind)
    BY <1>10 DEF ProcessorStep, TakeShared, ReadActivity, StoreActivity, Check, NotFound, Sell,
                 NoFault
  <2> QED BY <1>3, <2>1, <2>2 DEF CountsBounded
<1>11. CASE Tick
  BY <1>1, <1>11 DEF Tick, adminVars, jobVars, CountsBounded
<1>12. CASE UNCHANGED vars
  BY <1>12 DEF vars, adminVars, jobVars, CountsBounded
<1> QED BY <1>4, <1>5, <1>6, <1>7, <1>8, <1>9, <1>10, <1>11, <1>12 DEF Next

(* A step forgets versions or keeps the one it replaces.                   *)
LEMMA PastStep ==
  ASSUME SaleAssumption, SaleType, RecordsDated, CountsBounded, PastBounded, [Next]_vars
  PROVE  PastBounded'
<1>1. ASSUME \A a \in Activities : past'[a] \subseteq past[a] \cup Superseded(a)
      PROVE  PastBounded'
  <2>1. \A a \in Activities : Superseded(a) \subseteq [info : Info, until : Times]
    BY NowBounded DEF Superseded
  <2> QED BY <1>1, <2>1 DEF PastBounded
<1>2. ASSUME NEW a \in Activities, NEW info, SetRecord(a, info) PROVE PastBounded'
  BY <1>1, <1>2 DEF SetRecord, RecordsDated
<1>3. CASE UNCHANGED past
  BY <1>3 DEF PastBounded
<1>4. CASE Admin
  BY <1>2, <1>4 DEF Admin, CreateActivity, UpdateActivity, EndActivity, AddProduct, RemoveProduct,
                    SetStatus, SetListed
<1>5. CASE UpdateActivityStatuses
  BY <1>2, <1>3, <1>5 DEF UpdateActivityStatuses, ListDue, UpdateStatus, SetStatus, store
<1>6. CASE Restart \/ Tick
  BY <1>1, <1>6 DEF Restart, Tick
<1>7. CASE (\E a \in Activities : StockShelf(a) \/ DeleteKey(a)) \/ ReleaseEndedActivityKeys
  BY <1>3, <1>7 DEF StockShelf, DeleteKey, ReleaseEndedActivityKeys, ListEnded, CleanupStock, store
<1>8. CASE GatewayStep \/ ProcessorStep
  BY <1>3, <1>8 DEF GatewayStep, RefreshRead, MissRead, ReadDetail, StoreDetail, Unfound, PartIn,
                    ProcessorStep, TakeShared, ReadActivity, StoreActivity, Check, NotFound, Sell,
                    store
<1>9. CASE UNCHANGED vars
  BY <1>3, <1>9 DEF vars, store
<1> QED BY <1>4, <1>5, <1>6, <1>7, <1>8, <1>9 DEF Next


LEMMA CopiesStep ==
  ASSUME SaleAssumption, SaleType, DateInv, CountsBounded, CopiesBounded, [Next]_vars
  PROVE  CopiesBounded'
<1>1. clock \in Times
  BY NowBounded DEF DateInv
<1>2. CASE UNCHANGED <<gateway, local, shared, loading>>
  BY <1>2 DEF CopiesBounded
<1>3. ASSUME NEW l \in Loads, StoreDetail(l) PROVE CopiesBounded'
  <2>1. fetching[l] \in [activity : Activities, read : Nat, open : BOOLEAN]
    BY <1>3 DEF StoreDetail, DateInv, CacheType
  <2>2. \/ UNCHANGED gateway
        \/ gateway' = [gateway EXCEPT ![fetching[l].activity] = [at |-> clock, open |-> fetching[l].open]]
    BY <1>3 DEF StoreDetail
  <2>3. [at |-> clock, open |-> fetching[l].open] \in [at : Times, open : BOOLEAN]
    BY <1>1, <2>1
  <2>4. UNCHANGED <<local, shared, loading>>
    BY <1>3 DEF StoreDetail
  <2> QED BY <2>2, <2>3, <2>4 DEF CopiesBounded
<1>4. ASSUME NEW a \in Activities, TakeShared(a) PROVE CopiesBounded'
  <2>1. shared[a].info \in Info
    BY <1>4 DEF TakeShared, Fresh, CopiesBounded
  <2>2. [at |-> clock, info |-> shared[a].info] \in [at : Times, info : Info]
    BY <1>1, <2>1
  <2> QED BY <1>4, <2>2 DEF TakeShared, CopiesBounded
<1>5. ASSUME NEW a \in Activities, ReadActivity(a) PROVE CopiesBounded'
  <2>1. loading'.info = record[a] /\ Exists(a) /\ UNCHANGED <<gateway, local, shared>>
    BY <1>5 DEF ReadActivity
  <2> QED BY <2>1, NowBounded DEF DateInv, CopiesBounded
<1>6. CASE StoreActivity
  <2>1. [at |-> clock, info |-> loading.info] \in [at : Times, info : Info]
    BY <1>1, <1>6 DEF StoreActivity, CopiesBounded
  <2> QED BY <1>6, <2>1 DEF StoreActivity, CopiesBounded
<1>7. CASE GatewayStep
  <2>1. CASE \E a \in Activities : RefreshRead(a) \/ MissRead(a) \/ \E r \in Requests : Unfound(r, a) \/ PartIn(r, a)
    BY <1>2, <2>1 DEF RefreshRead, MissRead, ReadDetail, Unfound, PartIn, cacheVars
  <2> QED BY <1>3, <1>7, <2>1 DEF GatewayStep, Loads
<1>8. CASE ProcessorStep
  <2>1. CASE \E r \in Requests : Check(r) \/ NotFound(r) \/ Sell(r)
    BY <1>2, <2>1 DEF Check, NotFound, Sell, cacheVars
  <2> QED BY <1>4, <1>5, <1>6, <1>8, <2>1 DEF ProcessorStep
<1>9. CASE Admin
  BY <1>2, <1>9 DEF Admin, CreateActivity, UpdateActivity, EndActivity, AddProduct, RemoveProduct,
                    AdminUntouched, cacheVars
<1>10. CASE (\E a \in Activities : StockShelf(a) \/ DeleteKey(a)) \/ Restart \/ Tick
  BY <1>2, <1>10 DEF StockShelf, DeleteKey, Restart, Tick, cacheVars
<1>11. CASE UpdateActivityStatuses \/ ReleaseEndedActivityKeys
  BY <1>2, <1>11 DEF UpdateActivityStatuses, ListDue, UpdateStatus, ReleaseEndedActivityKeys,
                     ListEnded, CleanupStock, cacheVars
<1>12. CASE UNCHANGED vars
  BY <1>2, <1>12 DEF vars, cacheVars
<1> QED BY <1>7, <1>8, <1>9, <1>10, <1>11, <1>12 DEF Next

LEMMA ShelvesStep ==
  ASSUME SaleAssumption, SaleType, ShelvesBounded, [Next]_vars PROVE ShelvesBounded'
<1>1. CASE UNCHANGED shelfVars
  BY <1>1 DEF ShelvesBounded, shelfVars
<1>2. ASSUME NEW a \in Activities, Seeded(a) PROVE ShelvesBounded'
  BY <1>1, <1>2 DEF SaleAssumption, Seeded, ShelvesBounded, Missing
<1>3. ASSUME NEW a \in Activities, ClearShelf(a) PROVE ShelvesBounded'
  BY <1>3 DEF ClearShelf, ShelvesBounded
<1>4. ASSUME NEW r \in Requests, Sell(r) PROVE ShelvesBounded'
  <2>1. request[r].activity \in Activities
    BY <1>4, InHand DEF Sell, SaleType
  <2>2. CASE shelf[request[r].activity] > 0
    <3> DEFINE a == request[r].activity
    <3>1. /\ shelf' = [shelf EXCEPT ![a] = @ - 1] /\ sold' = [sold EXCEPT ![a] = @ + 1]
          /\ withdrawn' = withdrawn
      BY <1>4, <2>2 DEF Sell
    <3>2. shelf[a] \in 0 .. Units /\ shelf[a] - 1 \in 0 .. Units /\ sold[a] + 1 \in Nat
      BY <2>1, <2>2 DEF ShelvesBounded, SaleAssumption, Missing
    <3> HIDE DEF a
    <3> QED BY <3>1, <3>2 DEF ShelvesBounded
  <2>3. CASE ~ (shelf[request[r].activity] > 0)
    BY <1>1, <1>4, <2>3 DEF Sell
  <2> QED BY <2>2, <2>3
<1>5. CASE Admin
  BY <1>1, <1>5 DEF Admin, CreateActivity, UpdateActivity, EndActivity, AddProduct, RemoveProduct,
                    ShelvesBounded
<1>6. CASE \E a \in Activities : StockShelf(a) \/ DeleteKey(a)
  BY <1>1, <1>2, <1>3, <1>6 DEF StockShelf, DeleteKey
<1>7. CASE Restart
  BY <1>2, <1>7 DEF Restart, SaleAssumption
<1>8. CASE UpdateActivityStatuses
  BY <1>1, <1>8 DEF UpdateActivityStatuses, ListDue, UpdateStatus
<1>9. CASE ReleaseEndedActivityKeys
  BY <1>1, <1>3, <1>9 DEF ReleaseEndedActivityKeys, ListEnded, CleanupStock, ShelvesBounded
<1>10. CASE GatewayStep
  BY <1>1, <1>10 DEF GatewayStep, RefreshRead, MissRead, ReadDetail, StoreDetail, Unfound, PartIn
<1>11. CASE ProcessorStep
  BY <1>1, <1>4, <1>11 DEF ProcessorStep, TakeShared, ReadActivity, StoreActivity, Check, NotFound
<1>12. CASE Tick \/ UNCHANGED vars
  BY <1>1, <1>12 DEF Tick, vars
<1> QED BY <1>5, <1>6, <1>7, <1>8, <1>9, <1>10, <1>11, <1>12 DEF Next

(* Every variable keeps its kind: no shelf is sold below zero or stocked   *)
(* above its units, and no entry or version carries a time that has not    *)
(* come.                                                                   *)
THEOREM TypeCorrect == Spec => []TypeOK
<1>1. Init => SaleType /\ DateInv /\ Bounded
  BY SaleAssumption, TypeInit, DateInit, BoundedInit
<1>2. (SaleType /\ DateInv /\ Bounded) /\ [Next]_vars => (SaleType /\ DateInv /\ Bounded)'
  <2> SUFFICES ASSUME SaleType, DateInv, Bounded, [Next]_vars PROVE (SaleType /\ DateInv /\ Bounded)'
    OBVIOUS
  <2>1. SaleType' /\ DateInv'
    BY SaleAssumption, TypeStep, DateStep
  <2>2. Bounded'
    BY SaleAssumption, PastStep, CopiesStep, ShelvesStep, CountsStep DEF Bounded, DateInv
  <2> QED BY <2>1, <2>2
<1>3. SaleType /\ DateInv /\ Bounded => TypeOK
  <2> SUFFICES ASSUME SaleType, DateInv, Bounded PROVE TypeOK
    OBVIOUS
  <2>1. record \in [Activities -> Info \cup {None}]
    BY SaleAssumption, NowBounded DEF SaleType, DateInv, Bounded, Exists, Known
  <2>2. request \in [Requests -> {[stage |-> "new"]} \cup [stage : Stages, activity : Activities]]
    BY DEF SaleType, Served
  <2>3. due \subseteq Activities \X Statuses
    BY DEF SaleType
  <2> QED BY <2>1, <2>2, <2>3
          DEF Bounded, PastBounded, CopiesBounded, ShelvesBounded, CountsBounded, TypeOK
<1> QED BY <1>1, <1>2, <1>3, PTL DEF Spec

=============================================================================
