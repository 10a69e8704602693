------------------------ MODULE OrderLifecycleProofs ------------------------
(***************************************************************************)
(* Proofs about OrderLifecycle, for every number of orders, replicas,      *)
(* consumers, handlers and jobs, and any number of faults of any kind.     *)
(***************************************************************************)
EXTENDS OrderLifecycle, TLAPS

USE DEF stateVars, processVars, envVars, Statuses, Idle, IdleCaller, TimerCalls,
        NoFault, TimerTo, TimerStep, CallerStep, SweepStep

-----------------------------------------------------------------------------
(* The initial state is well typed.                                        *)
LEMMA TypeInit == Init => TypeOK
<1> SUFFICES ASSUME Init PROVE TypeOK
  OBVIOUS
<1>1. cached \in [Replicas -> [Orders -> Statuses \cup {"none"}]]
  BY DEF Init
<1>2. sweeper \in [Sweepers -> [at : {"idle", "next", "release", "closepay"},
                               order : Orders \cup {NoOrder}, todo : SUBSET Orders]]
  BY DEF Init
<1>3. /\ timer \in [Timers -> {Idle} \cup [at : TimerCalls \cup {"ack", "nak"}, order : Orders]]
      /\ caller \in [Callers -> {IdleCaller} \cup
            [at : {"prepay", "create", "get", "mark", "sync", "card", "ok"}, order : Orders,
             owes : SUBSET {"sync", "card"}]]
  BY DEF Init
<1>4. \A s \in Sweepers : sweeper[s].at = "idle"
  BY DEF Init
<1>5. faults \in 0 .. MaxFaults
  BY LifecycleAssumption DEF Init
<1>6. disturbed \in BOOLEAN
  BY DEF Init
<1> QED
  BY <1>1, <1>2, <1>3, <1>4, <1>5, <1>6 DEF Init, TypeOK

(* A fault is counted, never beyond its bound.                             *)
LEMMA FaultTypes ==
  ASSUME TypeOK, NEW kind, Fault(kind)
  PROVE  faults' \in 0 .. MaxFaults /\ disturbed' \in BOOLEAN /\ UNCHANGED listed
  BY LifecycleAssumption DEF TypeOK, Fault

(* A read returns a status and leaves the caches well typed.               *)
LEMMA ReadTypes ==
  ASSUME TypeOK, NEW o \in Orders, NEW seen, Read(o, seen)
  PROVE  /\ seen \in Statuses
         /\ cached' \in [Replicas -> [Orders -> Statuses \cup {"none"}]]
         /\ faults' \in 0 .. MaxFaults
         /\ disturbed' \in BOOLEAN
         /\ UNCHANGED listed
<1> USE LifecycleAssumption DEF TypeOK
<1>1. PICK r \in Replicas :
        \/ /\ cached[r][o] = "none"
           /\ seen = row[o]
           /\ cached' = [cached EXCEPT ![r][o] = row[o]]
           /\ NoFault
        \/ /\ cached[r][o] # "none"
           /\ seen = cached[r][o]
           /\ UNCHANGED <<cached, listed, faults>>
           /\ disturbed' = (disturbed \/ seen # row[o])
  BY DEF Read
<1>2. CASE cached[r][o] = "none"
  <2>1. seen \in Statuses /\ cached' = [cached EXCEPT ![r][o] = row[o]] /\ NoFault
    BY <1>1, <1>2
  <2>2. cached' \in [Replicas -> [Orders -> Statuses \cup {"none"}]]
    BY <2>1
  <2> QED
    BY <2>1, <2>2
<1>3. CASE cached[r][o] # "none"
  <2>1. seen \in Statuses /\ UNCHANGED <<cached, listed, faults>>
    BY <1>1, <1>3
  <2>2. disturbed' \in BOOLEAN
    BY <1>1, <1>3
  <2> QED
    BY <2>1, <2>2
<1> QED
  BY <1>2, <1>3

(* A copy in a cache may be out of date, but only in one way: it can still *)
(* say PENDING.                                                            *)
CacheLags ==
  \A r \in Replicas, o \in Orders : cached[r][o] \in {"none", "PENDING", row[o]}

(* A fresh read shows the row, an old one PENDING, and neither makes a     *)
(* cache lag in any other way.                                             *)
LEMMA ReadLags ==
  ASSUME TypeOK, CacheLags, NEW o \in Orders, NEW seen, Read(o, seen), UNCHANGED row
  PROVE  seen \in {"PENDING", row[o]} /\ CacheLags'
<1>1. PICK r \in Replicas :
        \/ /\ cached[r][o] = "none"
           /\ seen = row[o]
           /\ cached' = [cached EXCEPT ![r][o] = row[o]]
        \/ /\ cached[r][o] # "none"
           /\ seen = cached[r][o]
           /\ UNCHANGED cached
  BY DEF Read
<1> QED
  BY <1>1 DEF TypeOK, CacheLags

(* Every action keeps the types: the order a process holds is an order.    *)
LEMMA TypeStep == TypeOK /\ [Next]_vars => TypeOK'
<1> SUFFICES ASSUME TypeOK, [Next]_vars PROVE TypeOK'
  OBVIOUS
<1> USE LifecycleAssumption DEF TypeOK
<1>1. ASSUME NEW w \in Timers, TimeoutGet(w) PROVE TypeOK'
  <2>1. PICK seen \in Statuses :
          /\ Read(timer[w].order, seen)
          /\ TimerStep(w, "get", IF seen = "PENDING" THEN "query" ELSE "ack")
    BY <1>1 DEF TimeoutGet
  <2>2. timer[w].order \in Orders
    BY <1>1 DEF TimeoutGet
  <2>3. /\ cached' \in [Replicas -> [Orders -> Statuses \cup {"none"}]]
        /\ faults' \in 0 .. MaxFaults
        /\ disturbed' \in BOOLEAN
        /\ UNCHANGED listed
    BY <2>1, <2>2, ReadTypes
  <2> QED
    BY <1>1, <2>1, <2>2, <2>3 DEF TimeoutGet
<1>2. ASSUME NEW w \in Timers, TimeoutQuery(w) PROVE TypeOK'
  BY <1>2 DEF TimeoutQuery
<1>3. ASSUME NEW w \in Timers, TimeoutMark(w) PROVE TypeOK'
  BY <1>3 DEF TimeoutMark, Write
<1>4. ASSUME NEW w \in Timers, TimeoutClose(w) PROVE TypeOK'
  BY <1>4 DEF TimeoutClose, Write
<1>5. ASSUME NEW w \in Timers, TimeoutVerify(w) PROVE TypeOK'
  <2>1. PICK seen \in Statuses :
          /\ Read(timer[w].order, seen)
          /\ TimerStep(w, "verify", IF seen = "CLOSED" THEN "release" ELSE "ack")
    BY <1>5 DEF TimeoutVerify
  <2>2. timer[w].order \in Orders
    BY <1>5 DEF TimeoutVerify
  <2>3. /\ cached' \in [Replicas -> [Orders -> Statuses \cup {"none"}]]
        /\ faults' \in 0 .. MaxFaults
        /\ disturbed' \in BOOLEAN
        /\ UNCHANGED listed
    BY <2>1, <2>2, ReadTypes
  <2> QED
    BY <1>5, <2>1, <2>2, <2>3 DEF TimeoutVerify
<1>6. ASSUME NEW w \in Timers, TimeoutRelease(w) PROVE TypeOK'
  BY <1>6 DEF TimeoutRelease, Release
<1>7. ASSUME NEW w \in Timers, TimeoutClosePayment(w) PROVE TypeOK'
  BY <1>7 DEF TimeoutClosePayment, ClosePayment
<1>8. ASSUME NEW w \in Timers, TimeoutFails(w) PROVE TypeOK'
  <2>1. faults' \in 0 .. MaxFaults /\ disturbed' \in BOOLEAN /\ UNCHANGED listed
    BY <1>8, FaultTypes DEF TimeoutFails
  <2>2. timer[w].order \in Orders
    BY <1>8 DEF TimeoutFails
  <2>3. \/ Nothing
        \/ TimeoutEffect(w)
    BY <1>8 DEF TimeoutFails
  <2>4. TimerTo(w, "nak") \/ TimerTo(w, "ack")
    BY <1>8 DEF TimeoutFails
  <2>5. timer' \in [Timers -> {Idle} \cup [at : TimerCalls \cup {"ack", "nak"}, order : Orders]]
    BY <1>8, <2>2, <2>4 DEF TimeoutFails
  <2>6. /\ row' \in [Orders -> Statuses]
        /\ cached' \in [Replicas -> [Orders -> Statuses \cup {"none"}]]
        /\ units' \in [Orders -> {"held", "timeout", "job"}]
        /\ payment' \in [Orders -> {"none", "pending", "paid", "closed"}]
        /\ UNCHANGED <<callback, task, postPay, synced, cards>>
    <3>1. CASE Nothing
      BY <3>1 DEF Nothing
    <3>2. CASE WriteUntold(timer[w].order, "PAID") /\ UNCHANGED <<units, payment, callback, task, postPay, synced, cards>>
      BY <2>2, <3>2 DEF WriteUntold
    <3>3. CASE WriteUntold(timer[w].order, "CLOSED") /\ UNCHANGED <<units, payment, callback, task, postPay, synced, cards>>
      BY <2>2, <3>3 DEF WriteUntold
    <3>4. CASE Release(timer[w].order, "timeout") /\ UNCHANGED <<row, cached, payment, callback, task, postPay, synced, cards>>
      BY <2>2, <3>4 DEF Release
    <3>5. CASE ClosePayment(timer[w].order) /\ UNCHANGED <<row, cached, units, callback, task, postPay, synced, cards>>
      BY <2>2, <3>5 DEF ClosePayment
    <3> QED
      BY <2>3, <3>1, <3>2, <3>3, <3>4, <3>5 DEF TimeoutEffect
  <2> QED
    BY <1>8, <2>1, <2>5, <2>6 DEF TimeoutFails
<1>9. ASSUME NEW w \in Timers, SettleTask(w) PROVE TypeOK'
  BY <1>9 DEF SettleTask
<1>10. ASSUME NEW w \in Timers, TimerCrashes(w) PROVE TypeOK'
  <2>1. faults' \in 0 .. MaxFaults /\ disturbed' \in BOOLEAN /\ UNCHANGED listed
    BY <1>10, FaultTypes DEF TimerCrashes
  <2> QED
    BY <1>10, <2>1 DEF TimerCrashes
<1>11. ASSUME NEW w \in Timers, NEW o \in Orders, FetchTask(w, o) PROVE TypeOK'
  BY <1>11 DEF FetchTask
<1>12. ASSUME NEW c \in Callers, PrepayGet(c) PROVE TypeOK'
  <2>1. PICK seen \in Statuses :
          /\ Read(caller[c].order, seen)
          /\ CallerStep(c, "prepay", IF seen = "PENDING" THEN "create" ELSE "idle")
    BY <1>12 DEF PrepayGet
  <2>2. caller[c].order \in Orders
    BY <1>12 DEF PrepayGet
  <2>3. /\ cached' \in [Replicas -> [Orders -> Statuses \cup {"none"}]]
        /\ faults' \in 0 .. MaxFaults
        /\ disturbed' \in BOOLEAN
        /\ UNCHANGED listed
    BY <2>1, <2>2, ReadTypes
  <2>4. caller[c].at # "idle" /\ UNCHANGED <<timer, sweeper>>
    BY <1>12, <2>1 DEF PrepayGet
  <2>5. \/ caller' = [caller EXCEPT ![c] = IdleCaller]
        \/ caller' = [caller EXCEPT ![c] = [at |-> "create", order |-> caller[c].order, owes |-> caller[c].owes]]
    BY <2>1
  <2>6. caller' \in [Callers -> {IdleCaller} \cup
              [at : {"prepay", "create", "get", "mark", "sync", "card", "ok"}, order : Orders,
               owes : SUBSET {"sync", "card"}]]
    <3>1. caller[c].owes \in SUBSET {"sync", "card"}
      BY <2>4
    <3>2. [at |-> "create", order |-> caller[c].order, owes |-> caller[c].owes] \in
            [at : {"prepay", "create", "get", "mark", "sync", "card", "ok"}, order : Orders,
             owes : SUBSET {"sync", "card"}]
      BY <2>2, <3>1
    <3>3. PICK v \in {IdleCaller} \cup
              [at : {"prepay", "create", "get", "mark", "sync", "card", "ok"}, order : Orders,
               owes : SUBSET {"sync", "card"}] : caller' = [caller EXCEPT ![c] = v]
      BY ONLY <2>5, <3>2
    <3>4. caller \in [Callers -> {IdleCaller} \cup
              [at : {"prepay", "create", "get", "mark", "sync", "card", "ok"}, order : Orders,
               owes : SUBSET {"sync", "card"}]]
      OBVIOUS
    <3> QED
      BY ONLY <3>3, <3>4
  <2> QED
    BY <1>12, <2>1, <2>3, <2>4, <2>6 DEF PrepayGet
<1>13. ASSUME NEW c \in Callers, PrepayCreate(c) PROVE TypeOK'
  BY <1>13 DEF PrepayCreate
<1>14. ASSUME NEW c \in Callers, NotifyGet(c) PROVE TypeOK'
  <2>1. PICK seen \in Statuses :
          /\ Read(caller[c].order, seen)
          /\ CallerStep(c, "get", IF seen = "PENDING" THEN "mark" ELSE "ok")
    BY <1>14 DEF NotifyGet
  <2>2. caller[c].order \in Orders
    BY <1>14 DEF NotifyGet
  <2>3. /\ cached' \in [Replicas -> [Orders -> Statuses \cup {"none"}]]
        /\ faults' \in 0 .. MaxFaults
        /\ disturbed' \in BOOLEAN
        /\ UNCHANGED listed
    BY <2>1, <2>2, ReadTypes
  <2>4. caller[c].at # "idle" /\ UNCHANGED <<timer, sweeper>>
    BY <1>14, <2>1 DEF NotifyGet
  <2>5. \/ caller' = [caller EXCEPT ![c] = IdleCaller]
        \/ caller' = [caller EXCEPT ![c] = [at |-> "mark", order |-> caller[c].order, owes |-> caller[c].owes]]
        \/ caller' = [caller EXCEPT ![c] = [at |-> "ok", order |-> caller[c].order, owes |-> caller[c].owes]]
    BY <2>1
  <2>6. caller' \in [Callers -> {IdleCaller} \cup
              [at : {"prepay", "create", "get", "mark", "sync", "card", "ok"}, order : Orders,
               owes : SUBSET {"sync", "card"}]]
    <3>1. caller[c].owes \in SUBSET {"sync", "card"}
      BY <2>4
    <3>2. [at |-> "mark", order |-> caller[c].order, owes |-> caller[c].owes] \in
            [at : {"prepay", "create", "get", "mark", "sync", "card", "ok"}, order : Orders,
             owes : SUBSET {"sync", "card"}]
      BY <2>2, <3>1
    <3>3. [at |-> "ok", order |-> caller[c].order, owes |-> caller[c].owes] \in
            [at : {"prepay", "create", "get", "mark", "sync", "card", "ok"}, order : Orders,
             owes : SUBSET {"sync", "card"}]
      BY <2>2, <3>1
    <3>4. PICK v \in {IdleCaller} \cup
              [at : {"prepay", "create", "get", "mark", "sync", "card", "ok"}, order : Orders,
               owes : SUBSET {"sync", "card"}] : caller' = [caller EXCEPT ![c] = v]
      BY ONLY <2>5, <3>2, <3>3
    <3>5. caller \in [Callers -> {IdleCaller} \cup
              [at : {"prepay", "create", "get", "mark", "sync", "card", "ok"}, order : Orders,
               owes : SUBSET {"sync", "card"}]]
      OBVIOUS
    <3> QED
      BY ONLY <3>4, <3>5
  <2> QED
    BY <1>14, <2>1, <2>3, <2>4, <2>6 DEF NotifyGet
<1>15. ASSUME NEW c \in Callers, NotifyGetFails(c) PROVE TypeOK'
  <2>1. faults' \in 0 .. MaxFaults /\ disturbed' \in BOOLEAN /\ UNCHANGED listed
    BY <1>15, FaultTypes DEF NotifyGetFails
  <2> QED
    BY <1>15, <2>1 DEF NotifyGetFails
<1>16. ASSUME NEW c \in Callers, NotifyMark(c) PROVE TypeOK'
  BY <1>16 DEF NotifyMark, Write
<1>17. ASSUME NEW c \in Callers, NotifyMarkFails(c) PROVE TypeOK'
  <2>1. faults' \in 0 .. MaxFaults /\ disturbed' \in BOOLEAN /\ UNCHANGED listed
    BY <1>17, FaultTypes DEF NotifyMarkFails
  <2>2. caller[c].at = "mark" /\ caller[c].order \in Orders
    BY <1>17 DEF NotifyMarkFails
  <2>3. /\ row' \in [Orders -> Statuses]
        /\ UNCHANGED cached
    BY <1>17, <2>2 DEF NotifyMarkFails, WriteUntold
  <2>4. caller' = [caller EXCEPT ![c] = IdleCaller]
    BY <1>17 DEF NotifyMarkFails
  <2>5. UNCHANGED <<units, payment, callback, task, postPay, synced, cards, timer, sweeper>>
    BY <1>17 DEF NotifyMarkFails
  <2> QED
    BY <2>1, <2>3, <2>4, <2>5
<1>18. ASSUME NEW c \in Callers, PublishSync(c) PROVE TypeOK'
  <2>1. /\ caller[c].at = "sync"
        /\ UNCHANGED <<row, cached, units, payment, callback, task, synced, cards, timer, sweeper>>
    BY <1>18 DEF PublishSync, PublishTask
  <2>2. caller[c] \in [at : {"sync"}, order : Orders, owes : SUBSET {"sync", "card"}]
    BY <2>1
  <2>3. postPay' = postPay \/ postPay' = postPay \cup {<<"sync", caller[c].order>>}
    BY <1>18 DEF PublishSync, PublishTask
  <2>4. \E owed \in SUBSET {"sync", "card"} :
          caller' = [caller EXCEPT ![c] = [at |-> "card", order |-> caller[c].order, owes |-> owed]]
    BY <1>18, <2>2 DEF PublishSync, PublishTask
  <2>5. faults' \in 0 .. MaxFaults /\ disturbed' \in BOOLEAN /\ UNCHANGED listed
    BY <1>18, FaultTypes DEF PublishSync, PublishTask
  <2>6. caller' \in [Callers -> {IdleCaller} \cup
              [at : {"prepay", "create", "get", "mark", "sync", "card", "ok"}, order : Orders,
               owes : SUBSET {"sync", "card"}]]
    BY <2>2, <2>4
  <2>7. postPay' \subseteq {"sync", "card"} \X Orders
    BY <2>2, <2>3
  <2> QED
    BY <2>1, <2>5, <2>6, <2>7
<1>19. ASSUME NEW c \in Callers, PublishCard(c) PROVE TypeOK'
  <2>1. /\ caller[c].at = "card"
        /\ UNCHANGED <<row, cached, units, payment, callback, task, synced, cards, timer, sweeper>>
    BY <1>19 DEF PublishCard, PublishTask
  <2>2. caller[c] \in [at : {"card"}, order : Orders, owes : SUBSET {"sync", "card"}]
    BY <2>1
  <2>3. postPay' = postPay \/ postPay' = postPay \cup {<<"card", caller[c].order>>}
    BY <1>19 DEF PublishCard, PublishTask
  <2>4. \E owed \in SUBSET {"sync", "card"} :
          caller' = [caller EXCEPT ![c] = [at |-> "ok", order |-> caller[c].order, owes |-> owed]]
    BY <1>19, <2>2 DEF PublishCard, PublishTask
  <2>5. faults' \in 0 .. MaxFaults /\ disturbed' \in BOOLEAN /\ UNCHANGED listed
    BY <1>19, FaultTypes DEF PublishCard, PublishTask
  <2>6. caller' \in [Callers -> {IdleCaller} \cup
              [at : {"prepay", "create", "get", "mark", "sync", "card", "ok"}, order : Orders,
               owes : SUBSET {"sync", "card"}]]
    BY <2>2, <2>4
  <2>7. postPay' \subseteq {"sync", "card"} \X Orders
    BY <2>2, <2>3
  <2> QED
    BY <2>1, <2>5, <2>6, <2>7
<1>20. ASSUME NEW c \in Callers, SyncPaidOrder(c) PROVE TypeOK'
  BY <1>20 DEF SyncPaidOrder, PayOff
<1>21. ASSUME NEW c \in Callers, IssueCardAfterPay(c) PROVE TypeOK'
  BY <1>21 DEF IssueCardAfterPay, PayOff
<1>22. ASSUME NEW c \in Callers, NotifyAnswered(c) PROVE TypeOK'
  BY <1>22 DEF NotifyAnswered
<1>23. ASSUME NEW c \in Callers, CallerCrashes(c) PROVE TypeOK'
  <2>1. faults' \in 0 .. MaxFaults /\ disturbed' \in BOOLEAN /\ UNCHANGED listed
    BY <1>23, FaultTypes DEF CallerCrashes
  <2> QED
    BY <1>23, <2>1 DEF CallerCrashes
<1>24. ASSUME NEW c \in Callers, NEW o \in Orders, PrepayCalled(c, o) PROVE TypeOK'
  BY <1>24 DEF PrepayCalled, Accept
<1>25. ASSUME NEW c \in Callers, NEW o \in Orders, NotifyCalled(c, o) PROVE TypeOK'
  BY <1>25 DEF NotifyCalled, Accept
<1>26. ASSUME NEW s \in Sweepers, SweepList(s) PROVE TypeOK'
  BY <1>26 DEF SweepList, ListedPending
<1>27. ASSUME NEW s \in Sweepers, SweepRelease(s) PROVE TypeOK'
  BY <1>27 DEF SweepRelease, Release
<1>28. ASSUME NEW s \in Sweepers, SweepClosePayment(s) PROVE TypeOK'
  <2>1. \/ sweeper' = [sweeper EXCEPT ![s] = [at |-> "idle", order |-> NoOrder, todo |-> {}]]
        \/ sweeper' = [sweeper EXCEPT ![s] = [at |-> "next", order |-> NoOrder, todo |-> sweeper[s].todo]]
    BY <1>28 DEF SweepClosePayment, AbandonList
  <2>2. /\ payment' \in [Orders -> {"none", "pending", "paid", "closed"}]
        /\ \A o \in Orders : payment'[o] = "paid" => payment[o] = "paid"
    BY <1>28 DEF SweepClosePayment, ClosePayment
  <2>3. UNCHANGED <<row, cached, units, callback, task, postPay, synced, cards, timer, caller, listed, faults, disturbed>>
    BY <1>28 DEF SweepClosePayment
  <2>4. sweeper[s].todo \in SUBSET Orders
    OBVIOUS
  <2>5. sweeper' \in [Sweepers -> [at : {"idle", "next", "release", "closepay"},
                                    order : Orders \cup {NoOrder}, todo : SUBSET Orders]]
    <3>1. PICK v \in [at : {"idle", "next", "release", "closepay"},
                      order : Orders \cup {NoOrder}, todo : SUBSET Orders] :
            sweeper' = [sweeper EXCEPT ![s] = v]
      BY ONLY <2>1, <2>4
    <3>2. sweeper \in [Sweepers -> [at : {"idle", "next", "release", "closepay"},
                                    order : Orders \cup {NoOrder}, todo : SUBSET Orders]]
      OBVIOUS
    <3> QED
      BY ONLY <3>1, <3>2
  <2>6. /\ \A v \in Sweepers : v # s => sweeper'[v] = sweeper[v]
        /\ sweeper'[s].at \in {"idle", "next"}
    BY <2>1
  <2>7. \A v \in Sweepers : sweeper'[v].at \in {"release", "closepay"} => sweeper'[v].order \in Orders
    BY <2>6
  <2>8. /\ row' \in [Orders -> Statuses]
        /\ cached' \in [Replicas -> [Orders -> Statuses \cup {"none"}]]
        /\ timer' \in [Timers -> {Idle} \cup [at : TimerCalls \cup {"ack", "nak"}, order : Orders]]
        /\ caller' \in [Callers -> {IdleCaller} \cup
              [at : {"prepay", "create", "get", "mark", "sync", "card", "ok"}, order : Orders,
               owes : SUBSET {"sync", "card"}]]
    BY <2>3
  <2>9. /\ units' \in [Orders -> {"held", "timeout", "job"}]
        /\ callback' \in [Orders -> {"none", "claimed", "due", "answered"}]
        /\ task' \in [Orders -> {"ready", "inflight", "acked"}]
        /\ postPay' \subseteq {"sync", "card"} \X Orders
        /\ synced' \subseteq Orders
        /\ cards' \subseteq Orders
        /\ listed' \subseteq Orders
        /\ faults' \in 0 .. MaxFaults
        /\ disturbed' \in BOOLEAN
    BY <2>3
  <2> QED
    BY <2>2, <2>5, <2>7, <2>8, <2>9
<1>29. ASSUME NEW s \in Sweepers, SweepFails(s) PROVE TypeOK'
  <2>1. faults' \in 0 .. MaxFaults /\ disturbed' \in BOOLEAN /\ UNCHANGED listed
    BY <1>29, FaultTypes DEF SweepFails
  <2>2. /\ row' \in [Orders -> Statuses]
        /\ cached' = cached
        /\ units' \in [Orders -> {"held", "timeout", "job"}]
        /\ UNCHANGED <<payment, callback, task, postPay, synced, cards, timer, caller>>
    <3>1. CASE UNCHANGED stateVars
      BY <1>29, <3>1 DEF SweepFails
    <3>2. CASE /\ \E x \in sweeper[s].todo : WriteUntold(x, "CLOSED")
               /\ UNCHANGED <<units, payment, callback, task, postPay, synced, cards>>
      BY <1>29, <3>2 DEF SweepFails, WriteUntold
    <3>3. CASE /\ Release(sweeper[s].order, "job")
               /\ UNCHANGED <<row, cached, payment, callback, task, postPay, synced, cards>>
      BY <1>29, <3>3 DEF SweepFails, Release
    <3> QED
      BY <1>29, <3>1, <3>2, <3>3 DEF SweepFails
  <2>3. sweeper' = [sweeper EXCEPT ![s] = [at |-> "idle", order |-> NoOrder, todo |-> {}]]
    BY <1>29 DEF SweepFails, AbandonList
  <2> QED
    BY <2>1, <2>2, <2>3
<1>30. ASSUME NEW s \in Sweepers, NEW o \in Orders, SweepClose(s, o) PROVE TypeOK'
  BY <1>30 DEF SweepClose, Write
<1>31. ASSUME NEW o \in Orders, AckWaitPasses(o) PROVE TypeOK'
  <2>1. faults' \in 0 .. MaxFaults /\ disturbed' \in BOOLEAN /\ UNCHANGED listed
    BY <1>31, FaultTypes DEF AckWaitPasses
  <2> QED
    BY <1>31, <2>1 DEF AckWaitPasses
<1>32. ASSUME NEW o \in Orders, BuyerPays(o) PROVE TypeOK'
  BY <1>32 DEF BuyerPays
<1>33. ASSUME NEW o \in Orders, GatewayLearns(o) PROVE TypeOK'
  BY <1>33 DEF GatewayLearns, Charged
<1>34. ASSUME NEW o \in Orders, Reconcile(o) PROVE TypeOK'
  BY <1>34 DEF Reconcile, Write
<1>35. ASSUME NEW o \in Orders, CheckSync(o) PROVE TypeOK'
  BY <1>35 DEF CheckSync
<1>36. ASSUME NEW r \in Replicas, NEW o \in Orders, CacheExpires(r, o) PROVE TypeOK'
  BY <1>36 DEF CacheExpires
<1>37. ASSUME NEW o \in Orders, NEW kind \in {"sync", "card"}, RunPostPay(kind, o) PROVE TypeOK'
  <2>1. faults' \in 0 .. MaxFaults /\ disturbed' \in BOOLEAN /\ UNCHANGED listed
    BY <1>37, FaultTypes DEF RunPostPay
  <2> QED
    BY <1>37, <2>1 DEF RunPostPay
<1>38. ASSUME SupportRestarts PROVE TypeOK'
  <2>1. faults' \in 0 .. MaxFaults /\ disturbed' \in BOOLEAN /\ UNCHANGED listed
    BY <1>38, FaultTypes DEF SupportRestarts
  <2> QED
    BY <1>38, <2>1 DEF SupportRestarts
<1>40. ASSUME NEW o \in Orders, ListChanges(o) PROVE TypeOK'
  BY <1>40 DEF ListChanges
<1>39. ASSUME UNCHANGED vars PROVE TypeOK'
  BY <1>39 DEF vars
<1> QED
  BY <1>1, <1>2, <1>3, <1>4, <1>5, <1>6, <1>7, <1>8, <1>9, <1>10, <1>11, <1>12,
     <1>13, <1>14, <1>15, <1>16, <1>17, <1>18, <1>19, <1>20, <1>21, <1>22, <1>23, <1>24,
     <1>25, <1>26, <1>27, <1>28, <1>29, <1>30, <1>31, <1>32, <1>33, <1>34, <1>35, <1>36,
     <1>37, <1>38, <1>39, <1>40
  DEF Next, HandleTask, HandleCall, Sweep

(* Every reachable state is well typed.                                    *)
THEOREM TypeCorrect == Spec => []TypeOK
<1> QED
  BY TypeInit, TypeStep, PTL DEF Spec

-----------------------------------------------------------------------------
(* Whoever is about to release has seen to it that the row is final, and   *)
(* the timeout handler that it is CLOSED.                                  *)
ReleasesFollowClose ==
  /\ \A w \in Timers : timer[w].at = "release" => row[timer[w].order] = "CLOSED"
  /\ \A s \in Sweepers : sweeper[s].at = "release" => row[sweeper[s].order] # "PENDING"
  /\ \A o \in Orders : units[o] = "timeout" => row[o] = "CLOSED"

(* The payment of a paid order was reported.  One the gateway calls paid   *)
(* was charged, and the timeout handler that saw it remembers; a handler   *)
(* of Notify works on a reported payment, and on what follows only once    *)
(* the order has left PENDING.                                             *)
MarksFollowCharge ==
  /\ \A o \in Orders : row[o] = "PAID" => callback[o] # "none"
  /\ \A o \in Orders : payment[o] = "paid" => Charged(o)
  /\ \A w \in Timers : timer[w].at = "mark" => Charged(timer[w].order)
  /\ \A c \in Callers :
       /\ caller[c].at \in {"get", "mark", "sync", "card", "ok"} => callback[caller[c].order] # "none"
       /\ caller[c].at \in {"sync", "card"} \/ caller[c].owes # {} => row[caller[c].order] # "PENDING"
       /\ caller[c].owes # {} => caller[c].at \in {"card", "ok"}

LifecycleInv ==
  /\ CacheLags
  /\ ReleasesFollowClose
  /\ MarksFollowCharge
  /\ PendingKeepsUnits
  /\ PostPayFollowsMark

(* The invariant holds initially: every row is pending, nothing is owed.   *)
LEMMA LifecycleInit == Init => LifecycleInv
  BY LifecycleAssumption DEF Init, LifecycleInv, CacheLags, ReleasesFollowClose, MarksFollowCharge,
     PendingKeepsUnits, PostPayFollowsMark

(* Every action keeps the invariant, whatever fails and however old the    *)
(* copy is that it read.                                                   *)
LEMMA LifecycleStep == TypeOK /\ LifecycleInv /\ [Next]_vars => LifecycleInv'
<1> SUFFICES ASSUME TypeOK, LifecycleInv, [Next]_vars PROVE LifecycleInv'
  OBVIOUS
<1> USE LifecycleAssumption DEF TypeOK, LifecycleInv, CacheLags, ReleasesFollowClose,
        MarksFollowCharge, PendingKeepsUnits, PostPayFollowsMark, Charged
<1>1. ASSUME NEW w \in Timers, TimeoutGet(w) PROVE LifecycleInv'
  <2>1. PICK seen \in Statuses :
          /\ Read(timer[w].order, seen)
          /\ TimerStep(w, "get", IF seen = "PENDING" THEN "query" ELSE "ack")
    BY <1>1 DEF TimeoutGet
  <2>2. timer[w].order \in Orders
    BY <1>1 DEF TimeoutGet
  <2>3. seen \in {"PENDING", row[timer[w].order]} /\ CacheLags'
    BY <1>1, <2>1, <2>2, ReadLags DEF TimeoutGet
  <2> QED
    BY <1>1, <2>1, <2>2, <2>3 DEF TimeoutGet
<1>2. ASSUME NEW w \in Timers, TimeoutQuery(w) PROVE LifecycleInv'
  BY <1>2 DEF TimeoutQuery
<1>3. ASSUME NEW w \in Timers, TimeoutMark(w) PROVE LifecycleInv'
  BY <1>3 DEF TimeoutMark, Write
<1>4. ASSUME NEW w \in Timers, TimeoutClose(w) PROVE LifecycleInv'
  BY <1>4 DEF TimeoutClose, Write
<1>5. ASSUME NEW w \in Timers, TimeoutVerify(w) PROVE LifecycleInv'
  <2>1. PICK seen \in Statuses :
          /\ Read(timer[w].order, seen)
          /\ TimerStep(w, "verify", IF seen = "CLOSED" THEN "release" ELSE "ack")
    BY <1>5 DEF TimeoutVerify
  <2>2. timer[w].order \in Orders
    BY <1>5 DEF TimeoutVerify
  <2>3. seen \in {"PENDING", row[timer[w].order]} /\ CacheLags'
    BY <1>5, <2>1, <2>2, ReadLags DEF TimeoutVerify
  <2> QED
    BY <1>5, <2>1, <2>2, <2>3 DEF TimeoutVerify
<1>6. ASSUME NEW w \in Timers, TimeoutRelease(w) PROVE LifecycleInv'
  BY <1>6 DEF TimeoutRelease, Release
<1>7. ASSUME NEW w \in Timers, TimeoutClosePayment(w) PROVE LifecycleInv'
  BY <1>7 DEF TimeoutClosePayment, ClosePayment
<1>8. ASSUME NEW w \in Timers, TimeoutFails(w) PROVE LifecycleInv'
  <2>1. /\ UNCHANGED <<caller, sweeper>>
        /\ timer[w].order \in Orders
        /\ \A v \in Timers : timer'[v].at \in {"mark", "release"} => timer'[v] = timer[v]
    BY <1>8 DEF TimeoutFails
  <2>2. CASE Nothing
    BY <2>1, <2>2 DEF Nothing
  <2>3. CASE timer[w].at = "mark" /\ WriteUntold(timer[w].order, "PAID")
               /\ UNCHANGED <<units, payment, callback, task, postPay, synced, cards>>
    BY <2>1, <2>3 DEF WriteUntold
  <2>4. CASE timer[w].at = "close" /\ WriteUntold(timer[w].order, "CLOSED")
               /\ UNCHANGED <<units, payment, callback, task, postPay, synced, cards>>
    BY <2>1, <2>4 DEF WriteUntold
  <2>5. CASE timer[w].at = "release" /\ Release(timer[w].order, "timeout")
               /\ UNCHANGED <<row, cached, payment, callback, task, postPay, synced, cards>>
    BY <2>1, <2>5 DEF Release
  <2>6. CASE timer[w].at = "closepay" /\ ClosePayment(timer[w].order)
               /\ UNCHANGED <<row, cached, units, callback, task, postPay, synced, cards>>
    BY <2>1, <2>6 DEF ClosePayment
  <2> QED
    BY <1>8, <2>2, <2>3, <2>4, <2>5, <2>6 DEF TimeoutFails, TimeoutEffect
<1>9. ASSUME NEW w \in Timers, SettleTask(w) PROVE LifecycleInv'
  BY <1>9 DEF SettleTask
<1>10. ASSUME NEW w \in Timers, TimerCrashes(w) PROVE LifecycleInv'
  BY <1>10 DEF TimerCrashes
<1>11. ASSUME NEW w \in Timers, NEW o \in Orders, FetchTask(w, o) PROVE LifecycleInv'
  BY <1>11 DEF FetchTask
<1>12. ASSUME NEW c \in Callers, PrepayGet(c) PROVE LifecycleInv'
  <2>1. PICK seen \in Statuses :
          /\ Read(caller[c].order, seen)
          /\ CallerStep(c, "prepay", IF seen = "PENDING" THEN "create" ELSE "idle")
    BY <1>12 DEF PrepayGet
  <2>2. caller[c].order \in Orders
    BY <1>12 DEF PrepayGet
  <2>3. seen \in {"PENDING", row[caller[c].order]} /\ CacheLags'
    BY <1>12, <2>1, <2>2, ReadLags DEF PrepayGet
  <2> QED
    BY <1>12, <2>1, <2>2, <2>3 DEF PrepayGet
<1>13. ASSUME NEW c \in Callers, PrepayCreate(c) PROVE LifecycleInv'
  BY <1>13 DEF PrepayCreate
<1>14. ASSUME NEW c \in Callers, NotifyGet(c) PROVE LifecycleInv'
  <2>1. PICK seen \in Statuses :
          /\ Read(caller[c].order, seen)
          /\ CallerStep(c, "get", IF seen = "PENDING" THEN "mark" ELSE "ok")
    BY <1>14 DEF NotifyGet
  <2>2. caller[c].order \in Orders
    BY <1>14 DEF NotifyGet
  <2>3. seen \in {"PENDING", row[caller[c].order]} /\ CacheLags'
    BY <1>14, <2>1, <2>2, ReadLags DEF NotifyGet
  <2> QED
    BY <1>14, <2>1, <2>2, <2>3 DEF NotifyGet
<1>15. ASSUME NEW c \in Callers, NotifyGetFails(c) PROVE LifecycleInv'
  BY <1>15 DEF NotifyGetFails
<1>16. ASSUME NEW c \in Callers, NotifyMark(c) PROVE LifecycleInv'
  BY <1>16 DEF NotifyMark, Write
<1>17. ASSUME NEW c \in Callers, NotifyMarkFails(c) PROVE LifecycleInv'
  BY <1>17 DEF NotifyMarkFails, WriteUntold
<1>18. ASSUME NEW c \in Callers, PublishSync(c) PROVE LifecycleInv'
  <2>1. /\ caller[c].at = "sync"
        /\ UNCHANGED <<row, cached, units, payment, callback, task, synced, cards, timer, sweeper>>
    BY <1>18 DEF PublishSync, PublishTask
  <2>2. caller[c] \in [at : {"sync"}, order : Orders, owes : SUBSET {"sync", "card"}]
    BY <2>1
  <2>3. postPay' = postPay \/ postPay' = postPay \cup {<<"sync", caller[c].order>>}
    BY <1>18 DEF PublishSync, PublishTask
  <2>4. \E owed \in SUBSET {"sync", "card"} :
          caller' = [caller EXCEPT ![c] = [at |-> "card", order |-> caller[c].order, owes |-> owed]]
    BY <1>18, <2>2 DEF PublishSync, PublishTask
  <2> QED
    BY <2>1, <2>2, <2>3, <2>4
<1>19. ASSUME NEW c \in Callers, PublishCard(c) PROVE LifecycleInv'
  <2>1. /\ caller[c].at = "card"
        /\ UNCHANGED <<row, cached, units, payment, callback, task, synced, cards, timer, sweeper>>
    BY <1>19 DEF PublishCard, PublishTask
  <2>2. caller[c] \in [at : {"card"}, order : Orders, owes : SUBSET {"sync", "card"}]
    BY <2>1
  <2>3. postPay' = postPay \/ postPay' = postPay \cup {<<"card", caller[c].order>>}
    BY <1>19 DEF PublishCard, PublishTask
  <2>4. \E owed \in SUBSET {"sync", "card"} :
          caller' = [caller EXCEPT ![c] = [at |-> "ok", order |-> caller[c].order, owes |-> owed]]
    BY <1>19, <2>2 DEF PublishCard, PublishTask
  <2> QED
    BY <2>1, <2>2, <2>3, <2>4
<1>20. ASSUME NEW c \in Callers, SyncPaidOrder(c) PROVE LifecycleInv'
  BY <1>20 DEF SyncPaidOrder, PayOff
<1>21. ASSUME NEW c \in Callers, IssueCardAfterPay(c) PROVE LifecycleInv'
  BY <1>21 DEF IssueCardAfterPay, PayOff
<1>22. ASSUME NEW c \in Callers, NotifyAnswered(c) PROVE LifecycleInv'
  BY <1>22 DEF NotifyAnswered
<1>23. ASSUME NEW c \in Callers, CallerCrashes(c) PROVE LifecycleInv'
  BY <1>23 DEF CallerCrashes
<1>24. ASSUME NEW c \in Callers, NEW o \in Orders, PrepayCalled(c, o) PROVE LifecycleInv'
  BY <1>24 DEF PrepayCalled, Accept
<1>25. ASSUME NEW c \in Callers, NEW o \in Orders, NotifyCalled(c, o) PROVE LifecycleInv'
  BY <1>25 DEF NotifyCalled, Accept
<1>26. ASSUME NEW s \in Sweepers, SweepList(s) PROVE LifecycleInv'
  BY <1>26 DEF SweepList, ListedPending
<1>27. ASSUME NEW s \in Sweepers, SweepRelease(s) PROVE LifecycleInv'
  BY <1>27 DEF SweepRelease, Release
<1>28. ASSUME NEW s \in Sweepers, SweepClosePayment(s) PROVE LifecycleInv'
  <2>1. \/ sweeper' = [sweeper EXCEPT ![s] = [at |-> "idle", order |-> NoOrder, todo |-> {}]]
        \/ sweeper' = [sweeper EXCEPT ![s] = [at |-> "next", order |-> NoOrder, todo |-> sweeper[s].todo]]
    BY <1>28 DEF SweepClosePayment, AbandonList
  <2>2. /\ payment' \in [Orders -> {"none", "pending", "paid", "closed"}]
        /\ \A o \in Orders : payment'[o] = "paid" => payment[o] = "paid"
    BY <1>28 DEF SweepClosePayment, ClosePayment
  <2>3. UNCHANGED <<row, cached, units, callback, task, postPay, synced, cards, timer, caller, listed, faults, disturbed>>
    BY <1>28 DEF SweepClosePayment
  <2> QED
    BY <2>1, <2>2, <2>3
<1>29. ASSUME NEW s \in Sweepers, SweepFails(s) PROVE LifecycleInv'
  <2>1. sweeper' = [sweeper EXCEPT ![s] = [at |-> "idle", order |-> NoOrder, todo |-> {}]]
    BY <1>29 DEF SweepFails, AbandonList
  <2>2. UNCHANGED <<cached, payment, callback, task, postPay, synced, cards, timer, caller>>
    BY <1>29 DEF SweepFails, WriteUntold
  <2>3. CASE UNCHANGED <<row, units>>
    BY <2>1, <2>2, <2>3
  <2>4. CASE /\ \E x \in sweeper[s].todo : WriteUntold(x, "CLOSED")
             /\ UNCHANGED units
    BY <2>1, <2>2, <2>4 DEF WriteUntold
  <2>5. CASE /\ sweeper[s].at = "release"
             /\ Release(sweeper[s].order, "job")
             /\ UNCHANGED row
    BY <2>1, <2>2, <2>5 DEF Release
  <2> QED
    BY <1>29, <2>3, <2>4, <2>5 DEF SweepFails
<1>30. ASSUME NEW s \in Sweepers, NEW o \in Orders, SweepClose(s, o) PROVE LifecycleInv'
  BY <1>30 DEF SweepClose, Write
<1>31. ASSUME NEW o \in Orders, AckWaitPasses(o) PROVE LifecycleInv'
  BY <1>31 DEF AckWaitPasses
<1>32. ASSUME NEW o \in Orders, BuyerPays(o) PROVE LifecycleInv'
  BY <1>32 DEF BuyerPays
<1>33. ASSUME NEW o \in Orders, GatewayLearns(o) PROVE LifecycleInv'
  BY <1>33 DEF GatewayLearns, Charged
<1>34. ASSUME NEW o \in Orders, Reconcile(o) PROVE LifecycleInv'
  BY <1>34 DEF Reconcile, Write
<1>35. ASSUME NEW o \in Orders, CheckSync(o) PROVE LifecycleInv'
  BY <1>35 DEF CheckSync
<1>36. ASSUME NEW r \in Replicas, NEW o \in Orders, CacheExpires(r, o) PROVE LifecycleInv'
  BY <1>36 DEF CacheExpires
<1>37. ASSUME NEW o \in Orders, NEW kind \in {"sync", "card"}, RunPostPay(kind, o) PROVE LifecycleInv'
  BY <1>37 DEF RunPostPay
<1>38. ASSUME SupportRestarts PROVE LifecycleInv'
  BY <1>38 DEF SupportRestarts
<1>40. ASSUME NEW o \in Orders, ListChanges(o) PROVE LifecycleInv'
  BY <1>40 DEF ListChanges
<1>39. ASSUME UNCHANGED vars PROVE LifecycleInv'
  BY <1>39 DEF vars
<1> HIDE DEF TypeOK, LifecycleInv
<1> QED
  BY <1>1, <1>2, <1>3, <1>4, <1>5, <1>6, <1>7, <1>8, <1>9, <1>10, <1>11, <1>12,
     <1>13, <1>14, <1>15, <1>16, <1>17, <1>18, <1>19, <1>20, <1>21, <1>22, <1>23, <1>24,
     <1>25, <1>26, <1>27, <1>28, <1>29, <1>30, <1>31, <1>32, <1>33, <1>34, <1>35, <1>36,
     <1>37, <1>38, <1>39, <1>40
  DEF Next, HandleTask, HandleCall, Sweep

LEMMA LifecycleImplies ==
  LifecycleInv => PendingKeepsUnits /\ TimeoutSparesPaid /\ PostPayFollowsMark
  BY DEF LifecycleInv, ReleasesFollowClose, TimeoutSparesPaid

(* An order that may still be paid keeps its units, whatever fails or is   *)
(* out of date (payment_timeout.go, job.go).                               *)
THEOREM UnitsSafe == Spec => []PendingKeepsUnits
  BY LifecycleImplies, TypeInit, TypeStep, LifecycleInit, LifecycleStep, PTL DEF Spec

(* The timeout handler never releases a paid order's units: it reads the   *)
(* order back after the conditional close (payment_timeout.go:126).        *)
THEOREM TimeoutSafe == Spec => []TimeoutSparesPaid
  BY LifecycleImplies, TypeInit, TypeStep, LifecycleInit, LifecycleStep, PTL DEF Spec

(* What follows a payment follows a report and the end of PENDING.         *)
THEOREM PaymentsSafe == Spec => []PostPayFollowsMark
  BY LifecycleImplies, TypeInit, TypeStep, LifecycleInit, LifecycleStep, PTL DEF Spec

(* Only a step of the timeout handler, of the reconciliation or of Notify  *)
(* makes an order paid, and the first two only if its buyer was charged.   *)
LEMMA MarkerStep ==
  ASSUME TypeOK, LifecycleInv, [Next]_vars, NEW o \in Orders,
         row[o] = "PENDING", row'[o] = "PAID", UNCHANGED caller
  PROVE  Charged(o)
<1> USE LifecycleAssumption DEF TypeOK, LifecycleInv, MarksFollowCharge
<1>1. ASSUME NEW w \in Timers, TimeoutMark(w) PROVE Charged(o)
  BY <1>1 DEF TimeoutMark, Write
<1>2. ASSUME NEW w \in Timers, TimeoutFails(w) PROVE Charged(o)
  <2>1. TimeoutEffect(w)
    BY <1>2 DEF TimeoutFails, Nothing
  <2>2. timer[w].at = "mark" /\ WriteUntold(timer[w].order, "PAID")
    BY <1>2, <2>1 DEF TimeoutEffect, TimeoutFails, WriteUntold
  <2> QED
    BY <2>2 DEF WriteUntold
<1>3. ASSUME NEW x \in Orders, Reconcile(x) PROVE Charged(o)
  BY <1>3 DEF Reconcile, Write
<1>4. ASSUME NEW w \in Timers,
              \/ TimeoutGet(w) \/ TimeoutQuery(w) \/ TimeoutClose(w) \/ TimeoutVerify(w)
              \/ TimeoutRelease(w) \/ TimeoutClosePayment(w) \/ SettleTask(w) \/ TimerCrashes(w)
              \/ \E x \in Orders : FetchTask(w, x)
       PROVE  FALSE
  BY <1>4 DEF TimeoutGet, TimeoutQuery, TimeoutClose, Write, TimeoutVerify, TimeoutRelease,
     TimeoutClosePayment, SettleTask, TimerCrashes, FetchTask
<1>5. ASSUME NEW c \in Callers,
              \/ PrepayGet(c) \/ PrepayCreate(c) \/ NotifyGet(c) \/ NotifyGetFails(c)
              \/ PublishSync(c) \/ PublishCard(c) \/ SyncPaidOrder(c) \/ IssueCardAfterPay(c)
              \/ NotifyAnswered(c) \/ CallerCrashes(c)
              \/ \E x \in Orders : PrepayCalled(c, x) \/ NotifyCalled(c, x)
       PROVE  FALSE
  <2>1. UNCHANGED row
    BY <1>5 DEF PrepayGet, PrepayCreate, NotifyGet, NotifyGetFails, PublishSync, PublishCard,
       PublishTask, SyncPaidOrder, IssueCardAfterPay, PayOff, NotifyAnswered, CallerCrashes,
       PrepayCalled, NotifyCalled, Accept
  <2> QED
    BY <2>1
<1>6. ASSUME NEW c \in Callers, NotifyMark(c) \/ NotifyMarkFails(c) PROVE FALSE
  <2>1. caller[c].at = "mark" /\ caller'[c].at # "mark"
    BY <1>6 DEF NotifyMark, NotifyMarkFails
  <2> QED
    BY <2>1
<1>7. ASSUME NEW s \in Sweepers,
              \/ SweepList(s) \/ SweepRelease(s) \/ SweepClosePayment(s) \/ SweepFails(s)
              \/ \E x \in Orders : SweepClose(s, x)
       PROVE  FALSE
  BY <1>7 DEF SweepList, SweepRelease, SweepClosePayment, SweepFails, WriteUntold, SweepClose, Write
<1>8. ASSUME NEW x \in Orders,
              \/ AckWaitPasses(x) \/ BuyerPays(x) \/ GatewayLearns(x) \/ CheckSync(x) \/ ListChanges(x)
              \/ \E r \in Replicas : CacheExpires(r, x)
              \/ \E kind \in {"sync", "card"} : RunPostPay(kind, x)
       PROVE  FALSE
  <2>1. UNCHANGED row
    BY <1>8 DEF AckWaitPasses, BuyerPays, GatewayLearns, CheckSync, ListChanges, CacheExpires, RunPostPay
  <2> QED
    BY <2>1
<1>9. SupportRestarts \/ UNCHANGED vars => FALSE
  BY DEF SupportRestarts, vars
<1> HIDE DEF TypeOK, LifecycleInv
<1> QED
  BY <1>1, <1>2, <1>3, <1>4, <1>5, <1>6, <1>7, <1>8, <1>9 DEF Next, HandleTask, HandleCall, Sweep

(* Who asks the payment gateway marks only charged orders paid             *)
(* (payment_timeout.go:88, job.go:647).                                    *)
THEOREM AskersSafe == Spec => AskersMarkCharged
<1>1. TypeOK /\ LifecycleInv /\ [Next]_vars =>
        [\A o \in Orders :
           row[o] = "PENDING" /\ row'[o] = "PAID" /\ UNCHANGED caller => Charged(o)]_vars
  BY MarkerStep
<1> QED
  BY <1>1, TypeInit, TypeStep, LifecycleInit, LifecycleStep, PTL DEF Spec, AskersMarkCharged

-----------------------------------------------------------------------------
(* ClosedUnitsReturn without its time: while no read was out of date and   *)
(* no call failed, the units of a closed order are released or somebody is *)
(* about to release them -- the consumer that will read the order back, or *)
(* one that has (payment_timeout.go:126), or the job that closed it.       *)
ReleaserAtHand ==
  ~disturbed =>
    \A o \in Orders : row[o] = "CLOSED" /\ units[o] = "held" =>
      \/ \E w \in Timers : timer[w].order = o /\ timer[w].at \in {"verify", "release"}
      \/ \E s \in Sweepers : sweeper[s].order = o /\ sweeper[s].at = "release"

(* A fault that counts is remembered, and an early redelivery is none.     *)
LEMMA FaultDisturbs ==
  ASSUME TypeOK, NEW kind, Fault(kind)
  PROVE  (disturbed => disturbed') /\ (kind # "slow" => disturbed')
  BY DEF TypeOK, Fault

(* A read that is up to date shows the row; one that is not is remembered. *)
LEMMA ReadDisturbs ==
  ASSUME TypeOK, NEW o \in Orders, NEW seen, Read(o, seen)
  PROVE  (disturbed => disturbed') /\ (seen # row[o] => disturbed')
<1>1. PICK r \in Replicas :
        \/ seen = row[o] /\ NoFault
        \/ disturbed' = (disturbed \/ seen # row[o])
  BY DEF Read
<1> QED
  BY <1>1 DEF TypeOK

(* Nobody about to release steps back, and whoever closes an order is.     *)
LEMMA ReleaserStep == TypeOK /\ ReleaserAtHand /\ [Next]_vars => ReleaserAtHand'
<1> SUFFICES ASSUME TypeOK, ReleaserAtHand, [Next]_vars, ~disturbed' PROVE ReleaserAtHand'
  BY DEF ReleaserAtHand
<1> USE LifecycleAssumption DEF TypeOK, ReleaserAtHand
<1>0. ASSUME UNCHANGED <<row, units, timer, sweeper>>, disturbed => disturbed' PROVE ReleaserAtHand'
  BY <1>0
<1>1. ASSUME NEW w \in Timers, TimeoutGet(w) PROVE ReleaserAtHand'
  <2>1. PICK seen \in Statuses :
          /\ Read(timer[w].order, seen)
          /\ TimerStep(w, "get", IF seen = "PENDING" THEN "query" ELSE "ack")
    BY <1>1 DEF TimeoutGet
  <2>2. timer[w].order \in Orders /\ UNCHANGED <<row, units>>
    BY <1>1 DEF TimeoutGet
  <2>3. disturbed => disturbed'
    BY <2>1, <2>2, ReadDisturbs
  <2> QED
    BY <2>1, <2>2, <2>3
<1>2. ASSUME NEW w \in Timers, TimeoutQuery(w) PROVE ReleaserAtHand'
  BY <1>2 DEF TimeoutQuery
<1>3. ASSUME NEW w \in Timers, TimeoutMark(w) PROVE ReleaserAtHand'
  BY <1>3 DEF TimeoutMark, Write
<1>4. ASSUME NEW w \in Timers, TimeoutClose(w) PROVE ReleaserAtHand'
  BY <1>4 DEF TimeoutClose, Write
<1>5. ASSUME NEW w \in Timers, TimeoutVerify(w) PROVE ReleaserAtHand'
  <2>1. PICK seen \in Statuses :
          /\ Read(timer[w].order, seen)
          /\ TimerStep(w, "verify", IF seen = "CLOSED" THEN "release" ELSE "ack")
    BY <1>5 DEF TimeoutVerify
  <2>2. timer[w].order \in Orders /\ UNCHANGED <<row, units>>
    BY <1>5 DEF TimeoutVerify
  <2>3. (disturbed => disturbed') /\ seen = row[timer[w].order]
    BY <2>1, <2>2, ReadDisturbs
  <2> QED
    BY <2>1, <2>2, <2>3
<1>6. ASSUME NEW w \in Timers, TimeoutRelease(w) PROVE ReleaserAtHand'
  BY <1>6 DEF TimeoutRelease, Release
<1>7. ASSUME NEW w \in Timers, TimeoutClosePayment(w) PROVE ReleaserAtHand'
  BY <1>7 DEF TimeoutClosePayment
<1>8. ASSUME NEW w \in Timers, TimeoutFails(w) \/ TimerCrashes(w) PROVE FALSE
  BY <1>8, FaultDisturbs DEF TimeoutFails, TimerCrashes
<1>9. ASSUME NEW w \in Timers, SettleTask(w) PROVE ReleaserAtHand'
  BY <1>9 DEF SettleTask
<1>10. ASSUME NEW w \in Timers, NEW o \in Orders, FetchTask(w, o) PROVE ReleaserAtHand'
  BY <1>10 DEF FetchTask
<1>11. ASSUME NEW c \in Callers, PrepayGet(c) \/ NotifyGet(c) PROVE ReleaserAtHand'
  <2>1. PICK seen \in Statuses : Read(caller[c].order, seen)
    BY <1>11 DEF PrepayGet, NotifyGet
  <2>2. caller[c].order \in Orders /\ UNCHANGED <<row, units, timer, sweeper>>
    BY <1>11 DEF PrepayGet, NotifyGet
  <2> QED
    BY <1>0, <2>1, <2>2, ReadDisturbs
<1>12. ASSUME NEW c \in Callers, NotifyMark(c) PROVE ReleaserAtHand'
  BY <1>12 DEF NotifyMark, Write
<1>13. ASSUME NEW c \in Callers, NotifyGetFails(c) \/ NotifyMarkFails(c) \/ CallerCrashes(c) PROVE FALSE
  BY <1>13, FaultDisturbs DEF NotifyGetFails, NotifyMarkFails, CallerCrashes
<1>14. ASSUME NEW c \in Callers, PublishSync(c) \/ PublishCard(c) PROVE ReleaserAtHand'
  <2>1. (disturbed => disturbed') /\ UNCHANGED <<row, units, timer, sweeper>>
    BY <1>14, FaultDisturbs DEF PublishSync, PublishCard, PublishTask
  <2> QED
    BY <1>0, <2>1
<1>15. ASSUME NEW c \in Callers,
              \/ PrepayCreate(c) \/ SyncPaidOrder(c) \/ IssueCardAfterPay(c) \/ NotifyAnswered(c)
              \/ \E o \in Orders : PrepayCalled(c, o) \/ NotifyCalled(c, o)
       PROVE  ReleaserAtHand'
  <2>1. UNCHANGED <<row, units, timer, sweeper, disturbed>>
    BY <1>15 DEF PrepayCreate, SyncPaidOrder, IssueCardAfterPay, PayOff, NotifyAnswered,
       PrepayCalled, NotifyCalled, Accept
  <2> QED
    BY <1>0, <2>1
<1>16. ASSUME NEW s \in Sweepers, SweepList(s) PROVE ReleaserAtHand'
  BY <1>16 DEF SweepList, ListedPending
<1>17. ASSUME NEW s \in Sweepers, NEW o \in Orders, SweepClose(s, o) PROVE ReleaserAtHand'
  BY <1>17 DEF SweepClose, Write
<1>18. ASSUME NEW s \in Sweepers, SweepRelease(s) PROVE ReleaserAtHand'
  BY <1>18 DEF SweepRelease, Release
<1>19. ASSUME NEW s \in Sweepers, SweepClosePayment(s) PROVE ReleaserAtHand'
  <2>1. \E now \in [at : {"idle", "next"}, order : {NoOrder}, todo : SUBSET Orders] :
          sweeper' = [sweeper EXCEPT ![s] = now]
    BY <1>19 DEF SweepClosePayment, AbandonList
  <2>2. sweeper[s].at = "closepay" /\ UNCHANGED <<row, units, timer, disturbed>>
    BY <1>19 DEF SweepClosePayment
  <2> QED
    BY <2>1, <2>2
<1>20. ASSUME NEW s \in Sweepers, SweepFails(s) PROVE FALSE
  BY <1>20, FaultDisturbs DEF SweepFails
<1>21. ASSUME NEW o \in Orders, Reconcile(o) PROVE ReleaserAtHand'
  BY <1>21 DEF Reconcile, Write
<1>22. ASSUME NEW o \in Orders, AckWaitPasses(o) PROVE ReleaserAtHand'
  <2>1. (disturbed => disturbed') /\ UNCHANGED <<row, units, timer, sweeper>>
    BY <1>22, FaultDisturbs DEF AckWaitPasses
  <2> QED
    BY <1>0, <2>1
<1>23. ASSUME NEW o \in Orders, NEW kind \in {"sync", "card"}, RunPostPay(kind, o) PROVE ReleaserAtHand'
  <2>1. (disturbed => disturbed') /\ UNCHANGED <<row, units, timer, sweeper>>
    BY <1>23, FaultDisturbs DEF RunPostPay
  <2> QED
    BY <1>0, <2>1
<1>24. ASSUME NEW o \in Orders,
              \/ BuyerPays(o) \/ GatewayLearns(o) \/ CheckSync(o) \/ ListChanges(o)
              \/ \E r \in Replicas : CacheExpires(r, o)
       PROVE  ReleaserAtHand'
  <2>1. UNCHANGED <<row, units, timer, sweeper, disturbed>>
    BY <1>24 DEF BuyerPays, GatewayLearns, CheckSync, ListChanges, CacheExpires
  <2> QED
    BY <1>0, <2>1
<1>25. ASSUME SupportRestarts PROVE FALSE
  BY <1>25, FaultDisturbs DEF SupportRestarts
<1>26. ASSUME UNCHANGED vars PROVE ReleaserAtHand'
  BY <1>0, <1>26 DEF vars
<1> HIDE DEF TypeOK, ReleaserAtHand
<1> QED
  BY <1>1, <1>2, <1>3, <1>4, <1>5, <1>6, <1>7, <1>8, <1>9, <1>10, <1>11, <1>12, <1>13,
     <1>14, <1>15, <1>16, <1>17, <1>18, <1>19, <1>20, <1>21, <1>22, <1>23, <1>24, <1>25, <1>26
  DEF Next, HandleTask, HandleCall, Sweep

(* Without a failure or a stale read no closed order is forgotten: its     *)
(* units are back or on their way back.                                    *)
THEOREM NobodyForgetsUnits == Spec => []ReleaserAtHand
<1>1. Init => ReleaserAtHand
  BY DEF Init, ReleaserAtHand
<1> QED
  BY <1>1, ReleaserStep, TypeInit, TypeStep, PTL DEF Spec
=============================================================================
