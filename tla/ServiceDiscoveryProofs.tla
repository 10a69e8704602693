----------------------- MODULE ServiceDiscoveryProofs -----------------------
(* Theorems about ServiceDiscovery.                                        *)
EXTENDS ServiceDiscovery, TLAPS

LEMMA IntervalType == Interval \in Nat \ {0}
BY DiscoveryAssumption DEF Interval

LEMMA Numbers == TTL \in Nat \ {0} /\ MaxStarts \in Nat /\ MaxFaults \in Nat
BY DiscoveryAssumption

LEMMA SetupType ==
  ASSUME TypeOK
  PROVE /\ setup.mode \in Modes
        /\ setup.fallback \in BOOLEAN
        /\ \A i \in Instances : Address(i) \in Addresses
BY DiscoveryAssumption DEF TypeOK, Address

-----------------------------------------------------------------------------
(* Type correctness.                                                       *)

(* What a fault does to the counter.                                       *)
LEMMA FaultType ==
  ASSUME TypeOK, NoFault \/ \E k : Fault(k)
  PROVE faults' \in 0 .. MaxFaults
BY Numbers DEF TypeOK, NoFault, Fault

LEMMA GotoType ==
  ASSUME TypeOK, NEW i \in Instances, NEW from,
         NEW to \in {"down", "connect", "grant", "put", "bare", "lease",
                     "listed", "leave", "alone"},
         Goto(i, from, to)
  PROVE server' \in [Instances -> {"down", "connect", "grant", "put", "bare", "lease",
                                   "listed", "leave", "alone"}]
BY DEF TypeOK, Goto

LEMMA AbandonType ==
  ASSUME TypeOK, NEW i \in Instances, NEW names \in SUBSET Addresses,
         NEW keys \in [Addresses -> Instances \cup {"none", "orphan"}],
         listed \subseteq names, Abandon(i, names, keys)
  PROVE /\ listed' \subseteq Addresses
        /\ left' \in 0 .. TTL
        /\ bound' \in [Addresses -> Instances \cup {"none", "orphan"}]
        /\ orphaned' \subseteq listed'
        /\ untimed' \in BOOLEAN
BY DEF TypeOK, Abandon

LEMMA NotifyType == ASSUME TypeOK, Notify PROVE client' \in [Clients -> Watcher]
<1>1. DOMAIN client = Clients
  BY DEF TypeOK
<1>2. \A c \in Clients : [client[c] EXCEPT !.waiting = FALSE, !.deaf = FALSE] \in Watcher
  BY DEF TypeOK, Watcher
<1> QED BY <1>1, <1>2 DEF Notify

LEMMA TypeInit == Init => TypeOK
<1> SUFFICES ASSUME Init PROVE TypeOK
  OBVIOUS
<1>1. [source |-> "none", seen |-> FALSE, last |-> {}, addrs |-> {},
       waiting |-> FALSE, deaf |-> FALSE] \in Watcher
  BY DEF Watcher
<1>2. client \in [Clients -> Watcher]
  BY <1>1 DEF Init
<1>3. untimed \in BOOLEAN
  BY Zenon DEF Init
<1> QED BY <1>2, <1>3, Numbers, IntervalType DEF Init, TypeOK

LEMMA TypeStep == TypeOK /\ [Next]_vars => TypeOK'
<1> SUFFICES ASSUME TypeOK, [Next]_vars PROVE TypeOK'
  OBVIOUS
<1> USE Numbers, IntervalType, SetupType, FaultType
<1>s. ASSUME NEW i \in Instances, Start(i) PROVE TypeOK'
  BY <1>s, GotoType DEF Start, TypeOK, registryVars
<1>c. ASSUME NEW i \in Instances, Connect(i) PROVE TypeOK'
  BY <1>c, GotoType DEF Connect, TypeOK, registryVars
<1>f. ASSUME NEW i \in Instances, RegisterFails(i) PROVE TypeOK'
  <2>1. GaveUp \in {"alone", "down"}
    BY DEF GaveUp
  <2>2. CASE Goto(i, "connect", GaveUp) /\ Fault("error")
             /\ UNCHANGED <<setup, refresh, age, registryVars, client, starts>>
    BY <2>1, <2>2, GotoType DEF TypeOK, registryVars
  <2>3. CASE /\ \/ Goto(i, "put", GaveUp)
                \/ Goto(i, "bare", GaveUp)
                \/ Redis /\ Goto(i, "lease", GaveUp)
             /\ Fault("error")
             /\ Abandon(i, listed, bound)
             /\ UNCHANGED <<setup, refresh, age, client, starts>>
    <3>1. server' \in [Instances -> {"down", "connect", "grant", "put", "bare", "lease",
                                     "listed", "leave", "alone"}]
      BY <2>1, <2>3, GotoType
    <3>2. listed \in SUBSET Addresses
             /\ bound \in [Addresses -> Instances \cup {"none", "orphan"}]
      BY DEF TypeOK
    <3> QED BY <2>3, <3>1, <3>2, AbandonType DEF TypeOK
  <2>4. CASE /\ \/ Goto(i, "put", GaveUp)
                \/ Goto(i, "bare", GaveUp)
             /\ Fault("lost")
             /\ Abandon(i, listed \cup {Address(i)},
                  IF Redis THEN bound
                  ELSE [bound EXCEPT ![Address(i)] =
                          IF server[i] = "bare" THEN "none" ELSE i])
             /\ IF Etcd THEN Notify ELSE UNCHANGED client
             /\ UNCHANGED <<setup, refresh, age, starts>>
    <3>1. server' \in [Instances -> {"down", "connect", "grant", "put", "bare", "lease",
                                     "listed", "leave", "alone"}]
      BY <2>1, <2>4, GotoType
    <3> DEFINE keys == IF Redis THEN bound
                       ELSE [bound EXCEPT ![Address(i)] =
                               IF server[i] = "bare" THEN "none" ELSE i]
    <3>2. keys \in [Addresses -> Instances \cup {"none", "orphan"}]
      BY DEF TypeOK
    <3>3. listed \cup {Address(i)} \in SUBSET Addresses
      BY DEF TypeOK
    <3>4. Abandon(i, listed \cup {Address(i)}, keys)
      BY <2>4
    <3>5. client' \in [Clients -> Watcher]
      BY <2>4, NotifyType DEF TypeOK
    <3> HIDE DEF keys
    <3> QED BY <2>4, <3>1, <3>2, <3>3, <3>4, <3>5, AbandonType DEF TypeOK
  <2> QED BY <1>f, <2>2, <2>3, <2>4 DEF RegisterFails
<1>p. ASSUME NEW i \in Instances, RegisterPut(i) PROVE TypeOK'
  BY <1>p, GotoType DEF RegisterPut, HSet, TypeOK
<1>e. ASSUME NEW i \in Instances, RegisterExpire(i) PROVE TypeOK'
  <2>1. untimed' \in BOOLEAN
    BY <1>e, Zenon DEF RegisterExpire, Expire
  <2> QED BY <1>e, <2>1, GotoType DEF RegisterExpire, Expire, TypeOK
<1>g. ASSUME NEW i \in Instances, Grant(i) PROVE TypeOK'
  BY <1>g, GotoType DEF Grant, TypeOK, registryVars
<1>k. ASSUME NEW i \in Instances, RegisterKey(i) PROVE TypeOK'
  <2>1. server' \in [Instances -> {"down", "connect", "grant", "put", "bare", "lease",
                                   "listed", "leave", "alone"}]
    BY <1>k, GotoType DEF RegisterKey
  <2>2. PICK lease \in Instances \cup {"none"} : Put(i, lease)
    BY <1>k DEF RegisterKey
  <2>3. client' \in [Clients -> Watcher]
    BY <2>2, NotifyType DEF Put
  <2> QED BY <1>k, <2>1, <2>2, <2>3 DEF RegisterKey, Put, TypeOK
<1>a. ASSUME NEW i \in Instances, KeepAlive(i) PROVE TypeOK'
  <2>1. server' \in [Instances -> {"down", "connect", "grant", "put", "bare", "lease",
                                   "listed", "leave", "alone"}]
    BY <1>a, GotoType DEF KeepAlive
  <2>2. listed \in SUBSET Addresses
        /\ bound \in [Addresses -> Instances \cup {"none", "orphan"}]
    BY DEF TypeOK
  <2>3. CASE NoFault /\ UNCHANGED registryVars
    BY <1>a, <2>1, <2>3 DEF KeepAlive, TypeOK, registryVars
  <2>4. CASE Fault("error") /\ Abandon(i, listed, bound)
    BY <1>a, <2>1, <2>2, <2>4, AbandonType DEF KeepAlive, TypeOK
  <2> QED BY <1>a, <2>3, <2>4 DEF KeepAlive
<1>d. ASSUME NEW i \in Instances, RefreshDue(i) PROVE TypeOK'
  BY <1>d DEF RefreshDue, TypeOK, registryVars
<1>r. ASSUME NEW i \in Instances, RefreshPut(i) PROVE TypeOK'
  BY <1>r DEF RefreshPut, HSet, TypeOK
<1>x. ASSUME NEW i \in Instances, RefreshExpire(i) PROVE TypeOK'
  <2>1. untimed' \in BOOLEAN
    BY <1>x, Zenon DEF RefreshExpire, Expire
  <2> QED BY <1>x, <2>1 DEF RefreshExpire, Expire, TypeOK
<1>n. ASSUME NEW i \in Instances, RefreshFails(i) PROVE TypeOK'
  <2>1. faults' \in 0 .. MaxFaults
    BY <1>n DEF RefreshFails
  <2> QED BY <1>n, <2>1 DEF RefreshFails, TypeOK
<1>o. ASSUME NEW i \in Instances, Stop(i) PROVE TypeOK'
  BY <1>o, GotoType DEF Stop, TypeOK
<1>l. ASSUME NEW i \in Instances, LateCommand(i) PROVE TypeOK'
  <2>1. untimed' \in BOOLEAN
    BY <1>l, Zenon DEF LateCommand, TypeOK
  <2> QED BY <1>l, <2>1 DEF LateCommand, TypeOK
<1>u. ASSUME NEW i \in Instances, Deregister(i) PROVE TypeOK'
  <2>1. server' \in [Instances -> {"down", "connect", "grant", "put", "bare", "lease",
                                   "listed", "leave", "alone"}]
    BY <1>u, GotoType DEF Deregister
  <2>2. listed \in SUBSET Addresses
        /\ bound \in [Addresses -> Instances \cup {"none", "orphan"}]
    BY DEF TypeOK
  <2>3. CASE NoFault /\ Redis /\ HDel(i)
    BY <1>u, <2>1, <2>3 DEF Deregister, HDel, TypeOK
  <2>4. CASE NoFault /\ ~Redis /\ Delete(Address(i))
    <3>1. client' \in [Clients -> Watcher]
      BY <2>4, NotifyType DEF Delete, TypeOK
    <3> QED BY <1>u, <2>1, <2>4, <3>1 DEF Deregister, Delete, TypeOK
  <2>5. CASE Fault("error") /\ Abandon(i, listed, bound) /\ UNCHANGED client
    BY <1>u, <2>1, <2>2, <2>5, AbandonType DEF Deregister, TypeOK
  <2> QED BY <1>u, <2>3, <2>4, <2>5 DEF Deregister
<1>h. ASSUME NEW i \in Instances, Crash(i) PROVE TypeOK'
  <2>1. listed \in SUBSET Addresses
        /\ bound \in [Addresses -> Instances \cup {"none", "orphan"}]
    BY DEF TypeOK
  <2>2. /\ server' \in [Instances -> {"down", "connect", "grant", "put", "bare", "lease",
                                     "listed", "leave", "alone"}]
        /\ refresh' \in [Instances -> {"idle", "put", "expire"}]
        /\ age' \in [Instances -> 0 .. Interval]
    BY <1>h DEF Crash, TypeOK
  <2>3. /\ listed' \subseteq Addresses
        /\ left' \in 0 .. TTL
        /\ bound' \in [Addresses -> Instances \cup {"none", "orphan"}]
        /\ orphaned' \subseteq listed'
        /\ untimed' \in BOOLEAN
    BY <1>h, <2>1, AbandonType DEF Crash
  <2> QED BY <1>h, <2>2, <2>3 DEF Crash, TypeOK
<1>t. CASE Tick
  <2>1. faults' \in 0 .. MaxFaults
    BY <1>t DEF Tick
  <2>2. age' \in [Instances -> 0 .. Interval]
    BY <1>t DEF Tick, Older, TypeOK
  <2>3. untimed' \in BOOLEAN
    BY <1>t, Zenon DEF Tick, TypeOK
  <2> QED BY <1>t, <2>1, <2>2, <2>3 DEF Tick, TypeOK
<1>b. ASSUME NEW i \in Instances, LeaseLost(i) PROVE TypeOK'
  <2>1. faults' \in 0 .. MaxFaults
    BY <1>b DEF LeaseLost
  <2> QED BY <1>b, <2>1 DEF LeaseLost, TypeOK, processVars
<1>y. ASSUME NEW a \in Addresses, LeaseExpires(a) PROVE TypeOK'
  <2>1. client' \in [Clients -> Watcher]
    BY <1>y, NotifyType DEF LeaseExpires, Delete, TypeOK
  <2> QED BY <1>y, <2>1 DEF LeaseExpires, Delete, TypeOK, processVars
<1>w. ASSUME NEW c \in Clients, StartClient(c) PROVE TypeOK'
  <2>1. faults' \in 0 .. MaxFaults
    BY <1>w DEF StartClient
  <2>2. client' \in [Clients -> Watcher]
    BY <1>w DEF StartClient, TypeOK, Watcher
  <2> QED BY <1>w, <2>1, <2>2 DEF StartClient, TypeOK, processVars, registryVars
<1>v. ASSUME NEW c \in Clients, Look(c) PROVE TypeOK'
  <2>1. faults' \in 0 .. MaxFaults
    BY <1>v DEF Look
  <2>2. PICK failed \in BOOLEAN :
          client' = [client EXCEPT ![c] =
            IF ShouldReturn(client[c], GetService(failed))
            THEN Returned(client[c], GetService(failed))
            ELSE IF Etcd THEN [client[c] EXCEPT !.waiting = TRUE, !.deaf = failed]
            ELSE client[c]]
    BY <1>v DEF Look
  <2>3. GetService(failed) \in SUBSET (Addresses \cup Static)
    BY DEF GetService, TypeOK
  <2>4. client[c] \in Watcher
    BY DEF TypeOK
  <2>5. Returned(client[c], GetService(failed)) \in Watcher
    BY <2>3, <2>4 DEF Returned, Watcher
  <2>6. [client[c] EXCEPT !.waiting = TRUE, !.deaf = failed] \in Watcher
    BY <2>2, <2>4 DEF Watcher
  <2>7. client' \in [Clients -> Watcher]
    BY <2>2, <2>4, <2>5, <2>6 DEF TypeOK
  <2> QED BY <1>v, <2>1, <2>7 DEF Look, TypeOK, processVars, registryVars
<1>z. CASE UNCHANGED vars
  BY <1>z DEF vars, TypeOK, processVars, registryVars
<1> QED
  BY <1>s, <1>c, <1>f, <1>p, <1>e, <1>g, <1>k, <1>a, <1>d, <1>r, <1>x, <1>n, <1>o, <1>l,
     <1>u, <1>h, <1>t, <1>b, <1>y, <1>w, <1>v, <1>z DEF Next, Works

(* Every reachable state is well typed: the hash is never older than its    *)
(* TTL, and what an instance left behind is registered.                    *)
THEOREM TypeCorrect == Spec => []TypeOK
BY TypeInit, TypeStep, PTL DEF Spec
-----------------------------------------------------------------------------
(* An address stays registered while its instance lives. In Redis this is    *)
(* an account of time: what is left of the TTL, what the instance has waited *)
(* since its last tick, and one Interval for every fault so far and for the  *)
(* refresh under way never add up to less than the TTL. In etcd it is that a *)
(* lease which no fault touched is still the instance's own.                *)

Margin(n) == n * Interval

SteadyAt(i) ==
  \/ left = 0
  \/ refresh[i] = "idle" /\ left + age[i] + Margin(faults) >= TTL
  \/ refresh[i] # "idle" /\ left + Interval + Margin(faults) >= TTL

Steady == Redis => \A i \in Instances : server[i] = "listed" => SteadyAt(i)

Leased ==
  Etcd /\ faults = 0 => \A i \in Instances :
    /\ server[i] # "bare"
    /\ server[i] \in {"lease", "listed"} /\ Alone(i) => bound[Address(i)] = i

LEMMA MarginFacts ==
  ASSUME NEW n \in Nat
  PROVE Margin(n) \in Nat /\ Margin(n + 1) = Margin(n) + Interval
BY IntervalType, SMT DEF Margin

LEMMA Counts ==
  ASSUME TypeOK
  PROVE /\ faults \in Nat
        /\ left \in Nat
        /\ left <= TTL
        /\ \A i \in Instances : age[i] \in Nat /\ age[i] <= Interval
BY Numbers, IntervalType DEF TypeOK

(* A fault buys one more Interval; nothing else changes the margin.        *)
LEMMA FaultMargin ==
  ASSUME TypeOK, NoFault \/ \E k : Fault(k)
  PROVE /\ faults' \in Nat
        /\ Margin(faults') \in Nat
        /\ faults' = faults \/ faults' = faults + 1
        /\ NoFault => Margin(faults') = Margin(faults)
        /\ (\E k : Fault(k)) => faults' = faults + 1
        /\ (\E k : Fault(k)) => Margin(faults') = Margin(faults) + Interval
<1>1. faults \in Nat
  BY Counts
<1>2. faults' = faults \/ faults' = faults + 1
  BY DEF NoFault, Fault
<1>3. (\E k : Fault(k)) => faults' = faults + 1
  BY DEF Fault
<1>4. NoFault => faults' = faults
  BY DEF NoFault
<1> HIDE DEF Margin
<1> QED BY <1>1, <1>2, <1>3, <1>4, MarginFacts

(* The account of an instance that a step leaves alone: the TTL is renewed,  *)
(* gone or as it was, and the margin does not shrink.                       *)
LEMMA SteadyKept ==
  ASSUME TypeOK, NEW i \in Instances, SteadyAt(i),
         refresh'[i] = refresh[i], age'[i] = age[i],
         left' = 0 \/ left' = left \/ left' = TTL,
         NoFault \/ \E k : Fault(k)
  PROVE SteadyAt(i)'
<1>1. Margin(faults) \in Nat /\ Margin(faults') \in Nat /\ Margin(faults') >= Margin(faults)
  BY Counts, MarginFacts, FaultMargin, IntervalType
<1> QED BY <1>1, Counts, Numbers, IntervalType DEF SteadyAt

(* The account of an instance whose hash was given its TTL.                 *)
LEMMA SteadyRenewed ==
  ASSUME TypeOK, TypeOK', NEW i \in Instances, left' = 0 \/ left' = TTL
  PROVE SteadyAt(i)'
<1>1. Margin(faults') \in Nat /\ age'[i] \in Nat
  <2>1. faults' \in Nat /\ age'[i] \in Nat
    BY Numbers, IntervalType DEF TypeOK
  <2> QED BY <2>1, MarginFacts
<1> QED BY <1>1, Numbers, IntervalType DEF SteadyAt

(* What the steps that give or keep a TTL do to the hash and to the others.  *)
LEMMA HashKept ==
  ASSUME TypeOK, TypeOK', Steady, UNCHANGED setup,
         NoFault \/ \E k : Fault(k),
         NEW j \in Instances,
         \A i \in Instances \ {j} :
           server'[i] = server[i] /\ refresh'[i] = refresh[i] /\ age'[i] = age[i],
         left' = 0 \/ left' = left \/ left' = TTL,
         \/ server'[j] # "listed"
         \/ left' = 0 \/ left' = TTL
         \/ server[j] = "listed" /\ refresh'[j] = refresh[j] /\ age'[j] = age[j]
  PROVE Steady'
<1> SUFFICES ASSUME Redis, NEW i \in Instances, server'[i] = "listed" PROVE SteadyAt(i)'
  BY DEF Steady, Redis
<1>1. CASE left' = 0 \/ left' = TTL
  BY <1>1, SteadyRenewed
<1>2. CASE ~(left' = 0 \/ left' = TTL)
  <2>1. server[i] = "listed" /\ refresh'[i] = refresh[i] /\ age'[i] = age[i]
    BY <1>2
  <2>2. SteadyAt(i)
    BY <2>1 DEF Steady
  <2> QED BY <2>1, <2>2, SteadyKept
<1> QED BY <1>1, <1>2

(* Setting up or giving up: nobody's account is touched.                   *)
LEMMA AccountsKept ==
  ASSUME TypeOK, TypeOK', Steady, UNCHANGED setup,
         NoFault \/ \E k : Fault(k),
         UNCHANGED <<refresh, age, left>>,
         \A i \in Instances : server'[i] = "listed" => server[i] = "listed" \/ ~Redis
  PROVE Steady'
<1> SUFFICES ASSUME Redis, NEW i \in Instances, server'[i] = "listed" PROVE SteadyAt(i)'
  BY DEF Steady, Redis
<1>1. server[i] = "listed" /\ SteadyAt(i)
  BY DEF Steady
<1> QED BY <1>1, SteadyKept

LEMMA SteadyInit == Init => Steady
BY DEF Init, Steady, SteadyAt

LEMMA SteadyStep == TypeOK /\ TypeOK' /\ Steady /\ [Next]_vars => Steady'
<1> SUFFICES ASSUME TypeOK, TypeOK', Steady, [Next]_vars PROVE Steady'
  OBVIOUS
<1> HIDE DEF Margin
<1>m. ASSUME NEW i \in Instances, NEW from, NEW to, Goto(i, from, to)
      PROVE /\ server[i] = from /\ server'[i] = to
            /\ \A j \in Instances \ {i} : server'[j] = server[j]
  BY <1>m DEF Goto, TypeOK
<1>s. ASSUME NEW i \in Instances, Start(i) PROVE Steady'
  <2>1. UNCHANGED <<setup, refresh, age, left>> /\ NoFault
    BY <1>s DEF Start, registryVars, NoFault
  <2>2. \A j \in Instances : server'[j] = "listed" => server[j] = "listed" \/ ~Redis
    BY <1>s, <1>m DEF Start
  <2> QED BY <2>1, <2>2, AccountsKept
<1>c. ASSUME NEW i \in Instances, Connect(i) PROVE Steady'
  <2>1. UNCHANGED <<setup, refresh, age, left>> /\ NoFault
    BY <1>c DEF Connect, registryVars
  <2>2. \A j \in Instances : server'[j] = "listed" => server[j] = "listed" \/ ~Redis
    BY <1>c, <1>m DEF Connect
  <2> QED BY <2>1, <2>2, AccountsKept
<1>f. ASSUME NEW i \in Instances, RegisterFails(i) PROVE Steady'
  <2>1. UNCHANGED <<setup, refresh, age, left>> /\ \E k : Fault(k)
    BY <1>f DEF RegisterFails, registryVars, Abandon
  <2>2. PICK from : Goto(i, from, GaveUp)
    BY <1>f DEF RegisterFails
  <2>3. GaveUp # "listed"
    BY DEF GaveUp
  <2>4. \A j \in Instances : server'[j] = "listed" => server[j] = "listed" \/ ~Redis
    BY <2>2, <2>3, <1>m
  <2> QED BY <2>1, <2>4, AccountsKept
<1>p. ASSUME NEW i \in Instances, RegisterPut(i) PROVE Steady'
  <2>1. UNCHANGED <<setup, refresh, age, left>> /\ NoFault
    BY <1>p DEF RegisterPut, HSet
  <2>2. \A j \in Instances : server'[j] = "listed" => server[j] = "listed" \/ ~Redis
    BY <1>p, <1>m DEF RegisterPut
  <2> QED BY <2>1, <2>2, AccountsKept
<1>e. ASSUME NEW i \in Instances, RegisterExpire(i) PROVE Steady'
  <2>1. UNCHANGED <<setup, refresh, age>> /\ NoFault /\ (left' = 0 \/ left' = TTL)
    BY <1>e DEF RegisterExpire, Expire
  <2>2. \A j \in Instances \ {i} : server'[j] = server[j]
    BY <1>e, <1>m DEF RegisterExpire
  <2> QED BY <2>1, <2>2, HashKept
<1>g. ASSUME NEW i \in Instances, Grant(i) PROVE Steady'
  <2>1. UNCHANGED <<setup, refresh, age, left>> /\ (NoFault \/ \E k : Fault(k))
    BY <1>g DEF Grant, registryVars
  <2>2. \A j \in Instances : server'[j] = "listed" => server[j] = "listed" \/ ~Redis
    BY <1>g, <1>m DEF Grant
  <2> QED BY <2>1, <2>2, AccountsKept
<1>k. ASSUME NEW i \in Instances, RegisterKey(i) PROVE Steady'
  <2>1. ~Redis
    BY <1>k DEF RegisterKey, Redis, Etcd
  <2> QED BY <1>k, <2>1 DEF RegisterKey, Steady, Redis
<1>a. ASSUME NEW i \in Instances, KeepAlive(i) PROVE Steady'
  <2>1. ~Redis
    BY <1>a DEF KeepAlive, Redis, Etcd
  <2> QED BY <1>a, <2>1 DEF KeepAlive, Steady, Redis
<1>d. ASSUME NEW i \in Instances, RefreshDue(i) PROVE Steady'
  <2> SUFFICES ASSUME Redis, NEW j \in Instances, server'[j] = "listed" PROVE SteadyAt(j)'
    BY <1>d DEF Steady, Redis, RefreshDue
  <2>1. SteadyAt(j)
    BY <1>d DEF RefreshDue, Steady
  <2>2. UNCHANGED <<left, faults>> /\ NoFault
    BY <1>d DEF RefreshDue, registryVars, NoFault
  <2>3. CASE j = i
    <3>1. refresh[i] = "idle" /\ refresh'[i] = "put"
      BY <1>d DEF RefreshDue, TypeOK
    <3>2. Margin(faults) \in Nat /\ Margin(faults') = Margin(faults)
      BY <2>2, FaultMargin, Counts, MarginFacts
    <3> QED BY <2>1, <2>2, <2>3, <3>1, <3>2, Counts, Numbers, IntervalType DEF SteadyAt
  <2>4. CASE j # i
    <3>1. refresh'[j] = refresh[j] /\ age'[j] = age[j]
      BY <1>d, <2>4 DEF RefreshDue, TypeOK
    <3> QED BY <2>1, <2>2, <3>1, SteadyKept
  <2> QED BY <2>3, <2>4
<1>r. ASSUME NEW i \in Instances, RefreshPut(i) PROVE Steady'
  <2> SUFFICES ASSUME Redis, NEW j \in Instances, server'[j] = "listed" PROVE SteadyAt(j)'
    BY <1>r DEF Steady, Redis, RefreshPut
  <2>1. SteadyAt(j)
    BY <1>r DEF RefreshPut, Steady
  <2>2. UNCHANGED <<left, faults, age>>
    BY <1>r DEF RefreshPut, HSet
  <2>3. (refresh[j] = "idle") = (refresh'[j] = "idle")
    BY <1>r DEF RefreshPut, TypeOK
  <2> QED BY <2>1, <2>2, <2>3 DEF SteadyAt
<1>x. ASSUME NEW i \in Instances, RefreshExpire(i) PROVE Steady'
  <2>1. UNCHANGED <<setup, age, server>> /\ NoFault /\ (left' = 0 \/ left' = TTL)
    BY <1>x DEF RefreshExpire, Expire, NoFault
  <2>2. \A j \in Instances \ {i} : refresh'[j] = refresh[j]
    BY <1>x DEF RefreshExpire, TypeOK
  <2> QED BY <2>1, <2>2, HashKept
<1>n. ASSUME NEW i \in Instances, RefreshFails(i) PROVE Steady'
  <2> SUFFICES ASSUME Redis, NEW j \in Instances, server'[j] = "listed" PROVE SteadyAt(j)'
    BY <1>n DEF Steady, Redis, RefreshFails
  <2>1. SteadyAt(j)
    BY <1>n DEF RefreshFails, Steady
  <2>2. UNCHANGED <<left, age>> /\ \E k : Fault(k)
    BY <1>n DEF RefreshFails
  <2>3. CASE j = i
    <3>1. refresh[i] # "idle" /\ refresh'[i] = "idle"
      BY <1>n DEF RefreshFails, TypeOK
    <3>2. Margin(faults) \in Nat /\ Margin(faults') = Margin(faults) + Interval
      BY <2>2, FaultMargin, Counts, MarginFacts
    <3> QED BY <2>1, <2>2, <2>3, <3>1, <3>2, Counts, Numbers, IntervalType DEF SteadyAt
  <2>4. CASE j # i
    <3>1. refresh'[j] = refresh[j] /\ age'[j] = age[j]
      BY <1>n, <2>4 DEF RefreshFails, TypeOK
    <3> QED BY <2>1, <2>2, <3>1, SteadyKept
  <2> QED BY <2>3, <2>4
<1>o. ASSUME NEW i \in Instances, Stop(i) PROVE Steady'
  <2>1. UNCHANGED <<setup, refresh, left>> /\ NoFault
    BY <1>o DEF Stop, NoFault
  <2>2. /\ server'[i] # "listed"
        /\ \A j \in Instances \ {i} : server'[j] = server[j] /\ age'[j] = age[j]
    BY <1>o, <1>m DEF Stop, TypeOK
  <2> QED BY <2>1, <2>2, HashKept
<1>l. ASSUME NEW i \in Instances, LateCommand(i) PROVE Steady'
  <2>1. UNCHANGED <<setup, server, age>> /\ NoFault
        /\ (left' = 0 \/ left' = left \/ left' = TTL) /\ server'[i] # "listed"
    BY <1>l DEF LateCommand, NoFault
  <2>2. \A j \in Instances \ {i} : refresh'[j] = refresh[j]
    BY <1>l DEF LateCommand, TypeOK
  <2> QED BY <2>1, <2>2, HashKept
<1>u. ASSUME NEW i \in Instances, Deregister(i) PROVE Steady'
  <2>1. UNCHANGED <<setup, refresh, age>> /\ (NoFault \/ \E k : Fault(k))
        /\ (left' = 0 \/ left' = left)
    BY <1>u DEF Deregister, HDel, Delete, Abandon
  <2>2. /\ server'[i] # "listed"
        /\ \A j \in Instances \ {i} : server'[j] = server[j]
    BY <1>u, <1>m DEF Deregister
  <2> QED BY <2>1, <2>2, HashKept
<1>h. ASSUME NEW i \in Instances, Crash(i) PROVE Steady'
  <2>1. UNCHANGED <<setup, left>> /\ NoFault
    BY <1>h DEF Crash, Abandon, NoFault
  <2>2. /\ server'[i] # "listed"
        /\ \A j \in Instances \ {i} :
             server'[j] = server[j] /\ refresh'[j] = refresh[j] /\ age'[j] = age[j]
    BY <1>h DEF Crash, TypeOK
  <2> QED BY <2>1, <2>2, HashKept
<1>t. CASE Tick
  <2> SUFFICES ASSUME Redis, NEW i \in Instances, server'[i] = "listed" PROVE SteadyAt(i)'
    BY <1>t DEF Steady, Redis, Tick
  <2>1. server[i] = "listed" /\ refresh'[i] = refresh[i] /\ age'[i] = Older(age[i])
    BY <1>t DEF Tick
  <2>2. SteadyAt(i)
    BY <2>1 DEF Steady
  <2>3. left = 0 \/ left' = left - 1
    BY <1>t DEF Tick
  <2>4. left = 0 => left' = 0
    BY <1>t DEF Tick
  <2>5. CASE Punctual
    <3>1. refresh[i] = "idle" /\ age[i] < Interval
      BY <2>1, <2>5 DEF Punctual
    <3>2. age'[i] = age[i] + 1
      BY <2>1, <3>1 DEF Older
    <3>3. Margin(faults) \in Nat /\ Margin(faults') = Margin(faults)
      BY <1>t, <2>5, FaultMargin, Counts, MarginFacts DEF Tick
    <3> QED BY <2>1, <2>2, <2>3, <2>4, <3>1, <3>2, <3>3, Counts, Numbers DEF SteadyAt
  <2>6. CASE ~Punctual
    <3>1. Margin(faults) \in Nat /\ Margin(faults') = Margin(faults) + Interval
      BY <1>t, <2>6, FaultMargin, Counts, MarginFacts DEF Tick
    <3>2. age'[i] \in Nat /\ age'[i] >= age[i]
      BY <2>1, Counts DEF Older
    <3> QED BY <2>1, <2>2, <2>3, <2>4, <3>1, <3>2, Counts, Numbers, IntervalType DEF SteadyAt
  <2> QED BY <2>5, <2>6
<1>b. ASSUME NEW i \in Instances, LeaseLost(i) PROVE Steady'
  <2>1. ~Redis
    BY <1>b DEF LeaseLost, Redis, Etcd
  <2> QED BY <1>b, <2>1 DEF LeaseLost, Steady, Redis
<1>y. ASSUME NEW a \in Addresses, LeaseExpires(a) PROVE Steady'
  <2>1. ~Redis
    BY <1>y DEF LeaseExpires, Redis, Etcd
  <2> QED BY <1>y, <2>1 DEF LeaseExpires, Steady, Redis
<1>w. ASSUME NEW c \in Clients, StartClient(c) PROVE Steady'
  <2>1. UNCHANGED <<setup, server, refresh, age, left>> /\ (NoFault \/ \E k : Fault(k))
    BY <1>w DEF StartClient, registryVars, processVars
  <2> QED BY <2>1, AccountsKept
<1>v. ASSUME NEW c \in Clients, Look(c) PROVE Steady'
  <2>1. UNCHANGED <<setup, server, refresh, age, left>> /\ (NoFault \/ \E k : Fault(k))
    BY <1>v DEF Look, registryVars, processVars
  <2> QED BY <2>1, AccountsKept
<1>z. CASE UNCHANGED vars
  <2>1. UNCHANGED <<setup, server, refresh, age, left>> /\ NoFault
    BY <1>z DEF vars, registryVars, processVars, NoFault
  <2> QED BY <2>1, AccountsKept
<1> QED
  BY <1>s, <1>c, <1>f, <1>p, <1>e, <1>g, <1>k, <1>a, <1>d, <1>r, <1>x, <1>n, <1>o, <1>l,
     <1>u, <1>h, <1>t, <1>b, <1>y, <1>w, <1>v, <1>z DEF Next, Works

-----------------------------------------------------------------------------
(* The lease of an instance that no fault touched.                          *)

(* The setup is for good, and no fault is undone.                          *)
LEMMA SetupAndFaults ==
  ASSUME TypeOK, [Next]_vars PROVE UNCHANGED setup /\ faults' >= faults
<1> USE Counts
<1>f. (NoFault \/ \E k : Fault(k)) => faults' >= faults
  BY DEF NoFault, Fault
<1>1. ASSUME NEW i \in Instances,
             Start(i) \/ Connect(i) \/ RegisterPut(i) \/ RegisterExpire(i) \/ Grant(i)
      PROVE UNCHANGED setup /\ faults' >= faults
  BY <1>1, <1>f DEF Start, Connect, RegisterPut, RegisterExpire, Grant
<1>8. ASSUME NEW i \in Instances, RegisterFails(i) PROVE UNCHANGED setup /\ faults' >= faults
  <2>1. UNCHANGED setup /\ \E k : Fault(k)
    BY <1>8 DEF RegisterFails
  <2> QED BY <2>1, <1>f
<1>2. ASSUME NEW i \in Instances,
             RegisterKey(i) \/ KeepAlive(i) \/ RefreshDue(i) \/ RefreshPut(i)
             \/ RefreshExpire(i) \/ RefreshFails(i)
      PROVE UNCHANGED setup /\ faults' >= faults
  BY <1>2, <1>f DEF RegisterKey, KeepAlive, RefreshDue, RefreshPut, RefreshExpire, RefreshFails
<1>3. ASSUME NEW i \in Instances,
             Stop(i) \/ LateCommand(i) \/ Deregister(i) \/ Crash(i) \/ LeaseLost(i)
      PROVE UNCHANGED setup /\ faults' >= faults
  BY <1>3, <1>f DEF Stop, LateCommand, Deregister, Crash, LeaseLost
<1>4. ASSUME NEW a \in Addresses, LeaseExpires(a) PROVE UNCHANGED setup /\ faults' >= faults
  BY <1>4, <1>f DEF LeaseExpires
<1>5. ASSUME NEW c \in Clients, StartClient(c) \/ Look(c)
      PROVE UNCHANGED setup /\ faults' >= faults
  BY <1>5, <1>f DEF StartClient, Look
<1>6. Tick => UNCHANGED setup /\ faults' >= faults
  BY <1>f DEF Tick
<1>7. UNCHANGED vars => UNCHANGED setup /\ faults' >= faults
  BY DEF vars
<1> QED BY <1>1, <1>2, <1>3, <1>4, <1>5, <1>6, <1>7, <1>8 DEF Next, Works

LEMMA LeasedInit == Init => Leased
BY DEF Init, Leased

(* Nobody moves to a state that needs a lease, and the leases of others keep *)
(* whom they belong to.                                                    *)
LEMMA LeaseKept ==
  ASSUME TypeOK, Leased, UNCHANGED setup, faults \in Nat, faults' = faults,
         \A i \in Instances :
           /\ server'[i] # "bare"  \/ server[i] = "bare"
           /\ server'[i] \in {"lease", "listed"} =>
                server[i] \in {"lease", "listed"}
           /\ server'[i] \in {"lease", "listed"} /\ bound[Address(i)] = i /\ Alone(i) =>
                bound'[Address(i)] = i
  PROVE Leased'
BY DEF Leased, Etcd, Alone, Address

LEMMA LeasedStep == TypeOK /\ Leased /\ [Next]_vars => Leased'
<1> SUFFICES ASSUME TypeOK, Leased, [Next]_vars, Etcd, faults' = 0 PROVE Leased'
  BY SetupAndFaults DEF Leased, Etcd
<1>e. ~Redis /\ faults \in Nat
  BY Counts DEF Redis, Etcd
<1>0. ASSUME \E k : Fault(k) PROVE FALSE
  BY <1>0, <1>e DEF Fault
<1>m. ASSUME NEW i \in Instances, NEW from, NEW to, Goto(i, from, to)
      PROVE /\ server[i] = from /\ server'[i] = to
            /\ \A j \in Instances \ {i} : server'[j] = server[j]
  BY <1>m DEF Goto, TypeOK
<1>s. ASSUME NEW i \in Instances, Start(i) PROVE Leased'
  <2>1. UNCHANGED <<setup, bound, faults>>
    BY <1>s DEF Start, registryVars
  <2>2. server'[i] \in {"alone", "connect"} /\ \A j \in Instances \ {i} : server'[j] = server[j]
    BY <1>s, <1>m DEF Start
  <2> QED BY <2>1, <2>2, <1>e, LeaseKept
<1>c. ASSUME NEW i \in Instances, Connect(i) PROVE Leased'
  <2>1. UNCHANGED <<setup, bound, faults>>
    BY <1>c DEF Connect, registryVars, NoFault
  <2>2. server'[i] \in {"put", "grant"} /\ \A j \in Instances \ {i} : server'[j] = server[j]
    BY <1>c, <1>m DEF Connect
  <2> QED BY <2>1, <2>2, <1>e, LeaseKept
<1>f. ASSUME NEW i \in Instances, RegisterFails(i) PROVE Leased'
  BY <1>f, <1>0 DEF RegisterFails
<1>p. ASSUME NEW i \in Instances, RegisterPut(i) \/ RegisterExpire(i) PROVE Leased'
  BY <1>p, <1>e DEF RegisterPut, RegisterExpire
<1>g. ASSUME NEW i \in Instances, Grant(i) PROVE Leased'
  <2>1. UNCHANGED <<setup, bound, faults>> /\ Goto(i, "grant", "put")
    BY <1>g, <1>0 DEF Grant, registryVars, NoFault
  <2>2. server'[i] = "put" /\ \A j \in Instances \ {i} : server'[j] = server[j]
    BY <2>1, <1>m
  <2> QED BY <2>1, <2>2, <1>e, LeaseKept
<1>k. ASSUME NEW i \in Instances, RegisterKey(i) PROVE Leased'
  <2>1. UNCHANGED <<setup, faults>>
    BY <1>k DEF RegisterKey, NoFault
  <2>2. server[i] # "bare"
    BY <2>1 DEF Leased
  <2>3. Goto(i, "put", "lease") /\ Put(i, i)
    BY <1>k, <2>2 DEF RegisterKey, Goto
  <2>4. server'[i] = "lease" /\ \A j \in Instances \ {i} : server'[j] = server[j]
    BY <2>3, <1>m
  <2>5. Address(i) \in Addresses /\ bound' = [bound EXCEPT ![Address(i)] = i]
    BY <2>3, SetupType DEF Put
  <2>6. ASSUME NEW j \in Instances, server'[j] \in {"lease", "listed"}, Alone(j)
        PROVE bound'[Address(j)] = j
    <3>1. CASE j = i
      BY <3>1, <2>5 DEF TypeOK
    <3>2. CASE j # i
      <4>1. Address(j) # Address(i) /\ Address(j) \in Addresses
        BY <3>2, <2>6, SetupType DEF Alone
      <4>2. bound[Address(j)] = j
        BY <3>2, <2>1, <2>4, <2>6 DEF Leased
      <4> QED BY <4>1, <4>2, <2>5 DEF TypeOK
    <3> QED BY <3>1, <3>2
  <2>7. \A j \in Instances : server'[j] # "bare"
    BY <2>1, <2>4 DEF Leased
  <2> QED BY <2>1, <2>6, <2>7 DEF Leased, Alone, Address
<1>a. ASSUME NEW i \in Instances, KeepAlive(i) PROVE Leased'
  <2>1. UNCHANGED <<setup, bound, faults>> /\ Goto(i, "lease", "listed")
    BY <1>a, <1>0 DEF KeepAlive, registryVars, NoFault
  <2>2. server[i] = "lease" /\ server'[i] = "listed"
        /\ \A j \in Instances \ {i} : server'[j] = server[j]
    BY <2>1, <1>m
  <2> QED BY <2>1, <2>2, <1>e, LeaseKept
<1>d. ASSUME NEW i \in Instances, RefreshDue(i) \/ LateCommand(i) PROVE Leased'
  <2>1. UNCHANGED <<setup, server, bound, faults>>
    BY <1>d DEF RefreshDue, LateCommand, registryVars
  <2> QED BY <2>1, <1>e, LeaseKept
<1>r. ASSUME NEW i \in Instances, RefreshPut(i) \/ RefreshExpire(i) PROVE Leased'
  <2>1. UNCHANGED <<setup, server, bound, faults>>
    BY <1>r DEF RefreshPut, RefreshExpire, HSet, Expire
  <2> QED BY <2>1, <1>e, LeaseKept
<1>n. ASSUME NEW i \in Instances, RefreshFails(i) PROVE Leased'
  BY <1>n, <1>0 DEF RefreshFails
<1>o. ASSUME NEW i \in Instances, Stop(i) PROVE Leased'
  <2>1. UNCHANGED <<setup, bound, faults>>
    BY <1>o DEF Stop
  <2>2. server'[i] \in {"leave", "down"} /\ \A j \in Instances \ {i} : server'[j] = server[j]
    BY <1>o, <1>m DEF Stop
  <2> QED BY <2>1, <2>2, <1>e, LeaseKept
<1>u. ASSUME NEW i \in Instances, Deregister(i) PROVE Leased'
  <2>1. UNCHANGED <<setup, faults>> /\ Delete(Address(i))
    BY <1>u, <1>0, <1>e DEF Deregister, NoFault
  <2>2. server'[i] = "down" /\ \A j \in Instances \ {i} : server'[j] = server[j]
    BY <1>u, <1>m DEF Deregister
  <2>3. bound' = [bound EXCEPT ![Address(i)] = "none"]
    BY <2>1 DEF Delete
  <2>4. ASSUME NEW j \in Instances, j # i, Alone(j) PROVE bound'[Address(j)] = bound[Address(j)]
    <3>1. Address(j) # Address(i) /\ Address(j) \in Addresses
      BY <2>4, SetupType DEF Alone
    <3> QED BY <3>1, <2>3 DEF TypeOK
  <2> QED BY <2>1, <2>2, <2>4, <1>e, LeaseKept
<1>h. ASSUME NEW i \in Instances, Crash(i) PROVE Leased'
  <2>1. UNCHANGED <<setup, faults>> /\ Abandon(i, listed, bound)
    BY <1>h DEF Crash
  <2>2. server'[i] = "down" /\ \A j \in Instances \ {i} : server'[j] = server[j]
    BY <1>h DEF Crash, TypeOK
  <2>3. \A j \in Instances \ {i} : bound[Address(j)] = j => bound'[Address(j)] = j
    BY <2>1, SetupType DEF Abandon
  <2> QED BY <2>1, <2>2, <2>3, <1>e, LeaseKept
<1>t. CASE Tick
  BY <1>t, <1>e DEF Tick
<1>b. ASSUME NEW i \in Instances, LeaseLost(i) PROVE Leased'
  BY <1>b, <1>0 DEF LeaseLost
<1>y. ASSUME NEW a \in Addresses, LeaseExpires(a) PROVE Leased'
  <2>1. UNCHANGED <<setup, server, faults>> /\ bound[a] = "orphan"
        /\ bound' = [bound EXCEPT ![a] = "none"]
    BY <1>y DEF LeaseExpires, Delete, processVars
  <2>2. \A j \in Instances : bound[Address(j)] = j => bound'[Address(j)] = j
    BY <2>1, SetupType, DiscoveryAssumption DEF TypeOK
  <2> QED BY <2>1, <2>2, <1>e, LeaseKept
<1>w. ASSUME NEW c \in Clients, StartClient(c) \/ Look(c) PROVE Leased'
  <2>1. UNCHANGED <<setup, server, bound, faults>>
    BY <1>w, <1>0 DEF StartClient, Look, registryVars, processVars, NoFault
  <2> QED BY <2>1, <1>e, LeaseKept
<1>z. CASE UNCHANGED vars
  <2>1. UNCHANGED <<setup, server, bound, faults>>
    BY <1>z DEF vars, registryVars, processVars
  <2> QED BY <2>1, <1>e, LeaseKept
<1> QED
  BY <1>s, <1>c, <1>f, <1>p, <1>g, <1>k, <1>a, <1>d, <1>r, <1>n, <1>o,
     <1>u, <1>h, <1>t, <1>b, <1>y, <1>w, <1>z DEF Next, Works

-----------------------------------------------------------------------------
(* The steps that take an address from the registry.                        *)
LEMMA Removals ==
  ASSUME TypeOK, [Next]_vars, NEW a \in listed, a \notin listed'
  PROVE \/ \E j \in Instances : server[j] = "leave" /\ Address(j) = a
        \/ Tick /\ left = 1
        \/ Etcd /\ bound[a] = "orphan"
<1>1. ASSUME NEW j \in Instances, Deregister(j)
      PROVE server[j] = "leave" /\ Address(j) = a
  BY <1>1 DEF Deregister, Goto, HDel, Delete, Abandon
<1>2. ASSUME NEW b \in Addresses, LeaseExpires(b) PROVE Etcd /\ bound[a] = "orphan"
  BY <1>2 DEF LeaseExpires, Delete
<1>3. Tick => left = 1
  BY DEF Tick
<1>4. ASSUME NEW j \in Instances,
             Start(j) \/ Connect(j) \/ RegisterFails(j) \/ RegisterPut(j) \/ RegisterExpire(j)
             \/ Grant(j)
      PROVE FALSE
  BY <1>4 DEF Start, Connect, RegisterFails, RegisterPut, RegisterExpire, Grant,
    registryVars, Abandon, HSet, Expire
<1>5. ASSUME NEW j \in Instances,
             RegisterKey(j) \/ KeepAlive(j) \/ RefreshDue(j) \/ RefreshPut(j)
             \/ RefreshExpire(j) \/ RefreshFails(j)
      PROVE FALSE
  BY <1>5 DEF RegisterKey, KeepAlive, RefreshDue, RefreshPut, RefreshExpire, RefreshFails,
    registryVars, Abandon, HSet, Expire, Put
<1>6. ASSUME NEW j \in Instances, Stop(j) \/ LateCommand(j) \/ Crash(j) \/ LeaseLost(j)
      PROVE FALSE
  BY <1>6 DEF Stop, LateCommand, Crash, LeaseLost, Abandon
<1>7. ASSUME NEW c \in Clients, StartClient(c) \/ Look(c) PROVE FALSE
  BY <1>7 DEF StartClient, Look, registryVars
<1>8. CASE UNCHANGED vars
  BY <1>8 DEF vars, registryVars
<1> QED BY <1>1, <1>2, <1>3, <1>4, <1>5, <1>6, <1>7, <1>8 DEF Next, Works

(* What StaysListed asks of one step.                                       *)
Stays ==
  \A i \in Instances :
    /\ server[i] = "listed" /\ server'[i] = "listed"
    /\ Address(i) \in listed /\ Alone(i)
    /\ IF Redis THEN (faults' + 1) * Interval < TTL ELSE faults' = 0
    => Address(i) \in listed'

LEMMA StaysStep == TypeOK /\ Steady /\ Leased /\ [Next]_vars => Stays
<1> SUFFICES ASSUME TypeOK, Steady, Leased, [Next]_vars, NEW i \in Instances,
                    server[i] = "listed", Address(i) \in listed, Alone(i),
                    IF Redis THEN (faults' + 1) * Interval < TTL ELSE faults' = 0,
                    Address(i) \notin listed'
             PROVE FALSE
  BY DEF Stays
<1>1. CASE \E j \in Instances : server[j] = "leave" /\ Address(j) = Address(i)
  BY <1>1 DEF Alone
<1>2. CASE Tick /\ left = 1
  <2>1. Redis /\ SteadyAt(i)
    BY <1>2 DEF Tick, Steady
  <2>2. /\ faults' \in Nat
        /\ Margin(faults' + 1) = Margin(faults') + Interval
        /\ Margin(faults' + 1) < TTL
    <3>1. faults' \in Nat
      BY <1>2, FaultMargin DEF Tick
    <3> QED BY <2>1, <3>1, MarginFacts DEF Margin
  <2> HIDE DEF Margin
  <2>3. CASE Punctual
    <3>1. refresh[i] = "idle" /\ age[i] < Interval
      BY <2>3 DEF Punctual
    <3>2. Margin(faults) \in Nat /\ Margin(faults') = Margin(faults)
      BY <1>2, <2>3, FaultMargin, Counts, MarginFacts DEF Tick
    <3> QED BY <1>2, <2>1, <2>2, <3>1, <3>2, Counts, Numbers, IntervalType DEF SteadyAt
  <2>4. CASE ~Punctual
    <3>1. Margin(faults) \in Nat /\ Margin(faults') = Margin(faults) + Interval
      BY <1>2, <2>4, FaultMargin, Counts, MarginFacts DEF Tick
    <3> QED BY <1>2, <2>1, <2>2, <3>1, Counts, Numbers, IntervalType DEF SteadyAt
  <2> QED BY <2>3, <2>4
<1>3. CASE Etcd /\ bound[Address(i)] = "orphan"
  <2>1. faults' = 0 /\ faults \in Nat
    BY <1>3, Counts DEF Redis, Etcd
  <2>2. faults' >= faults
    BY SetupAndFaults
  <2>3. faults = 0
    BY <2>1, <2>2
  <2>4. bound[Address(i)] = i
    BY <1>3, <2>3 DEF Leased
  <2> QED BY <1>3, <2>4, DiscoveryAssumption
<1> QED BY <1>1, <1>2, <1>3, Removals

(* As long as the calls that failed do not add up to a TTL, the address of a *)
(* live instance stays registered, whoever else renews, deregisters or dies. *)
THEOREM ListedSafe == Spec => StaysListed
<1>1. TypeOK /\ Steady /\ Leased /\ [Next]_vars =>
        [Stays]_vars
  BY StaysStep
<1>2. [Stays]_vars =>
        [\A i \in Instances :
           /\ server[i] = "listed" /\ server'[i] = "listed"
           /\ Address(i) \in listed /\ Alone(i)
           /\ IF Redis THEN (faults' + 1) * Interval < TTL ELSE faults' = 0
           => Address(i) \in listed']_vars
  BY DEF Stays
<1> QED
  BY TypeInit, TypeStep, SteadyInit, SteadyStep, LeasedInit, LeasedStep, <1>1, <1>2, PTL
    DEF Spec, StaysListed

-----------------------------------------------------------------------------
(* DeadLeave without its time: an address whose instances are all gone is   *)
(* remembered and on its way out.  In Redis the hash has a TTL, or somebody *)
(* who will give it one, or is known to have lost it; in etcd the key's     *)
(* lease is no longer renewed, or the key never had one (Register of        *)
(* registry.go:79 and etcd.go:98).                                          *)
Renewing(j) == server[j] = "lease" \/ (server[j] = "listed" /\ refresh[j] = "expire")

DeadExpire ==
  \A a \in listed :
    Gone(a) =>
      IF Redis
      THEN a \in orphaned /\ (left > 0 \/ untimed \/ \E j \in Instances : Renewing(j))
      ELSE bound[a] \in {"orphan", "none"}

Holding == {"lease", "listed", "leave"}

(* An address nobody left behind is held by an instance that advertises it. *)
Held ==
  Redis => \A a \in listed \ orphaned :
             \E j \in Instances : Address(j) = a /\ server[j] \in Holding

(* A hash with fields has a TTL unless somebody is about to set it.         *)
Timed ==
  Redis /\ listed # {} /\ left = 0 => untimed \/ \E j \in Instances : Renewing(j)

(* A lease that is renewed is that of an instance that holds the address.   *)
LeasesHeld ==
  ~Redis => \A a \in Addresses : bound[a] \in Instances =>
              Address(bound[a]) = a /\ server[bound[a]] \in Holding

(* Only Redis is refreshed by the service's own goroutine.                  *)
RefreshesRedis == ~Redis => \A i \in Instances : refresh[i] = "idle"

HeldInv == Held /\ Timed /\ LeasesHeld /\ RefreshesRedis

LEMMA HeldInit == Init => HeldInv
BY DiscoveryAssumption DEF Init, HeldInv, Held, Timed, LeasesHeld, RefreshesRedis

(* Nobody lets go of an address and the registry is as it was.              *)
LEMMA HeldKept ==
  ASSUME TypeOK, HeldInv, UNCHANGED <<setup, listed, left, bound, orphaned, untimed>>,
         \A i \in Instances :
           /\ server[i] \in Holding => server'[i] \in Holding
           /\ Redis /\ Renewing(i) => Renewing(i)'
           /\ Redis \/ refresh'[i] = refresh[i]
  PROVE HeldInv'
<1>1. UNCHANGED Redis /\ \A i \in Instances : Address(i)' = Address(i)
  BY DEF Redis, Address
<1>2. Held'
  BY <1>1 DEF HeldInv, Held
<1>3. Timed'
  BY <1>1 DEF HeldInv, Timed
<1>4. LeasesHeld'
  BY <1>1 DEF HeldInv, LeasesHeld
<1>5. RefreshesRedis'
  BY <1>1 DEF HeldInv, RefreshesRedis
<1> QED BY <1>2, <1>3, <1>4, <1>5 DEF HeldInv

(* An instance lets go without a word: its address is remembered, its lease *)
(* runs out, and a hash it leaves without a TTL is known to have none.      *)
LEMMA HeldAbandoned ==
  ASSUME TypeOK, HeldInv, UNCHANGED setup, NEW i \in Instances, NEW names, NEW keys,
         Abandon(i, names, keys), names \subseteq listed \cup {Address(i)},
         \A a \in Addresses : keys[a] = bound[a] \/ keys[a] \notin Instances \ {i},
         \A j \in Instances \ {i} : server'[j] = server[j],
         Redis \/ refresh' = refresh \/ refresh' = [refresh EXCEPT ![i] = "idle"]
  PROVE HeldInv'
<1>1. UNCHANGED Redis /\ \A j \in Instances : Address(j)' = Address(j)
  BY DEF Redis, Address
<1>2. Held'
  <2> SUFFICES ASSUME Redis, NEW a \in listed' \ orphaned'
               PROVE \E j \in Instances : Address(j) = a /\ server'[j] \in Holding
    BY <1>1 DEF Held
  <2>1. a # Address(i) /\ a \in listed \ orphaned
    BY DEF Abandon
  <2>2. PICK j \in Instances : Address(j) = a /\ server[j] \in Holding
    BY <2>1 DEF HeldInv, Held
  <2> QED BY <2>1, <2>2
<1>3. Timed'
  BY <1>1 DEF Abandon, Timed
<1>4. LeasesHeld'
  <2> SUFFICES ASSUME ~Redis, NEW a \in Addresses, bound'[a] \in Instances
               PROVE Address(bound'[a]) = a /\ server'[bound'[a]] \in Holding
    BY <1>1 DEF LeasesHeld
  <2>1. bound'[a] = keys[a] /\ keys[a] # i
    BY DiscoveryAssumption DEF Abandon
  <2>2. bound'[a] = bound[a] /\ bound[a] # i
    BY <2>1
  <2> QED BY <2>2 DEF HeldInv, LeasesHeld
<1>5. RefreshesRedis'
  BY <1>1 DEF HeldInv, RefreshesRedis, TypeOK
<1> QED BY <1>2, <1>3, <1>4, <1>5 DEF HeldInv

LEMMA HeldStep == TypeOK /\ HeldInv /\ [Next]_vars => HeldInv'
<1> SUFFICES ASSUME TypeOK, HeldInv, [Next]_vars PROVE HeldInv'
  OBVIOUS
<1>0. UNCHANGED setup /\ UNCHANGED Redis /\ \A i \in Instances : Address(i)' = Address(i)
  BY SetupAndFaults DEF Redis, Address
<1>m. ASSUME NEW i \in Instances, NEW from, NEW to, Goto(i, from, to)
      PROVE /\ server[i] = from /\ server'[i] = to
            /\ \A j \in Instances \ {i} : server'[j] = server[j]
  BY <1>m DEF Goto, TypeOK
<1>s. ASSUME NEW i \in Instances, Start(i) \/ Connect(i) \/ Grant(i) PROVE HeldInv'
  <2>1. /\ UNCHANGED <<registryVars, refresh>>
        /\ \E to : Goto(i, "down", to) \/ Goto(i, "connect", to) \/ Goto(i, "grant", to)
    BY <1>s DEF Start, Connect, Grant
  <2>2. server[i] \in {"down", "connect", "grant"}
        /\ \A j \in Instances \ {i} : server'[j] = server[j]
    BY <2>1, <1>m
  <2> QED BY <2>1, <2>2, <1>0, HeldKept DEF registryVars, Holding, Renewing
<1>f. ASSUME NEW i \in Instances, RegisterFails(i) PROVE HeldInv'
  <2>1. /\ UNCHANGED refresh
        /\ \A j \in Instances \ {i} : server'[j] = server[j]
    BY <1>f, <1>m DEF RegisterFails
  <2>2. CASE Goto(i, "connect", GaveUp) /\ UNCHANGED registryVars
    BY <2>1, <2>2, <1>0, <1>m, HeldKept DEF registryVars, Holding, Renewing
  <2>3. CASE Abandon(i, listed, bound)
    BY <2>1, <2>3, <1>0, HeldAbandoned
  <2>4. CASE Abandon(i, listed \cup {Address(i)},
               IF Redis THEN bound
               ELSE [bound EXCEPT ![Address(i)] = IF server[i] = "bare" THEN "none" ELSE i])
    <3> DEFINE keys == IF Redis THEN bound
                       ELSE [bound EXCEPT ![Address(i)] =
                               IF server[i] = "bare" THEN "none" ELSE i]
    <3>1. \A a \in Addresses : keys[a] = bound[a] \/ keys[a] \notin Instances \ {i}
      BY DiscoveryAssumption DEF TypeOK
    <3>2. Abandon(i, listed \cup {Address(i)}, keys)
      BY <2>4
    <3> HIDE DEF keys
    <3> QED BY <2>1, <3>1, <3>2, <1>0, HeldAbandoned
  <2> QED BY <1>f, <2>2, <2>3, <2>4 DEF RegisterFails
<1>p. ASSUME NEW i \in Instances, RegisterPut(i) PROVE HeldInv'
  <2>1. /\ Redis /\ HSet(i) /\ UNCHANGED refresh /\ server'[i] = "lease"
        /\ server[i] = "put" /\ \A j \in Instances \ {i} : server'[j] = server[j]
    BY <1>p, <1>m DEF RegisterPut
  <2> QED BY <2>1, <1>0
        DEF HeldInv, Held, Timed, LeasesHeld, RefreshesRedis, Renewing, Holding, HSet
<1>e. ASSUME NEW i \in Instances, RegisterExpire(i) PROVE HeldInv'
  <2>1. /\ Redis /\ Expire /\ UNCHANGED refresh /\ server'[i] = "listed"
        /\ \A j \in Instances \ {i} : server'[j] = server[j]
    BY <1>e, <1>m DEF RegisterExpire
  <2> QED BY <2>1, <1>0, Numbers
        DEF HeldInv, Held, Timed, LeasesHeld, RefreshesRedis, Holding, Expire
<1>k. ASSUME NEW i \in Instances, RegisterKey(i) PROVE HeldInv'
  <2>1. /\ ~Redis /\ UNCHANGED refresh /\ server'[i] \in Holding
        /\ \A j \in Instances \ {i} : server'[j] = server[j]
    BY <1>k, <1>m DEF RegisterKey, Redis, Etcd, Holding
  <2>2. PICK lease \in {i, "none"} : Put(i, lease)
    BY <1>k DEF RegisterKey
  <2>3. ASSUME NEW a \in Addresses, bound'[a] \in Instances
        PROVE Address(bound'[a]) = a /\ server'[bound'[a]] \in Holding
    <3>1. CASE a = Address(i)
      <4>1. bound'[a] = i
        BY <3>1, <2>2, <2>3, DiscoveryAssumption DEF Put, TypeOK
      <4> QED BY <3>1, <4>1, <2>1
    <3>2. CASE a # Address(i)
      <4>1. bound'[a] = bound[a]
        BY <3>2, <2>2, SetupType DEF Put, TypeOK
      <4> QED BY <4>1, <2>1, <2>3 DEF HeldInv, LeasesHeld
    <3> QED BY <3>1, <3>2
  <2> QED BY <2>1, <2>3, <1>0 DEF HeldInv, Held, Timed, LeasesHeld, RefreshesRedis
<1>a. ASSUME NEW i \in Instances, KeepAlive(i) PROVE HeldInv'
  <2>1. /\ ~Redis /\ UNCHANGED refresh /\ server'[i] = "listed"
        /\ \A j \in Instances \ {i} : server'[j] = server[j]
    BY <1>a, <1>m DEF KeepAlive, Redis, Etcd
  <2>2. CASE UNCHANGED registryVars
    BY <2>1, <2>2, <1>0, HeldKept DEF registryVars, Holding
  <2>3. CASE Abandon(i, listed, bound)
    BY <2>1, <2>3, <1>0, HeldAbandoned
  <2> QED BY <1>a, <2>2, <2>3 DEF KeepAlive
<1>d. ASSUME NEW i \in Instances, RefreshDue(i) PROVE HeldInv'
  <2>1. UNCHANGED <<server, registryVars>> /\ Redis /\ refresh[i] = "idle"
        /\ \A j \in Instances \ {i} : refresh'[j] = refresh[j]
    BY <1>d DEF RefreshDue, TypeOK
  <2> QED BY <2>1, <1>0, HeldKept DEF registryVars, Renewing
<1>r. ASSUME NEW i \in Instances, RefreshPut(i) PROVE HeldInv'
  <2>1. /\ Redis
        /\ UNCHANGED server /\ server[i] = "listed" /\ HSet(i) /\ refresh'[i] = "expire"
        /\ refresh[i] = "put" /\ \A j \in Instances \ {i} : refresh'[j] = refresh[j]
    BY <1>r DEF RefreshPut, HeldInv, RefreshesRedis, TypeOK
  <2> QED BY <2>1, <1>0
        DEF HeldInv, Held, Timed, LeasesHeld, RefreshesRedis, Renewing, Holding, HSet
<1>x. ASSUME NEW i \in Instances, RefreshExpire(i) PROVE HeldInv'
  <2>1. Redis /\ UNCHANGED server /\ Expire
    BY <1>x DEF RefreshExpire, HeldInv, RefreshesRedis
  <2> QED BY <2>1, <1>0, Numbers
        DEF HeldInv, Held, Timed, LeasesHeld, RefreshesRedis, Expire
<1>n. ASSUME NEW i \in Instances, RefreshFails(i) PROVE HeldInv'
  <2>1. Redis
    BY <1>n DEF RefreshFails, HeldInv, RefreshesRedis
  <2>2. /\ UNCHANGED <<server, left, bound, orphaned>> /\ server[i] = "listed"
        /\ listed' \subseteq listed \cup {Address(i)}
        /\ untimed' = (untimed \/ (left = 0 /\ listed' # {}))
    BY <1>n DEF RefreshFails
  <2>3. Held'
    BY <2>1, <2>2, <1>0 DEF HeldInv, Held, Holding
  <2>4. Timed'
    BY <2>2 DEF Timed
  <2> QED BY <2>1, <2>3, <2>4, <1>0 DEF HeldInv, LeasesHeld, RefreshesRedis
<1>o. ASSUME NEW i \in Instances, Stop(i) PROVE HeldInv'
  <2>1. /\ UNCHANGED <<refresh, listed, left, bound, orphaned>>
        /\ untimed' = (untimed \/ (refresh[i] = "expire" /\ left = 0 /\ listed # {}))
    BY <1>o DEF Stop
  <2>2. /\ (server[i] = "listed" /\ server'[i] = "leave") \/ server[i] = "alone"
        /\ \A j \in Instances \ {i} : server'[j] = server[j]
    BY <1>o, <1>m DEF Stop
  <2>3. Held'
    BY <2>1, <2>2, <1>0 DEF HeldInv, Held, Holding
  <2>4. Timed'
    <3> SUFFICES ASSUME Redis, listed # {}, left = 0, ~untimed'
                 PROVE \E j \in Instances : Renewing(j)'
      BY <2>1, <1>0 DEF Timed
    <3>1. PICK j \in Instances : Renewing(j)
      BY <2>1 DEF HeldInv, Timed
    <3> QED BY <3>1, <2>1, <2>2 DEF Renewing
  <2>5. LeasesHeld'
    BY <2>1, <2>2, <1>0 DEF HeldInv, LeasesHeld, Holding
  <2>6. RefreshesRedis'
    BY <2>1, <1>0 DEF HeldInv, RefreshesRedis
  <2> QED BY <2>3, <2>4, <2>5, <2>6 DEF HeldInv
<1>l. ASSUME NEW i \in Instances, LateCommand(i) PROVE HeldInv'
  <2>1. /\ Redis /\ UNCHANGED server /\ server[i] \in {"leave", "down"}
        /\ \A j \in Instances \ {i} : refresh'[j] = refresh[j]
    BY <1>l DEF LateCommand, HeldInv, RefreshesRedis, TypeOK
  <2>2. \A j \in Instances : Renewing(j)' <=> Renewing(j)
    BY <2>1 DEF Renewing
  <2>3. Held'
    BY <1>l, <2>1, <1>0 DEF LateCommand, HeldInv, Held
  <2>4. Timed'
    <3> SUFFICES ASSUME listed' # {}, left' = 0, ~untimed'
                 PROVE \E j \in Instances : Renewing(j)'
      BY DEF Timed
    <3>1. listed # {} /\ left = 0 /\ ~untimed
      <4>1. CASE UNCHANGED left /\ untimed' = (untimed \/ left = 0)
        BY <4>1, Zenon
      <4>2. CASE left' = (IF listed = {} THEN 0 ELSE TTL) /\ UNCHANGED listed
        BY <4>2, Numbers
      <4>3. CASE UNCHANGED <<listed, left, untimed>>
        BY <4>3
      <4> QED BY <1>l, <4>1, <4>2, <4>3 DEF LateCommand
    <3> QED BY <3>1, <2>1, <2>2 DEF HeldInv, Timed
  <2> QED BY <2>1, <2>3, <2>4, <1>0 DEF HeldInv, LeasesHeld, RefreshesRedis
<1>u. ASSUME NEW i \in Instances, Deregister(i) PROVE HeldInv'
  <2>1. /\ server'[i] = "down" /\ \A j \in Instances \ {i} : server'[j] = server[j]
        /\ server[i] = "leave" /\ UNCHANGED refresh
    BY <1>u, <1>m DEF Deregister
  <2>2. CASE Redis /\ HDel(i)
    <3>1. Held'
      <4> SUFFICES ASSUME NEW a \in listed' \ orphaned'
                   PROVE \E j \in Instances : Address(j) = a /\ server'[j] \in Holding
        BY <1>0 DEF Held
      <4>1. a # Address(i) /\ a \in listed \ orphaned
        BY <2>2 DEF HDel
      <4>2. PICK j \in Instances : Address(j) = a /\ server[j] \in Holding
        BY <4>1, <2>2 DEF HeldInv, Held
      <4> QED BY <2>1, <4>1, <4>2
    <3>2. Timed'
      <4> SUFFICES ASSUME listed' # {}, left' = 0, ~untimed'
                   PROVE \E j \in Instances : Renewing(j)'
        BY DEF Timed
      <4>1. listed # {} /\ left = 0 /\ ~untimed
        BY <2>2 DEF HDel
      <4>2. PICK j \in Instances : Renewing(j)
        BY <4>1, <2>2 DEF HeldInv, Timed
      <4> QED BY <4>2, <2>1 DEF Renewing
    <3> QED BY <2>2, <3>1, <3>2, <1>0 DEF HeldInv, LeasesHeld, RefreshesRedis
  <2>3. CASE ~Redis /\ Delete(Address(i))
    <3>1. ASSUME NEW a \in Addresses, bound'[a] \in Instances
          PROVE Address(bound'[a]) = a /\ server'[bound'[a]] \in Holding
      <4>1. a # Address(i)
        BY <2>3, <3>1, DiscoveryAssumption DEF Delete, TypeOK
      <4>2. bound'[a] = bound[a]
        BY <2>3, <4>1, SetupType DEF Delete, TypeOK
      <4>3. Address(bound[a]) = a /\ server[bound[a]] \in Holding
        BY <2>3, <3>1, <4>2 DEF HeldInv, LeasesHeld
      <4> QED BY <2>1, <3>1, <4>1, <4>2, <4>3
    <3> QED BY <2>1, <2>3, <3>1, <1>0 DEF HeldInv, Held, Timed, LeasesHeld, RefreshesRedis
  <2>4. CASE Abandon(i, listed, bound)
    BY <2>1, <2>4, <1>0, HeldAbandoned
  <2> QED BY <1>u, <2>2, <2>3, <2>4 DEF Deregister
<1>h. ASSUME NEW i \in Instances, Crash(i) PROVE HeldInv'
  <2>1. /\ \A j \in Instances \ {i} : server'[j] = server[j]
        /\ refresh' = [refresh EXCEPT ![i] = "idle"]
        /\ Abandon(i, listed, bound)
    BY <1>h DEF Crash, TypeOK
  <2> QED BY <2>1, <1>0, HeldAbandoned
<1>t. CASE Tick
  <2>1. Redis /\ UNCHANGED <<server, refresh, bound>>
    BY <1>t DEF Tick
  <2>2. CASE left = 1
    <3>1. listed' = {}
      BY <1>t, <2>2 DEF Tick
    <3> QED BY <2>1, <3>1, <1>0 DEF HeldInv, Held, Timed, LeasesHeld, RefreshesRedis
  <2>3. CASE left # 1
    <3>1. UNCHANGED <<listed, orphaned, untimed>> /\ (left' = 0 => left = 0)
      BY <1>t, <2>3, Counts DEF Tick
    <3>2. \A j \in Instances : Renewing(j) => Renewing(j)'
      BY <2>1 DEF Renewing
    <3> QED BY <2>1, <3>1, <3>2, <1>0 DEF HeldInv, Held, Timed, LeasesHeld, RefreshesRedis
  <2> QED BY <2>2, <2>3
<1>b. ASSUME NEW i \in Instances, LeaseLost(i) PROVE HeldInv'
  <2>1. /\ ~Redis /\ UNCHANGED <<server, refresh>>
        /\ bound' = [bound EXCEPT ![Address(i)] = "orphan"]
    BY <1>b DEF LeaseLost, processVars, Redis, Etcd
  <2>2. \A a \in Addresses : bound'[a] = bound[a] \/ bound'[a] \notin Instances
    BY <2>1, DiscoveryAssumption DEF TypeOK
  <2> QED BY <2>1, <2>2, <1>0 DEF HeldInv, Held, Timed, LeasesHeld, RefreshesRedis
<1>y. ASSUME NEW b \in Addresses, LeaseExpires(b) PROVE HeldInv'
  <2>1. /\ ~Redis /\ UNCHANGED <<server, refresh>>
        /\ bound' = [bound EXCEPT ![b] = "none"]
    BY <1>y DEF LeaseExpires, Delete, processVars, Redis, Etcd
  <2>2. \A a \in Addresses : bound'[a] = bound[a] \/ bound'[a] \notin Instances
    BY <2>1, DiscoveryAssumption DEF TypeOK
  <2> QED BY <2>1, <2>2, <1>0 DEF HeldInv, Held, Timed, LeasesHeld, RefreshesRedis
<1>w. ASSUME NEW c \in Clients, StartClient(c) \/ Look(c) PROVE HeldInv'
  <2>1. UNCHANGED <<server, refresh, listed, left, bound, orphaned, untimed>>
    BY <1>w DEF StartClient, Look, registryVars, processVars
  <2> QED BY <2>1, <1>0, HeldKept DEF Renewing
<1>z. CASE UNCHANGED vars
  <2>1. UNCHANGED <<server, refresh, listed, left, bound, orphaned, untimed>>
    BY <1>z DEF vars, registryVars, processVars
  <2> QED BY <2>1, <1>0, HeldKept DEF Renewing
<1> QED
  BY <1>s, <1>f, <1>p, <1>e, <1>k, <1>a, <1>d, <1>r, <1>x, <1>n, <1>o, <1>l,
     <1>u, <1>h, <1>t, <1>b, <1>y, <1>w, <1>z DEF Next, Works

LEMMA HeldImplies == TypeOK /\ HeldInv => DeadExpire
<1> SUFFICES ASSUME TypeOK, HeldInv, NEW a \in listed, Gone(a)
             PROVE IF Redis
                   THEN a \in orphaned /\ (left > 0 \/ untimed \/ \E j \in Instances : Renewing(j))
                   ELSE bound[a] \in {"orphan", "none"}
  BY DEF DeadExpire
<1>0. \A j \in Instances : Address(j) = a => server[j] \notin Holding
  BY DEF Gone, Holding
<1>1. CASE Redis
  <2>1. a \in orphaned
    BY <1>0, <1>1 DEF HeldInv, Held
  <2>2. left > 0 \/ untimed \/ \E j \in Instances : Renewing(j)
    BY <1>1, Counts DEF HeldInv, Timed
  <2> QED BY <1>1, <2>1, <2>2
<1>2. CASE ~Redis
  <2>1. a \in Addresses /\ bound[a] \in Instances \cup {"none", "orphan"}
    BY DEF TypeOK
  <2>2. bound[a] \notin Instances
    BY <1>0, <1>2, <2>1 DEF HeldInv, LeasesHeld
  <2> QED BY <1>2, <2>1, <2>2
<1> QED BY <1>1, <1>2

(* What keeps a dead instance's address is one of the cases of Kept, for    *)
(* any TTL, refresh interval and faults: otherwise it only waits for time.  *)
THEOREM DeadAreExpiring == Spec => []DeadExpire
BY TypeInit, TypeStep, HeldInit, HeldStep, HeldImplies, PTL DEF Spec

-----------------------------------------------------------------------------
(* WatchersAgree without its time: no event passes a watcher by.  One that  *)
(* waits for the next event of etcd, and whose last look did not fail, has  *)
(* its client call what is registered (Next of etcdWatcher, etcd.go:215).   *)
WaitersAgree ==
  \A c \in Clients :
    LET w == client[c] IN
    w.waiting /\ ~w.deaf /\ GetService(FALSE) # {} => w.addrs = GetService(FALSE)

(* A client calls what its watcher returned last, and a watcher waits only  *)
(* when that is what is registered.                                        *)
WatcherKnows(w) ==
  /\ w.waiting => Etcd
  /\ ~w.seen => w.last = {}
  /\ w.source = "none" => w.last = {}
  /\ w.last # {} => w.addrs = w.last
  /\ w.waiting /\ ~w.deaf => w.last = GetService(FALSE)

Informed == \A c \in Clients : WatcherKnows(client[c])

LEMMA InformedInit == Init => Informed
<1> SUFFICES ASSUME Init, NEW c \in Clients PROVE WatcherKnows(client[c])
  BY DEF Informed
<1>1. client[c] = [source |-> "none", seen |-> FALSE, last |-> {}, addrs |-> {},
                   waiting |-> FALSE, deaf |-> FALSE]
  BY DEF Init
<1> QED BY <1>1 DEF WatcherKnows

(* Where nobody waits for events, what is registered may change unseen.     *)
LEMMA InformedKept ==
  ASSUME Informed, UNCHANGED <<setup, client>>, Etcd => listed' = listed
  PROVE Informed'
BY DEF Informed, WatcherKnows, Etcd, GetService

LEMMA InformedNotified == ASSUME TypeOK, Informed, UNCHANGED setup, Notify PROVE Informed'
<1> SUFFICES ASSUME NEW c \in Clients PROVE WatcherKnows(client[c])'
  BY DEF Informed
<1>1. /\ client[c] \in Watcher /\ WatcherKnows(client[c])
      /\ client'[c] = [client[c] EXCEPT !.waiting = FALSE, !.deaf = FALSE]
  BY DEF TypeOK, Informed, Notify
<1> QED BY <1>1 DEF WatcherKnows, Watcher, Etcd

(* A look: what it finds is returned, or is what was returned before.       *)
LEMMA InformedLook == ASSUME TypeOK, Informed, NEW c \in Clients, Look(c) PROVE Informed'
<1> DEFINE w == client[c]
<1>1. /\ UNCHANGED <<setup, listed>> /\ UNCHANGED Etcd
      /\ w.source = "registry" /\ ~w.waiting /\ w \in Watcher /\ WatcherKnows(w)
  BY DEF Look, registryVars, TypeOK, Informed, Etcd
<1>2. PICK failed \in BOOLEAN :
        client' = [client EXCEPT ![c] =
          IF ShouldReturn(w, GetService(failed)) THEN Returned(w, GetService(failed))
          ELSE IF Etcd THEN [w EXCEPT !.waiting = TRUE, !.deaf = failed]
          ELSE w]
  BY DEF Look
<1>3. \A d \in Clients \ {c} : client'[d] = client[d]
  BY <1>2
<1>4. WatcherKnows(client[c])'
  <2> DEFINE found == GetService(failed)
  <2>1. UNCHANGED GetService(FALSE)
    BY <1>1 DEF GetService
  <2>2. client'[c] = IF ShouldReturn(w, found) THEN Returned(w, found)
                     ELSE IF Etcd THEN [w EXCEPT !.waiting = TRUE, !.deaf = failed]
                     ELSE w
    BY <1>2 DEF TypeOK
  <2>3. CASE ShouldReturn(w, found)
    <3> HIDE DEF found
    <3>1. client'[c] = Returned(w, found)
      BY <2>2, <2>3
    <3> QED BY <3>1, <1>1 DEF Returned, WatcherKnows, Watcher
  <2>4. CASE ~ShouldReturn(w, found) /\ Etcd
    <3>1. client'[c] = [w EXCEPT !.waiting = TRUE, !.deaf = failed]
      BY <2>2, <2>4
    <3>2. ~failed => w.last = GetService(FALSE)
      BY <1>1, <2>4 DEF ShouldReturn, WatcherKnows
    <3> QED BY <3>1, <3>2, <2>1, <2>4, <1>1 DEF WatcherKnows, Watcher
  <2>5. CASE ~ShouldReturn(w, found) /\ ~Etcd
    <3>1. client'[c] = w
      BY <2>2, <2>5
    <3> QED BY <3>1, <1>1 DEF WatcherKnows
  <2> QED BY <2>3, <2>4, <2>5
<1> QED BY <1>1, <1>3, <1>4 DEF Informed, WatcherKnows, GetService

LEMMA InformedStep == TypeOK /\ HeldInv /\ Informed /\ [Next]_vars => Informed'
<1> SUFFICES ASSUME TypeOK, HeldInv, Informed, [Next]_vars PROVE Informed'
  OBVIOUS
<1>0. UNCHANGED setup /\ (Etcd => ~Redis)
  BY SetupAndFaults DEF Redis, Etcd
<1>1. ASSUME NEW i \in Instances, Start(i) \/ Connect(i) \/ Grant(i) \/ KeepAlive(i) \/ Crash(i)
      PROVE Informed'
  <2>1. UNCHANGED <<listed, client>>
    BY <1>1 DEF Start, Connect, Grant, KeepAlive, Crash, Abandon, registryVars
  <2> QED BY <2>1, <1>0, InformedKept
<1>2. ASSUME NEW i \in Instances, RegisterFails(i) PROVE Informed'
  <2>1. (UNCHANGED <<listed, client>>) \/ IF Etcd THEN Notify ELSE UNCHANGED client
    BY <1>2 DEF RegisterFails, Abandon, registryVars
  <2> QED BY <2>1, <1>0, InformedKept, InformedNotified
<1>3. ASSUME NEW i \in Instances, RegisterPut(i) \/ RegisterExpire(i) \/ RefreshDue(i) PROVE Informed'
  <2>1. Redis /\ UNCHANGED client
    BY <1>3 DEF RegisterPut, RegisterExpire, RefreshDue, HSet, Expire
  <2> QED BY <2>1, <1>0, InformedKept
<1>4. ASSUME NEW i \in Instances, RegisterKey(i) PROVE Informed'
  <2>1. Notify
    BY <1>4 DEF RegisterKey, Put
  <2> QED BY <2>1, <1>0, InformedNotified
<1>5. ASSUME NEW i \in Instances,
             RefreshPut(i) \/ RefreshExpire(i) \/ RefreshFails(i) \/ LateCommand(i)
      PROVE Informed'
  <2>1. refresh[i] # "idle" /\ UNCHANGED client
    BY <1>5 DEF RefreshPut, RefreshExpire, RefreshFails, LateCommand, HSet, Expire
  <2>2. Redis
    BY <2>1 DEF HeldInv, RefreshesRedis
  <2> QED BY <2>1, <2>2, <1>0, InformedKept
<1>6. ASSUME NEW i \in Instances, Deregister(i) PROVE Informed'
  <2>1. CASE IF Redis THEN HDel(i) ELSE Delete(Address(i))
    <3>1. CASE Redis
      BY <2>1, <3>1, <1>0, InformedKept DEF HDel
    <3>2. CASE ~Redis /\ Address(i) \in listed
      BY <2>1, <3>2, <1>0, InformedNotified DEF Delete
    <3>3. CASE ~Redis /\ Address(i) \notin listed
      BY <2>1, <3>3, <1>0, InformedKept DEF Delete
    <3> QED BY <3>1, <3>2, <3>3
  <2>2. CASE Abandon(i, listed, bound) /\ UNCHANGED client
    BY <2>2, <1>0, InformedKept DEF Abandon
  <2> QED BY <1>6, <2>1, <2>2 DEF Deregister
<1>7. ASSUME NEW i \in Instances, Stop(i) \/ LeaseLost(i) PROVE Informed'
  <2>1. UNCHANGED <<listed, client>>
    BY <1>7 DEF Stop, LeaseLost
  <2> QED BY <2>1, <1>0, InformedKept
<1>8. CASE Tick
  <2>1. Redis /\ UNCHANGED client
    BY <1>8 DEF Tick
  <2> QED BY <2>1, <1>0, InformedKept
<1>9. ASSUME NEW a \in Addresses, LeaseExpires(a) PROVE Informed'
  <2>1. CASE a \in listed
    BY <1>9, <2>1, <1>0, InformedNotified DEF LeaseExpires, Delete
  <2>2. CASE a \notin listed
    BY <1>9, <2>2, <1>0, InformedKept DEF LeaseExpires, Delete
  <2> QED BY <2>1, <2>2
<1>10. ASSUME NEW c \in Clients, StartClient(c) PROVE Informed'
  <2>1. /\ UNCHANGED <<setup, listed>> /\ client[c] \in Watcher
        /\ client[c].source = "none" /\ WatcherKnows(client[c])
    BY <1>10 DEF StartClient, registryVars, TypeOK, Informed
  <2>2. \/ client' = [client EXCEPT ![c].source = "registry"]
        \/ client' = [client EXCEPT ![c].source = "static", ![c].addrs = Static]
    BY <1>10 DEF StartClient
  <2>3. /\ client'[c].last = client[c].last /\ client'[c].seen = client[c].seen
        /\ client'[c].waiting = client[c].waiting /\ client'[c].deaf = client[c].deaf
    BY <2>1, <2>2 DEF Watcher, TypeOK
  <2>4. \A d \in Clients \ {c} : client'[d] = client[d]
    BY <2>2 DEF TypeOK
  <2>5. WatcherKnows(client[c])'
    BY <2>1, <2>3 DEF WatcherKnows, Etcd, GetService
  <2> QED BY <2>1, <2>4, <2>5 DEF Informed, WatcherKnows, Etcd, GetService
<1>11. CASE UNCHANGED vars
  BY <1>11, <1>0, InformedKept DEF vars, registryVars
<1> QED
  BY <1>1, <1>2, <1>3, <1>4, <1>5, <1>6, <1>7, <1>8, <1>9, <1>10, <1>11, InformedLook
    DEF Next, Works

(* No event passes a watcher by, for any instances, clients and faults: a   *)
(* watch is opened before the look that may end in waiting for it.          *)
THEOREM NoEventMissed == Spec => []WaitersAgree
<1>1. Informed => WaitersAgree
  BY DEF Informed, WatcherKnows, WaitersAgree
<1> QED
  BY TypeInit, TypeStep, HeldInit, HeldStep, InformedInit, InformedStep, <1>1, PTL DEF Spec

=============================================================================
