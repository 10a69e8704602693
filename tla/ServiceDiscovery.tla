-------------------------- MODULE ServiceDiscovery --------------------------
(* Registration and discovery of one service (src/common/discovery): the    *)
(* instances that enter their address in Redis or etcd when they start,     *)
(* renew it and take it back, and the clients whose watchers turn what is   *)
(* registered into the addresses they call.                                 *)
(*                                                                         *)
(* In Redis all addresses of a service are fields of one hash, whose TTL    *)
(* each registration renews; time is a count of units that Tick advances.   *)
(* In etcd each address is a key bound to the lease of one instance, kept   *)
(* alive by the client library.                                             *)
EXTENDS Naturals

CONSTANTS
  Instances,   \* processes that serve the service, one after the other or at once
  Clients,     \* processes that call it
  Addresses,   \* what an instance may advertise
  Static,      \* the addresses configured for the service (discovery.services)
  Setups,      \* registry, static_fallback and advertised address of each instance
  TTL,         \* discovery.ttl, in units
  Configured,  \* discovery.refresh_interval, in units; 0 when not set
  MaxStarts,   \* bound: how often instances are started
  Faults,      \* kinds of fault: "error", "lost", "slow"
  MaxFaults    \* bound: how many faults

Modes == {"redis", "etcd", "none"}

(* RefreshInterval (registry.go:313) for a positive ttl.                   *)
Interval ==
  IF Configured > 0 /\ Configured < TTL THEN Configured
  ELSE IF TTL \div 3 > 0 THEN TTL \div 3 ELSE 1

ASSUME DiscoveryAssumption ==
  /\ Setups \subseteq
       [mode : Modes, fallback : BOOLEAN, advertised : [Instances -> Addresses]]
  /\ TTL \in Nat \ {0}
  /\ Configured \in Nat
  /\ MaxStarts \in Nat
  /\ MaxFaults \in Nat
  /\ "orphan" \notin Instances
  /\ "none" \notin Instances

VARIABLES
  setup,      \* the configuration all processes were started with
  server,     \* how far each instance is
  refresh,    \* its goroutine that registers it again (Redis)
  age,        \* units since that goroutine's ticker fired
  listed,     \* the addresses in the registry
  left,       \* units until the hash expires, 0 when it has no TTL (Redis)
  bound,      \* whose lease an address is bound to (etcd)
  orphaned,   \* addresses whose instance went without taking them back (Redis)
  untimed,    \* the hash lost its TTL to an instance that was cut off (Redis)
  client,     \* each client's watcher and the addresses it calls
  starts,     \* how many instances were started
  faults      \* how many faults so far

processVars == <<server, refresh, age>>
registryVars == <<listed, left, bound, orphaned, untimed>>
vars == <<setup, processVars, registryVars, client, starts, faults>>

Fault(kind) ==
  /\ kind \in Faults
  /\ faults < MaxFaults
  /\ faults' = faults + 1

NoFault == UNCHANGED faults

Redis == setup.mode = "redis"
Etcd == setup.mode = "etcd"
Address(i) == setup.advertised[i]

Init ==
  /\ setup \in Setups
  /\ server = [i \in Instances |-> "down"]
  /\ refresh = [i \in Instances |-> "idle"]
  /\ age = [i \in Instances |-> 0]
  /\ listed = {}
  /\ left = 0
  /\ bound = [a \in Addresses |-> "none"]
  /\ orphaned = {}
  /\ untimed = FALSE
  /\ client = [c \in Clients |->
       [source |-> "none", seen |-> FALSE, last |-> {}, addrs |-> {},
        waiting |-> FALSE, deaf |-> FALSE]]
  /\ starts = 0
  /\ faults = 0

-----------------------------------------------------------------------------
(* The registries.                                                         *)

(* An event of etcd reaches every watcher that waits for one.              *)
Notify ==
  client' = [c \in DOMAIN client |-> [client[c] EXCEPT !.waiting = FALSE, !.deaf = FALSE]]

(* Mutant: the field is the instance's name, not its endpoint.             *)
HSetName(i) ==
  /\ listed' = listed \cup {i}
  /\ orphaned' = orphaned \ {i}
  /\ UNCHANGED <<left, bound, untimed, client>>

(* HSET: a key that did not exist has no TTL.                              *)
HSet(i) ==
  /\ listed' = listed \cup {Address(i)}
  /\ orphaned' = orphaned \ {Address(i)}
  /\ UNCHANGED <<left, bound, untimed, client>>

(* Mutant: the hash never gets a TTL.                                      *)
NeverExpire ==
  /\ untimed' = FALSE
  /\ UNCHANGED <<listed, left, bound, orphaned, client>>

(* EXPIRE of the whole hash, which does nothing when it is gone.           *)
Expire ==
  /\ left' = IF listed = {} THEN 0 ELSE TTL
  /\ untimed' = FALSE
  /\ UNCHANGED <<listed, bound, orphaned, client>>

(* Mutant: the whole hash is deleted.                                      *)
DelHash(i) ==
  /\ listed' = {}
  /\ left' = 0
  /\ untimed' = FALSE
  /\ orphaned' = {}
  /\ UNCHANGED <<bound, client>>

(* HDEL, and the key goes with its last field.                             *)
HDel(i) ==
  /\ listed' = listed \ {Address(i)}
  /\ left' = IF listed' = {} THEN 0 ELSE left
  /\ untimed' = (untimed /\ listed' # {})
  /\ orphaned' = orphaned \ {Address(i)}
  /\ UNCHANGED <<bound, client>>

Put(i, lease) ==
  /\ listed' = listed \cup {Address(i)}
  /\ bound' = [bound EXCEPT ![Address(i)] = lease]
  /\ Notify
  /\ UNCHANGED <<left, orphaned, untimed>>

Delete(a) ==
  /\ listed' = listed \ {a}
  /\ bound' = [bound EXCEPT ![a] = "none"]
  /\ orphaned' = orphaned \ {a}
  /\ IF a \in listed THEN Notify ELSE UNCHANGED client
  /\ UNCHANGED <<left, untimed>>

(* The instance stops renewing without a word to the registry.             *)
Abandon(i, names, keys) ==
  /\ listed' = names
  /\ bound' = [a \in Addresses |-> IF keys[a] = i THEN "orphan" ELSE keys[a]]
  /\ orphaned' = IF Redis THEN orphaned \cup ({Address(i)} \cap names) ELSE {}
  /\ untimed' = (Redis /\ (untimed \/ (left = 0 /\ names # {})))
  /\ UNCHANGED left

-----------------------------------------------------------------------------
(* An instance starts (RegisterGRPCService, RegisterGRPCServiceEtcd).      *)

Goto(i, from, to) == server[i] = from /\ server' = [server EXCEPT ![i] = to]

Start(i) ==
  /\ starts < MaxStarts
  /\ refresh[i] = "idle"
  /\ Goto(i, "down", IF setup.mode = "none" THEN "alone" ELSE "connect")
  /\ starts' = starts + 1
  /\ UNCHANGED <<setup, refresh, age, registryVars, client, faults>>

Connect(i) ==
  /\ Goto(i, "connect", IF Redis THEN "put" ELSE "grant")
  /\ NoFault
  /\ UNCHANGED <<setup, refresh, age, registryVars, client, starts>>

(* The process goes on unregistered, or main returns the error.            *)
GaveUp == IF setup.fallback THEN "alone" ELSE "down"

(* A call of the registration fails, perhaps after it took effect.         *)
RegisterFails(i) ==
  \/ /\ Goto(i, "connect", GaveUp)
     /\ Fault("error")
     /\ UNCHANGED <<setup, refresh, age, registryVars, client, starts>>
  \/ /\ \/ Goto(i, "put", GaveUp)
        \/ Goto(i, "bare", GaveUp)
        \/ Redis /\ Goto(i, "lease", GaveUp)
     /\ Fault("error")
     /\ Abandon(i, listed, bound)
     /\ UNCHANGED <<setup, refresh, age, client, starts>>
  \/ /\ \/ Goto(i, "put", GaveUp)
        \/ Goto(i, "bare", GaveUp)
     /\ Fault("lost")
     /\ Abandon(i, listed \cup {Address(i)},
          IF Redis THEN bound
          ELSE [bound EXCEPT ![Address(i)] = IF server[i] = "bare" THEN "none" ELSE i])
     /\ IF Etcd THEN Notify ELSE UNCHANGED client
     /\ UNCHANGED <<setup, refresh, age, starts>>

RegisterPut(i) ==
  /\ Redis
  /\ Goto(i, "put", "lease")
  /\ HSet(i)
  /\ NoFault
  /\ UNCHANGED <<setup, refresh, age, starts>>

RegisterExpire(i) ==
  /\ Redis
  /\ Goto(i, "lease", "listed")
  /\ Expire
  /\ NoFault
  /\ UNCHANGED <<setup, refresh, age, starts>>

(* Without a lease the address is put for good (etcd.go:98).               *)
Grant(i) ==
  /\ \/ Goto(i, "grant", "put") /\ NoFault
     \/ Goto(i, "grant", "bare") /\ Fault("error")
  /\ UNCHANGED <<setup, refresh, age, registryVars, client, starts>>

RegisterKey(i) ==
  /\ Etcd
  /\ \/ Goto(i, "put", "lease") /\ Put(i, i)
     \/ Goto(i, "bare", "listed") /\ Put(i, "none")
  /\ NoFault
  /\ UNCHANGED <<setup, refresh, age, starts>>

(* A KeepAlive that fails is not an error of Register (etcd.go:91).        *)
KeepAlive(i) ==
  /\ Etcd
  /\ Goto(i, "lease", "listed")
  /\ \/ NoFault /\ UNCHANGED registryVars
     \/ Fault("error") /\ Abandon(i, listed, bound)
  /\ UNCHANGED <<setup, refresh, age, client, starts>>

-----------------------------------------------------------------------------
(* It renews its registration (the goroutine of registry.go:225; for etcd   *)
(* the client library does it).                                            *)

RefreshDue(i) ==
  /\ Redis
  /\ server[i] = "listed"
  /\ refresh[i] = "idle"
  /\ age[i] >= Interval
  /\ refresh' = [refresh EXCEPT ![i] = "put"]
  /\ age' = [age EXCEPT ![i] = 0]
  /\ UNCHANGED <<setup, server, registryVars, client, starts, faults>>

RefreshPut(i) ==
  /\ server[i] = "listed"
  /\ refresh[i] = "put"
  /\ HSet(i)
  /\ refresh' = [refresh EXCEPT ![i] = "expire"]
  /\ UNCHANGED <<setup, server, age, starts, faults>>

RefreshExpire(i) ==
  /\ server[i] = "listed"
  /\ refresh[i] = "expire"
  /\ Expire
  /\ refresh' = [refresh EXCEPT ![i] = "idle"]
  /\ UNCHANGED <<setup, server, age, starts, faults>>

(* A failed refresh is logged and left to the next tick.                   *)
RefreshFails(i) ==
  /\ server[i] = "listed"
  /\ \/ refresh[i] \in {"put", "expire"} /\ Fault("error") /\ UNCHANGED listed
     \/ refresh[i] = "put" /\ Fault("lost") /\ listed' = listed \cup {Address(i)}
  /\ untimed' = (untimed \/ (left = 0 /\ listed' # {}))
  /\ refresh' = [refresh EXCEPT ![i] = "idle"]
  /\ UNCHANGED <<setup, server, age, left, bound, orphaned, client, starts>>

-----------------------------------------------------------------------------
(* It stops (the clean-up that RegisterGRPCService returns), or dies.      *)

(* Cancelling the goroutine does not take back a command it has sent.      *)
Stop(i) ==
  /\ \/ Goto(i, "listed", "leave")
     \/ Goto(i, "alone", "down")
  /\ untimed' = (untimed \/ (refresh[i] = "expire" /\ left = 0 /\ listed # {}))
  /\ age' = [age EXCEPT ![i] = 0]
  /\ UNCHANGED <<setup, refresh, listed, left, bound, orphaned, client, starts, faults>>

LateCommand(i) ==
  /\ server[i] \in {"leave", "down"}
  /\ \/ /\ refresh[i] = "put"
        /\ listed' = listed \cup {Address(i)}
        /\ orphaned' = orphaned \cup {Address(i)}
        /\ untimed' = (untimed \/ left = 0)
        /\ UNCHANGED left
     \/ /\ refresh[i] = "expire"
        /\ left' = IF listed = {} THEN 0 ELSE TTL
        /\ untimed' = FALSE
        /\ UNCHANGED <<listed, orphaned>>
     \/ /\ refresh[i] # "idle"
        /\ UNCHANGED <<listed, left, orphaned, untimed>>
  /\ refresh' = [refresh EXCEPT ![i] = "idle"]
  /\ UNCHANGED <<setup, server, age, bound, client, starts, faults>>

Deregister(i) ==
  /\ Goto(i, "leave", "down")
  /\ \/ /\ NoFault
        /\ IF Redis THEN HDel(i) ELSE Delete(Address(i))
     \/ /\ Fault("error")
        /\ Abandon(i, listed, bound)
        /\ UNCHANGED client
  /\ UNCHANGED <<setup, refresh, age, starts>>

Crash(i) ==
  /\ server[i] \notin {"down", "alone"}
  /\ server' = [server EXCEPT ![i] = "down"]
  /\ refresh' = [refresh EXCEPT ![i] = "idle"]
  /\ age' = [age EXCEPT ![i] = 0]
  /\ Abandon(i, listed, bound)
  /\ UNCHANGED <<setup, client, starts, faults>>

-----------------------------------------------------------------------------
(* Time passes.                                                            *)

(* Refreshes take much less than a unit; a unit in which one does not      *)
(* happen is a fault.                                                      *)
Punctual ==
  \A i \in Instances :
    server[i] = "listed" => refresh[i] = "idle" /\ age[i] < Interval

Older(n) == IF n < Interval THEN n + 1 ELSE n

Tick ==
  /\ Redis
  /\ IF Punctual THEN NoFault ELSE Fault("slow")
  /\ age' = [i \in Instances |-> IF server[i] = "listed" THEN Older(age[i]) ELSE 0]
  /\ left' = IF left = 0 THEN 0 ELSE left - 1
  /\ IF left = 1
     THEN listed' = {} /\ orphaned' = {} /\ untimed' = FALSE
     ELSE UNCHANGED <<listed, orphaned, untimed>>
  /\ UNCHANGED <<setup, server, refresh, bound, client, starts>>

(* The keep-alives of a live instance do not arrive for a lease's length;  *)
(* the library then closes its channel, and nobody registers again.        *)
LeaseLost(i) ==
  /\ Etcd
  /\ bound[Address(i)] = i
  /\ Fault("slow")
  /\ bound' = [bound EXCEPT ![Address(i)] = "orphan"]
  /\ UNCHANGED <<setup, processVars, listed, left, orphaned, untimed, client, starts>>

LeaseExpires(a) ==
  /\ Etcd
  /\ bound[a] = "orphan"
  /\ Delete(a)
  /\ UNCHANGED <<setup, processVars, starts, faults>>

-----------------------------------------------------------------------------
(* The clients (NewRPCDiscovery, the watchers, and the resolver of the RPC  *)
(* library, which keeps its addresses when a watcher reports none).        *)

(* A client that finds no registry stays with the static addresses; without *)
(* static_fallback it does not start.                                      *)
StartClient(c) ==
  /\ client[c].source = "none"
  /\ \/ setup.mode # "none" /\ NoFault /\ client' = [client EXCEPT ![c].source = "registry"]
     \/ /\ IF setup.mode = "none" THEN NoFault ELSE setup.fallback /\ Fault("error")
        /\ client' = [client EXCEPT ![c].source = "static", ![c].addrs = Static]
  /\ UNCHANGED <<setup, processVars, registryVars, starts>>

(* GetService: an error and an empty registry both fall back.              *)
GetService(failed) == IF failed \/ listed = {} THEN Static ELSE listed

(* Mutant: addresses that disappear are not a change.                      *)
ReturnsMore(w, found) == ~(found \subseteq w.last)

(* shouldReturn: the first non-empty list, and then every change.          *)
ShouldReturn(w, found) == IF w.seen THEN found # w.last ELSE found # {}

Returned(w, found) ==
  [w EXCEPT !.seen = TRUE, !.last = found, !.addrs = IF found = {} THEN @ ELSE found]

(* One turn of a watcher's loop. Redis is asked at every poll; the etcd     *)
(* watcher waits for an event when there is nothing to return.             *)
Look(c) ==
  LET w == client[c] IN
  /\ w.source = "registry"
  /\ ~w.waiting
  /\ \E failed \in BOOLEAN :
       /\ IF failed THEN Fault("error") ELSE NoFault
       /\ client' = [client EXCEPT ![c] =
            IF ShouldReturn(w, GetService(failed)) THEN Returned(w, GetService(failed))
            ELSE IF Etcd THEN [w EXCEPT !.waiting = TRUE, !.deaf = failed]
            ELSE w]
  /\ UNCHANGED <<setup, processVars, registryVars, starts>>

-----------------------------------------------------------------------------
Works(i) ==
  \/ Connect(i) \/ RegisterPut(i) \/ RegisterExpire(i)
  \/ Grant(i) \/ RegisterKey(i) \/ KeepAlive(i)
  \/ RefreshDue(i) \/ RefreshPut(i) \/ RefreshExpire(i)
  \/ LateCommand(i) \/ Deregister(i)

Next ==
  \/ \E i \in Instances :
       \/ Start(i) \/ Works(i) \/ RegisterFails(i) \/ RefreshFails(i)
       \/ Stop(i) \/ Crash(i) \/ LeaseLost(i)
  \/ Tick
  \/ \E a \in Addresses : LeaseExpires(a)
  \/ \E c \in Clients : StartClient(c) \/ Look(c)

Spec == Init /\ [][Next]_vars

(* Goroutines run, time passes, leases run out, watchers go on polling.    *)
Fairness ==
  /\ \A i \in Instances : WF_vars(Works(i))
  /\ WF_vars(Tick)
  /\ \A a \in Addresses : WF_vars(LeaseExpires(a))
  /\ \A c \in Clients : WF_vars(Look(c))

FairSpec == Spec /\ Fairness

-----------------------------------------------------------------------------
Watcher ==
  [source : {"none", "registry", "static"}, seen : BOOLEAN,
   last : SUBSET (Addresses \cup Static), addrs : SUBSET (Addresses \cup Static),
   waiting : BOOLEAN, deaf : BOOLEAN]

TypeOK ==
  /\ setup \in Setups
  /\ server \in [Instances -> {"down", "connect", "grant", "put", "bare", "lease",
                               "listed", "leave", "alone"}]
  /\ refresh \in [Instances -> {"idle", "put", "expire"}]
  /\ age \in [Instances -> 0 .. Interval]
  /\ listed \subseteq Addresses
  /\ left \in 0 .. TTL
  /\ bound \in [Addresses -> Instances \cup {"none", "orphan"}]
  /\ orphaned \subseteq listed
  /\ untimed \in BOOLEAN
  /\ client \in [Clients -> Watcher]
  /\ starts \in 0 .. MaxStarts
  /\ faults \in 0 .. MaxFaults

(* No other instance advertises the same address.                          *)
Alone(i) == \A j \in Instances : Address(j) = Address(i) => j = i

(* As long as the calls that failed do not add up to a TTL, an address of   *)
(* its own stays registered while its instance lives, whoever else renews,  *)
(* deregisters or dies. In etcd a single lease that lapses is enough.      *)
StaysListed ==
  [][\A i \in Instances :
       /\ server[i] = "listed" /\ server'[i] = "listed"
       /\ Address(i) \in listed /\ Alone(i)
       /\ IF Redis THEN (faults' + 1) * Interval < TTL ELSE faults' = 0
       => Address(i) \in listed']_vars

Gone(a) ==
  \A i \in Instances : Address(i) = a => server[i] \in {"down", "alone"}

(* What keeps the address of a dead instance: in Redis the others' TTL, or  *)
(* that there is none; in etcd a key without a lease.                       *)
Kept(a) ==
  IF Redis
  THEN a \in orphaned /\ (untimed \/ \E j \in Instances : server[j] = "listed")
  ELSE bound[a] = "none"

(* An address without an instance leaves the registry in the end, for the   *)
(* cases named in Kept.                                                     *)
DeadLeave ==
  \A a \in Addresses : <>[]Gone(a) => <>[](a \notin listed \/ Kept(a))

(* Whatever is registered, lost and registered again, a watcher ends up     *)
(* with it once it no longer changes; in etcd, unless the look after the    *)
(* last event failed and it now waits for another.                          *)
WatchersAgree ==
  \A c \in Clients : \A A \in (SUBSET (Addresses \cup Static)) \ {{}} :
    <>[](client[c].source = "registry" /\ GetService(FALSE) = A /\ ~client[c].deaf)
      => <>[](client[c].addrs = A)
=============================================================================
