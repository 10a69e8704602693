----------------------------- MODULE StockStore -----------------------------
(***************************************************************************)
(* stock-service over Redis: ReserveStock and ReleaseStock for one SKU.    *)
(* Each is a chain of Redis scripts and commands, none of which knows of   *)
(* the others; then the stock is read back and an event goes to the        *)
(* ledger in the process and to NATS.  Any link may fail before or after   *)
(* it took effect, the process may die between any two, keys expire, and   *)
(* the job deletes the keys of an ended activity under running calls.      *)
(*                                                                         *)
(* One unit per call.  The scripts of go-common are not in the repository: *)
(* they are modelled from their use here.                                  *)
(***************************************************************************)
EXTENDS Integers, FiniteSets

CONSTANTS
  Calls,       \* calls of the service
  Op,          \* what a call asks for: "reserve" or "release"
  Orders,      \* order numbers
  OrderOf,     \* the order number of a call
  Users,       \* buyers
  UserOf,      \* the buyer of an order number
  Stock0,      \* units on sale
  Limit,       \* purchase limit per buyer, 0 when there is none
  Missing,     \* what a key that does not exist holds
  Faults,      \* the kinds of fault the environment may inject
  MaxFaults    \* how many faults it injects in one behaviour

FaultKinds ==
  { "error",   \* a call returns an error and had no effect
    "lost",    \* a call takes effect but its reply is an error
    "crash",   \* the process that serves a call dies
    "ttl" }    \* a buyer's count expires

ASSUME StockAssumption ==
  /\ IsFiniteSet(Calls)
  /\ IsFiniteSet(Orders)
  /\ Op \in [Calls -> {"reserve", "release"}]
  /\ OrderOf \in [Calls -> Orders]
  /\ UserOf \in [Orders -> Users]
  /\ Stock0 \in Nat
  /\ Limit \in Nat
  /\ Missing \notin Int
  /\ Faults \subseteq FaultKinds
  /\ MaxFaults \in Nat

(* The caller mints an order number for one attempt to reserve.            *)
ASSUME OneReserveEach ==
  \A c, d \in Calls : Op[c] = "reserve" /\ Op[d] = "reserve" /\ OrderOf[c] = OrderOf[d] => c = d

VARIABLES
  pc,          \* the step each call is at, or its reply
  stock,       \* the stock key in Redis
  legacy,      \* the stock key under its old name
  reserved,    \* fields of the reserved hash
  purchases,   \* units counted against each buyer's limit
  deductions,  \* rows of the ledger
  releases,    \* rows of the ledger
  cleaned,     \* the job has deleted the stock keys
  inherited,   \* the sale began with the old key
  loose,       \* buyers whose count lost touch with what they hold
  faults       \* how many faults so far

keyVars == <<stock, legacy>>
ledgerVars == <<deductions, releases>>
ghostVars == <<inherited, loose>>
vars == <<pc, keyVars, reserved, purchases, ledgerVars, cleaned, ghostVars, faults>>

Replies == {"ok", "refused", "error"}
Steps == { "ensure", "copy", "limit", "deduct", "refuse", "fail", "expire",
           "give", "uncount", "peek", "local", "remote" }

Buyer(c) == UserOf[OrderOf[c]]

Fault(kind) ==
  /\ kind \in Faults
  /\ faults < MaxFaults
  /\ faults' = faults + 1

NoFault == UNCHANGED faults

Goto(c, from, to) == pc[c] = from /\ pc' = [pc EXCEPT ![c] = to]

Init ==
  /\ pc = [c \in Calls |-> "new"]
  /\ inherited \in BOOLEAN
  /\ stock = IF inherited THEN Missing ELSE Stock0
  /\ legacy = IF inherited THEN Stock0 ELSE Missing
  /\ reserved = {}
  /\ purchases = [u \in Users |-> 0]
  /\ deductions = {}
  /\ releases = {}
  /\ cleaned = FALSE
  /\ loose = {}
  /\ faults = 0

-----------------------------------------------------------------------------
(* Only an order number whose reservation was confirmed is ever released;  *)
(* the processor, the payment timeout and the job may each do so.          *)
Begin(c) ==
  /\ Goto(c, "new", "ensure")
  /\ Op[c] = "release" =>
       \E d \in Calls : Op[d] = "reserve" /\ OrderOf[d] = OrderOf[c] /\ pc[d] = "ok"
  /\ NoFault
  /\ UNCHANGED <<keyVars, reserved, purchases, ledgerVars, cleaned, ghostVars>>

(* Any command may fail without effect and end the call.  After a failed   *)
(* script the limit is rolled back first; a failed decrement of the count  *)
(* is not even looked at.                                                  *)
CommandFails(c) ==
  /\ Fault("error")
  /\ \/ \E l \in {"ensure", "copy", "limit", "fail", "refuse", "expire", "give", "peek", "remote"} :
          Goto(c, l, "error")
     \/ Goto(c, "deduct", IF Limit > 0 THEN "fail" ELSE "error")
     \/ Goto(c, "uncount", "peek")
  /\ UNCHANGED <<keyVars, reserved, purchases, ledgerVars, cleaned, ghostVars>>

Crash(c) ==
  /\ pc[c] \in Steps
  /\ Fault("crash")
  /\ pc' = [pc EXCEPT ![c] = "error"]
  /\ UNCHANGED <<keyVars, reserved, purchases, ledgerVars, cleaned, ghostVars>>

-----------------------------------------------------------------------------
(* stockValue reads the stock key, then the old one.                       *)

(* Mutant: the event of a release goes out before the script runs. *)
AfterEnsureAnnounce(c) ==
  IF Op[c] = "release" THEN "peek" ELSE IF Limit > 0 THEN "limit" ELSE "deduct"

AfterEnsure(c) ==
  IF Op[c] = "release" THEN "give" ELSE IF Limit > 0 THEN "limit" ELSE "deduct"

(* A key under neither name is not an error yet.                           *)
EnsureStockKey(c) ==
  /\ Goto(c, "ensure", IF stock = Missing /\ legacy # Missing THEN "copy" ELSE AfterEnsure(c))
  /\ NoFault
  /\ UNCHANGED <<keyVars, reserved, purchases, ledgerVars, cleaned, ghostVars>>

(* SETNX of the value read.  It wraps its result in an error whatever that *)
(* is, so the call fails; its retry finds the copy.                        *)
CopyLegacyStock(c) ==
  /\ Goto(c, "copy", "error")
  /\ stock' = IF stock = Missing THEN Stock0 ELSE stock
  /\ NoFault
  /\ UNCHANGED <<legacy, reserved, purchases, ledgerVars, cleaned, ghostVars>>

-----------------------------------------------------------------------------
(* DeductStockWithLimit.                                                   *)

(* The script counts the unit before there is one.                         *)
CheckLimit(c) ==
  LET room == purchases[Buyer(c)] + 1 <= Limit
      count(f) == purchases' = IF f THEN [purchases EXCEPT ![Buyer(c)] = @ + 1] ELSE purchases
  IN /\ \/ Goto(c, "limit", IF room THEN "deduct" ELSE "refused") /\ count(room) /\ NoFault
        \/ Goto(c, "limit", "error") /\ room /\ count(TRUE) /\ Fault("lost")
     /\ UNCHANGED <<keyVars, reserved, ledgerVars, cleaned, ghostVars>>

(* Mutant: a unit is taken without looking whether there is one. *)
TakeUnitBlind(c) ==
  /\ stock # Missing
  /\ OrderOf[c] \notin reserved
  /\ stock' = stock - 1
  /\ reserved' = reserved \cup {OrderOf[c]}

(* What the deduction script does when it does not refuse.                 *)
TakeUnit(c) ==
  /\ stock # Missing
  /\ stock >= 1
  /\ OrderOf[c] \notin reserved
  /\ stock' = stock - 1
  /\ reserved' = reserved \cup {OrderOf[c]}

DeductStockOrder(c) ==
  /\ Goto(c, "deduct", IF Limit > 0 THEN "expire" ELSE "peek")
  /\ TakeUnit(c)
  /\ NoFault
  /\ UNCHANGED <<legacy, purchases, ledgerVars, cleaned, ghostVars>>

(* Insufficient stock, or no key.                                          *)
DeductRefused(c) ==
  /\ Goto(c, "deduct", IF Limit > 0 THEN "refuse" ELSE "refused")
  /\ stock = Missing \/ stock = 0
  /\ NoFault
  /\ UNCHANGED <<keyVars, reserved, purchases, ledgerVars, cleaned, ghostVars>>

(* The unit is taken, but the service believes it is not.                  *)
DeductLost(c) ==
  /\ Goto(c, "deduct", IF Limit > 0 THEN "fail" ELSE "error")
  /\ TakeUnit(c)
  /\ Fault("lost")
  /\ loose' = loose \cup {Buyer(c)}
  /\ UNCHANGED <<legacy, purchases, ledgerVars, cleaned, inherited>>

RollbackLimit(c) ==
  /\ \/ Goto(c, "refuse", "refused") /\ NoFault
     \/ Goto(c, "fail", "error") /\ NoFault
     \/ pc[c] \in {"refuse", "fail"} /\ Goto(c, pc[c], "error") /\ Fault("lost")
  /\ purchases' = [purchases EXCEPT ![Buyer(c)] = @ - 1]
  /\ UNCHANGED <<keyVars, reserved, ledgerVars, cleaned, ghostVars>>

(* Mutant: the count is rolled back when its TTL could not be set. *)
ExpireRollsBack(c) ==
  /\ \/ Goto(c, "expire", "peek") /\ NoFault /\ UNCHANGED purchases
     \/ /\ Goto(c, "expire", "error") /\ Fault("lost")
        /\ purchases' = [purchases EXCEPT ![Buyer(c)] = @ - 1]
  /\ UNCHANGED <<keyVars, reserved, ledgerVars, cleaned, ghostVars>>

(* A failed EXPIRE fails the call, and the unit stays reserved.            *)
Expire(c) ==
  /\ \/ Goto(c, "expire", "peek") /\ NoFault
     \/ Goto(c, "expire", "error") /\ Fault("lost")
  /\ UNCHANGED <<keyVars, reserved, purchases, ledgerVars, cleaned, ghostVars>>

Deduct(c) ==
  CheckLimit(c) \/ DeductStockOrder(c) \/ DeductRefused(c) \/ DeductLost(c)
  \/ RollbackLimit(c) \/ Expire(c)

-----------------------------------------------------------------------------
(* ReleaseStock.                                                           *)

(* Mutant: the script does not look at the reservation. *)
ReturnUnitBlind(c) ==
  /\ stock' = IF stock = Missing THEN 1 ELSE stock + 1
  /\ reserved' = reserved \ {OrderOf[c]}

(* What the release script does: nothing for an order number without a     *)
(* reservation.                                                            *)
ReturnUnit(c) ==
  /\ stock' = IF OrderOf[c] \notin reserved THEN stock
              ELSE IF stock = Missing THEN 1 ELSE stock + 1
  /\ reserved' = reserved \ {OrderOf[c]}

(* A second release goes on like the first one.                            *)
ReleaseStockOrder(c) ==
  /\ \/ Goto(c, "give", "uncount") /\ NoFault
     \/ Goto(c, "give", "error") /\ Fault("lost")
  /\ ReturnUnit(c)
  /\ loose' = IF OrderOf[c] \in reserved THEN loose ELSE loose \cup {Buyer(c)}
  /\ UNCHANGED <<legacy, purchases, ledgerVars, cleaned, inherited>>

(* The script may also refuse to recreate a key that was cleaned up.       *)
ReleaseRefused(c) ==
  /\ Goto(c, "give", "error")
  /\ stock = Missing
  /\ NoFault
  /\ UNCHANGED <<keyVars, reserved, purchases, ledgerVars, cleaned, ghostVars>>

(* IncrBy without a condition, its result ignored.                         *)
Uncount(c) ==
  /\ Goto(c, "uncount", "peek")
  /\ purchases' = [purchases EXCEPT ![Buyer(c)] = @ - 1]
  /\ NoFault
  /\ UNCHANGED <<keyVars, reserved, ledgerVars, cleaned, ghostVars>>

Release(c) == ReleaseStockOrder(c) \/ ReleaseRefused(c) \/ Uncount(c)

-----------------------------------------------------------------------------
(* The rest of either operation, StockAppService.                          *)

(* The stock is read back to fill the event; a key that is gone by then    *)
(* fails a call that has done its work.                                    *)
PeekStock(c) ==
  /\ Goto(c, "peek", IF stock # Missing THEN "local"
                     ELSE IF legacy # Missing THEN "copy" ELSE "error")
  /\ NoFault
  /\ UNCHANGED <<keyVars, reserved, purchases, ledgerVars, cleaned, ghostVars>>

(* A row that is there already is a success.                               *)
WriteLedger(c) ==
  /\ deductions' = IF Op[c] = "reserve" THEN deductions \cup {OrderOf[c]} ELSE deductions
  /\ releases' = IF Op[c] = "release" THEN releases \cup {OrderOf[c]} ELSE releases

(* The local bus calls the ledger at once and only logs its errors.        *)
PublishLocal(c) ==
  /\ Goto(c, "local", "remote")
  /\ \/ WriteLedger(c) /\ NoFault
     \/ Fault("error") /\ UNCHANGED ledgerVars
  /\ UNCHANGED <<keyVars, reserved, purchases, cleaned, ghostVars>>

(* A failed publish to NATS fails the call (CommandFails).                 *)
PublishRemote(c) ==
  /\ \/ Goto(c, "remote", "ok") /\ NoFault
     \/ Goto(c, "remote", "error") /\ Fault("lost")
  /\ UNCHANGED <<keyVars, reserved, purchases, ledgerVars, cleaned, ghostVars>>

Publish(c) == PeekStock(c) \/ PublishLocal(c) \/ PublishRemote(c)

-----------------------------------------------------------------------------
(* Others at the keys.                                                     *)

(* Mutant: the reservations go with the stock. *)
CleanupActivityStockAndHash ==
  /\ ~cleaned
  /\ cleaned' = TRUE
  /\ stock' = Missing
  /\ legacy' = Missing
  /\ reserved' = {}
  /\ NoFault
  /\ UNCHANGED <<pc, purchases, ledgerVars, ghostVars>>

(* The job deletes both stock keys of an ended activity, once here; the    *)
(* reserved hash stays.                                                    *)
CleanupActivityStock ==
  /\ ~cleaned
  /\ cleaned' = TRUE
  /\ stock' = Missing
  /\ legacy' = Missing
  /\ NoFault
  /\ UNCHANGED <<pc, reserved, purchases, ledgerVars, ghostVars>>

(* ... and, in a call of its own, the counts.                              *)
CleanupActivityPurchases ==
  /\ cleaned
  /\ purchases' = [u \in Users |-> 0]
  /\ loose' = Users
  /\ NoFault
  /\ UNCHANGED <<pc, keyVars, reserved, ledgerVars, cleaned, inherited>>

(* A count expires 24 hours after the last purchase.                       *)
PurchasesExpire(u) ==
  /\ purchases[u] # 0
  /\ purchases' = [purchases EXCEPT ![u] = 0]
  /\ loose' = loose \cup {u}
  /\ Fault("ttl")
  /\ UNCHANGED <<pc, keyVars, reserved, ledgerVars, cleaned, inherited>>

-----------------------------------------------------------------------------
Serve(c) ==
  \/ Begin(c) \/ CommandFails(c) \/ Crash(c)
  \/ EnsureStockKey(c) \/ CopyLegacyStock(c)
  \/ Deduct(c) \/ Release(c) \/ Publish(c)

Next ==
  \/ \E c \in Calls : Serve(c)
  \/ CleanupActivityStock
  \/ CleanupActivityPurchases
  \/ \E u \in Users : PurchasesExpire(u)

Spec == Init /\ [][Next]_vars

-----------------------------------------------------------------------------
(* Every variable has its type; no unit below zero.                        *)
TypeOK ==
  /\ pc \in [Calls -> {"new"} \cup Steps \cup Replies]
  /\ stock \in Nat \cup {Missing}
  /\ legacy \in Nat \cup {Missing}
  /\ reserved \subseteq Orders
  /\ purchases \in [Users -> Int]
  /\ deductions \subseteq Orders
  /\ releases \subseteq Orders
  /\ cleaned \in BOOLEAN
  /\ inherited \in BOOLEAN
  /\ loose \subseteq Users
  /\ faults \in 0 .. MaxFaults

(* The units in Redis, whatever name their key has.                        *)
Units == IF stock # Missing THEN stock ELSE IF legacy # Missing THEN legacy ELSE 0

HeldBy(u) == {o \in reserved : UserOf[o] = u}

(* Whatever fails between two commands, a unit is on the shelf or reserved *)
(* until the clean-up, and afterwards there are never more of them; the    *)
(* copy of an old key may bring a cleaned-up stock back.                   *)
UnitsConserved ==
  /\ ~cleaned => Units + Cardinality(reserved) = Stock0
  /\ cleaned /\ ~inherited => Units + Cardinality(reserved) <= Stock0

(* A buyer's count never says less than he holds, so that no order of      *)
(* calls lifts him over the limit, unless a count expired or was cleaned   *)
(* up, a deduction was rolled back that had happened, or an order number   *)
(* was released twice.                                                     *)
LimitCovers ==
  Limit > 0 => \A u \in Users \ loose :
    Cardinality(HeldBy(u)) <= purchases[u] /\ Cardinality(HeldBy(u)) <= Limit

(* The ledger never shows a release whose unit is still held.              *)
LedgerNotEarly == \A o \in releases : o \notin reserved

(* The Redis store keeps the contract of the in-memory one, at whatever    *)
(* step its calls fail.                                                    *)
Contract == INSTANCE StockContract WITH
  available <- IF stock = Missing THEN legacy ELSE stock, held <- reserved
ImplementsContract == Contract!ContractSpec
=============================================================================
