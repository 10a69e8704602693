-------------------------- MODULE StockStoreProofs --------------------------
(***************************************************************************)
(* Proofs about StockStore, for every set of calls, order numbers and      *)
(* buyers, every stock and limit, and any number of faults.                *)
(***************************************************************************)
EXTENDS StockStore, FiniteSetTheorems, TLAPS

USE DEF Replies, Steps, keyVars, ledgerVars, ghostVars, Fault, NoFault, Goto, Buyer, WriteLedger

-----------------------------------------------------------------------------
(* The initial state is well typed.                                        *)
LEMMA TypeInit == Init => TypeOK
<1> SUFFICES ASSUME Init PROVE TypeOK
  OBVIOUS
<1> USE StockAssumption DEF Init, TypeOK
<1>1. stock \in Nat \cup {Missing} /\ legacy \in Nat \cup {Missing}
  BY Zenon
<1>2. inherited \in BOOLEAN /\ cleaned \in BOOLEAN
  BY Zenon
<1>3. pc \in [Calls -> {"new"} \cup Steps \cup Replies] /\ purchases \in [Users -> Int]
  BY SMT
<1>4. faults \in 0 .. MaxFaults
  BY SMT
<1> QED
  BY <1>1, <1>2, <1>3, <1>4

(* Every action keeps the types; a unit is taken only where there is one.  *)
LEMMA TypeStep == TypeOK /\ [Next]_vars => TypeOK'
<1> SUFFICES ASSUME TypeOK, [Next]_vars PROVE TypeOK'
  OBVIOUS
<1> USE StockAssumption DEF TypeOK
<1>1. ASSUME NEW c \in Calls, Begin(c) PROVE TypeOK'
  BY <1>1 DEF Begin
<1>2. ASSUME NEW c \in Calls, CommandFails(c) PROVE TypeOK'
  BY <1>2 DEF CommandFails
<1>3. ASSUME NEW c \in Calls, Crash(c) PROVE TypeOK'
  BY <1>3 DEF Crash
<1>4. ASSUME NEW c \in Calls, EnsureStockKey(c) PROVE TypeOK'
  BY <1>4 DEF EnsureStockKey, AfterEnsure
<1>5. ASSUME NEW c \in Calls, CopyLegacyStock(c) PROVE TypeOK'
  BY <1>5 DEF CopyLegacyStock
<1>6. ASSUME NEW c \in Calls, CheckLimit(c) PROVE TypeOK'
  BY <1>6 DEF CheckLimit
<1>7. ASSUME NEW c \in Calls, DeductStockOrder(c) PROVE TypeOK'
  BY <1>7 DEF DeductStockOrder, TakeUnit
<1>8. ASSUME NEW c \in Calls, DeductRefused(c) PROVE TypeOK'
  BY <1>8 DEF DeductRefused
<1>9. ASSUME NEW c \in Calls, DeductLost(c) PROVE TypeOK'
  BY <1>9 DEF DeductLost, TakeUnit
<1>10. ASSUME NEW c \in Calls, RollbackLimit(c) PROVE TypeOK'
  BY <1>10 DEF RollbackLimit
<1>11. ASSUME NEW c \in Calls, Expire(c) PROVE TypeOK'
  BY <1>11 DEF Expire
<1>12. ASSUME NEW c \in Calls, ReleaseStockOrder(c) PROVE TypeOK'
  BY <1>12 DEF ReleaseStockOrder, ReturnUnit
<1>13. ASSUME NEW c \in Calls, ReleaseRefused(c) PROVE TypeOK'
  BY <1>13 DEF ReleaseRefused
<1>14. ASSUME NEW c \in Calls, Uncount(c) PROVE TypeOK'
  BY <1>14 DEF Uncount
<1>15. ASSUME NEW c \in Calls, PeekStock(c) PROVE TypeOK'
  BY <1>15 DEF PeekStock
<1>16. ASSUME NEW c \in Calls, PublishLocal(c) PROVE TypeOK'
  BY <1>16 DEF PublishLocal
<1>17. ASSUME NEW c \in Calls, PublishRemote(c) PROVE TypeOK'
  BY <1>17 DEF PublishRemote
<1>18. ASSUME CleanupActivityStock PROVE TypeOK'
  BY <1>18 DEF CleanupActivityStock
<1>19. ASSUME CleanupActivityPurchases PROVE TypeOK'
  BY <1>19 DEF CleanupActivityPurchases
<1>20. ASSUME NEW u \in Users, PurchasesExpire(u) PROVE TypeOK'
  BY <1>20 DEF PurchasesExpire
<1>21. ASSUME UNCHANGED vars PROVE TypeOK'
  BY <1>21 DEF vars
<1> QED
  BY <1>1, <1>2, <1>3, <1>4, <1>5, <1>6, <1>7, <1>8, <1>9, <1>10, <1>11, <1>12,
     <1>13, <1>14, <1>15, <1>16, <1>17, <1>18, <1>19, <1>20, <1>21
  DEF Next, Serve, Deduct, Release, Publish

(* Every reachable state is well typed: the stock key never goes below     *)
(* zero.                                                                   *)
THEOREM TypeCorrect == Spec => []TypeOK
<1> QED
  BY TypeInit, TypeStep, PTL DEF Spec

-----------------------------------------------------------------------------
(* Units: where the key is, and when a copy of the old one may come late.  *)
UnitsInv ==
  /\ legacy \in {Missing, Stock0}
  /\ legacy # Missing => inherited /\ ~cleaned
  /\ \A c \in Calls : pc[c] = "copy" => inherited
  /\ ~cleaned /\ stock = Missing => legacy = Stock0 /\ reserved = {}
  /\ ~cleaned /\ stock # Missing => stock + Cardinality(reserved) = Stock0
  /\ cleaned /\ ~inherited => Units + Cardinality(reserved) <= Stock0

(* The set of reservations is finite, and its size moves by one.           *)
LEMMA ReservedSize ==
  ASSUME TypeOK
  PROVE  /\ Cardinality(reserved) \in Nat
         /\ \A o \in Orders \ reserved : Cardinality(reserved \cup {o}) = Cardinality(reserved) + 1
         /\ \A o \in reserved : Cardinality(reserved \ {o}) = Cardinality(reserved) - 1
         /\ reserved = {} => Cardinality(reserved) = 0
<1>1. IsFiniteSet(reserved)
  BY FS_Subset, StockAssumption DEF TypeOK
<1> QED
  BY <1>1, FS_CardinalityType, FS_AddElement, FS_RemoveElement, FS_EmptySet DEF TypeOK

(* At first all units are under one of the two keys.                       *)
LEMMA UnitsInit == Init => UnitsInv
<1> SUFFICES ASSUME Init PROVE UnitsInv
  OBVIOUS
<1> USE StockAssumption DEF Init, UnitsInv, Units
<1>1. Cardinality(reserved) = 0
  BY FS_EmptySet
<1>2. inherited \in BOOLEAN /\ cleaned = FALSE /\ reserved = {}
  BY Zenon
<1>3. \A c \in Calls : pc[c] # "copy"
  BY SMT
<1>4. CASE inherited
  <2>1. stock = Missing /\ legacy = Stock0
    BY <1>4, Zenon
  <2> QED
    BY <1>1, <1>2, <1>3, <1>4, <2>1
<1>5. CASE ~inherited
  <2>1. stock = Stock0 /\ legacy = Missing
    BY <1>5, Zenon
  <2> QED
    BY <1>1, <1>2, <1>3, <1>5, <2>1
<1> QED
  BY <1>4, <1>5

(* A step that leaves keys and reservations alone and starts no copy.      *)
LEMMA UnitsUntouched ==
  ASSUME UnitsInv,
         UNCHANGED <<keyVars, reserved, cleaned, inherited>>,
         \A c \in Calls : pc'[c] = "copy" => pc[c] = "copy" \/ inherited
  PROVE  UnitsInv'
  BY DEF UnitsInv, Units

(* The scripts move a unit; the clean-up takes both keys at once.          *)
LEMMA UnitsStep == TypeOK /\ UnitsInv /\ [Next]_vars => UnitsInv'
<1> SUFFICES ASSUME TypeOK, UnitsInv, [Next]_vars PROVE UnitsInv'
  OBVIOUS
<1>. DEFINE Quiet == /\ UNCHANGED <<keyVars, reserved, cleaned, inherited>>
                     /\ \A c \in Calls : pc'[c] = "copy" => pc[c] = "copy" \/ inherited
<1>0. Quiet => UnitsInv'
  BY UnitsUntouched
<1> HIDE DEF Quiet
<1>1. ASSUME NEW c \in Calls,
             Begin(c) \/ CommandFails(c) \/ Crash(c) \/ CheckLimit(c) \/ DeductRefused(c)
             \/ RollbackLimit(c) \/ Expire(c) \/ ReleaseRefused(c) \/ Uncount(c)
             \/ PublishLocal(c) \/ PublishRemote(c)
      PROVE  Quiet
  <2> USE DEF TypeOK, Quiet
  <2>1. CASE Begin(c)
    BY <2>1 DEF Begin
  <2>2. CASE CommandFails(c)
    BY <2>2 DEF CommandFails
  <2>3. CASE Crash(c)
    BY <2>3 DEF Crash
  <2>4. CASE CheckLimit(c)
    BY <2>4 DEF CheckLimit
  <2>5. CASE DeductRefused(c)
    BY <2>5 DEF DeductRefused
  <2>6. CASE RollbackLimit(c)
    BY <2>6 DEF RollbackLimit
  <2>7. CASE Expire(c)
    BY <2>7 DEF Expire
  <2>8. CASE ReleaseRefused(c)
    BY <2>8 DEF ReleaseRefused
  <2>9. CASE Uncount(c)
    BY <2>9 DEF Uncount
  <2>10. CASE PublishLocal(c)
    BY <2>10 DEF PublishLocal
  <2>11. CASE PublishRemote(c)
    BY <2>11 DEF PublishRemote
  <2> QED
    BY <1>1, <2>1, <2>2, <2>3, <2>4, <2>5, <2>6, <2>7, <2>8, <2>9, <2>10, <2>11
<1>2. ASSUME NEW c \in Calls, EnsureStockKey(c) \/ PeekStock(c) PROVE Quiet
  <2>1. legacy # Missing => inherited
    BY DEF UnitsInv
  <2> QED
    BY <1>2, <2>1 DEF TypeOK, Quiet, EnsureStockKey, AfterEnsure, PeekStock
<1>3. ASSUME NEW c \in Calls, CopyLegacyStock(c) PROVE UnitsInv'
  <2>1. inherited /\ pc[c] = "copy"
    BY <1>3 DEF CopyLegacyStock, UnitsInv
  <2>2. \A d \in Calls : pc'[d] = "copy" => inherited'
    BY <1>3, <2>1 DEF CopyLegacyStock, UnitsInv
  <2>3. UNCHANGED <<legacy, reserved, cleaned, inherited>>
    BY <1>3 DEF CopyLegacyStock
  <2>4. CASE stock = Missing
    <3>1. stock' = Stock0
      BY <1>3, <2>4 DEF CopyLegacyStock
    <3>2. ~cleaned => reserved = {} /\ Cardinality(reserved) = 0
      BY <2>4, ReservedSize DEF UnitsInv
    <3> QED
      BY <2>1, <2>2, <2>3, <3>1, <3>2, StockAssumption DEF UnitsInv, Units
  <2>5. CASE stock # Missing
    BY <1>3, <2>1, <2>2, <2>3, <2>5 DEF CopyLegacyStock, UnitsInv, Units
  <2> QED
    BY <2>4, <2>5
<1>4. ASSUME NEW c \in Calls, DeductStockOrder(c) \/ DeductLost(c) PROVE UnitsInv'
  <2>1. /\ stock \in Nat /\ stock >= 1 /\ stock' = stock - 1 /\ stock' # Missing /\ stock # Missing
        /\ OrderOf[c] \in Orders \ reserved /\ reserved' = reserved \cup {OrderOf[c]}
        /\ UNCHANGED <<legacy, cleaned, inherited>>
    BY <1>4, StockAssumption DEF DeductStockOrder, DeductLost, TakeUnit, TypeOK
  <2>2. Cardinality(reserved') = Cardinality(reserved) + 1 /\ Cardinality(reserved) \in Nat
    BY <2>1, ReservedSize
  <2>3. \A d \in Calls : pc'[d] = "copy" => inherited'
    BY <1>4, <2>1 DEF DeductStockOrder, DeductLost, UnitsInv, TypeOK
  <2> QED
    BY <2>1, <2>2, <2>3, StockAssumption DEF UnitsInv, Units
<1>5. ASSUME NEW c \in Calls, ReleaseStockOrder(c) PROVE UnitsInv'
  <2>1. \A d \in Calls : pc'[d] = "copy" => inherited'
    BY <1>5 DEF ReleaseStockOrder, UnitsInv, TypeOK
  <2>2. UNCHANGED <<legacy, cleaned, inherited>>
    BY <1>5 DEF ReleaseStockOrder
  <2>3. CASE OrderOf[c] \notin reserved
    BY <1>5, <2>1, <2>2, <2>3 DEF ReleaseStockOrder, ReturnUnit, UnitsInv, Units
  <2>4. CASE OrderOf[c] \in reserved
    <3>1. Cardinality(reserved') = Cardinality(reserved) - 1 /\ Cardinality(reserved) \in Nat
      BY <1>5, <2>4, ReservedSize DEF ReleaseStockOrder, ReturnUnit
    <3>2. stock = Missing => cleaned /\ stock' = 1 /\ legacy = Missing
      BY <1>5, <2>4 DEF ReleaseStockOrder, ReturnUnit, UnitsInv
    <3>3. stock # Missing => stock \in Nat /\ stock' = stock + 1
      BY <1>5, <2>4 DEF ReleaseStockOrder, ReturnUnit, TypeOK
    <3>4. stock' \in Nat /\ stock' # Missing
      BY <3>2, <3>3, StockAssumption
    <3> QED
      BY <2>1, <2>2, <3>1, <3>2, <3>3, <3>4, StockAssumption DEF UnitsInv, Units
  <2> QED
    BY <2>3, <2>4
<1>6. ASSUME CleanupActivityStock PROVE UnitsInv'
  <2>1. ~inherited => Cardinality(reserved) <= Stock0
    <3>1. ASSUME ~inherited PROVE stock # Missing /\ stock \in Nat
      BY <1>6, <3>1, StockAssumption DEF CleanupActivityStock, UnitsInv, TypeOK
    <3> QED
      BY <1>6, <3>1, ReservedSize, StockAssumption DEF CleanupActivityStock, UnitsInv
  <2> QED
    BY <1>6, <2>1, ReservedSize, StockAssumption DEF CleanupActivityStock, UnitsInv, Units
<1>7. ASSUME CleanupActivityPurchases \/ (\E u \in Users : PurchasesExpire(u)) \/ UNCHANGED vars
      PROVE  Quiet
  BY <1>7 DEF CleanupActivityPurchases, PurchasesExpire, vars, Quiet
<1> QED
  BY <1>0, <1>1, <1>2, <1>3, <1>4, <1>5, <1>6, <1>7
  DEF Next, Serve, Deduct, Release, Publish

(* No failure between two commands creates or loses a unit.                *)
THEOREM UnitsAreConserved == Spec => []UnitsConserved
<1>1. TypeOK /\ UnitsInv => UnitsConserved
  BY StockAssumption, ReservedSize DEF UnitsInv, UnitsConserved, Units, TypeOK
<1> QED
  BY <1>1, TypeInit, TypeStep, UnitsInit, UnitsStep, PTL DEF Spec

-----------------------------------------------------------------------------
(* Every step of the Redis store is one of the contract or changes nothing *)
(* it speaks of.                                                           *)
LEMMA ContractStep ==
  TypeOK /\ UnitsInv /\ [Next]_vars => [Contract!ContractNext]_(Contract!contractVars)
<1> SUFFICES ASSUME TypeOK, UnitsInv, [Next]_vars,
                    ~UNCHANGED Contract!contractVars
             PROVE  Contract!ContractNext
  OBVIOUS
<1> DEFINE available == IF stock = Missing THEN legacy ELSE stock
<1>0. ~(UNCHANGED <<keyVars, reserved>>)
  BY DEF Contract!contractVars
<1>1. ASSUME NEW c \in Calls, CopyLegacyStock(c) PROVE Contract!Seed
  <2>1. stock = Missing /\ stock' = Stock0 /\ UNCHANGED <<legacy, reserved>>
    BY <1>0, <1>1 DEF CopyLegacyStock
  <2>2. legacy = Missing
    BY <2>1, StockAssumption DEF UnitsInv, Contract!contractVars
  <2> QED
    BY <2>1, <2>2, StockAssumption DEF Contract!Seed
<1>2. ASSUME NEW c \in Calls, DeductStockOrder(c) \/ DeductLost(c) PROVE Contract!Deduct(OrderOf[c])
  <2>1. TakeUnit(c) /\ stock \in Nat /\ stock - 1 # Missing
    BY <1>2, StockAssumption DEF DeductStockOrder, DeductLost, TakeUnit, TypeOK
  <2> QED
    BY <2>1 DEF TakeUnit, Contract!Deduct
<1>3. ASSUME NEW c \in Calls, ReleaseStockOrder(c) PROVE Contract!GiveBack(OrderOf[c])
  <2>1. ReturnUnit(c) /\ UNCHANGED legacy
    BY <1>3 DEF ReleaseStockOrder
  <2>2. OrderOf[c] \in reserved
    BY <1>0, <2>1 DEF ReturnUnit
  <2>3. stock = Missing => legacy = Missing
    BY <2>2 DEF UnitsInv
  <2>4. stock' \in Nat /\ stock' # Missing
    BY <2>1, <2>2, StockAssumption DEF ReturnUnit, TypeOK
  <2> QED
    BY <2>1, <2>2, <2>3, <2>4 DEF ReturnUnit, Contract!GiveBack
<1>4. ASSUME CleanupActivityStock PROVE Contract!CleanUp
  BY <1>4 DEF CleanupActivityStock, Contract!CleanUp
<1>5. ASSUME NEW c \in Calls, DeductStockOrder(c) \/ DeductLost(c) \/ ReleaseStockOrder(c)
      PROVE  OrderOf[c] \in Orders
  BY StockAssumption
<1>6. \A c \in Calls :
         ~(Begin(c) \/ CommandFails(c) \/ Crash(c) \/ EnsureStockKey(c) \/ CheckLimit(c)
           \/ DeductRefused(c) \/ RollbackLimit(c) \/ Expire(c) \/ ReleaseRefused(c)
           \/ Uncount(c) \/ Publish(c))
  BY <1>0 DEF Begin, CommandFails, Crash, EnsureStockKey, CheckLimit, DeductRefused,
     RollbackLimit, Expire, ReleaseRefused, Uncount, Publish, PeekStock, PublishLocal,
     PublishRemote
<1>7. ~CleanupActivityPurchases /\ ~UNCHANGED vars /\ \A u \in Users : ~PurchasesExpire(u)
  BY <1>0 DEF CleanupActivityPurchases, PurchasesExpire, vars
<1> QED
  BY <1>1, <1>2, <1>3, <1>4, <1>5, <1>6, <1>7
  DEF Next, Serve, Deduct, Release, Contract!ContractNext

(* The Redis store implements the contract of the in-memory store.         *)
THEOREM Refinement == Spec => ImplementsContract
<1>1. Init => Contract!ContractInit
  <2> SUFFICES ASSUME Init PROVE Contract!ContractInit
    OBVIOUS
  <2>1. reserved = {} /\ (IF stock = Missing THEN legacy ELSE stock) = Stock0
    BY StockAssumption, Zenon DEF Init
  <2> QED
    BY <2>1 DEF Contract!ContractInit
<1> QED
  BY <1>1, TypeInit, TypeStep, UnitsInit, UnitsStep, ContractStep, PTL
  DEF Spec, ImplementsContract, Contract!ContractSpec

-----------------------------------------------------------------------------
(* The limit: a buyer's count covers what he holds and every call of his   *)
(* that has counted a unit it does not hold, or no longer holds.           *)
Counting(u) ==
  {c \in Calls : Buyer(c) = u /\ pc[c] \in {"deduct", "refuse", "fail", "uncount"}}

CountInv ==
  Limit > 0 => \A u \in Users :
    /\ purchases[u] <= Limit
    /\ u \notin loose => Cardinality(HeldBy(u)) + Cardinality(Counting(u)) <= purchases[u]

(* Both sets are finite.                                                   *)
LEMMA BothFinite ==
  ASSUME TypeOK, NEW u
  PROVE  /\ IsFiniteSet(HeldBy(u)) /\ IsFiniteSet(Counting(u))
         /\ Cardinality(HeldBy(u)) \in Nat /\ Cardinality(Counting(u)) \in Nat
<1>1. HeldBy(u) \subseteq Orders /\ Counting(u) \subseteq Calls
  BY DEF HeldBy, Counting, TypeOK
<1> QED
  BY <1>1, FS_Subset, FS_CardinalityType, StockAssumption

(* A step of one call that moves at most its own buyer's claim, and keeps  *)
(* the balance of that buyer unless his count is loose.                    *)
LEMMA OneCall ==
  ASSUME TypeOK, TypeOK', CountInv, Limit > 0, NEW c \in Calls,
         \A d \in Calls \ {c} : pc'[d] = pc[d],
         \A u \in Users \ {Buyer(c)} : purchases'[u] = purchases[u],
         reserved' \ {OrderOf[c]} = reserved \ {OrderOf[c]},
         loose \subseteq loose',
         purchases'[Buyer(c)] <= Limit,
         Buyer(c) \notin loose' =>
           Cardinality(HeldBy(Buyer(c)))' + Cardinality(Counting(Buyer(c)))' <= purchases'[Buyer(c)]
  PROVE  CountInv'
<1> SUFFICES ASSUME NEW u \in Users
             PROVE  /\ purchases'[u] <= Limit
                    /\ u \notin loose' =>
                         Cardinality(HeldBy(u))' + Cardinality(Counting(u))' <= purchases'[u]
  BY DEF CountInv
<1>1. CASE u = Buyer(c)
  BY <1>1
<1>2. CASE u # Buyer(c)
  <2>1. HeldBy(u)' = HeldBy(u)
    BY <1>2 DEF HeldBy
  <2>2. Counting(u)' = Counting(u)
    BY <1>2 DEF Counting
  <2> QED
    BY <1>2, <2>1, <2>2 DEF CountInv
<1> QED
  BY <1>1, <1>2

(* A step of one call that leaves reservations and counts alone, and does  *)
(* not enter a step that has counted.                                      *)
LEMMA CountUntouched ==
  ASSUME TypeOK, TypeOK', CountInv,
         UNCHANGED <<reserved, purchases, loose>>,
         \A c \in Calls : pc'[c] \in {"deduct", "refuse", "fail", "uncount"} =>
                            Limit = 0 \/ pc[c] \in {"deduct", "refuse", "fail", "uncount"}
  PROVE  CountInv'
<1> SUFFICES ASSUME Limit > 0, NEW u \in Users
             PROVE  /\ purchases'[u] <= Limit
                    /\ u \notin loose' =>
                         Cardinality(HeldBy(u))' + Cardinality(Counting(u))' <= purchases'[u]
  BY DEF CountInv
<1>1. Counting(u)' \subseteq Counting(u)
  BY StockAssumption DEF Counting
<1>2. Cardinality(Counting(u)') <= Cardinality(Counting(u)) /\ Cardinality(Counting(u)') \in Nat
  BY <1>1, BothFinite, FS_Subset, FS_CardinalityType
<1>3. HeldBy(u)' = HeldBy(u)
  BY DEF HeldBy
<1> QED
  BY <1>2, <1>3, BothFinite, StockAssumption DEF CountInv, TypeOK

(* What a step of call c does to the sizes of its buyer's two sets.        *)
LEMMA Sizes ==
  ASSUME TypeOK, TypeOK', NEW c \in Calls,
         \A d \in Calls \ {c} : pc'[d] = pc[d],
         NEW u, u = Buyer(c)
  PROVE  /\ pc[c] \in {"deduct", "refuse", "fail", "uncount"}
            /\ pc'[c] \notin {"deduct", "refuse", "fail", "uncount"}
              => Cardinality(Counting(u)') = Cardinality(Counting(u)) - 1
         /\ pc[c] \notin {"deduct", "refuse", "fail", "uncount"}
            /\ pc'[c] \in {"deduct", "refuse", "fail", "uncount"}
              => Cardinality(Counting(u)') = Cardinality(Counting(u)) + 1
         /\ pc[c] \notin {"deduct", "refuse", "fail", "uncount"}
            /\ pc'[c] \notin {"deduct", "refuse", "fail", "uncount"}
              => Counting(u)' = Counting(u)
         /\ OrderOf[c] \notin reserved /\ reserved' = reserved \cup {OrderOf[c]}
              => Cardinality(HeldBy(u)') = Cardinality(HeldBy(u)) + 1
         /\ OrderOf[c] \in reserved /\ reserved' = reserved \ {OrderOf[c]}
              => Cardinality(HeldBy(u)') = Cardinality(HeldBy(u)) - 1
         /\ reserved' = reserved => HeldBy(u)' = HeldBy(u)
<1> DEFINE In == {"deduct", "refuse", "fail", "uncount"}
<1>1. ASSUME pc[c] \in In, pc'[c] \notin In
      PROVE  Cardinality(Counting(u)') = Cardinality(Counting(u)) - 1
  <2>1. c \in Counting(u) /\ Counting(u)' = Counting(u) \ {c}
    BY <1>1 DEF Counting
  <2> QED
    BY <2>1, BothFinite, FS_RemoveElement
<1>2. ASSUME pc[c] \notin In, pc'[c] \in In
      PROVE  Cardinality(Counting(u)') = Cardinality(Counting(u)) + 1
  <2>1. c \notin Counting(u) /\ Counting(u)' = Counting(u) \cup {c}
    BY <1>2 DEF Counting
  <2> QED
    BY <2>1, BothFinite, FS_AddElement
<1>3. ASSUME pc[c] \notin In, pc'[c] \notin In PROVE Counting(u)' = Counting(u)
  BY <1>3 DEF Counting
<1>4. ASSUME OrderOf[c] \notin reserved, reserved' = reserved \cup {OrderOf[c]}
      PROVE  Cardinality(HeldBy(u)') = Cardinality(HeldBy(u)) + 1
  <2>1. OrderOf[c] \notin HeldBy(u) /\ HeldBy(u)' = HeldBy(u) \cup {OrderOf[c]}
    BY <1>4 DEF HeldBy
  <2> QED
    BY <2>1, BothFinite, FS_AddElement
<1>5. ASSUME OrderOf[c] \in reserved, reserved' = reserved \ {OrderOf[c]}
      PROVE  Cardinality(HeldBy(u)') = Cardinality(HeldBy(u)) - 1
  <2>1. OrderOf[c] \in HeldBy(u) /\ HeldBy(u)' = HeldBy(u) \ {OrderOf[c]}
    BY <1>5 DEF HeldBy
  <2> QED
    BY <2>1, BothFinite, FS_RemoveElement
<1>6. reserved' = reserved => HeldBy(u)' = HeldBy(u)
  BY DEF HeldBy
<1> QED
  BY <1>1, <1>2, <1>3, <1>4, <1>5, <1>6

(* No buyer holds or claims anything at first.                             *)
LEMMA CountInit == Init => CountInv
<1> SUFFICES ASSUME Init, Limit > 0, NEW u \in Users
             PROVE  /\ purchases[u] <= Limit
                    /\ Cardinality(HeldBy(u)) + Cardinality(Counting(u)) <= purchases[u]
  BY DEF CountInv
<1>1. HeldBy(u) = {}
  BY Zenon DEF Init, HeldBy
<1>2. Counting(u) = {}
  BY SMT DEF Init, Counting
<1>3. purchases[u] = 0
  BY SMT DEF Init
<1> QED
  BY <1>1, <1>2, <1>3, FS_EmptySet, StockAssumption

(* The count goes up before the unit is taken and down after it is given   *)
(* back; only a lost deduction and a second release break the balance, and *)
(* they make the buyer's count loose.                                      *)
LEMMA CountStep == TypeOK /\ CountInv /\ [Next]_vars => CountInv'
<1> SUFFICES ASSUME TypeOK, CountInv, [Next]_vars PROVE CountInv'
  OBVIOUS
<1>0. TypeOK'
  BY TypeStep
<1> DEFINE In == {"deduct", "refuse", "fail", "uncount"}
           Quiet == /\ UNCHANGED <<reserved, purchases, loose>>
                    /\ \A c \in Calls : pc'[c] \in In => Limit = 0 \/ pc[c] \in In
<1>q. Quiet => CountInv'
  BY <1>0, CountUntouched
<1>1. ASSUME NEW c \in Calls,
             Begin(c) \/ CommandFails(c) \/ Crash(c) \/ EnsureStockKey(c) \/ CopyLegacyStock(c)
             \/ DeductRefused(c) \/ Expire(c) \/ ReleaseRefused(c) \/ Publish(c)
      PROVE  Quiet
  <2> USE DEF TypeOK
  <2>1. CASE Begin(c)
    BY <2>1 DEF Begin
  <2>2. CASE CommandFails(c)
    BY <2>2 DEF CommandFails
  <2>3. CASE Crash(c)
    BY <2>3 DEF Crash
  <2>4. CASE EnsureStockKey(c)
    BY <2>4, StockAssumption DEF EnsureStockKey, AfterEnsure
  <2>5. CASE CopyLegacyStock(c)
    BY <2>5 DEF CopyLegacyStock
  <2>6. CASE DeductRefused(c)
    BY <2>6 DEF DeductRefused
  <2>7. CASE Expire(c)
    BY <2>7 DEF Expire
  <2>8. CASE ReleaseRefused(c)
    BY <2>8 DEF ReleaseRefused
  <2>9. CASE Publish(c)
    BY <2>9 DEF Publish, PeekStock, PublishLocal, PublishRemote
  <2> QED
    BY <1>1, <2>1, <2>2, <2>3, <2>4, <2>5, <2>6, <2>7, <2>8, <2>9
<1>2. ASSUME NEW c \in Calls, Limit > 0,
             CheckLimit(c) \/ DeductStockOrder(c) \/ DeductLost(c) \/ RollbackLimit(c)
             \/ ReleaseStockOrder(c) \/ Uncount(c)
      PROVE  CountInv'
  <2> DEFINE b == Buyer(c)
  <2>1. /\ b \in Users /\ OrderOf[c] \in Orders
        /\ purchases[b] \in Int /\ purchases'[b] \in Int /\ purchases[b] <= Limit
        /\ b \notin loose => Cardinality(HeldBy(b)) + Cardinality(Counting(b)) <= purchases[b]
        /\ Cardinality(HeldBy(b)) \in Nat /\ Cardinality(Counting(b)) \in Nat
    BY <1>0, <1>2, BothFinite, StockAssumption DEF CountInv, TypeOK
  <2>2. \A d \in Calls \ {c} : pc'[d] = pc[d]
    BY <1>2 DEF CheckLimit, DeductStockOrder, DeductLost, RollbackLimit, ReleaseStockOrder, Uncount, TypeOK
  <2> DEFINE Kept == /\ \A u \in Users \ {b} : purchases'[u] = purchases[u]
                     /\ reserved' \ {OrderOf[c]} = reserved \ {OrderOf[c]}
                     /\ loose \subseteq loose'
                     /\ purchases'[b] <= Limit
                     /\ b \notin loose' =>
                          Cardinality(HeldBy(b)') + Cardinality(Counting(b)') <= purchases'[b]
  <2>3. Kept => CountInv'
    BY <1>0, <1>2, <2>1, <2>2, OneCall
  <2>4. CASE CheckLimit(c)
    <3> USE <2>4 DEF CheckLimit, TypeOK
    <3>1. UNCHANGED <<reserved, loose>> /\ pc[c] = "limit"
      OBVIOUS
    <3>2. \A u \in Users \ {b} : purchases'[u] = purchases[u]
      OBVIOUS
    <3>3. \/ pc'[c] = "deduct" /\ purchases'[b] = purchases[b] + 1 /\ purchases[b] + 1 <= Limit
          \/ pc'[c] = "refused" /\ purchases'[b] = purchases[b]
          \/ pc'[c] = "error" /\ purchases'[b] = purchases[b] + 1 /\ purchases[b] + 1 <= Limit
      BY <2>1
    <3>4. HeldBy(b)' = HeldBy(b)
      BY <3>1 DEF HeldBy
    <3>5. /\ pc'[c] = "deduct" => Cardinality(Counting(b)') = Cardinality(Counting(b)) + 1
          /\ pc'[c] # "deduct" => Counting(b)' = Counting(b)
      BY <1>0, <2>1, <2>2, <3>1, <3>3, Sizes
    <3> QED
      BY <2>1, <2>3, <3>1, <3>2, <3>3, <3>4, <3>5, StockAssumption
  <2>5. CASE DeductStockOrder(c)
    <3>1. /\ pc[c] = "deduct" /\ pc'[c] = "expire"
          /\ OrderOf[c] \notin reserved /\ reserved' = reserved \cup {OrderOf[c]}
          /\ UNCHANGED <<purchases, loose>>
      BY <1>2, <2>5, StockAssumption DEF DeductStockOrder, TakeUnit, TypeOK
    <3>2. /\ Cardinality(Counting(b)') = Cardinality(Counting(b)) - 1
          /\ Cardinality(HeldBy(b)') = Cardinality(HeldBy(b)) + 1
      BY <1>0, <2>1, <2>2, <3>1, Sizes
    <3> QED
      BY <2>1, <2>3, <3>1, <3>2
  <2>6. CASE DeductLost(c)
    BY <2>1, <2>3, <2>6 DEF DeductLost, TakeUnit
  <2>7. CASE RollbackLimit(c) \/ Uncount(c)
    <3>1. /\ pc[c] \in In /\ pc'[c] \notin In
          /\ purchases'[b] = purchases[b] - 1
          /\ \A u \in Users \ {b} : purchases'[u] = purchases[u]
          /\ UNCHANGED <<reserved, loose>>
      BY <2>1, <2>7 DEF RollbackLimit, Uncount, TypeOK
    <3>2. /\ Cardinality(Counting(b)') = Cardinality(Counting(b)) - 1
          /\ HeldBy(b)' = HeldBy(b)
      BY <1>0, <2>1, <2>2, <3>1, Sizes
    <3> QED
      BY <2>1, <2>3, <3>1, <3>2, StockAssumption
  <2>8. CASE ReleaseStockOrder(c)
    <3>1. /\ pc[c] = "give" /\ pc'[c] \in {"uncount", "error"}
          /\ reserved' = reserved \ {OrderOf[c]} /\ UNCHANGED purchases
          /\ OrderOf[c] \in reserved => loose' = loose
          /\ OrderOf[c] \notin reserved => loose' = loose \cup {b}
      BY <2>8 DEF ReleaseStockOrder, ReturnUnit, TypeOK
    <3>2. /\ Cardinality(Counting(b)') <= Cardinality(Counting(b)) + 1
          /\ Cardinality(Counting(b)') \in Nat
      BY <1>0, <2>1, <2>2, <3>1, Sizes
    <3>3. OrderOf[c] \in reserved => Cardinality(HeldBy(b)') = Cardinality(HeldBy(b)) - 1
      BY <1>0, <2>1, <2>2, <3>1, Sizes
    <3> QED
      BY <2>1, <2>3, <3>1, <3>2, <3>3
  <2> QED
    BY <1>2, <2>4, <2>5, <2>6, <2>7, <2>8
<1>3. ASSUME Limit = 0 PROVE CountInv'
  BY <1>3 DEF CountInv
<1>4. CASE CleanupActivityStock \/ UNCHANGED vars
  <2>1. Quiet
    BY <1>4 DEF CleanupActivityStock, vars
  <2> QED
    BY <1>q, <2>1
<1>5. CASE CleanupActivityPurchases
  BY <1>5, StockAssumption DEF CleanupActivityPurchases, CountInv
<1>6. ASSUME NEW v \in Users, PurchasesExpire(v) PROVE CountInv'
  <2> SUFFICES ASSUME Limit > 0, NEW u \in Users
               PROVE  /\ purchases'[u] <= Limit
                      /\ u \notin loose' =>
                           Cardinality(HeldBy(u))' + Cardinality(Counting(u))' <= purchases'[u]
    BY DEF CountInv
  <2>1. HeldBy(u)' = HeldBy(u) /\ Counting(u)' = Counting(u)
    BY <1>6 DEF PurchasesExpire, HeldBy, Counting
  <2>2. u # v => purchases'[u] = purchases[u] /\ (u \notin loose' => u \notin loose)
    BY <1>6 DEF PurchasesExpire, TypeOK
  <2>3. u = v => purchases'[u] = 0 /\ u \in loose'
    BY <1>6 DEF PurchasesExpire, TypeOK
  <2> QED
    BY <2>1, <2>2, <2>3, StockAssumption DEF CountInv
<1>7. Limit = 0 \/ Limit > 0
  BY StockAssumption
<1> QED
  BY <1>q, <1>1, <1>2, <1>3, <1>4, <1>5, <1>6, <1>7
  DEF Next, Serve, Deduct, Release

(* Whatever the order of the calls, a buyer whose count did not come loose *)
(* holds no more than the limit.                                           *)
THEOREM LimitIsCovered == Spec => []LimitCovers
<1>1. TypeOK /\ CountInv => LimitCovers
  <2> SUFFICES ASSUME TypeOK, CountInv, Limit > 0, NEW u \in Users \ loose
               PROVE  /\ Cardinality(HeldBy(u)) <= purchases[u]
                      /\ Cardinality(HeldBy(u)) <= Limit
    BY DEF LimitCovers
  <2> QED
    BY BothFinite, StockAssumption DEF CountInv, TypeOK
<1> QED
  BY <1>1, TypeInit, TypeStep, CountInit, CountStep, PTL DEF Spec

-----------------------------------------------------------------------------
(* The ledger: an order number is released only after its one reserve call *)
(* has come back.                                                          *)
LedgerInv ==
  /\ \A c \in Calls : pc[c] \in {"limit", "deduct", "refuse", "fail", "expire"} => Op[c] = "reserve"
  /\ \A c \in Calls : Op[c] = "release" /\ pc[c] # "new" =>
       \E d \in Calls : Op[d] = "reserve" /\ OrderOf[d] = OrderOf[c] /\ pc[d] = "ok"
  /\ \A c \in Calls : Op[c] = "release" /\ pc[c] \in {"uncount", "peek", "local"} =>
       OrderOf[c] \notin reserved
  /\ \A o \in releases :
       /\ o \notin reserved
       /\ \E d \in Calls : Op[d] = "reserve" /\ OrderOf[d] = o /\ pc[d] = "ok"

(* The ledger is empty at first.                                           *)
LEMMA LedgerInit == Init => LedgerInv
<1> SUFFICES ASSUME Init PROVE LedgerInv
  OBVIOUS
<1>1. releases = {}
  BY Zenon DEF Init
<1>2. \A c \in Calls : pc[c] = "new"
  BY SMT DEF Init
<1> QED
  BY <1>1, <1>2 DEF LedgerInv

(* A confirmed call takes no further step, so nothing reserves an order    *)
(* number again once a release of it has begun.                            *)
LEMMA LedgerStep == TypeOK /\ LedgerInv /\ [Next]_vars => LedgerInv'
<1> SUFFICES ASSUME TypeOK, LedgerInv, [Next]_vars PROVE LedgerInv'
  OBVIOUS
<1> USE DEF TypeOK
<1> DEFINE Confirmed(o) == \E d \in Calls : Op[d] = "reserve" /\ OrderOf[d] = o /\ pc[d] = "ok"
           Limiting == {"limit", "deduct", "refuse", "fail", "expire"}
           Given == {"uncount", "peek", "local"}
<1>1. \A d \in Calls : pc[d] = "ok" => pc'[d] = "ok"
  BY DEF Next, Serve, Deduct, Release, Publish, Begin, CommandFails, Crash, EnsureStockKey,
     AfterEnsure, CopyLegacyStock, CheckLimit, DeductStockOrder, DeductRefused, DeductLost, RollbackLimit,
     Expire, ReleaseStockOrder, ReleaseRefused, Uncount, PeekStock, PublishLocal,
     PublishRemote, CleanupActivityStock, CleanupActivityPurchases, PurchasesExpire, vars,
     TakeUnit, ReturnUnit
<1>2. \A d \in Calls : pc'[d] \in Limiting => Op[d] = "reserve"
  BY StockAssumption DEF LedgerInv, Next, Serve, Deduct, Release, Publish, Begin, CommandFails, Crash, EnsureStockKey,
     AfterEnsure, CopyLegacyStock, CheckLimit, DeductStockOrder, DeductRefused, DeductLost, RollbackLimit,
     Expire, ReleaseStockOrder, ReleaseRefused, Uncount, PeekStock, PublishLocal,
     PublishRemote, CleanupActivityStock, CleanupActivityPurchases, PurchasesExpire, vars,
     TakeUnit, ReturnUnit
<1>3. \A o \in reserved' \ reserved :
        \E d \in Calls : Op[d] = "reserve" /\ OrderOf[d] = o /\ pc[d] = "deduct"
  BY DEF LedgerInv, Next, Serve, Deduct, Release, Publish, Begin, CommandFails, Crash, EnsureStockKey,
     AfterEnsure, CopyLegacyStock, CheckLimit, DeductStockOrder, DeductRefused, DeductLost, RollbackLimit,
     Expire, ReleaseStockOrder, ReleaseRefused, Uncount, PeekStock, PublishLocal,
     PublishRemote, CleanupActivityStock, CleanupActivityPurchases, PurchasesExpire, vars,
     TakeUnit, ReturnUnit
<1>4. \A d \in Calls : Op[d] = "release" /\ pc'[d] # "new" => Confirmed(OrderOf[d])
  BY DEF LedgerInv, Next, Serve, Deduct, Release, Publish, Begin, CommandFails, Crash, EnsureStockKey,
     AfterEnsure, CopyLegacyStock, CheckLimit, DeductStockOrder, DeductRefused, DeductLost, RollbackLimit,
     Expire, ReleaseStockOrder, ReleaseRefused, Uncount, PeekStock, PublishLocal,
     PublishRemote, CleanupActivityStock, CleanupActivityPurchases, PurchasesExpire, vars,
     TakeUnit, ReturnUnit
<1>5. \A d \in Calls : Op[d] = "release" /\ pc'[d] \in Given =>
                         pc[d] \in Given \/ OrderOf[d] \notin reserved'
  BY StockAssumption DEF LedgerInv, Next, Serve, Deduct, Release, Publish, Begin, CommandFails, Crash, EnsureStockKey,
     AfterEnsure, CopyLegacyStock, CheckLimit, DeductStockOrder, DeductRefused, DeductLost, RollbackLimit,
     Expire, ReleaseStockOrder, ReleaseRefused, Uncount, PeekStock, PublishLocal,
     PublishRemote, CleanupActivityStock, CleanupActivityPurchases, PurchasesExpire, vars,
     TakeUnit, ReturnUnit
<1>6. \A o \in releases' \ releases :
        \E d \in Calls : Op[d] = "release" /\ OrderOf[d] = o /\ pc[d] = "local"
  BY DEF Next, Serve, Deduct, Release, Publish, Begin, CommandFails, Crash, EnsureStockKey,
     AfterEnsure, CopyLegacyStock, CheckLimit, DeductStockOrder, DeductRefused, DeductLost, RollbackLimit,
     Expire, ReleaseStockOrder, ReleaseRefused, Uncount, PeekStock, PublishLocal,
     PublishRemote, CleanupActivityStock, CleanupActivityPurchases, PurchasesExpire, vars,
     TakeUnit, ReturnUnit
<1>7. \A o : Confirmed(o) /\ o \notin reserved => o \notin reserved'
  BY <1>3, OneReserveEach
<1>8. \A o : Confirmed(o) =>
        \E d \in Calls : Op[d] = "reserve" /\ OrderOf[d] = o /\ pc'[d] = "ok"
  BY <1>1
<1>9. \A d \in Calls : Op[d] = "release" /\ pc'[d] \in Given => OrderOf[d] \notin reserved'
  BY <1>4, <1>5, <1>7 DEF LedgerInv
<1>10. \A o \in releases' : Confirmed(o) /\ o \notin reserved'
  <2> SUFFICES ASSUME NEW o \in releases' PROVE Confirmed(o) /\ o \notin reserved'
    OBVIOUS
  <2>1. Confirmed(o) /\ o \notin reserved
    BY <1>6 DEF LedgerInv
  <2> QED
    BY <1>7, <2>1
<1> QED
  BY <1>2, <1>4, <1>8, <1>9, <1>10 DEF LedgerInv

(* The ledger never shows a release whose unit is still held.              *)
THEOREM LedgerIsNotEarly == Spec => []LedgerNotEarly
<1>1. LedgerInv => LedgerNotEarly
  BY DEF LedgerInv, LedgerNotEarly
<1> QED
  BY <1>1, TypeInit, TypeStep, LedgerInit, LedgerStep, PTL DEF Spec
=============================================================================
