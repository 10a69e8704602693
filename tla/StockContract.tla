---------------------------- MODULE StockContract ----------------------------
(***************************************************************************)
(* What a stock store of stock-service promises about the units of one     *)
(* SKU: the in-memory store does each operation in one critical section.   *)
(* StockStore, the Redis store, implements it.                             *)
(***************************************************************************)
EXTENDS Integers

CONSTANTS
  Orders,      \* order numbers
  Stock0,      \* units on sale
  Missing      \* the SKU has no stock key

VARIABLES
  available,   \* units left, or Missing
  held         \* order numbers with a reservation

contractVars == <<available, held>>

ContractInit == available = Stock0 /\ held = {}

(* A reserved order number is answered without a second deduction.         *)
Deduct(o) ==
  /\ available # Missing
  /\ o \notin held
  /\ available >= 1
  /\ available' = available - 1
  /\ held' = held \cup {o}

(* An order number without a reservation gives nothing back; a missing key *)
(* starts again at zero, as a Go map does.                                 *)
GiveBack(o) ==
  /\ o \in held
  /\ available' = IF available = Missing THEN 1 ELSE available + 1
  /\ held' = held \ {o}

(* The stock goes, the reservations stay.                                  *)
CleanUp ==
  /\ available' = Missing
  /\ UNCHANGED held

(* A missing key may be seeded again, which only the Redis store does.     *)
Seed ==
  /\ available = Missing
  /\ available' = Stock0
  /\ UNCHANGED held

ContractNext ==
  \/ \E o \in Orders : Deduct(o) \/ GiveBack(o)
  \/ CleanUp
  \/ Seed

ContractSpec == ContractInit /\ [][ContractNext]_contractVars
=============================================================================
