--------------------------- MODULE SeckillContract ---------------------------
(***************************************************************************)
(* What the asynchronous purchase promises, with no queue, no instances    *)
(* and no keys: a request gets at most one order, orders never exceed the  *)
(* units on sale nor a buyer's limit, and the answer the buyer polls moves *)
(* once, to "order" when there is one and to "failed" when there never     *)
(* will be.                                                                *)
(***************************************************************************)
EXTENDS Integers, FiniteSets

CONSTANTS Traces, UserOf, Stock0, Limit

VARIABLES
  placed,   \* requests that have an order
  told      \* the answer of each request

contractVars == <<placed, told>>

ContractInit ==
  /\ placed = {}
  /\ told = [t \in Traces |-> "pending"]

OfBuyer(u) == {t \in placed : UserOf[t] = u}

(* An order is placed only for a request that was not refused.             *)
Place(t) ==
  /\ t \notin placed
  /\ told[t] = "pending"
  /\ Cardinality(placed) < Stock0
  /\ Limit > 0 => Cardinality(OfBuyer(UserOf[t])) < Limit
  /\ placed' = placed \cup {t}
  /\ UNCHANGED told

Confirm(t) ==
  /\ t \in placed
  /\ told[t] = "pending"
  /\ told' = [told EXCEPT ![t] = "order"]
  /\ UNCHANGED placed

(* A refusal is final.                                                     *)
Refuse(t) ==
  /\ t \notin placed
  /\ told[t] = "pending"
  /\ told' = [told EXCEPT ![t] = "failed"]
  /\ UNCHANGED placed

ContractNext == \E t \in Traces : Place(t) \/ Confirm(t) \/ Refuse(t)

ContractSpec == ContractInit /\ [][ContractNext]_contractVars
=============================================================================
