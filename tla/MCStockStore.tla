---------------------------- MODULE MCStockStore ----------------------------
(* Small instances of StockStore.                                          *)
EXTENDS StockStore

CONSTANTS c1, c2, c3, d1, d2, o1, o2, o3, u1, u2

(* One reserve call per order number; o1 is released twice.                *)
OpMC == [c \in {c1, c2, c3, d1, d2} |-> IF c \in {d1, d2} THEN "release" ELSE "reserve"]
OrderOfMC == [c \in {c1, c2, c3, d1, d2} |->
                CASE c = c2 -> o2 [] c = c3 -> o3 [] OTHER -> o1]
UserOfMC == [o \in {o1, o2, o3} |-> IF o = o3 THEN u2 ELSE u1]
=============================================================================
