------------------------- MODULE MCSeckillProcessor -------------------------
(* Small instances of SeckillProcessor: one buyer with two requests, the   *)
(* first of which was published twice.                                     *)
EXTENDS SeckillProcessor, TLC

CONSTANTS m1, m2, m3, t1, t2, u1, w1, w2

MCTraceOf == (m1 :> t1) @@ (m2 :> t1) @@ (m3 :> t2)
MCUserOf  == (t1 :> u1) @@ (t2 :> u1)
TwoTraceOf == (m1 :> t1) @@ (m3 :> t2)

WorkerSymmetry == Permutations({w1, w2})
=============================================================================
