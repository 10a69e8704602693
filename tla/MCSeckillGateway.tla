-------------------------- MODULE MCSeckillGateway --------------------------
(* Small instances of SeckillGateway.                                      *)
EXTENDS SeckillGateway

CONSTANTS r1, r2, r3, t1, t2, u1

(* One buyer: r1 and r2 carry traces of their own or share one, r3 is a    *)
(* second call for t2.                                                     *)
TraceOfRetry == [r \in {r1, r2, r3} |-> IF r = r1 THEN t1 ELSE t2]
OneBuyer == [t \in {t1, t2} |-> u1]
=============================================================================
