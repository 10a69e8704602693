------------------------ MODULE MCServiceDiscovery ------------------------
(* Small instances of ServiceDiscovery.                                    *)
EXTENDS ServiceDiscovery

CONSTANTS i1, i2, a1, a2, s, c1

(* Two instances with addresses of their own, or with the one name that     *)
(* docker gives the replicas of a service.                                 *)
Own == [i \in {i1, i2} |-> IF i = i1 THEN a1 ELSE a2]
Same == [i \in {i1, i2} |-> a1]

SetupsMC ==
  [mode : {"redis", "etcd"}, fallback : BOOLEAN, advertised : {Own, Same}]
    \cup [mode : {"none"}, fallback : {TRUE}, advertised : {Own}]
=============================================================================
