-------------------------- MODULE MCOrderLifecycle --------------------------
(* Small instances of OrderLifecycle.                                      *)
EXTENDS OrderLifecycle, TLC

CONSTANTS r1, r2, w1, w2

Symmetry == Permutations({r1, r2}) \cup Permutations({w1, w2})
=============================================================================
