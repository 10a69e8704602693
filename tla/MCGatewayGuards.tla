--------------------------- MODULE MCGatewayGuards ---------------------------
(* Small instances of GatewayGuards.                                       *)
EXTENDS GatewayGuards, TLC

(* Every limiter store, a breaker that outlives a request alone, behind a  *)
(* limiter and before part-in, and the per-request wiring of main.go.      *)
Wirings ==
  { <<"local", "shared", "other">>, <<"redis", "off", "other">>, <<"off", "shared", "other">>,
    <<"off", "shared", "partIn">>, <<"off", "off", "partIn">>,
    <<"perRequest", "perRequest", "other">> }

OnlyMain == { <<"perRequest", "perRequest", "other">> }

Symmetry == Permutations(Workers)
=============================================================================
