SPECIFICATION FairSpec
CONSTANTS
  Activities = {a1, a2}
  Sample = a1
  Requests = {r1}
  Units = 1
  Deployments <- SomeDeployments
  Windows <- SomeWindows
  SaleTime = 4
  GatewayTTL = 1
  LocalTTL = 0
  RedisTTL = 1
  RpcTime = 1
  MaxTime = 3
  MaxEdits = 1
  Faults = {"error", "lost", "restart"}
  MaxFaults = 1
INVARIANTS TypeOK SoldOnce
PROPERTIES VerdictsFresh JobsCatchUp
CHECK_DEADLOCK FALSE
