SPECIFICATION Spec
CONSTANTS
  Workers = {w1}
  RouteLimit = 1
  UserLimit = 0
  EntryRate = 1
  Interval = 2
  Threshold = 2
  Timeout = 1
  Deployments <- OnlyMain
  MaxSkew = 0
  MaxTime = 2
  MaxRequests = 5
  MaxChallenges = 0
  Faults = {}
  MaxFaults = 0
INVARIANTS RouteIsLimited
CHECK_DEADLOCK FALSE
