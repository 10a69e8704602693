SPECIFICATION Spec
CONSTANTS
  Workers = {w1, w2}
  RouteLimit = 1
  UserLimit = 1
  EntryRate = 1
  Interval = 3
  Threshold = 2
  Timeout = 1
  Deployments <- Wirings
  MaxSkew = 1
  MaxTime = 3
  MaxRequests = 5
  MaxChallenges = 1
  Faults = {"error", "lost", "ttl", "panic"}
  MaxFaults = 1
INVARIANTS TypeOK RateHolds ProbeAlone
SYMMETRY Symmetry
CHECK_DEADLOCK FALSE
