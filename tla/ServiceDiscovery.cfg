SPECIFICATION FairSpec
CONSTANTS
  i1 = i1
  i2 = i2
  a1 = a1
  a2 = a2
  s = s
  c1 = c1
  Instances = {i1, i2}
  Clients = {c1}
  Addresses = {a1, a2}
  Static = {s}
  Setups <- SetupsMC
  TTL = 3
  Configured = 1
  MaxStarts = 3
  Faults = {"error", "lost", "slow"}
  MaxFaults = 2
INVARIANT TypeOK
PROPERTIES StaysListed DeadLeave WatchersAgree
CHECK_DEADLOCK FALSE
