SPECIFICATION Spec
CONSTANTS
  c1 = c1
  c2 = c2
  c3 = c3
  d1 = d1
  d2 = d2
  o1 = o1
  o2 = o2
  o3 = o3
  u1 = u1
  u2 = u2
  Calls = {c1, c2, c3, d1, d2}
  Op <- OpMC
  Orders = {o1, o2, o3}
  OrderOf <- OrderOfMC
  Users = {u1, u2}
  UserOf <- UserOfMC
  Stock0 = 2
  Limit = 1
  Missing = Missing
  Faults = {"error", "lost", "crash", "ttl"}
  MaxFaults = 2
INVARIANTS TypeOK UnitsConserved LimitCovers LedgerNotEarly
PROPERTY ImplementsContract
CHECK_DEADLOCK FALSE
