SPECIFICATION Spec
CONSTANTS
  r1 = r1
  r2 = r2
  w1 = w1
  w2 = w2
  Orders = {o1}
  Replicas = {r1, r2}
  Timers = {w1, w2}
  Callers = {c1}
  Sweepers = {s1}
  NoOrder = NoOrder
  Droppable = {}
  Faults = {"error", "lost", "terminal", "crash", "slow", "wipe"}
  MaxFaults = 1
SYMMETRY Symmetry
INVARIANTS
  TypeOK
  PendingKeepsUnits
  TimeoutSparesPaid
PROPERTIES
  AskersMarkCharged
