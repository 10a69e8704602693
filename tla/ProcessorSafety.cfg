SPECIFICATION Spec
CONSTANTS
  m1 = m1
  m2 = m2
  m3 = m3
  t1 = t1
  t2 = t2
  u1 = u1
  w1 = w1
  w2 = w2
  Messages = {m1, m2, m3}
  Traces = {t1, t2}
  Users = {u1}
  Workers = {w1, w2}
  NoMessage = NoMessage
  TraceOf <- MCTraceOf
  UserOf <- MCUserOf
  Stock0 = 2
  Limit = 1
  Faults = {"error", "lost", "crash", "slow", "ttl"}
  MaxFaults = 2
SYMMETRY WorkerSymmetry
INVARIANTS
  TypeOK
  StockConserved
  AnswersNameOrders
  Layer1Exclusive
  LimitHolds
  NoReservationLeaks
  OrdersTimed
  AnsweredWhenAcked
