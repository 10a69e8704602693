SPECIFICATION Spec
CONSTANTS
  m1 = m1
  m2 = m2
  m3 = m3
  t1 = t1
  t2 = t2
  u1 = u1
  w1 = w1
  w2 = w2
  Messages = {m1, m3}
  Traces = {t1, t2}
  Users = {u1}
  Workers = {w1, w2}
  NoMessage = NoMessage
  TraceOf <- TwoTraceOf
  UserOf <- MCUserOf
  Stock0 = 1
  Limit = 0
  Faults = {"crash"}
  MaxFaults = 1
INVARIANTS
  CrashedRequestsRecover
