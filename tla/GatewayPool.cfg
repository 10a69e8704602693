SPECIFICATION FairSpec
CONSTANTS
  r1 = r1
  r2 = r2
  r3 = r3
  t1 = t1
  t2 = t2
  u1 = u1
  Requests = {r1, r2, r3}
  Traces = {t1, t2}
  Users = {u1}
  TraceOf <- TraceOfRetry
  UserOf <- OneBuyer
  Workers = {w1}
  QueueSize = 1
  NoRequest = NoRequest
  NoTrace = NoTrace
  Stock0 = 2
  Limit = 0
  ListLimit = 1
  Faults = {"error", "lost", "crash", "ttl"}
  MaxFaults = 1
INVARIANTS
  TypeOK
  AnswerSurvives
  RejectedNeverPublished
PROPERTIES
  AcceptedIsAnswered
  OrderIsShown
CHECK_DEADLOCK FALSE
