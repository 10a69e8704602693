------------------------- MODULE SeckillContractProofs -------------------------
(***************************************************************************)
(* Proofs about SeckillProcessor, continued: what holds of it while only   *)
(* some kinds of fault occur, and that it implements SeckillContract.      *)
(***************************************************************************)
EXTENDS SeckillProcessorProofs

USE DEF Labels, CriticalLabels, Fault, NoFault, Goto, Step, Trace, Buyer,
        workerVars, stockVars, saleVars, faultVars,
        Absent, Processing, Failed, Success

-----------------------------------------------------------------------------
(* A fault that occurred is never forgotten.                               *)
LEMMA FaultsRemembered == [Next]_vars => injected \subseteq injected'
  BY DEF Next, Handle, Drained, vars, Deliver, Ack, Nak, Crash, TryStartWins, TryStartLoses,
     TryStartFails, ReleaseIdem, CheckPasses, CheckRejects, CheckFails, DeductReserves,
     DeductRejects, DeductFails, CreateInserts, CreateDuplicate, CreateFails, Undo,
     LookupFinds, LookupFails, PublishTimeout, MarkGateway, MarkIdem, AckWaitPasses,
     IdemExpires, SaleCloses

-----------------------------------------------------------------------------
(* An order has its timeout task, or the handler that made it is about to  *)
(* publish the task.                                                       *)
Timed ==
  Survives({"slow", "ttl"}) =>
    \A o \in orders :
      \/ o.no \in timeouts
      \/ \E w \in Workers : pc[w] = "timeout" /\ answer[w] = Success(o.no)

(* Only a crash or a failed publication leaves an order without its task.  *)
LEMMA TimedStep == TypeInv /\ Timed /\ [Next]_vars => Timed'
<1> SUFFICES ASSUME TypeOK, Attempts, Timed, [Next]_vars PROVE Timed'
  BY DEF TypeInv
<1> USE ProcessorAssumption DEF TypeOK, Timed, Survives
<1>1. ASSUME NEW w \in Workers, NEW m \in Messages, Deliver(w, m) PROVE Timed'
  BY <1>1 DEF Deliver
<1>2. ASSUME NEW w \in Workers, Ack(w) PROVE Timed'
  BY <1>2 DEF Ack
<1>3. ASSUME NEW w \in Workers, Nak(w) PROVE Timed'
  BY <1>3 DEF Nak
<1>4. ASSUME NEW w \in Workers, Crash(w) PROVE Timed'
  BY <1>4 DEF Crash
<1>5. ASSUME NEW w \in Workers, TryStartWins(w) PROVE Timed'
  BY <1>5 DEF TryStartWins
<1>6. ASSUME NEW w \in Workers, TryStartLoses(w) PROVE Timed'
  BY <1>6 DEF TryStartLoses
<1>7. ASSUME NEW w \in Workers, TryStartFails(w) PROVE Timed'
  BY <1>7 DEF TryStartFails
<1>8. ASSUME NEW w \in Workers, ReleaseIdem(w) PROVE Timed'
  BY <1>8 DEF ReleaseIdem
<1>9. ASSUME NEW w \in Workers, CheckPasses(w) PROVE Timed'
  BY <1>9 DEF CheckPasses
<1>10. ASSUME NEW w \in Workers, CheckRejects(w) PROVE Timed'
  BY <1>10 DEF CheckRejects, Reject
<1>11. ASSUME NEW w \in Workers, CheckFails(w) PROVE Timed'
  BY <1>11 DEF CheckFails
<1>12. ASSUME NEW w \in Workers, DeductReserves(w) PROVE Timed'
  BY <1>12 DEF DeductReserves, CanReserve, Reserve
<1>13. ASSUME NEW w \in Workers, DeductRejects(w) PROVE Timed'
  BY <1>13 DEF DeductRejects, CanReserve, Reject
<1>14. ASSUME NEW w \in Workers, DeductFails(w) PROVE Timed'
  BY <1>14 DEF DeductFails, CanReserve, Reserve
<1>15. ASSUME NEW w \in Workers, CreateInserts(w) PROVE Timed'
  BY <1>15 DEF CreateInserts, HasOrder, Insert
<1>16. ASSUME NEW w \in Workers, CreateDuplicate(w) PROVE Timed'
  BY <1>16 DEF CreateDuplicate, HasOrder
<1>17. ASSUME NEW w \in Workers, CreateFails(w) PROVE Timed'
  BY <1>17 DEF CreateFails, HasOrder, Insert
<1>18. ASSUME NEW w \in Workers, Undo(w) PROVE Timed'
  BY <1>18 DEF Undo, Unreserve
<1>19. ASSUME NEW w \in Workers, LookupFinds(w) PROVE Timed'
  BY <1>19 DEF LookupFinds
<1>20. ASSUME NEW w \in Workers, LookupFails(w) PROVE Timed'
  BY <1>20 DEF LookupFails
<1>21. ASSUME NEW w \in Workers, PublishTimeout(w) PROVE Timed'
  <2> SUFFICES ASSUME Survives({"slow", "ttl"})', NEW o \in orders
               PROVE  \/ o.no \in timeouts'
                      \/ \E v \in Workers : pc'[v] = "timeout" /\ answer'[v] = Success(o.no)
    BY <1>21 DEF PublishTimeout
  <2>1. timeouts' = timeouts \cup {answer[w].no} /\ injected' = injected
    BY <1>21 DEF PublishTimeout
  <2>2. pc' = [pc EXCEPT ![w] = "gateway"] /\ answer' = answer
    BY <1>21 DEF PublishTimeout
  <2>3. CASE o.no \in timeouts
    BY <2>1, <2>3
  <2>4. ASSUME NEW v \in Workers, pc[v] = "timeout", answer[v] = Success(o.no), v # w
        PROVE  pc'[v] = "timeout" /\ answer'[v] = Success(o.no)
    BY <2>2, <2>4
  <2>5. ASSUME answer[w] = Success(o.no) PROVE answer[w].no = o.no
    BY <2>5
  <2> QED
    BY <2>1, <2>3, <2>4, <2>5
<1>22. ASSUME NEW w \in Workers, MarkGateway(w) PROVE Timed'
  BY <1>22 DEF MarkGateway
<1>23. ASSUME NEW w \in Workers, MarkIdem(w) PROVE Timed'
  BY <1>23 DEF MarkIdem
<1>24. ASSUME NEW m \in Messages, AckWaitPasses(m) PROVE Timed'
  BY <1>24 DEF AckWaitPasses, Holds
<1>25. ASSUME NEW t \in Traces, IdemExpires(t) PROVE Timed'
  BY <1>25 DEF IdemExpires
<1>26. ASSUME SaleCloses PROVE Timed'
  BY <1>26 DEF SaleCloses
<1>27. ASSUME UNCHANGED vars PROVE Timed'
  BY <1>27 DEF vars
<1> QED
  BY <1>1, <1>2, <1>3, <1>4, <1>5, <1>6, <1>7, <1>8, <1>9, <1>10, <1>11, <1>12,
     <1>13, <1>14, <1>15, <1>16, <1>17, <1>18, <1>19, <1>20, <1>21, <1>22, <1>23, <1>24,
     <1>25, <1>26, <1>27
  DEF Next, Handle, Drained

(* When the queue has drained, every order has its payment timeout task,   *)
(* if nothing but early redeliveries and expiring keys went wrong.         *)
THEOREM TimedSafe == Spec => []OrdersTimed
<1>1. Init => Timed
  BY DEF Init, Timed
<1>2. Timed => OrdersTimed
  BY DEF Timed, OrdersTimed, Quiet
<1> QED
  BY <1>1, <1>2, TypeInit, TypeStep, TimedStep, PTL DEF Spec

-----------------------------------------------------------------------------
(* A trace is heard when its buyer has an answer or a handler is about to  *)
(* write one; a claimed key, an ack on its way and an ack all imply it.    *)
Heard(t) ==
  \/ result[t] # Processing
  \/ \E w \in Workers : pc[w] \in CriticalLabels /\ Trace(w) = t

Hears ==
  /\ \A w \in Workers : pc[w] \notin {"undo", "release", "nak"}
  /\ \A w \in Workers : pc[w] = "idem" => result[Trace(w)] # Processing
  /\ \A w \in Workers : pc[w] = "ack" => Heard(Trace(w))
  /\ \A t \in Traces : idem[t] # Absent => Heard(t)
  /\ \A m \in Messages : delivery[m] = "acked" => Heard(TraceOf[m])

Hearing == Survives({"slow", "ttl"}) => Hears

(* A handler leaves its critical steps only with the answer written.       *)
LEMMA HearingStep == TypeInv /\ Hearing /\ [Next]_vars => Hearing'
<1> SUFFICES ASSUME TypeOK, Attempts, Hears, [Next]_vars,
                    "error" \notin injected', "lost" \notin injected', "crash" \notin injected'
             PROVE  Hears'
  BY FaultsRemembered DEF TypeInv, Hearing, Survives
<1> USE ProcessorAssumption DEF TypeOK, Attempts, Answers, Hears
<1>1. ASSUME NEW w \in Workers, NEW m \in Messages, Deliver(w, m) PROVE Hears'
  <2>1. \A t \in Traces : Heard(t) => Heard(t)'
    BY <1>1 DEF Deliver, Heard
  <2> QED
    BY <1>1, <2>1 DEF Deliver
<1>2. ASSUME NEW w \in Workers, Ack(w) PROVE Hears'
  <2>1. \A t \in Traces : Heard(t) => Heard(t)'
    BY <1>2 DEF Ack, Heard
  <2> QED
    BY <1>2, <2>1 DEF Ack
<1>3. ASSUME NEW w \in Workers, Nak(w) PROVE Hears'
  <2>1. \A t \in Traces : Heard(t) => Heard(t)'
    BY <1>3 DEF Nak, Heard
  <2> QED
    BY <1>3, <2>1 DEF Nak
<1>4. ASSUME NEW w \in Workers, Crash(w) PROVE Hears'
  <2>1. \A t \in Traces : Heard(t) => Heard(t)'
    BY <1>4 DEF Crash, Heard
  <2> QED
    BY <1>4, <2>1 DEF Crash
<1>5. ASSUME NEW w \in Workers, TryStartWins(w) PROVE Hears'
  <2>1. \A t \in Traces : Heard(t) => Heard(t)'
    BY <1>5 DEF TryStartWins, Heard
  <2>2. Heard(Trace(w))'
    BY <1>5 DEF TryStartWins, Heard
  <2> QED
    BY <1>5, <2>1, <2>2 DEF TryStartWins
<1>6. ASSUME NEW w \in Workers, TryStartLoses(w) PROVE Hears'
  <2>1. \A t \in Traces : Heard(t) => Heard(t)'
    BY <1>6 DEF TryStartLoses, Heard
  <2> QED
    BY <1>6, <2>1 DEF TryStartLoses
<1>7. ASSUME NEW w \in Workers, TryStartFails(w) PROVE Hears'
  <2>1. \A t \in Traces : Heard(t) => Heard(t)'
    BY <1>7 DEF TryStartFails, Heard
  <2> QED
    BY <1>7, <2>1 DEF TryStartFails
<1>8. ASSUME NEW w \in Workers, ReleaseIdem(w) PROVE Hears'
  <2>1. \A t \in Traces : Heard(t) => Heard(t)'
    BY <1>8 DEF ReleaseIdem, Heard
  <2> QED
    BY <1>8, <2>1 DEF ReleaseIdem
<1>9. ASSUME NEW w \in Workers, CheckPasses(w) PROVE Hears'
  <2>1. \A t \in Traces : Heard(t) => Heard(t)'
    BY <1>9 DEF CheckPasses, Heard
  <2> QED
    BY <1>9, <2>1 DEF CheckPasses
<1>10. ASSUME NEW w \in Workers, CheckRejects(w) PROVE Hears'
  <2>1. \A t \in Traces : Heard(t) => Heard(t)'
    BY <1>10 DEF CheckRejects, Reject, Heard
  <2> QED
    BY <1>10, <2>1 DEF CheckRejects, Reject
<1>11. ASSUME NEW w \in Workers, CheckFails(w) PROVE Hears'
  <2>1. \A t \in Traces : Heard(t) => Heard(t)'
    BY <1>11 DEF CheckFails, Heard
  <2> QED
    BY <1>11, <2>1 DEF CheckFails
<1>12. ASSUME NEW w \in Workers, DeductReserves(w) PROVE Hears'
  <2>1. \A t \in Traces : Heard(t) => Heard(t)'
    BY <1>12 DEF DeductReserves, CanReserve, Reserve, Heard
  <2> QED
    BY <1>12, <2>1 DEF DeductReserves, CanReserve, Reserve
<1>13. ASSUME NEW w \in Workers, DeductRejects(w) PROVE Hears'
  <2>1. \A t \in Traces : Heard(t) => Heard(t)'
    BY <1>13 DEF DeductRejects, CanReserve, Reject, Heard
  <2> QED
    BY <1>13, <2>1 DEF DeductRejects, CanReserve, Reject
<1>14. ASSUME NEW w \in Workers, DeductFails(w) PROVE Hears'
  <2>1. \A t \in Traces : Heard(t) => Heard(t)'
    BY <1>14 DEF DeductFails, CanReserve, Reserve, Heard
  <2> QED
    BY <1>14, <2>1 DEF DeductFails, CanReserve, Reserve
<1>15. ASSUME NEW w \in Workers, CreateInserts(w) PROVE Hears'
  <2>1. \A t \in Traces : Heard(t) => Heard(t)'
    BY <1>15 DEF CreateInserts, HasOrder, Insert, Heard
  <2> QED
    BY <1>15, <2>1 DEF CreateInserts, HasOrder, Insert
<1>16. ASSUME NEW w \in Workers, CreateDuplicate(w) PROVE Hears'
  <2>1. \A t \in Traces : Heard(t) => Heard(t)'
    BY <1>16 DEF CreateDuplicate, HasOrder, Heard
  <2> QED
    BY <1>16, <2>1 DEF CreateDuplicate, HasOrder
<1>17. ASSUME NEW w \in Workers, CreateFails(w) PROVE Hears'
  <2>1. \A t \in Traces : Heard(t) => Heard(t)'
    BY <1>17 DEF CreateFails, HasOrder, Insert, Heard
  <2> QED
    BY <1>17, <2>1 DEF CreateFails, HasOrder, Insert
<1>18. ASSUME NEW w \in Workers, Undo(w) PROVE Hears'
  <2>1. \A t \in Traces : Heard(t) => Heard(t)'
    BY <1>18 DEF Undo, Unreserve, Heard
  <2> QED
    BY <1>18, <2>1 DEF Undo, Unreserve
<1>19. ASSUME NEW w \in Workers, LookupFinds(w) PROVE Hears'
  <2>1. \A t \in Traces : Heard(t) => Heard(t)'
    BY <1>19 DEF LookupFinds, Heard
  <2> QED
    BY <1>19, <2>1 DEF LookupFinds
<1>20. ASSUME NEW w \in Workers, LookupFails(w) PROVE Hears'
  <2>1. \A t \in Traces : Heard(t) => Heard(t)'
    BY <1>20 DEF LookupFails, Heard
  <2> QED
    BY <1>20, <2>1 DEF LookupFails
<1>21. ASSUME NEW w \in Workers, PublishTimeout(w) PROVE Hears'
  <2>1. \A t \in Traces : Heard(t) => Heard(t)'
    BY <1>21 DEF PublishTimeout, Heard
  <2> QED
    BY <1>21, <2>1 DEF PublishTimeout
<1>22. ASSUME NEW w \in Workers, MarkGateway(w) PROVE Hears'
  <2>1. \A t \in Traces : Heard(t) => Heard(t)'
    BY <1>22 DEF MarkGateway, Heard
  <2> QED
    BY <1>22, <2>1 DEF MarkGateway
<1>23. ASSUME NEW w \in Workers, MarkIdem(w) PROVE Hears'
  <2>1. \A t \in Traces : Heard(t) => Heard(t)'
    BY <1>23 DEF MarkIdem, Heard
  <2>2. Heard(Trace(w))'
    BY <1>23 DEF MarkIdem, Heard
  <2> QED
    BY <1>23, <2>1, <2>2 DEF MarkIdem
<1>24. ASSUME NEW m \in Messages, AckWaitPasses(m) PROVE Hears'
  <2>1. \A t \in Traces : Heard(t) => Heard(t)'
    BY <1>24 DEF AckWaitPasses, Holds, Heard
  <2> QED
    BY <1>24, <2>1 DEF AckWaitPasses, Holds
<1>25. ASSUME NEW t \in Traces, IdemExpires(t) PROVE Hears'
  <2>1. \A t2 \in Traces : Heard(t2) => Heard(t2)'
    BY <1>25 DEF IdemExpires, Heard
  <2> QED
    BY <1>25, <2>1 DEF IdemExpires
<1>26. ASSUME SaleCloses PROVE Hears'
  <2>1. \A t \in Traces : Heard(t) => Heard(t)'
    BY <1>26 DEF SaleCloses, Heard
  <2> QED
    BY <1>26, <2>1 DEF SaleCloses
<1>27. ASSUME UNCHANGED vars PROVE Hears'
  <2>1. \A t \in Traces : Heard(t) => Heard(t)'
    BY <1>27 DEF vars, Heard
  <2> QED
    BY <1>27, <2>1 DEF vars
<1> QED
  BY <1>1, <1>2, <1>3, <1>4, <1>5, <1>6, <1>7, <1>8, <1>9, <1>10, <1>11, <1>12,
     <1>13, <1>14, <1>15, <1>16, <1>17, <1>18, <1>19, <1>20, <1>21, <1>22, <1>23, <1>24,
     <1>25, <1>26, <1>27
  DEF Next, Handle, Drained

(* A message is acked only when its buyer has an answer or another handler *)
(* is about to give it (Execute's early return on a lost TryStart).        *)
THEOREM AckedSafe == Spec => []AnsweredWhenAcked
<1>1. Init => Hearing
  BY ProcessorAssumption DEF Init, Hearing, Hears
<1>2. Hearing => AnsweredWhenAcked
  BY DEF Hearing, Hears, Heard, AnsweredWhenAcked, Answerable
<1> QED
  BY <1>1, <1>2, TypeInit, TypeStep, HearingStep, PTL DEF Spec

-----------------------------------------------------------------------------
(* Until a reply is lost or a key expires, a trace whose key is free, or   *)
(* whose handler has not come to its order, has neither order nor answer.  *)
Untouched(t) == result[t] = Processing /\ \A o \in orders : o.trace # t

Fresh ==
  "lost" \notin injected /\ "ttl" \notin injected =>
    /\ \A w \in Workers : pc[w] # "lookup"
    /\ \A w \in Workers : pc[w] \in {"check", "deduct", "create", "undo", "release"}
                            => Untouched(Trace(w))
    /\ \A t \in Traces : idem[t] = Absent => Untouched(t)
    /\ \A w \in Workers : pc[w] \in {"timeout", "gateway"} => result[Trace(w)] = Processing
    /\ \A w \in Workers : pc[w] = "gateway" /\ answer[w] = Failed => Untouched(Trace(w))

(* Layer 1 keeps every other handler away from a trace that is touched.    *)
LEMMA FreshStep ==
  TypeInv /\ Claimed /\ Layer1Exclusive /\ Fresh /\ [Next]_vars => Fresh'
<1> SUFFICES ASSUME TypeOK, Attempts, Claimed, Layer1Exclusive, Fresh, [Next]_vars
             PROVE  Fresh'
  BY DEF TypeInv
<1> USE ProcessorAssumption
    DEF TypeOK, Attempts, Answers, Claimed, Layer1Exclusive, Fresh, Untouched
<1>1. ASSUME NEW w \in Workers, NEW m \in Messages, Deliver(w, m) PROVE Fresh'
  BY <1>1 DEF Deliver
<1>2. ASSUME NEW w \in Workers, Ack(w) PROVE Fresh'
  BY <1>2 DEF Ack
<1>3. ASSUME NEW w \in Workers, Nak(w) PROVE Fresh'
  BY <1>3 DEF Nak
<1>4. ASSUME NEW w \in Workers, Crash(w) PROVE Fresh'
  BY <1>4 DEF Crash
<1>5. ASSUME NEW w \in Workers, TryStartWins(w) PROVE Fresh'
  BY <1>5 DEF TryStartWins
<1>6. ASSUME NEW w \in Workers, TryStartLoses(w) PROVE Fresh'
  BY <1>6 DEF TryStartLoses
<1>7. ASSUME NEW w \in Workers, TryStartFails(w) PROVE Fresh'
  BY <1>7 DEF TryStartFails
<1>8. ASSUME NEW w \in Workers, ReleaseIdem(w) PROVE Fresh'
  BY <1>8 DEF ReleaseIdem
<1>9. ASSUME NEW w \in Workers, CheckPasses(w) PROVE Fresh'
  BY <1>9 DEF CheckPasses
<1>10. ASSUME NEW w \in Workers, CheckRejects(w) PROVE Fresh'
  BY <1>10 DEF CheckRejects, Reject
<1>11. ASSUME NEW w \in Workers, CheckFails(w) PROVE Fresh'
  BY <1>11 DEF CheckFails
<1>12. ASSUME NEW w \in Workers, DeductReserves(w) PROVE Fresh'
  BY <1>12 DEF DeductReserves, CanReserve, Reserve
<1>13. ASSUME NEW w \in Workers, DeductRejects(w) PROVE Fresh'
  BY <1>13 DEF DeductRejects, CanReserve, Reject
<1>14. ASSUME NEW w \in Workers, DeductFails(w) PROVE Fresh'
  BY <1>14 DEF DeductFails, CanReserve, Reserve
<1>15. ASSUME NEW w \in Workers, CreateInserts(w) PROVE Fresh'
  <2> SUFFICES ASSUME "lost" \notin injected, "ttl" \notin injected
               PROVE  Fresh'
    BY <1>15 DEF CreateInserts
  <2>1. PICK row : row.trace = Trace(w) /\ orders' = orders \cup {row}
    BY <1>15 DEF CreateInserts, Insert
  <2>2. /\ pc[w] = "create" /\ pc' = [pc EXCEPT ![w] = "timeout"]
        /\ held' = held /\ idem' = idem /\ result' = result
        /\ answer' = [answer EXCEPT ![w] = Success(orderNo[w])]
    BY <1>15 DEF CreateInserts
  <2>3. \A t \in Traces : t # Trace(w) /\ Untouched(t) => Untouched(t)'
    BY <2>1, <2>2
  <2>4. idem[Trace(w)] # Absent /\ result[Trace(w)] = Processing
    BY <2>2
  <2>5. \A v \in Workers : v # w /\ pc[v] \in CriticalLabels => Trace(v) # Trace(w)
    BY <2>2
  <2>6. \A t \in Traces : idem'[t] = Absent => Untouched(t)'
    BY <2>2, <2>3, <2>4
  <2> HIDE DEF Untouched
  <2>7. \A v \in Workers : pc'[v] \in {"check", "deduct", "create", "undo", "release"}
                               => Untouched(Trace(v))'
    BY <2>2, <2>3, <2>5
  <2>8. \A v \in Workers : pc'[v] = "gateway" /\ answer'[v] = Failed => Untouched(Trace(v))'
    BY <2>2, <2>3, <2>5
  <2> QED
    BY <2>2, <2>4, <2>6, <2>7, <2>8
<1>16. ASSUME NEW w \in Workers, CreateDuplicate(w) PROVE Fresh'
  BY <1>16 DEF CreateDuplicate, HasOrder
<1>17. ASSUME NEW w \in Workers, CreateFails(w) PROVE Fresh'
  BY <1>17 DEF CreateFails, HasOrder, Insert
<1>18. ASSUME NEW w \in Workers, Undo(w) PROVE Fresh'
  BY <1>18 DEF Undo, Unreserve
<1>19. ASSUME NEW w \in Workers, LookupFinds(w) PROVE Fresh'
  BY <1>19 DEF LookupFinds
<1>20. ASSUME NEW w \in Workers, LookupFails(w) PROVE Fresh'
  BY <1>20 DEF LookupFails
<1>21. ASSUME NEW w \in Workers, PublishTimeout(w) PROVE Fresh'
  BY <1>21 DEF PublishTimeout
<1>22. ASSUME NEW w \in Workers, MarkGateway(w) PROVE Fresh'
  BY <1>22 DEF MarkGateway
<1>23. ASSUME NEW w \in Workers, MarkIdem(w) PROVE Fresh'
  BY <1>23 DEF MarkIdem
<1>24. ASSUME NEW m \in Messages, AckWaitPasses(m) PROVE Fresh'
  BY <1>24 DEF AckWaitPasses, Holds
<1>25. ASSUME NEW t \in Traces, IdemExpires(t) PROVE Fresh'
  BY <1>25 DEF IdemExpires
<1>26. ASSUME SaleCloses PROVE Fresh'
  BY <1>26 DEF SaleCloses
<1>27. ASSUME UNCHANGED vars PROVE Fresh'
  BY <1>27 DEF vars
<1> QED
  BY <1>1, <1>2, <1>3, <1>4, <1>5, <1>6, <1>7, <1>8, <1>9, <1>10, <1>11, <1>12,
     <1>13, <1>14, <1>15, <1>16, <1>17, <1>18, <1>19, <1>20, <1>21, <1>22, <1>23, <1>24,
     <1>25, <1>26, <1>27
  DEF Next, Handle, Drained

(* A reservation backs an order or belongs to an attempt still at work,    *)
(* while the only fault is an early redelivery.                            *)
LEMMA LeakStep ==
  TypeInv /\ Fresh /\ NoReservationLeaks /\ [Next]_vars => NoReservationLeaks'
<1> SUFFICES ASSUME TypeOK, Attempts, Fresh, NoReservationLeaks, [Next]_vars
             PROVE  NoReservationLeaks'
  BY DEF TypeInv
<1> USE ProcessorAssumption
    DEF TypeOK, Attempts, Fresh, Untouched, NoReservationLeaks, Survives
<1>1. ASSUME NEW w \in Workers, NEW m \in Messages, Deliver(w, m) PROVE NoReservationLeaks'
  BY <1>1 DEF Deliver
<1>2. ASSUME NEW w \in Workers, Ack(w) PROVE NoReservationLeaks'
  BY <1>2 DEF Ack
<1>3. ASSUME NEW w \in Workers, Nak(w) PROVE NoReservationLeaks'
  BY <1>3 DEF Nak
<1>4. ASSUME NEW w \in Workers, Crash(w) PROVE NoReservationLeaks'
  BY <1>4 DEF Crash
<1>5. ASSUME NEW w \in Workers, TryStartWins(w) PROVE NoReservationLeaks'
  BY <1>5 DEF TryStartWins
<1>6. ASSUME NEW w \in Workers, TryStartLoses(w) PROVE NoReservationLeaks'
  BY <1>6 DEF TryStartLoses
<1>7. ASSUME NEW w \in Workers, TryStartFails(w) PROVE NoReservationLeaks'
  BY <1>7 DEF TryStartFails
<1>8. ASSUME NEW w \in Workers, ReleaseIdem(w) PROVE NoReservationLeaks'
  BY <1>8 DEF ReleaseIdem
<1>9. ASSUME NEW w \in Workers, CheckPasses(w) PROVE NoReservationLeaks'
  BY <1>9 DEF CheckPasses
<1>10. ASSUME NEW w \in Workers, CheckRejects(w) PROVE NoReservationLeaks'
  BY <1>10 DEF CheckRejects, Reject
<1>11. ASSUME NEW w \in Workers, CheckFails(w) PROVE NoReservationLeaks'
  BY <1>11 DEF CheckFails
<1>12. ASSUME NEW w \in Workers, DeductReserves(w) PROVE NoReservationLeaks'
  BY <1>12 DEF DeductReserves, CanReserve, Reserve
<1>13. ASSUME NEW w \in Workers, DeductRejects(w) PROVE NoReservationLeaks'
  BY <1>13 DEF DeductRejects, CanReserve, Reject
<1>14. ASSUME NEW w \in Workers, DeductFails(w) PROVE NoReservationLeaks'
  BY <1>14 DEF DeductFails, CanReserve, Reserve
<1>15. ASSUME NEW w \in Workers, CreateInserts(w) PROVE NoReservationLeaks'
  <2>1. PICK row : row.no = orderNo[w] /\ orders' = orders \cup {row}
    BY <1>15 DEF CreateInserts, Insert
  <2> QED
    BY <1>15, <2>1 DEF CreateInserts
<1>16. ASSUME NEW w \in Workers, CreateDuplicate(w) PROVE NoReservationLeaks'
  BY <1>16 DEF CreateDuplicate, HasOrder
<1>17. ASSUME NEW w \in Workers, CreateFails(w) PROVE NoReservationLeaks'
  BY <1>17 DEF CreateFails, HasOrder, Insert
<1>18. ASSUME NEW w \in Workers, Undo(w) PROVE NoReservationLeaks'
  <2> SUFFICES ASSUME Survives({"slow"})', NEW r \in reserved'
               PROVE  \/ \E o \in orders : o.no = r.no
                      \/ \E v \in Workers : orderNo'[v] = r.no /\ pc'[v] \in {"create", "undo"}
    BY <1>18 DEF Undo
  <2>1. r \in reserved /\ (r.no # orderNo[w] \/ r \notin {x \in reserved : x.no = orderNo[w]})
    BY <1>18 DEF Undo, Unreserve
  <2>2. r.no # orderNo[w] /\ injected' = injected
    BY <1>18, <2>1 DEF Undo
  <2> QED
    BY <1>18, <2>1, <2>2 DEF Undo
<1>19. ASSUME NEW w \in Workers, LookupFinds(w) PROVE NoReservationLeaks'
  BY <1>19 DEF LookupFinds
<1>20. ASSUME NEW w \in Workers, LookupFails(w) PROVE NoReservationLeaks'
  BY <1>20 DEF LookupFails
<1>21. ASSUME NEW w \in Workers, PublishTimeout(w) PROVE NoReservationLeaks'
  BY <1>21 DEF PublishTimeout
<1>22. ASSUME NEW w \in Workers, MarkGateway(w) PROVE NoReservationLeaks'
  BY <1>22 DEF MarkGateway
<1>23. ASSUME NEW w \in Workers, MarkIdem(w) PROVE NoReservationLeaks'
  BY <1>23 DEF MarkIdem
<1>24. ASSUME NEW m \in Messages, AckWaitPasses(m) PROVE NoReservationLeaks'
  BY <1>24 DEF AckWaitPasses, Holds
<1>25. ASSUME NEW t \in Traces, IdemExpires(t) PROVE NoReservationLeaks'
  BY <1>25 DEF IdemExpires
<1>26. ASSUME SaleCloses PROVE NoReservationLeaks'
  BY <1>26 DEF SaleCloses
<1>27. ASSUME UNCHANGED vars PROVE NoReservationLeaks'
  BY <1>27 DEF vars
<1> QED
  BY <1>1, <1>2, <1>3, <1>4, <1>5, <1>6, <1>7, <1>8, <1>9, <1>10, <1>11, <1>12,
     <1>13, <1>14, <1>15, <1>16, <1>17, <1>18, <1>19, <1>20, <1>21, <1>22, <1>23, <1>24,
     <1>25, <1>26, <1>27
  DEF Next, Handle, Drained

(* Nothing that Submit deducts is left behind: under early redeliveries    *)
(* alone no reservation survives without an order or its attempt.          *)
THEOREM LeakSafe == Spec => []NoReservationLeaks
<1>1. Init => Claimed /\ Layer1Exclusive /\ Fresh /\ NoReservationLeaks
  BY DEF Init, Claimed, Layer1Exclusive, Fresh, Untouched, NoReservationLeaks
<1> QED
  BY <1>1, TypeInit, TypeStep, Layer1Step, FreshStep, LeakStep, PTL DEF Spec

-----------------------------------------------------------------------------
(* What the mapping shows: the traces with an order, and their answers.    *)
Placed == {o.trace : o \in orders}

(* Until a reply is lost there are no more orders than units, nor than the *)
(* limit for one buyer.                                                    *)
SaleBound ==
  "lost" \notin injected =>
    /\ IsFiniteSet(orders)
    /\ Cardinality(orders) <= Stock0
    /\ Limit > 0 => \A u \in Users : Cardinality({o \in orders : UserOf[o.trace] = u}) <= Limit

(* Traces with an order are no more than the orders.                       *)
LEMMA TracesOfOrders ==
  ASSUME NEW S, IsFiniteSet(S), NEW P, \A t \in P : \E o \in S : o.trace = t
  PROVE  IsFiniteSet(P) /\ Cardinality(P) <= Cardinality(S)
<1> DEFINE f == [t \in P |-> CHOOSE o \in S : o.trace = t]
<1>1. \A t \in P : f[t] \in S /\ f[t].trace = t
  OBVIOUS
<1>2. f \in Injection(P, S)
  <2>1. f \in [P -> S]
    BY <1>1
  <2>2. \A a, b \in P : f[a] = f[b] => a = b
    <3> HIDE DEF f
    <3> QED
      BY <1>1
  <2> HIDE DEF f
  <2> QED
    BY <2>1, <2>2 DEF Injection, IsInjective
<1> HIDE DEF f
<1> QED
  BY <1>2, FS_Injection DEF ExistsInjection

(* A set that gains an element within a bound was below the bound.         *)
LEMMA RoomBefore ==
  ASSUME NEW P, NEW x, x \notin P, IsFiniteSet(P \cup {x}), NEW n \in Nat,
         Cardinality(P \cup {x}) <= n
  PROVE  Cardinality(P) < n
<1>1. IsFiniteSet(P)
  BY FS_Subset
<1>2. Cardinality(P \cup {x}) = Cardinality(P) + 1
  BY <1>1, FS_AddElement
<1> QED
  BY <1>1, <1>2, FS_CardinalityType

(* The contract counts as its implementation does.                         *)
LEMMA SameCount == ASSUME NEW S PROVE Contract!Cardinality(S) = Cardinality(S)
  BY DEF Contract!Cardinality, Cardinality

(* An insert is a Place: the row is the trace's first, its trace has no    *)
(* answer, and the reservation behind it left room for it.                 *)
LEMMA InsertPlaces ==
  ASSUME TypeInv, Fresh, SaleBound', "lost" \notin injected, "ttl" \notin injected,
         NEW w \in Workers, CreateInserts(w)
  PROVE  Contract!ContractNext
<1> USE ProcessorAssumption
<1>1. PICK t \in Traces : t = Trace(w)
  BY DEF TypeInv, TypeOK, CreateInserts
<1>2. result[t] = Processing /\ t \notin Placed /\ result' = result
  BY <1>1 DEF Fresh, Untouched, CreateInserts, Placed
<1>3. PICK row : row.trace = t /\ orders' = orders \cup {row} /\ injected' = injected
  BY <1>1 DEF CreateInserts, Insert
<1>4. Placed' = Placed \cup {t}
  BY <1>3 DEF Placed
<1>5. IsFiniteSet(orders') /\ Cardinality(orders') <= Stock0
  BY <1>3 DEF SaleBound
<1>6. Cardinality(Placed) < Stock0
  <2>1. \A x \in Placed \cup {t} : \E o \in orders' : o.trace = x
    BY <1>3 DEF Placed
  <2>2. IsFiniteSet(Placed \cup {t}) /\ Cardinality(Placed \cup {t}) <= Cardinality(orders')
    BY <1>5, <2>1, TracesOfOrders
  <2>3. Cardinality(Placed \cup {t}) <= Stock0
    BY <1>5, <2>2, FS_CardinalityType
  <2> QED
    BY <1>2, <2>2, <2>3, RoomBefore
<1>7. ASSUME Limit > 0 PROVE Cardinality({x \in Placed : UserOf[x] = UserOf[t]}) < Limit
  <2>1. PICK u \in Users : u = UserOf[t]
    OBVIOUS
  <2>2. PICK P : P = {x \in Placed : UserOf[x] = u}
    OBVIOUS
  <2>3. PICK S : S = {o \in orders' : UserOf[o.trace] = u}
    OBVIOUS
  <2>4. IsFiniteSet(S) /\ Cardinality(S) <= Limit
    <3>1. IsFiniteSet(S)
      BY <1>5, <2>3, FS_Subset
    <3>2. Cardinality(S) <= Limit
      BY <1>3, <1>7, <2>3 DEF SaleBound
    <3> QED
      BY <3>1, <3>2
  <2>5. \A x \in P \cup {t} : \E o \in S : o.trace = x
    BY <1>3, <2>1, <2>2, <2>3 DEF Placed
  <2>6. IsFiniteSet(P \cup {t}) /\ Cardinality(P \cup {t}) <= Cardinality(S)
    BY <2>4, <2>5, TracesOfOrders
  <2>7. Cardinality(P \cup {t}) <= Limit
    BY <2>4, <2>6, FS_CardinalityType
  <2>8. Cardinality(P) < Limit
    BY <1>2, <2>2, <2>6, <2>7, RoomBefore
  <2> QED
    BY <2>1, <2>2, <2>8
<1>8. Contract!OfBuyer(UserOf[t]) = {x \in Placed : UserOf[x] = UserOf[t]}
  BY DEF Contract!OfBuyer, Placed
<1>9. Contract!Place(t)
  <2>1. /\ t \notin Placed
        /\ Cardinality(Placed) < Stock0
        /\ Limit > 0 => Cardinality(Contract!OfBuyer(UserOf[t])) < Limit
    BY <1>2, <1>6, <1>7, <1>8
  <2> HIDE DEF Contract!OfBuyer
  <2> QED
    BY <1>2, <1>4, <2>1, SameCount DEF Contract!Place, Placed
<1> QED
  BY <1>9 DEF Contract!ContractNext

(* The first answer written for a trace is a Confirm or a Refuse.          *)
LEMMA AnswerTells ==
  ASSUME TypeInv, Fresh, Truthful, "lost" \notin injected, "ttl" \notin injected,
         NEW w \in Workers, MarkGateway(w), ~UNCHANGED result
  PROVE  Contract!ContractNext
<1> USE ProcessorAssumption
<1>1. PICK t \in Traces : t = Trace(w)
  BY DEF TypeInv, TypeOK, MarkGateway
<1>2. /\ result[t] = Processing
      /\ result' = [result EXCEPT ![t] = answer[w]]
      /\ orders' = orders
  BY <1>1 DEF Fresh, MarkGateway
<1>3. answer[w] \in Answers /\ answer[w] # Absent
  BY DEF TypeInv, TypeOK, Attempts, MarkGateway
<1>4. CASE answer[w] = Failed
  <2>1. t \notin Placed
    BY <1>1, <1>4 DEF Fresh, Untouched, MarkGateway, Placed
  <2> QED
    BY <1>2, <1>4, <2>1 DEF Contract!ContractNext, Contract!Refuse, Placed, TypeInv, TypeOK
<1>5. ASSUME NEW n \in 1 .. minted, answer[w] = Success(n)
      PROVE  Contract!ContractNext
  <2>1. [no |-> n, trace |-> t] \in orders
    BY <1>1, <1>5 DEF Truthful, MarkGateway
  <2>2. t \in Placed
    BY <2>1 DEF Placed
  <2> QED
    <3>1. answer[w].st = "order"
      BY <1>5
    <3>2. answer[w] # Processing /\ answer[w] # Failed
      BY <3>1
    <3>3. Contract!Confirm(t)
      <4>1. PICK a : a = answer[w]
        OBVIOUS
      <4>2. a # Processing /\ a # Failed /\ result' = [result EXCEPT ![t] = a]
        BY <1>2, <3>2, <4>1
      <4>3. \A x \in Traces : result'[x] = IF x = t THEN a ELSE result[x]
        BY <4>2 DEF TypeInv, TypeOK
      <4> DEFINE told == [x \in Traces |-> CASE result[x] = Processing -> "pending"
                                             [] result[x] = Failed -> "failed"
                                             [] OTHER -> "order"]
      <4>4. \A x \in Traces : told'[x] = IF x = t THEN "order" ELSE told[x]
        BY <4>2, <4>3
      <4>5. told' = [told EXCEPT ![t] = "order"]
        BY <4>4
      <4> QED
        BY <1>2, <2>2, <4>5 DEF Contract!Confirm, Placed
    <3> QED
      BY <3>3 DEF Contract!ContractNext
<1> QED
  BY <1>3, <1>4, <1>5 DEF Answers

(* Every other action leaves the orders and the answers alone.             *)
LEMMA StepRefines ==
  ASSUME TypeInv, Fresh, Truthful, SaleBound', "lost" \notin injected, "ttl" \notin injected,
         "lost" \notin Faults, [Next]_vars
  PROVE  [Contract!ContractNext]_(Contract!contractVars)
<1> USE ProcessorAssumption
<1>0. ASSUME UNCHANGED <<orders, result>>
      PROVE  UNCHANGED Contract!contractVars
  BY <1>0 DEF Contract!contractVars
<1>1. ASSUME NEW w \in Workers, CreateInserts(w) PROVE Contract!ContractNext
  BY <1>1, InsertPlaces
<1>2. ASSUME NEW w \in Workers, MarkGateway(w), ~UNCHANGED result PROVE Contract!ContractNext
  BY <1>2, AnswerTells
<1>3. UNCHANGED <<orders, result>>
        \/ \E w \in Workers : CreateInserts(w) \/ (MarkGateway(w) /\ ~UNCHANGED result)
  BY DEF Next, Handle, Drained, vars, Deliver, Ack, Nak, Crash, TryStartWins, TryStartLoses,
     TryStartFails, ReleaseIdem, CheckPasses, CheckRejects, CheckFails, DeductReserves,
     DeductRejects, DeductFails, CreateDuplicate, CreateFails, Undo, LookupFinds, LookupFails,
     PublishTimeout, MarkGateway, MarkIdem, AckWaitPasses, IdemExpires, SaleCloses
<1> QED
  BY <1>0, <1>1, <1>2, <1>3

(* Where no reply is lost and no key expires early, the processor          *)
(* implements the contract, whatever fails, crashes or comes twice.        *)
THEOREM Refinement ==
  ASSUME "lost" \notin Faults, "ttl" \notin Faults
  PROVE  Spec => ImplementsContract
<1>1. Init => /\ Claimed /\ Layer1Exclusive /\ Fresh
              /\ OneOrderPerTrace /\ AnswersNameOrders /\ Truthful
              /\ Numbered /\ Backing /\ Units /\ Limited
              /\ Contract!ContractInit
  <2> SUFFICES ASSUME Init
               PROVE  /\ Claimed /\ Layer1Exclusive /\ Fresh
                      /\ OneOrderPerTrace /\ AnswersNameOrders /\ Truthful
                      /\ Numbered /\ Backing /\ Units /\ Limited
                      /\ Contract!ContractInit
    OBVIOUS
  <2>1. Cardinality({}) = 0 /\ IsFiniteSet({})
    BY FS_EmptySet
  <2>2. \A u \in Users : {r \in reserved : r.user = u} = {}
    BY DEF Init
  <2>3. Claimed /\ Layer1Exclusive /\ Fresh
    BY DEF Init, Claimed, Layer1Exclusive, Fresh, Untouched
  <2>4. OneOrderPerTrace /\ AnswersNameOrders /\ Truthful
    BY DEF Init, OneOrderPerTrace, AnswersNameOrders, Truthful
  <2>5. Numbered /\ Backing /\ Units /\ Limited
    BY <2>1, <2>2, ProcessorAssumption
    DEF Init, Numbered, Backing, OrdersBacked, Units, StockConserved, Limited
  <2>6. Contract!ContractInit
    BY DEF Init, Contract!ContractInit
  <2> QED
    BY <2>3, <2>4, <2>5, <2>6
<1>2. TypeInv /\ Numbered /\ Backing /\ Units /\ Limited => SaleBound
  BY BackedOrdersBounded, BuyersOrdersBounded DEF Backing, SaleBound
<1>3. TypeInv => "lost" \notin injected /\ "ttl" \notin injected
  BY DEF TypeInv, TypeOK
<1>4. TypeInv /\ Fresh /\ Truthful /\ SaleBound' /\ [Next]_vars
        => [Contract!ContractNext]_(Contract!contractVars)
  BY <1>3, StepRefines
<1> QED
  BY <1>1, <1>2, <1>4, TypeInit, TypeStep, Layer1Step, FreshStep, Layer2Step, NumberedStep,
     BackingStep, UnitsStep, LimitedStep, PTL
  DEF Spec, ImplementsContract, Contract!ContractSpec

-----------------------------------------------------------------------------
(* The stock of the processor is a stock store: SeckillProcessor deducts   *)
(* and releases in one step each what StockStore does command by command,  *)
(* and both implement StockContract.  The key of a running sale exists.    *)
NoKey == CHOOSE key : key \notin Int

Store == INSTANCE StockContract WITH
  Orders <- Nat, Missing <- NoKey, available <- stock, held <- {r.no : r \in reserved}

LEMMA NoKeyIsNoNumber == NoKey \notin Int
<1> DEFINE plain == {n \in Int : n \notin n}
<1>1. \A n : n \in plain <=> n \in Int /\ n \notin n
  OBVIOUS
<1>2. \E key : key \notin Int
  <2> HIDE DEF plain
  <2>1. plain \notin Int
    BY <1>1, Zenon
  <2> QED BY <2>1
<1> QED BY <1>2, Zenon DEF NoKey

(* A deduction takes one unit under a number that holds none.              *)
LEMMA ReserveDeducts ==
  ASSUME TypeInv, Numbered, NEW w \in Workers, pc[w] = "deduct", CanReserve(Buyer(w)), Reserve(w)
  PROVE  Store!ContractNext
<1>1. orderNo[w] \in Nat /\ stock \in Nat
  BY DEF TypeInv, TypeOK, Attempts
<1>2. stock # NoKey
  BY <1>1, NoKeyIsNoNumber
<1>3. orderNo[w] \notin {r.no : r \in reserved}
  BY DEF Numbered
<1>4. {r.no : r \in reserved'} = {r.no : r \in reserved} \cup {orderNo[w]}
  <2> DEFINE mine == [no |-> orderNo[w], user |-> Buyer(w)]
  <2>1. reserved' = reserved \cup {mine} /\ mine.no = orderNo[w]
    BY DEF Reserve
  <2> HIDE DEF mine
  <2> QED BY <2>1
<1>5. stock >= 1 /\ stock' = stock - 1
  BY DEF CanReserve, Reserve
<1>6. \E o \in Nat : Store!Deduct(o)
  <2>1. PICK o \in Nat : o = orderNo[w]
    BY <1>1
  <2>2. Store!Deduct(o)
    BY <1>2, <1>3, <1>4, <1>5, <2>1 DEF Store!Deduct
  <2> QED BY <2>2, Zenon
<1> QED BY <1>6, Zenon DEF Store!ContractNext

(* A release gives back the unit of its own number, or changes nothing.    *)
LEMMA UnreserveGivesBack ==
  ASSUME TypeInv, Numbered, NEW w \in Workers, pc[w] = "undo", Unreserve(w)
  PROVE  Store!ContractNext \/ UNCHANGED Store!contractVars
<1> DEFINE mine == {r \in reserved : r.no = orderNo[w]}
<1>1. CASE mine = {}
  BY <1>1 DEF Unreserve, Store!contractVars
<1>2. CASE mine # {}
  <2>1. orderNo[w] \in Nat /\ stock \in Nat
    BY DEF TypeInv, TypeOK, Attempts
  <2>2. stock # NoKey
    BY <2>1, NoKeyIsNoNumber
  <2>3. reserved' = reserved \ mine /\ stock' = stock + 1
    BY <1>2 DEF Unreserve
  <2>4. orderNo[w] \in {r.no : r \in reserved}
    BY <1>2
  <2>5. {r.no : r \in reserved'} = {r.no : r \in reserved} \ {orderNo[w]}
    BY <2>3
  <2>6. \E o \in Nat : Store!GiveBack(o)
    <3>1. PICK o \in Nat : o = orderNo[w]
      BY <2>1
    <3>2. Store!GiveBack(o)
      BY <2>2, <2>3, <2>4, <2>5, <3>1 DEF Store!GiveBack
    <3> QED BY <3>2, Zenon
  <2> QED BY <2>6, Zenon DEF Store!ContractNext
<1> QED BY <1>1, <1>2

(* No other action touches the shelf.                                      *)
LEMMA ShelfStep ==
  ASSUME TypeInv, Numbered, [Next]_vars
  PROVE  [Store!ContractNext]_(Store!contractVars)
<1>1. ASSUME UNCHANGED stockVars PROVE UNCHANGED Store!contractVars
  BY <1>1 DEF Store!contractVars
<1>2. ASSUME NEW w \in Workers, pc[w] = "deduct", CanReserve(Buyer(w)), Reserve(w)
      PROVE  Store!ContractNext
  BY <1>2, ReserveDeducts
<1>3. ASSUME NEW w \in Workers, pc[w] = "undo", Unreserve(w)
      PROVE  Store!ContractNext \/ UNCHANGED Store!contractVars
  BY <1>3, UnreserveGivesBack
<1>4. \/ UNCHANGED stockVars
      \/ \E w \in Workers : pc[w] = "deduct" /\ CanReserve(Buyer(w)) /\ Reserve(w)
      \/ \E w \in Workers : pc[w] = "undo" /\ Unreserve(w)
  BY DEF Next, Handle, Drained, vars, Deliver, Ack, Nak, Crash, TryStartWins, TryStartLoses,
     TryStartFails, ReleaseIdem, CheckPasses, CheckRejects, CheckFails, DeductReserves,
     DeductRejects, DeductFails, CreateInserts, CreateDuplicate, CreateFails, Undo,
     LookupFinds, LookupFails, PublishTimeout, MarkGateway, MarkIdem, AckWaitPasses,
     IdemExpires, SaleCloses
<1> QED BY <1>1, <1>2, <1>3, <1>4

(* Whatever fails, comes twice or expires, the processor sees a stock      *)
(* store: what DeductStockWithLimit and ReleaseStock do to the shelf in    *)
(* SeckillProcessor are steps of the contract that StockStore implements.  *)
THEOREM StockIsAStore == Spec => Store!ContractSpec
<1>1. Init => Numbered /\ Store!ContractInit
  BY ProcessorAssumption DEF Init, Numbered, Store!ContractInit
<1> QED
  BY <1>1, TypeInit, TypeStep, NumberedStep, ShelfStep, PTL DEF Spec, Store!ContractSpec
=============================================================================
