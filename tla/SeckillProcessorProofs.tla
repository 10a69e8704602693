------------------------ MODULE SeckillProcessorProofs ------------------------
(***************************************************************************)
(* Proofs about SeckillProcessor, for every number of messages, traces,    *)
(* buyers and instances, every stock and limit, and any number of faults.  *)
(***************************************************************************)
EXTENDS SeckillProcessor, FiniteSetTheorems, TLAPS

USE DEF Labels, CriticalLabels, Fault, NoFault, Goto, Step, Trace, Buyer,
        workerVars, stockVars, saleVars, faultVars,
        Absent, Processing, Failed, Success

-----------------------------------------------------------------------------
(* What an attempt knows at each step: TypeOK is inductive only with it.   *)
Attempts ==
  \A w \in Workers :
    /\ pc[w] \in {"deduct", "create", "undo"} => orderNo[w] \in 1 .. minted
    /\ pc[w] = "timeout" => \E n \in 1 .. minted : answer[w] = Success(n)
    /\ pc[w] \in {"gateway", "idem"} => answer[w] # Absent

TypeInv == TypeOK /\ Attempts

(* The initial state is well typed.                                        *)
LEMMA TypeInit == Init => TypeInv
  BY ProcessorAssumption DEF Init, TypeInv, TypeOK, Attempts, Answers

(* Every action keeps the types and what an attempt holds.                 *)
LEMMA TypeStep == TypeInv /\ [Next]_vars => TypeInv'
<1> SUFFICES ASSUME TypeOK, Attempts, [Next]_vars PROVE TypeOK' /\ Attempts'
  BY DEF TypeInv
<1> USE ProcessorAssumption DEF TypeOK, Attempts, Answers
<1>1. ASSUME NEW w \in Workers, NEW m \in Messages, Deliver(w, m) PROVE TypeOK' /\ Attempts'
  BY <1>1 DEF Deliver
<1>2. ASSUME NEW w \in Workers, Ack(w) PROVE TypeOK' /\ Attempts'
  BY <1>2 DEF Ack
<1>3. ASSUME NEW w \in Workers, Nak(w) PROVE TypeOK' /\ Attempts'
  BY <1>3 DEF Nak
<1>4. ASSUME NEW w \in Workers, Crash(w) PROVE TypeOK' /\ Attempts'
  BY <1>4 DEF Crash
<1>5. ASSUME NEW w \in Workers, TryStartWins(w) PROVE TypeOK' /\ Attempts'
  BY <1>5 DEF TryStartWins
<1>6. ASSUME NEW w \in Workers, TryStartLoses(w) PROVE TypeOK' /\ Attempts'
  BY <1>6 DEF TryStartLoses
<1>7. ASSUME NEW w \in Workers, TryStartFails(w) PROVE TypeOK' /\ Attempts'
  BY <1>7 DEF TryStartFails
<1>8. ASSUME NEW w \in Workers, ReleaseIdem(w) PROVE TypeOK' /\ Attempts'
  BY <1>8 DEF ReleaseIdem
<1>9. ASSUME NEW w \in Workers, CheckPasses(w) PROVE TypeOK' /\ Attempts'
  BY <1>9 DEF CheckPasses
<1>10. ASSUME NEW w \in Workers, CheckRejects(w) PROVE TypeOK' /\ Attempts'
  BY <1>10 DEF CheckRejects, Reject
<1>11. ASSUME NEW w \in Workers, CheckFails(w) PROVE TypeOK' /\ Attempts'
  BY <1>11 DEF CheckFails
<1>12. ASSUME NEW w \in Workers, DeductReserves(w) PROVE TypeOK' /\ Attempts'
  BY <1>12 DEF DeductReserves, CanReserve, Reserve
<1>13. ASSUME NEW w \in Workers, DeductRejects(w) PROVE TypeOK' /\ Attempts'
  BY <1>13 DEF DeductRejects, CanReserve, Reject
<1>14. ASSUME NEW w \in Workers, DeductFails(w) PROVE TypeOK' /\ Attempts'
  BY <1>14 DEF DeductFails, CanReserve, Reserve
<1>15. ASSUME NEW w \in Workers, CreateInserts(w) PROVE TypeOK' /\ Attempts'
  BY <1>15 DEF CreateInserts, HasOrder, Insert
<1>16. ASSUME NEW w \in Workers, CreateDuplicate(w) PROVE TypeOK' /\ Attempts'
  BY <1>16 DEF CreateDuplicate, HasOrder
<1>17. ASSUME NEW w \in Workers, CreateFails(w) PROVE TypeOK' /\ Attempts'
  BY <1>17 DEF CreateFails, HasOrder, Insert
<1>18. ASSUME NEW w \in Workers, Undo(w) PROVE TypeOK' /\ Attempts'
  BY <1>18 DEF Undo, Unreserve
<1>19. ASSUME NEW w \in Workers, LookupFinds(w) PROVE TypeOK' /\ Attempts'
  BY <1>19 DEF LookupFinds
<1>20. ASSUME NEW w \in Workers, LookupFails(w) PROVE TypeOK' /\ Attempts'
  BY <1>20 DEF LookupFails
<1>21. ASSUME NEW w \in Workers, PublishTimeout(w) PROVE TypeOK' /\ Attempts'
  <2>1. PICK n \in 1 .. minted : answer[w] = Success(n)
    BY <1>21 DEF PublishTimeout
  <2>2. answer[w].no \in 1 .. minted
    BY <2>1
  <2>3. timeouts' = timeouts \/ timeouts' = timeouts \cup {answer[w].no}
    BY <1>21 DEF PublishTimeout
  <2>4. timeouts' \subseteq 1 .. minted
    BY <2>2, <2>3
  <2>5. answer[w] # Absent
    BY <2>1
  <2>6. TypeOK'
    BY <1>21, <2>4 DEF PublishTimeout
  <2> QED
    BY <1>21, <2>5, <2>6 DEF PublishTimeout
<1>22. ASSUME NEW w \in Workers, MarkGateway(w) PROVE TypeOK' /\ Attempts'
  BY <1>22 DEF MarkGateway
<1>23. ASSUME NEW w \in Workers, MarkIdem(w) PROVE TypeOK' /\ Attempts'
  BY <1>23 DEF MarkIdem
<1>24. ASSUME NEW m \in Messages, AckWaitPasses(m) PROVE TypeOK' /\ Attempts'
  BY <1>24 DEF AckWaitPasses, Holds
<1>25. ASSUME NEW t \in Traces, IdemExpires(t) PROVE TypeOK' /\ Attempts'
  BY <1>25 DEF IdemExpires
<1>26. ASSUME SaleCloses PROVE TypeOK' /\ Attempts'
  BY <1>26 DEF SaleCloses
<1>27. ASSUME UNCHANGED vars PROVE TypeOK' /\ Attempts'
  BY <1>27 DEF vars
<1> QED
  BY <1>1, <1>2, <1>3, <1>4, <1>5, <1>6, <1>7, <1>8, <1>9, <1>10, <1>11, <1>12,
     <1>13, <1>14, <1>15, <1>16, <1>17, <1>18, <1>19, <1>20, <1>21, <1>22, <1>23, <1>24,
     <1>25, <1>26, <1>27
  DEF Next, Handle, Drained

(* Every reachable state is well typed: stock and counts stay natural.     *)
THEOREM TypeCorrect == Spec => []TypeOK
<1> QED
  BY TypeInit, TypeStep, PTL DEF Spec, TypeInv

-----------------------------------------------------------------------------
(* Layer 1: an instance in its critical steps sees its trace's key set.    *)
Claimed ==
  "ttl" \notin injected =>
    \A w \in Workers : pc[w] \in CriticalLabels => idem[Trace(w)] # Absent

(* TryStart finds the key claimed while another instance works on a trace; *)
(* only a step of that instance, or an expiry, takes the key away.         *)
LEMMA Layer1Step ==
  TypeInv /\ Claimed /\ Layer1Exclusive /\ [Next]_vars
    => Claimed' /\ Layer1Exclusive'
<1> SUFFICES ASSUME TypeOK, Attempts, Claimed, Layer1Exclusive, [Next]_vars
             PROVE  Claimed' /\ Layer1Exclusive'
  BY DEF TypeInv
<1> USE ProcessorAssumption DEF TypeOK, Attempts, Answers, Claimed, Layer1Exclusive
<1>1. ASSUME NEW w \in Workers, NEW m \in Messages, Deliver(w, m) PROVE Claimed' /\ Layer1Exclusive'
  BY <1>1 DEF Deliver
<1>2. ASSUME NEW w \in Workers, Ack(w) PROVE Claimed' /\ Layer1Exclusive'
  BY <1>2 DEF Ack
<1>3. ASSUME NEW w \in Workers, Nak(w) PROVE Claimed' /\ Layer1Exclusive'
  BY <1>3 DEF Nak
<1>4. ASSUME NEW w \in Workers, Crash(w) PROVE Claimed' /\ Layer1Exclusive'
  BY <1>4 DEF Crash
<1>5. ASSUME NEW w \in Workers, TryStartWins(w) PROVE Claimed' /\ Layer1Exclusive'
  BY <1>5 DEF TryStartWins
<1>6. ASSUME NEW w \in Workers, TryStartLoses(w) PROVE Claimed' /\ Layer1Exclusive'
  BY <1>6 DEF TryStartLoses
<1>7. ASSUME NEW w \in Workers, TryStartFails(w) PROVE Claimed' /\ Layer1Exclusive'
  BY <1>7 DEF TryStartFails
<1>8. ASSUME NEW w \in Workers, ReleaseIdem(w) PROVE Claimed' /\ Layer1Exclusive'
  BY <1>8 DEF ReleaseIdem
<1>9. ASSUME NEW w \in Workers, CheckPasses(w) PROVE Claimed' /\ Layer1Exclusive'
  BY <1>9 DEF CheckPasses
<1>10. ASSUME NEW w \in Workers, CheckRejects(w) PROVE Claimed' /\ Layer1Exclusive'
  BY <1>10 DEF CheckRejects, Reject
<1>11. ASSUME NEW w \in Workers, CheckFails(w) PROVE Claimed' /\ Layer1Exclusive'
  BY <1>11 DEF CheckFails
<1>12. ASSUME NEW w \in Workers, DeductReserves(w) PROVE Claimed' /\ Layer1Exclusive'
  BY <1>12 DEF DeductReserves, CanReserve, Reserve
<1>13. ASSUME NEW w \in Workers, DeductRejects(w) PROVE Claimed' /\ Layer1Exclusive'
  BY <1>13 DEF DeductRejects, CanReserve, Reject
<1>14. ASSUME NEW w \in Workers, DeductFails(w) PROVE Claimed' /\ Layer1Exclusive'
  BY <1>14 DEF DeductFails, CanReserve, Reserve
<1>15. ASSUME NEW w \in Workers, CreateInserts(w) PROVE Claimed' /\ Layer1Exclusive'
  BY <1>15 DEF CreateInserts, HasOrder, Insert
<1>16. ASSUME NEW w \in Workers, CreateDuplicate(w) PROVE Claimed' /\ Layer1Exclusive'
  BY <1>16 DEF CreateDuplicate, HasOrder
<1>17. ASSUME NEW w \in Workers, CreateFails(w) PROVE Claimed' /\ Layer1Exclusive'
  BY <1>17 DEF CreateFails, HasOrder, Insert
<1>18. ASSUME NEW w \in Workers, Undo(w) PROVE Claimed' /\ Layer1Exclusive'
  BY <1>18 DEF Undo, Unreserve
<1>19. ASSUME NEW w \in Workers, LookupFinds(w) PROVE Claimed' /\ Layer1Exclusive'
  BY <1>19 DEF LookupFinds
<1>20. ASSUME NEW w \in Workers, LookupFails(w) PROVE Claimed' /\ Layer1Exclusive'
  BY <1>20 DEF LookupFails
<1>21. ASSUME NEW w \in Workers, PublishTimeout(w) PROVE Claimed' /\ Layer1Exclusive'
  BY <1>21 DEF PublishTimeout
<1>22. ASSUME NEW w \in Workers, MarkGateway(w) PROVE Claimed' /\ Layer1Exclusive'
  BY <1>22 DEF MarkGateway
<1>23. ASSUME NEW w \in Workers, MarkIdem(w) PROVE Claimed' /\ Layer1Exclusive'
  BY <1>23 DEF MarkIdem
<1>24. ASSUME NEW m \in Messages, AckWaitPasses(m) PROVE Claimed' /\ Layer1Exclusive'
  BY <1>24 DEF AckWaitPasses, Holds
<1>25. ASSUME NEW t \in Traces, IdemExpires(t) PROVE Claimed' /\ Layer1Exclusive'
  BY <1>25 DEF IdemExpires
<1>26. ASSUME SaleCloses PROVE Claimed' /\ Layer1Exclusive'
  BY <1>26 DEF SaleCloses
<1>27. ASSUME UNCHANGED vars PROVE Claimed' /\ Layer1Exclusive'
  BY <1>27 DEF vars
<1> QED
  BY <1>1, <1>2, <1>3, <1>4, <1>5, <1>6, <1>7, <1>8, <1>9, <1>10, <1>11, <1>12,
     <1>13, <1>14, <1>15, <1>16, <1>17, <1>18, <1>19, <1>20, <1>21, <1>22, <1>23, <1>24,
     <1>25, <1>26, <1>27
  DEF Next, Handle, Drained

(* One instance at a time works on a trace, as long as no key expires.     *)
THEOREM Layer1Safe == Spec => []Layer1Exclusive
<1>1. Init => Claimed /\ Layer1Exclusive
  BY DEF Init, Claimed, Layer1Exclusive
<1> QED
  BY <1>1, TypeInit, TypeStep, Layer1Step, PTL DEF Spec

-----------------------------------------------------------------------------
(* Layer 2: the answer an instance carries names an order of its trace.    *)
Truthful ==
  \A w \in Workers : \A n \in 1 .. minted :
    pc[w] \in {"timeout", "gateway", "idem"} /\ answer[w] = Success(n)
      => [no |-> n, trace |-> Trace(w)] \in orders

(* An insert needs a trace without an order and a fresh number; every      *)
(* answer is taken from the row that was inserted or looked up.            *)
LEMMA Layer2Step ==
  TypeInv /\ OneOrderPerTrace /\ AnswersNameOrders /\ Truthful /\ [Next]_vars
    => OneOrderPerTrace' /\ AnswersNameOrders' /\ Truthful'
<1> SUFFICES ASSUME TypeOK, Attempts, OneOrderPerTrace, AnswersNameOrders, Truthful,
                    [Next]_vars
             PROVE  OneOrderPerTrace' /\ AnswersNameOrders' /\ Truthful'
  BY DEF TypeInv
<1> USE ProcessorAssumption DEF TypeOK, Attempts, Answers, OneOrderPerTrace, AnswersNameOrders, Truthful
<1>1. ASSUME NEW w \in Workers, NEW m \in Messages, Deliver(w, m) PROVE OneOrderPerTrace' /\ AnswersNameOrders' /\ Truthful'
  BY <1>1 DEF Deliver
<1>2. ASSUME NEW w \in Workers, Ack(w) PROVE OneOrderPerTrace' /\ AnswersNameOrders' /\ Truthful'
  BY <1>2 DEF Ack
<1>3. ASSUME NEW w \in Workers, Nak(w) PROVE OneOrderPerTrace' /\ AnswersNameOrders' /\ Truthful'
  BY <1>3 DEF Nak
<1>4. ASSUME NEW w \in Workers, Crash(w) PROVE OneOrderPerTrace' /\ AnswersNameOrders' /\ Truthful'
  BY <1>4 DEF Crash
<1>5. ASSUME NEW w \in Workers, TryStartWins(w) PROVE OneOrderPerTrace' /\ AnswersNameOrders' /\ Truthful'
  BY <1>5 DEF TryStartWins
<1>6. ASSUME NEW w \in Workers, TryStartLoses(w) PROVE OneOrderPerTrace' /\ AnswersNameOrders' /\ Truthful'
  BY <1>6 DEF TryStartLoses
<1>7. ASSUME NEW w \in Workers, TryStartFails(w) PROVE OneOrderPerTrace' /\ AnswersNameOrders' /\ Truthful'
  <2>1. idem' = idem \/ idem' = [idem EXCEPT ![Trace(w)] = Processing]
    BY <1>7 DEF TryStartFails
  <2>2. \A t \in Traces : \A n \in 1 .. minted : idem'[t] = Success(n) => idem[t] = Success(n)
    BY <2>1
  <2> QED
    BY <1>7, <2>2 DEF TryStartFails
<1>8. ASSUME NEW w \in Workers, ReleaseIdem(w) PROVE OneOrderPerTrace' /\ AnswersNameOrders' /\ Truthful'
  BY <1>8 DEF ReleaseIdem
<1>9. ASSUME NEW w \in Workers, CheckPasses(w) PROVE OneOrderPerTrace' /\ AnswersNameOrders' /\ Truthful'
  BY <1>9 DEF CheckPasses
<1>10. ASSUME NEW w \in Workers, CheckRejects(w) PROVE OneOrderPerTrace' /\ AnswersNameOrders' /\ Truthful'
  BY <1>10 DEF CheckRejects, Reject
<1>11. ASSUME NEW w \in Workers, CheckFails(w) PROVE OneOrderPerTrace' /\ AnswersNameOrders' /\ Truthful'
  BY <1>11 DEF CheckFails
<1>12. ASSUME NEW w \in Workers, DeductReserves(w) PROVE OneOrderPerTrace' /\ AnswersNameOrders' /\ Truthful'
  BY <1>12 DEF DeductReserves, CanReserve, Reserve
<1>13. ASSUME NEW w \in Workers, DeductRejects(w) PROVE OneOrderPerTrace' /\ AnswersNameOrders' /\ Truthful'
  BY <1>13 DEF DeductRejects, CanReserve, Reject
<1>14. ASSUME NEW w \in Workers, DeductFails(w) PROVE OneOrderPerTrace' /\ AnswersNameOrders' /\ Truthful'
  BY <1>14 DEF DeductFails, CanReserve, Reserve
<1>15. ASSUME NEW w \in Workers, CreateInserts(w) PROVE OneOrderPerTrace' /\ AnswersNameOrders' /\ Truthful'
  BY <1>15 DEF CreateInserts, HasOrder, Insert
<1>16. ASSUME NEW w \in Workers, CreateDuplicate(w) PROVE OneOrderPerTrace' /\ AnswersNameOrders' /\ Truthful'
  BY <1>16 DEF CreateDuplicate, HasOrder
<1>17. ASSUME NEW w \in Workers, CreateFails(w) PROVE OneOrderPerTrace' /\ AnswersNameOrders' /\ Truthful'
  BY <1>17 DEF CreateFails, HasOrder, Insert
<1>18. ASSUME NEW w \in Workers, Undo(w) PROVE OneOrderPerTrace' /\ AnswersNameOrders' /\ Truthful'
  BY <1>18 DEF Undo, Unreserve
<1>19. ASSUME NEW w \in Workers, LookupFinds(w) PROVE OneOrderPerTrace' /\ AnswersNameOrders' /\ Truthful'
  BY <1>19 DEF LookupFinds
<1>20. ASSUME NEW w \in Workers, LookupFails(w) PROVE OneOrderPerTrace' /\ AnswersNameOrders' /\ Truthful'
  BY <1>20 DEF LookupFails
<1>21. ASSUME NEW w \in Workers, PublishTimeout(w) PROVE OneOrderPerTrace' /\ AnswersNameOrders' /\ Truthful'
  BY <1>21 DEF PublishTimeout
<1>22. ASSUME NEW w \in Workers, MarkGateway(w) PROVE OneOrderPerTrace' /\ AnswersNameOrders' /\ Truthful'
  BY <1>22 DEF MarkGateway
<1>23. ASSUME NEW w \in Workers, MarkIdem(w) PROVE OneOrderPerTrace' /\ AnswersNameOrders' /\ Truthful'
  BY <1>23 DEF MarkIdem
<1>24. ASSUME NEW m \in Messages, AckWaitPasses(m) PROVE OneOrderPerTrace' /\ AnswersNameOrders' /\ Truthful'
  BY <1>24 DEF AckWaitPasses, Holds
<1>25. ASSUME NEW t \in Traces, IdemExpires(t) PROVE OneOrderPerTrace' /\ AnswersNameOrders' /\ Truthful'
  BY <1>25 DEF IdemExpires
<1>26. ASSUME SaleCloses PROVE OneOrderPerTrace' /\ AnswersNameOrders' /\ Truthful'
  BY <1>26 DEF SaleCloses
<1>27. ASSUME UNCHANGED vars PROVE OneOrderPerTrace' /\ AnswersNameOrders' /\ Truthful'
  BY <1>27 DEF vars
<1> QED
  BY <1>1, <1>2, <1>3, <1>4, <1>5, <1>6, <1>7, <1>8, <1>9, <1>10, <1>11, <1>12,
     <1>13, <1>14, <1>15, <1>16, <1>17, <1>18, <1>19, <1>20, <1>21, <1>22, <1>23, <1>24,
     <1>25, <1>26, <1>27
  DEF Next, Handle, Drained

LEMMA Layer2Init == Init => OneOrderPerTrace /\ AnswersNameOrders /\ Truthful
  BY DEF Init, OneOrderPerTrace, AnswersNameOrders, Truthful

(* A trace never has two orders: the unique index on (user, trace) is what *)
(* remains when the key of Layer 1 is gone (postgres.go, CreateOrder).     *)
THEOREM Layer2Safe == Spec => []OneOrderPerTrace
  BY TypeInit, TypeStep, Layer2Init, Layer2Step, PTL DEF Spec

(* Every order number that a poller or Layer 1 can read is that of the     *)
(* trace's own order (handleDuplicateTraceID, onOrderCreated).             *)
THEOREM AnswersSafe == Spec => []AnswersNameOrders
  BY TypeInit, TypeStep, Layer2Init, Layer2Step, PTL DEF Spec

-----------------------------------------------------------------------------
(* Order numbers are minted once, so reservations, orders and live attempts *)
(* can be told apart by them.                                               *)
Numbered ==
  /\ \A v, w \in Workers : orderNo[v] = orderNo[w] /\ orderNo[v] # 0 => v = w
  /\ \A w \in Workers : pc[w] = "deduct" => \A r \in reserved : r.no # orderNo[w]
  /\ \A w \in Workers : pc[w] \in {"create", "undo"} =>
       \A r \in reserved : r.no = orderNo[w] => r.user = Buyer(w)
  /\ \A w \in Workers : pc[w] \in {"deduct", "create"} => \A o \in orders : o.no # orderNo[w]
  /\ \A r1, r2 \in reserved : r1.no = r2.no => r1 = r2
  /\ \A o1, o2 \in orders : o1.no = o2.no => o1 = o2

(* Until a reply is lost, the attempt that is about to create holds its    *)
(* reservation, and the one that is about to give it back has no order.    *)
Backing ==
  /\ OrdersBacked
  /\ "lost" \notin injected =>
       \A w \in Workers :
         /\ pc[w] = "create" => \E r \in reserved : r.no = orderNo[w]
         /\ pc[w] = "undo" => \A o \in orders : o.no # orderNo[w]

(* Order numbers stay apart: no attempt works under another one's number.  *)
LEMMA NumberedStep == TypeInv /\ Numbered /\ [Next]_vars => Numbered'
<1> SUFFICES ASSUME TypeOK, Attempts, Numbered, [Next]_vars PROVE Numbered'
  BY DEF TypeInv
<1> USE ProcessorAssumption DEF TypeOK, Attempts, Numbered
<1>1. ASSUME NEW w \in Workers, NEW m \in Messages, Deliver(w, m) PROVE Numbered'
  BY <1>1 DEF Deliver
<1>2. ASSUME NEW w \in Workers, Ack(w) PROVE Numbered'
  BY <1>2 DEF Ack
<1>3. ASSUME NEW w \in Workers, Nak(w) PROVE Numbered'
  BY <1>3 DEF Nak
<1>4. ASSUME NEW w \in Workers, Crash(w) PROVE Numbered'
  BY <1>4 DEF Crash
<1>5. ASSUME NEW w \in Workers, TryStartWins(w) PROVE Numbered'
  BY <1>5 DEF TryStartWins
<1>6. ASSUME NEW w \in Workers, TryStartLoses(w) PROVE Numbered'
  BY <1>6 DEF TryStartLoses
<1>7. ASSUME NEW w \in Workers, TryStartFails(w) PROVE Numbered'
  BY <1>7 DEF TryStartFails
<1>8. ASSUME NEW w \in Workers, ReleaseIdem(w) PROVE Numbered'
  BY <1>8 DEF ReleaseIdem
<1>9. ASSUME NEW w \in Workers, CheckPasses(w) PROVE Numbered'
  BY <1>9 DEF CheckPasses
<1>10. ASSUME NEW w \in Workers, CheckRejects(w) PROVE Numbered'
  BY <1>10 DEF CheckRejects, Reject
<1>11. ASSUME NEW w \in Workers, CheckFails(w) PROVE Numbered'
  BY <1>11 DEF CheckFails
<1>12. ASSUME NEW w \in Workers, DeductReserves(w) PROVE Numbered'
  BY <1>12 DEF DeductReserves, CanReserve, Reserve
<1>13. ASSUME NEW w \in Workers, DeductRejects(w) PROVE Numbered'
  BY <1>13 DEF DeductRejects, CanReserve, Reject
<1>14. ASSUME NEW w \in Workers, DeductFails(w) PROVE Numbered'
  BY <1>14 DEF DeductFails, CanReserve, Reserve
<1>15. ASSUME NEW w \in Workers, CreateInserts(w) PROVE Numbered'
  BY <1>15 DEF CreateInserts, HasOrder, Insert
<1>16. ASSUME NEW w \in Workers, CreateDuplicate(w) PROVE Numbered'
  BY <1>16 DEF CreateDuplicate, HasOrder
<1>17. ASSUME NEW w \in Workers, CreateFails(w) PROVE Numbered'
  BY <1>17 DEF CreateFails, HasOrder, Insert
<1>18. ASSUME NEW w \in Workers, Undo(w) PROVE Numbered'
  BY <1>18 DEF Undo, Unreserve
<1>19. ASSUME NEW w \in Workers, LookupFinds(w) PROVE Numbered'
  BY <1>19 DEF LookupFinds
<1>20. ASSUME NEW w \in Workers, LookupFails(w) PROVE Numbered'
  BY <1>20 DEF LookupFails
<1>21. ASSUME NEW w \in Workers, PublishTimeout(w) PROVE Numbered'
  BY <1>21 DEF PublishTimeout
<1>22. ASSUME NEW w \in Workers, MarkGateway(w) PROVE Numbered'
  BY <1>22 DEF MarkGateway
<1>23. ASSUME NEW w \in Workers, MarkIdem(w) PROVE Numbered'
  BY <1>23 DEF MarkIdem
<1>24. ASSUME NEW m \in Messages, AckWaitPasses(m) PROVE Numbered'
  BY <1>24 DEF AckWaitPasses, Holds
<1>25. ASSUME NEW t \in Traces, IdemExpires(t) PROVE Numbered'
  BY <1>25 DEF IdemExpires
<1>26. ASSUME SaleCloses PROVE Numbered'
  BY <1>26 DEF SaleCloses
<1>27. ASSUME UNCHANGED vars PROVE Numbered'
  BY <1>27 DEF vars
<1> QED
  BY <1>1, <1>2, <1>3, <1>4, <1>5, <1>6, <1>7, <1>8, <1>9, <1>10, <1>11, <1>12,
     <1>13, <1>14, <1>15, <1>16, <1>17, <1>18, <1>19, <1>20, <1>21, <1>22, <1>23, <1>24,
     <1>25, <1>26, <1>27
  DEF Next, Handle, Drained

(* Until a reply is lost, no step parts an order from its reservation.     *)
LEMMA BackingStep == TypeInv /\ Numbered /\ Backing /\ [Next]_vars => Backing'
<1> SUFFICES ASSUME TypeOK, Attempts, Numbered, Backing, [Next]_vars PROVE Backing'
  BY DEF TypeInv
<1> USE ProcessorAssumption DEF TypeOK, Attempts, Numbered, Backing, OrdersBacked
<1>1. ASSUME NEW w \in Workers, NEW m \in Messages, Deliver(w, m) PROVE Backing'
  BY <1>1 DEF Deliver
<1>2. ASSUME NEW w \in Workers, Ack(w) PROVE Backing'
  BY <1>2 DEF Ack
<1>3. ASSUME NEW w \in Workers, Nak(w) PROVE Backing'
  BY <1>3 DEF Nak
<1>4. ASSUME NEW w \in Workers, Crash(w) PROVE Backing'
  BY <1>4 DEF Crash
<1>5. ASSUME NEW w \in Workers, TryStartWins(w) PROVE Backing'
  BY <1>5 DEF TryStartWins
<1>6. ASSUME NEW w \in Workers, TryStartLoses(w) PROVE Backing'
  BY <1>6 DEF TryStartLoses
<1>7. ASSUME NEW w \in Workers, TryStartFails(w) PROVE Backing'
  BY <1>7 DEF TryStartFails
<1>8. ASSUME NEW w \in Workers, ReleaseIdem(w) PROVE Backing'
  BY <1>8 DEF ReleaseIdem
<1>9. ASSUME NEW w \in Workers, CheckPasses(w) PROVE Backing'
  BY <1>9 DEF CheckPasses
<1>10. ASSUME NEW w \in Workers, CheckRejects(w) PROVE Backing'
  BY <1>10 DEF CheckRejects, Reject
<1>11. ASSUME NEW w \in Workers, CheckFails(w) PROVE Backing'
  BY <1>11 DEF CheckFails
<1>12. ASSUME NEW w \in Workers, DeductReserves(w) PROVE Backing'
  <2>1. reserved' = reserved \cup {[no |-> orderNo[w], user |-> Buyer(w)]}
    BY <1>12 DEF DeductReserves, Reserve
  <2>2. [no |-> orderNo[w], user |-> Buyer(w)].no = orderNo[w]
    OBVIOUS
  <2>3. \E r \in reserved' : r.no = orderNo[w]
    BY <2>1, <2>2
  <2> QED
    BY <1>12, <2>1, <2>3 DEF DeductReserves
<1>13. ASSUME NEW w \in Workers, DeductRejects(w) PROVE Backing'
  BY <1>13 DEF DeductRejects, CanReserve, Reject
<1>14. ASSUME NEW w \in Workers, DeductFails(w) PROVE Backing'
  BY <1>14 DEF DeductFails, CanReserve, Reserve
<1>15. ASSUME NEW w \in Workers, CreateInserts(w) PROVE Backing'
  BY <1>15 DEF CreateInserts, HasOrder, Insert
<1>16. ASSUME NEW w \in Workers, CreateDuplicate(w) PROVE Backing'
  BY <1>16 DEF CreateDuplicate, HasOrder
<1>17. ASSUME NEW w \in Workers, CreateFails(w) PROVE Backing'
  BY <1>17 DEF CreateFails, HasOrder, Insert
<1>18. ASSUME NEW w \in Workers, Undo(w) PROVE Backing'
  BY <1>18 DEF Undo, Unreserve
<1>19. ASSUME NEW w \in Workers, LookupFinds(w) PROVE Backing'
  BY <1>19 DEF LookupFinds
<1>20. ASSUME NEW w \in Workers, LookupFails(w) PROVE Backing'
  BY <1>20 DEF LookupFails
<1>21. ASSUME NEW w \in Workers, PublishTimeout(w) PROVE Backing'
  BY <1>21 DEF PublishTimeout
<1>22. ASSUME NEW w \in Workers, MarkGateway(w) PROVE Backing'
  BY <1>22 DEF MarkGateway
<1>23. ASSUME NEW w \in Workers, MarkIdem(w) PROVE Backing'
  BY <1>23 DEF MarkIdem
<1>24. ASSUME NEW m \in Messages, AckWaitPasses(m) PROVE Backing'
  BY <1>24 DEF AckWaitPasses, Holds
<1>25. ASSUME NEW t \in Traces, IdemExpires(t) PROVE Backing'
  BY <1>25 DEF IdemExpires
<1>26. ASSUME SaleCloses PROVE Backing'
  BY <1>26 DEF SaleCloses
<1>27. ASSUME UNCHANGED vars PROVE Backing'
  BY <1>27 DEF vars
<1> QED
  BY <1>1, <1>2, <1>3, <1>4, <1>5, <1>6, <1>7, <1>8, <1>9, <1>10, <1>11, <1>12,
     <1>13, <1>14, <1>15, <1>16, <1>17, <1>18, <1>19, <1>20, <1>21, <1>22, <1>23, <1>24,
     <1>25, <1>26, <1>27
  DEF Next, Handle, Drained

-----------------------------------------------------------------------------
(* Units: counting reservations.                                           *)
HeldBy(u, R) == {r \in R : r.user = u}

(* A new reservation adds one to its buyer's count and to no other.        *)
LEMMA AddReservation ==
  ASSUME NEW R, IsFiniteSet(R), NEW x, x \notin R, NEW u
  PROVE  /\ IsFiniteSet(R \cup {x})
         /\ Cardinality(R \cup {x}) = Cardinality(R) + 1
         /\ Cardinality(HeldBy(u, R \cup {x})) =
              IF x.user = u THEN Cardinality(HeldBy(u, R)) + 1
                            ELSE Cardinality(HeldBy(u, R))
<1>1. IsFiniteSet(HeldBy(u, R))
  BY FS_Subset DEF HeldBy
<1>2. CASE x.user = u
  <2>1. HeldBy(u, R \cup {x}) = HeldBy(u, R) \cup {x} /\ x \notin HeldBy(u, R)
    BY <1>2 DEF HeldBy
  <2> QED
    BY <1>1, <1>2, <2>1, FS_AddElement
<1>3. CASE x.user # u
  <2>1. HeldBy(u, R \cup {x}) = HeldBy(u, R)
    BY <1>3 DEF HeldBy
  <2> QED
    BY <1>3, <2>1, FS_AddElement
<1> QED
  BY <1>2, <1>3

(* Taking x out again is adding it read backwards.                         *)
LEMMA DropReservation ==
  ASSUME NEW R, IsFiniteSet(R), NEW x \in R, NEW u
  PROVE  /\ IsFiniteSet(R \ {x})
         /\ Cardinality(R) = Cardinality(R \ {x}) + 1
         /\ Cardinality(HeldBy(u, R)) =
              IF x.user = u THEN Cardinality(HeldBy(u, R \ {x})) + 1
                            ELSE Cardinality(HeldBy(u, R \ {x}))
<1>1. IsFiniteSet(R \ {x}) /\ x \notin R \ {x} /\ (R \ {x}) \cup {x} = R
  BY FS_Subset
<1> HIDE DEF HeldBy
<1> QED
  BY <1>1, AddReservation

Units == IsFiniteSet(reserved) /\ StockConserved

(* A deduction takes from the shelf what it reserves.                      *)
LEMMA ReserveKeepsUnits ==
  ASSUME TypeInv, Numbered, Units, NEW w \in Workers,
         pc[w] = "deduct", CanReserve(Buyer(w)), Reserve(w)
  PROVE  Units'
<1> DEFINE x == [no |-> orderNo[w], user |-> Buyer(w)]
<1>1. x \notin reserved /\ reserved' = reserved \cup {x} /\ x.user = Buyer(w)
  BY DEF Numbered, Reserve
<1>2. IsFiniteSet(reserved') /\ Cardinality(reserved') = Cardinality(reserved) + 1
  BY <1>1, AddReservation DEF Units
<1>3. ASSUME Limit > 0, NEW u \in Users
      PROVE  purchases'[u] = Cardinality({r \in reserved' : r.user = u})
  <2>1. purchases[u] = Cardinality(HeldBy(u, reserved))
    BY <1>3 DEF Units, StockConserved, HeldBy
  <2>2. Cardinality(HeldBy(u, reserved')) =
          IF Buyer(w) = u THEN Cardinality(HeldBy(u, reserved)) + 1
                          ELSE Cardinality(HeldBy(u, reserved))
    <3>1. Cardinality(HeldBy(u, reserved \cup {x})) =
            IF x.user = u THEN Cardinality(HeldBy(u, reserved)) + 1
                          ELSE Cardinality(HeldBy(u, reserved))
      <4> HIDE DEF x
      <4> QED
        BY <1>1, AddReservation DEF Units
    <3> QED
      BY <1>1, <3>1
  <2>3. purchases'[u] = IF Buyer(w) = u THEN purchases[u] + 1 ELSE purchases[u]
    BY <1>3 DEF Reserve, TypeInv, TypeOK
  <2> QED
    BY <2>1, <2>2, <2>3 DEF HeldBy
<1>4. stock' + Cardinality(reserved') = Stock0
  <2>1. Cardinality(reserved) \in Nat
    BY FS_CardinalityType DEF Units
  <2> QED
    BY <1>2, <2>1 DEF Reserve, TypeInv, TypeOK, Units, StockConserved
<1> QED
  BY <1>2, <1>3, <1>4 DEF Units, StockConserved

(* A release puts back on the shelf exactly the reservation it removes.    *)
LEMMA UnreserveKeepsUnits ==
  ASSUME TypeInv, Numbered, Units, NEW w \in Workers, pc[w] = "undo", Unreserve(w)
  PROVE  Units'
<1> DEFINE mine == {r \in reserved : r.no = orderNo[w]}
<1>1. CASE mine = {}
  BY <1>1 DEF Unreserve, Units, StockConserved
<1>2. CASE mine # {}
  <2>1. PICK x \in reserved : x.no = orderNo[w]
    BY <1>2
  <2>2. mine = {x} /\ x.user = Buyer(w)
    BY <2>1 DEF Numbered
  <2>3. /\ reserved' = reserved \ {x}
        /\ stock' = stock + 1
        /\ purchases' = [purchases EXCEPT ![Buyer(w)] = IF @ <= 1 THEN 0 ELSE @ - 1]
    BY <1>2, <2>2 DEF Unreserve
  <2>4. IsFiniteSet(reserved') /\ Cardinality(reserved) = Cardinality(reserved') + 1
    BY <2>3, DropReservation DEF Units
  <2>5. ASSUME Limit > 0, NEW u \in Users
        PROVE  purchases'[u] = Cardinality({r \in reserved' : r.user = u})
    <3>1. purchases[u] = Cardinality(HeldBy(u, reserved))
      BY <2>5 DEF Units, StockConserved, HeldBy
    <3>2. Cardinality(HeldBy(u, reserved)) =
            IF Buyer(w) = u THEN Cardinality(HeldBy(u, reserved')) + 1
                            ELSE Cardinality(HeldBy(u, reserved'))
      <4>1. Cardinality(HeldBy(u, reserved)) =
              IF x.user = u THEN Cardinality(HeldBy(u, reserved \ {x})) + 1
                            ELSE Cardinality(HeldBy(u, reserved \ {x}))
        BY DropReservation DEF Units
      <4> QED
        BY <2>2, <2>3, <4>1
    <3>3. IsFiniteSet(HeldBy(u, reserved'))
      BY <2>4, FS_Subset DEF HeldBy
    <3>4. Cardinality(HeldBy(u, reserved')) \in Nat
      BY <3>3, FS_CardinalityType
    <3>5. purchases'[u] = IF Buyer(w) = u
                            THEN IF purchases[u] <= 1 THEN 0 ELSE purchases[u] - 1
                            ELSE purchases[u]
      BY <2>3 DEF TypeInv, TypeOK
    <3>6. purchases'[u] = Cardinality(HeldBy(u, reserved'))
      BY <3>1, <3>2, <3>4, <3>5
    <3> QED
      BY <3>6 DEF HeldBy
  <2>6. stock' + Cardinality(reserved') = Stock0
    <3>1. Cardinality(reserved') \in Nat
      BY <2>4, FS_CardinalityType
    <3> QED
      BY <2>3, <2>4, <3>1 DEF TypeInv, TypeOK, Units, StockConserved
  <2> QED
    BY <2>4, <2>5, <2>6 DEF Units, StockConserved
<1> QED
  BY <1>1, <1>2

(* No other action touches stock, counts or reservations.                  *)
LEMMA UnitsStep == TypeInv /\ Numbered /\ Units /\ [Next]_vars => Units'
<1> SUFFICES ASSUME TypeInv, Numbered, Units, [Next]_vars PROVE Units'
  OBVIOUS
<1>0. ASSUME UNCHANGED stockVars PROVE Units'
  BY <1>0 DEF Units, StockConserved
<1>1. ASSUME NEW w \in Workers, NEW m \in Messages, Deliver(w, m) PROVE Units'
  BY <1>1, <1>0 DEF Deliver
<1>2. ASSUME NEW w \in Workers, Ack(w) PROVE Units'
  BY <1>2, <1>0 DEF Ack
<1>3. ASSUME NEW w \in Workers, Nak(w) PROVE Units'
  BY <1>3, <1>0 DEF Nak
<1>4. ASSUME NEW w \in Workers, Crash(w) PROVE Units'
  BY <1>4, <1>0 DEF Crash
<1>5. ASSUME NEW w \in Workers, TryStartWins(w) PROVE Units'
  BY <1>5, <1>0 DEF TryStartWins
<1>6. ASSUME NEW w \in Workers, TryStartLoses(w) PROVE Units'
  BY <1>6, <1>0 DEF TryStartLoses
<1>7. ASSUME NEW w \in Workers, TryStartFails(w) PROVE Units'
  BY <1>7, <1>0 DEF TryStartFails
<1>8. ASSUME NEW w \in Workers, ReleaseIdem(w) PROVE Units'
  BY <1>8, <1>0 DEF ReleaseIdem
<1>9. ASSUME NEW w \in Workers, CheckPasses(w) PROVE Units'
  BY <1>9, <1>0 DEF CheckPasses
<1>10. ASSUME NEW w \in Workers, CheckRejects(w) PROVE Units'
  BY <1>10, <1>0 DEF CheckRejects
<1>11. ASSUME NEW w \in Workers, CheckFails(w) PROVE Units'
  BY <1>11, <1>0 DEF CheckFails
<1>12. ASSUME NEW w \in Workers, DeductReserves(w) PROVE Units'
  BY <1>12, ReserveKeepsUnits DEF DeductReserves
<1>13. ASSUME NEW w \in Workers, DeductRejects(w) PROVE Units'
  BY <1>13, <1>0 DEF DeductRejects
<1>14. ASSUME NEW w \in Workers, DeductFails(w) PROVE Units'
  BY <1>14, <1>0, ReserveKeepsUnits DEF DeductFails
<1>15. ASSUME NEW w \in Workers, CreateInserts(w) PROVE Units'
  BY <1>15, <1>0 DEF CreateInserts
<1>16. ASSUME NEW w \in Workers, CreateDuplicate(w) PROVE Units'
  BY <1>16, <1>0 DEF CreateDuplicate
<1>17. ASSUME NEW w \in Workers, CreateFails(w) PROVE Units'
  BY <1>17, <1>0 DEF CreateFails
<1>18. ASSUME NEW w \in Workers, Undo(w) PROVE Units'
  BY <1>18, <1>0, UnreserveKeepsUnits DEF Undo
<1>19. ASSUME NEW w \in Workers, LookupFinds(w) PROVE Units'
  BY <1>19, <1>0 DEF LookupFinds
<1>20. ASSUME NEW w \in Workers, LookupFails(w) PROVE Units'
  BY <1>20, <1>0 DEF LookupFails
<1>21. ASSUME NEW w \in Workers, PublishTimeout(w) PROVE Units'
  BY <1>21, <1>0 DEF PublishTimeout
<1>22. ASSUME NEW w \in Workers, MarkGateway(w) PROVE Units'
  BY <1>22, <1>0 DEF MarkGateway
<1>23. ASSUME NEW w \in Workers, MarkIdem(w) PROVE Units'
  BY <1>23, <1>0 DEF MarkIdem
<1>24. ASSUME NEW m \in Messages, AckWaitPasses(m) PROVE Units'
  BY <1>24, <1>0 DEF AckWaitPasses
<1>25. ASSUME NEW t \in Traces, IdemExpires(t) PROVE Units'
  BY <1>25, <1>0 DEF IdemExpires
<1>26. ASSUME SaleCloses PROVE Units'
  BY <1>26, <1>0 DEF SaleCloses
<1>27. ASSUME UNCHANGED vars PROVE Units'
  BY <1>27, <1>0 DEF vars
<1> QED
  BY <1>1, <1>2, <1>3, <1>4, <1>5, <1>6, <1>7, <1>8, <1>9, <1>10, <1>11, <1>12,
     <1>13, <1>14, <1>15, <1>16, <1>17, <1>18, <1>19, <1>20, <1>21, <1>22, <1>23, <1>24,
     <1>25, <1>26, <1>27
  DEF Next, Handle, Drained

(* No unit is created or lost: the shelf and the reservations always add   *)
(* up, and a buyer's count is the number of units reserved for the buyer.  *)
THEOREM StockSafe == Spec => []StockConserved
<1>1. Init => Numbered /\ Units
  <2> SUFFICES ASSUME Init PROVE Numbered /\ Units
    OBVIOUS
  <2>1. Cardinality({}) = 0 /\ IsFiniteSet({})
    BY FS_EmptySet
  <2>2. \A u \in Users : {r \in reserved : r.user = u} = {}
    BY DEF Init
  <2> QED
    BY <2>1, <2>2, ProcessorAssumption DEF Init, Numbered, Units, StockConserved
<1>2. Units => StockConserved
  BY DEF Units
<1> QED
  BY <1>1, <1>2, TypeInit, TypeStep, NumberedStep, UnitsStep, PTL DEF Spec

-----------------------------------------------------------------------------
(* Orders are counted through the reservations that back them.             *)
LEMMA BackedOrdersBounded ==
  ASSUME TypeInv, Numbered, OrdersBacked, Units, "lost" \notin injected
  PROVE  IsFiniteSet(orders) /\ Cardinality(orders) <= Stock0
<1> DEFINE f == [o \in orders |-> CHOOSE r \in reserved : r.no = o.no]
<1>1. \A o \in orders : f[o] \in reserved /\ f[o].no = o.no
  BY DEF OrdersBacked
<1>2. f \in Injection(orders, reserved)
  BY <1>1 DEF Numbered, Injection, IsInjective
<1>3. IsFiniteSet(orders) /\ Cardinality(orders) <= Cardinality(reserved)
  BY <1>2, FS_Injection DEF Units, ExistsInjection
<1>4. Cardinality(reserved) <= Stock0 /\ Cardinality(orders) \in Nat
  BY <1>3, FS_CardinalityType DEF Units, StockConserved, TypeInv, TypeOK
<1> QED
  BY <1>3, <1>4, FS_CardinalityType, ProcessorAssumption DEF Units

(* While no reply of CreateOrder is lost, the sale is never oversold.      *)
THEOREM SaleSafe == Spec => []NoOversell
<1>1. Init => Numbered /\ Backing /\ Units
  <2> SUFFICES ASSUME Init PROVE Numbered /\ Backing /\ Units
    OBVIOUS
  <2>1. Cardinality({}) = 0 /\ IsFiniteSet({})
    BY FS_EmptySet
  <2>2. \A u \in Users : {r \in reserved : r.user = u} = {}
    BY DEF Init
  <2> QED
    BY <2>1, <2>2, ProcessorAssumption
    DEF Init, Numbered, Backing, OrdersBacked, Units, StockConserved
<1>2. TypeInv /\ Numbered /\ Backing /\ Units => NoOversell
  BY BackedOrdersBounded DEF Backing, NoOversell
<1> QED
  BY <1>1, <1>2, TypeInit, TypeStep, NumberedStep, BackingStep, UnitsStep, PTL DEF Spec

-----------------------------------------------------------------------------
(* A limited buyer's count stays within the limit, and an order and the    *)
(* reservation of the same number are one buyer's.                         *)
Limited ==
  /\ Limit > 0 => \A u \in Users : purchases[u] <= Limit
  /\ \A o \in orders, r \in reserved : r.no = o.no => r.user = UserOf[o.trace]

(* Only the deduction counts up, under its guard; only it and the insert   *)
(* add what could belong to the wrong buyer.                               *)
LEMMA LimitedStep == TypeInv /\ Numbered /\ Limited /\ [Next]_vars => Limited'
<1> SUFFICES ASSUME TypeInv, Numbered, Limited, [Next]_vars PROVE Limited'
  OBVIOUS
<1> USE ProcessorAssumption
<1>0. ASSUME UNCHANGED <<purchases, reserved, orders>> PROVE Limited'
  BY <1>0 DEF Limited
<1>1. ASSUME NEW w \in Workers, pc[w] = "deduct", CanReserve(Buyer(w)), Reserve(w),
             UNCHANGED orders
      PROVE  Limited'
  BY <1>1 DEF Limited, CanReserve, Reserve, Numbered, TypeInv, TypeOK
<1>2. ASSUME NEW w \in Workers, pc[w] = "create", Insert(w), UNCHANGED <<purchases, reserved>>
      PROVE  Limited'
  BY <1>2 DEF Limited, Insert, Numbered, Buyer
<1>3. ASSUME NEW w \in Workers, Unreserve(w), UNCHANGED orders PROVE Limited'
  BY <1>3 DEF Limited, Unreserve, TypeInv, TypeOK, stockVars
<1>4. ASSUME NEW w \in Workers, NEW m \in Messages, Deliver(w, m) PROVE Limited'
  BY <1>4, <1>0 DEF Deliver, stockVars, saleVars
<1>5. ASSUME NEW w \in Workers, Ack(w) \/ Nak(w) \/ Crash(w) PROVE Limited'
  BY <1>5, <1>0 DEF Ack, Nak, Crash, stockVars, saleVars
<1>6. ASSUME NEW w \in Workers, TryStartWins(w) \/ TryStartLoses(w) \/ TryStartFails(w)
      PROVE  Limited'
  BY <1>6, <1>0 DEF TryStartWins, TryStartLoses, TryStartFails, stockVars, saleVars
<1>7. ASSUME NEW w \in Workers, ReleaseIdem(w) \/ CheckPasses(w) \/ CheckRejects(w) \/ CheckFails(w)
      PROVE  Limited'
  BY <1>7, <1>0 DEF ReleaseIdem, CheckPasses, CheckRejects, CheckFails, stockVars, saleVars
<1>8. ASSUME NEW w \in Workers, DeductReserves(w) PROVE Limited'
  BY <1>8, <1>1 DEF DeductReserves, Step, saleVars
<1>9. ASSUME NEW w \in Workers, DeductRejects(w) \/ DeductFails(w) PROVE Limited'
  BY <1>9, <1>0, <1>1 DEF DeductRejects, DeductFails, Step, stockVars, saleVars
<1>10. ASSUME NEW w \in Workers, CreateInserts(w) PROVE Limited'
  BY <1>10, <1>2 DEF CreateInserts, Step, stockVars
<1>11. ASSUME NEW w \in Workers, CreateDuplicate(w) PROVE Limited'
  BY <1>11, <1>0 DEF CreateDuplicate, stockVars, saleVars
<1>12. ASSUME NEW w \in Workers, CreateFails(w) PROVE Limited'
  BY <1>12, <1>0, <1>2 DEF CreateFails, Step, stockVars, saleVars
<1>13. ASSUME NEW w \in Workers, Undo(w) PROVE Limited'
  BY <1>13, <1>0, <1>3 DEF Undo, stockVars, saleVars
<1>14. ASSUME NEW w \in Workers, LookupFinds(w) \/ LookupFails(w) \/ PublishTimeout(w)
      PROVE  Limited'
  BY <1>14, <1>0 DEF LookupFinds, LookupFails, PublishTimeout, stockVars, saleVars
<1>15. ASSUME NEW w \in Workers, MarkGateway(w) \/ MarkIdem(w) PROVE Limited'
  BY <1>15, <1>0 DEF MarkGateway, MarkIdem, stockVars, saleVars
<1>16. ASSUME NEW m \in Messages, AckWaitPasses(m) PROVE Limited'
  BY <1>16, <1>0 DEF AckWaitPasses, stockVars, saleVars
<1>17. ASSUME NEW t \in Traces, IdemExpires(t) PROVE Limited'
  BY <1>17, <1>0 DEF IdemExpires, stockVars, saleVars
<1>18. ASSUME SaleCloses \/ UNCHANGED vars PROVE Limited'
  BY <1>18, <1>0 DEF SaleCloses, vars, stockVars, saleVars
<1> QED
  BY <1>4, <1>5, <1>6, <1>7, <1>8, <1>9, <1>10, <1>11, <1>12, <1>13, <1>14, <1>15, <1>16,
     <1>17, <1>18
  DEF Next, Handle, Drained

(* A buyer's orders are counted through his reservations.                  *)
LEMMA BuyersOrdersBounded ==
  ASSUME TypeInv, Numbered, OrdersBacked, Units, Limited, "lost" \notin injected, Limit > 0,
         NEW u \in Users
  PROVE  Cardinality({o \in orders : UserOf[o.trace] = u}) <= Limit
<1> DEFINE mine == {o \in orders : UserOf[o.trace] = u}
           kept == {r \in reserved : r.user = u}
           f == [o \in mine |-> CHOOSE r \in reserved : r.no = o.no]
<1>1. \A o \in mine : f[o] \in reserved /\ f[o].no = o.no
  BY DEF OrdersBacked
<1>2. \A o \in mine : f[o] \in kept
  <2> SUFFICES ASSUME NEW o \in mine PROVE f[o] \in kept
    OBVIOUS
  <2>1. f[o] \in reserved /\ f[o].no = o.no
    BY <1>1
  <2>2. f[o].user = UserOf[o.trace]
    BY <2>1 DEF Limited
  <2> QED
    BY <2>1, <2>2
<1>3. f \in Injection(mine, kept)
  <2>1. f \in [mine -> kept]
    BY <1>2
  <2>2. \A a, b \in mine : f[a] = f[b] => a = b
    <3> HIDE DEF f
    <3> QED
      BY <1>1 DEF Numbered
  <2> HIDE DEF f, mine, kept
  <2> QED
    BY <2>1, <2>2 DEF Injection, IsInjective
<1>4. IsFiniteSet(kept)
  BY FS_Subset DEF Units
<1>5. IsFiniteSet(mine) /\ Cardinality(mine) <= Cardinality(kept)
  BY <1>3, <1>4, FS_Injection DEF ExistsInjection
<1>6. Cardinality(kept) <= Limit
  BY DEF Units, StockConserved, Limited
<1> QED
  BY <1>4, <1>5, <1>6, FS_CardinalityType, ProcessorAssumption

(* While no reply is lost, no buyer has more orders than the purchase      *)
(* limit (DeductStockWithLimit, and the releases that undo it).            *)
THEOREM LimitSafe == Spec => []LimitHolds
<1>1. Init => Numbered /\ Backing /\ Units /\ Limited
  <2> SUFFICES ASSUME Init PROVE Numbered /\ Backing /\ Units /\ Limited
    OBVIOUS
  <2>1. Cardinality({}) = 0 /\ IsFiniteSet({})
    BY FS_EmptySet
  <2>2. \A u \in Users : {r \in reserved : r.user = u} = {}
    BY DEF Init
  <2> QED
    BY <2>1, <2>2, ProcessorAssumption
    DEF Init, Numbered, Backing, OrdersBacked, Units, StockConserved, Limited
<1>2. TypeInv /\ Numbered /\ Backing /\ Units /\ Limited => LimitHolds
  BY BuyersOrdersBounded DEF Backing, LimitHolds
<1> QED
  BY <1>1, <1>2, TypeInit, TypeStep, NumberedStep, BackingStep, UnitsStep, LimitedStep, PTL DEF Spec
=============================================================================
