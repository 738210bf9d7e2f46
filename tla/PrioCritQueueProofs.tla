------------------------- MODULE PrioCritQueueProofs -------------------------
(***************************************************************************)
(* The three rings of PrioCritQueue keep their shape and implement         *)
(* PrioFifo, for every capacity, element set and assignment of             *)
(* criticalities.                                                          *)
(***************************************************************************)
EXTENDS PrioCritQueue, PrioCritQueueLemmas

-----------------------------------------------------------------------------
\* Every state of every behaviour is well typed, and in it the head, tail
\* and size of every ring agree: the arithmetic of QueueC.nc:89-114 never
\* loses or invents an element, whatever sequence of calls is made.
THEOREM QueueTypeOK == Spec => []TypeOK
<1>1. Init => TypeOK
  BY InitQueueInv DEF Init, TypeOK, RetType, EltOrNull, OpName
<1>2. TypeOK /\ [Next]_vars => TypeOK'
  <2>. SUFFICES ASSUME TypeOK, [Next]_vars
                PROVE  TypeOK'
    OBVIOUS
  <2>. USE DEF TypeOK
  <2>1. QueueInv(q) /\ ret \in RetType
    BY DEF TypeOK
  <2>0. ASSUME NEW op \in OpName, NEW st \in {"NONE", "SUCCESS", "FAIL"},
               NEW v \in EltOrNull, NEW n \in Nat,
               Answer(op, st, v, n)
        PROVE  ret' \in RetType
    BY <2>0 DEF Answer, RetType
  <2>n. NullElt \in EltOrNull
    BY DEF EltOrNull
  <2>2. ASSUME NEW op \in OpName, NEW prios \in SUBSET Prio,
               HeadAmong(op, prios)
        PROVE  TypeOK'
    <3>1. Waiting(q, prios) # {} =>
            HeadOf(q[FirstOf(Waiting(q, prios))]) \in EltOrNull
      BY <2>1, FirstOfIsLeast, HeadInType DEF Waiting
    <3>. QED
      BY <2>0, <2>1, <2>2, <2>n, <3>1 DEF HeadAmong
  <2>3. ASSUME NEW op \in OpName, NEW prios \in SUBSET Prio,
               DequeueAmong(op, prios)
        PROVE  TypeOK'
    <3>1. Waiting(q, prios) # {} =>
            HeadOf(q[FirstOf(Waiting(q, prios))]) \in EltOrNull
      BY <2>1, FirstOfIsLeast, HeadInType DEF Waiting
    <3>. QED
      BY <2>0, <2>1, <2>3, <2>n, <3>1, DequeuePrioInv DEF DequeueAmong
  <2>4. ASSUME NEW p \in PrioArg, CallHeadPrio(p)
        PROVE  TypeOK'
    BY <2>0, <2>1, <2>4, HeadInType DEF CallHeadPrio, OpName
  <2>5. ASSUME NEW p \in PrioArg, CallDequeuePrio(p)
        PROVE  TypeOK'
    BY <2>0, <2>1, <2>5, HeadInType, DequeuePrioInv DEF CallDequeuePrio, OpName
  <2>6. ASSUME NEW p \in PrioArg, NEW v \in Elt, CallEnqueue(v, p)
        PROVE  TypeOK'
    <3>1. v \in EltOrNull
      BY DEF EltOrNull
    <3>. QED
      BY <2>0, <2>1, <2>6, <2>n, <3>1, EnqueuePrioInv DEF CallEnqueue, OpName
  <2>7. CASE CallClear \/ CallClearLO
    BY <2>0, <2>1, <2>7, <2>n, ClearInv DEF CallClear, CallClearLO, OpName
  <2>8. ASSUME NEW op \in OpName, NEW n \in Nat, Ask(op, n)
        PROVE  TypeOK'
    BY <2>0, <2>1, <2>8, <2>n DEF Ask
  <2>9. CASE CallEmpty \/ CallFull \/ CallMaxSize
    <3>1. MaxSize \in Nat
      BY QueueSizeAssumption DEF MaxSize, QUEUE_COUNT
    <3>. QED
      BY <2>8, <2>9, <3>1
         DEF CallEmpty, CallFull, CallMaxSize, Bool01, OpName
  <2>10. CASE CallSize \/ CallSizeHI \/ CallSizeLO
    BY <2>1, <2>8, <2>10, SizesInType
       DEF CallSize, CallSizeHI, CallSizeLO, QSize, SizeHI, SizeLO,
           OpName
  <2>11. ASSUME NEW p \in PrioArg, CallSizePrio(p)
         PROVE  TypeOK'
    BY <2>1, <2>8, <2>11, SizesInType DEF CallSizePrio, OpName
  <2>12. ASSUME NEW p \in Prio, CallSizeLO_Q(p)
         PROVE  TypeOK'
    BY <2>1, <2>8, <2>12, SizesInType DEF CallSizeLO_Q, SizeLO_Q, OpName
  <2>13. CASE UNCHANGED vars
    BY <2>13 DEF vars
  <2>. QED
    BY <2>2, <2>3, <2>4, <2>5, <2>6, <2>7, <2>9, <2>10, <2>11, <2>12, <2>13,
       HiCritAssumption
       DEF Next, CallHead, CallHeadHI, CallDequeue, CallDequeueHI, OpName
<1>. QED
  BY <1>1, <1>2, PTL DEF Spec
-----------------------------------------------------------------------------
(* The refinement: every command acts on Fifos as PrioFifo says.           *)

LEMMA FifosType ==
  ASSUME QueueInv(q)
  PROVE  \A p \in Prio : /\ Fifos[p] \in Seq(EltOrNull)
                         /\ Len(Fifos[p]) = q[p].size
                         /\ IsEmpty(q[p]) <=> Fifos[p] = <<>>
  BY RingsOfQueue, ContentsType, ContentsOfEmpty DEF Fifos

LEMMA WaitingIsBusy ==
  ASSUME QueueInv(q), NEW prios \in SUBSET Prio
  PROVE  Waiting(q, prios) = Promise!Busy(prios)
  BY FifosType DEF Waiting, Promise!Busy

\* The ring the code settles on holds, at its head, the element the promise
\* names; with nothing waiting any element is allowed.
LEMMA HeadMatches ==
  ASSUME QueueInv(q), NEW p \in Prio, ~ IsEmpty(q[p])
  PROVE  HeadOf(q[p]) = Head(Fifos[p])
  BY RingsOfQueue, HeadIsOldest DEF Fifos

LEMMA FirstIsMostUrgent ==
  ASSUME QueueInv(q), NEW prios \in SUBSET Prio, Waiting(q, prios) # {}
  PROVE  LET p == FirstOf(Waiting(q, prios))
         IN p \in Prio /\ ~ IsEmpty(q[p]) /\ Promise!MostUrgent(p, prios)
<1>1. Waiting(q, prios) \in SUBSET Prio
  BY DEF Waiting
<1>2. LET p == FirstOf(Waiting(q, prios))
      IN p \in Waiting(q, prios) /\ \A r \in Waiting(q, prios) : p <= r
  BY <1>1, FirstOfIsLeast
<1>. QED
  BY <1>1, <1>2, WaitingIsBusy DEF Promise!MostUrgent, Waiting

LEMMA FifosDequeued ==
  ASSUME QueueInv(q), NEW p \in Prio, ~ IsEmpty(q[p]), q' = DequeuePrio(q, p)
  PROVE  Fifos' = [Fifos EXCEPT ![p] = Tail(@)]
<1>1. \A r \in Prio : q'[r] = IF r = p THEN Dequeue(q[p]) ELSE q[r]
  BY DEF DequeuePrio, QueueInv, PrioQueue
<1>2. Contents(Dequeue(q[p])) = Tail(Contents(q[p]))
  BY RingsOfQueue, DequeueIsTail
<1>. QED
  BY <1>1, <1>2 DEF Fifos

LEMMA FifosEnqueued ==
  ASSUME QueueInv(q), NEW p \in Prio, NEW v \in Elt, ~ IsFull(q[p]),
         q' = EnqueuePrio(q, v, p)
  PROVE  Fifos' = [Fifos EXCEPT ![p] = Append(@, v)]
<1>1. \A r \in Prio : q'[r] = IF r = p THEN Enqueue(q[p], v) ELSE q[r]
  BY DEF EnqueuePrio, QueueInv, PrioQueue
<1>2. Contents(Enqueue(q[p], v)) = Append(Contents(q[p]), v)
  BY RingsOfQueue, EnqueueIsAppend DEF EltOrNull
<1>. QED
  BY <1>1, <1>2 DEF Fifos

LEMMA AnswerMatches ==
  ASSUME NEW op, NEW st, NEW v \in EltOrNull
  PROVE  /\ \A n : Answer(op, st, v, n) <=> Promise!Answer(op, st, v, n)
         /\ Answer(op, st, v, 0) => Promise!Undefined(op, st)
  BY DEF Answer, Promise!Answer, Promise!Undefined, EltOrNull

LEMMA PeekMatches ==
  ASSUME QueueInv(q), NEW op, NEW prios \in SUBSET Prio, HeadAmong(op, prios)
  PROVE  Promise!Peek(op, prios)
<1>1. UNCHANGED Fifos
  BY DEF HeadAmong, Fifos
<1>2. CASE Waiting(q, prios) = {}
  BY <1>1, <1>2, WaitingIsBusy, AnswerMatches
     DEF HeadAmong, Promise!Peek, EltOrNull
<1>3. CASE Waiting(q, prios) # {}
  <2> DEFINE p == FirstOf(Waiting(q, prios))
  <2>1. p \in Prio /\ ~ IsEmpty(q[p]) /\ Promise!MostUrgent(p, prios)
    BY <1>3, FirstIsMostUrgent
  <2>2. Answer(op, "SUCCESS", HeadOf(q[p]), 0)
    BY <1>3 DEF HeadAmong
  <2>. HIDE DEF p
  <2>3. HeadOf(q[p]) = Head(Fifos[p]) /\ HeadOf(q[p]) \in EltOrNull
    BY <2>1, HeadMatches, HeadInType
  <2>. QED
    BY <1>1, <2>1, <2>2, <2>3, AnswerMatches
       DEF Promise!Peek, Promise!Prio, Prio
<1>. QED
  BY <1>2, <1>3

LEMMA TakeMatches ==
  ASSUME QueueInv(q), NEW op, NEW prios \in SUBSET Prio,
         DequeueAmong(op, prios)
  PROVE  Promise!Take(op, prios)
<1>2. CASE Waiting(q, prios) = {}
  <2>1. UNCHANGED Fifos
    BY <1>2 DEF DequeueAmong, Fifos
  <2>. QED
    BY <1>2, <2>1, WaitingIsBusy, AnswerMatches
       DEF DequeueAmong, Promise!Take, EltOrNull
<1>3. CASE Waiting(q, prios) # {}
  <2> DEFINE p == FirstOf(Waiting(q, prios))
  <2>1. p \in Prio /\ ~ IsEmpty(q[p]) /\ Promise!MostUrgent(p, prios)
    BY <1>3, FirstIsMostUrgent
  <2>2. Answer(op, "NONE", HeadOf(q[p]), 0) /\ q' = DequeuePrio(q, p)
    BY <1>3 DEF DequeueAmong
  <2>. HIDE DEF p
  <2>3. HeadOf(q[p]) = Head(Fifos[p]) /\ HeadOf(q[p]) \in EltOrNull
    BY <2>1, HeadMatches, HeadInType
  <2>4. Fifos' = [Fifos EXCEPT ![p] = Tail(@)]
    BY <2>1, <2>2, FifosDequeued
  <2>. QED
    BY <2>1, <2>2, <2>3, <2>4, AnswerMatches
       DEF Promise!Take, Promise!Prio, Prio
<1>. QED
  BY <1>2, <1>3

LEMMA PeekPrioMatches ==
  ASSUME QueueInv(q), NEW p, CallHeadPrio(p)
  PROVE  Promise!PeekPrio(p)
<1>1. UNCHANGED Fifos /\ HeadPrio(q, p) \in EltOrNull
  BY HeadInType DEF CallHeadPrio, Fifos
<1>2. p \in Promise!Busy(Prio) => HeadPrio(q, p) = Head(Fifos[p])
  BY WaitingIsBusy, HeadMatches DEF Waiting, HeadPrio
<1>. QED
  BY <1>1, <1>2, AnswerMatches
     DEF CallHeadPrio, Promise!PeekPrio, Promise!Prio, Prio

LEMMA TakePrioMatches ==
  ASSUME QueueInv(q), NEW p, CallDequeuePrio(p)
  PROVE  Promise!TakePrio(p)
<1>1. HeadPrio(q, p) \in EltOrNull
  BY HeadInType
<1>2. CASE p \in Promise!Busy(Prio)
  <2>1. p \in Prio /\ ~ IsEmpty(q[p])
    BY <1>2, WaitingIsBusy DEF Waiting
  <2>2. HeadPrio(q, p) = Head(Fifos[p])
    BY <2>1, HeadMatches DEF HeadPrio
  <2>3. Fifos' = [Fifos EXCEPT ![p] = Tail(@)]
    BY <2>1, FifosDequeued DEF CallDequeuePrio
  <2>. QED
    BY <1>1, <1>2, <2>2, <2>3, AnswerMatches
       DEF CallDequeuePrio, Promise!TakePrio, Promise!Prio, Prio
<1>3. CASE p \notin Promise!Busy(Prio)
  <2>1. p \notin Prio \/ IsEmpty(q[p])
    BY <1>3, WaitingIsBusy DEF Waiting
  <2>2. q' = q
    BY <2>1 DEF CallDequeuePrio, DequeuePrio, Dequeue, QueueInv, PrioQueue
  <2>3. UNCHANGED Fifos
    BY <2>2 DEF Fifos
  <2>. QED
    BY <1>1, <1>3, <2>3, AnswerMatches
       DEF CallDequeuePrio, Promise!TakePrio, Promise!Prio, Prio
<1>. QED
  BY <1>2, <1>3

LEMMA PutMatches ==
  ASSUME QueueInv(q), NEW p, NEW v \in Elt, CallEnqueue(v, p)
  PROVE  Promise!Put(v, p)
<1>1. NullElt \in EltOrNull
  BY DEF EltOrNull
<1>2. CASE EnqueueFits(q, p)
  <2>1. p \in Prio /\ ~ IsFull(q[p])
    BY <1>2 DEF EnqueueFits
  <2>2. Fifos' = [Fifos EXCEPT ![p] = Append(@, v)]
    BY <2>1, FifosEnqueued DEF CallEnqueue
  <2>3. Len(Fifos[p]) < QUEUE_SIZE
    BY <2>1, FifosType, RingsOfQueue, QueueSizeAssumption DEF IsFull
  <2>. QED
    BY <1>1, <1>2, <2>1, <2>2, <2>3, AnswerMatches
       DEF CallEnqueue, Promise!Put, Promise!Prio, Prio
<1>3. CASE ~ EnqueueFits(q, p)
  <2>1. q' = q
    BY <1>3, RingsOfQueue, QueueSizeAssumption
       DEF CallEnqueue, EnqueuePrio, EnqueueFits, Enqueue, IsFull,
           QueueInv, PrioQueue
  <2>2. UNCHANGED Fifos
    BY <2>1 DEF Fifos
  <2>3. p \notin Prio \/ Len(Fifos[p]) = QUEUE_SIZE
    BY <1>3, FifosType, RingsOfQueue, QueueSizeAssumption
       DEF EnqueueFits, IsFull
  <2>. QED
    BY <1>1, <1>3, <2>2, <2>3, AnswerMatches
       DEF CallEnqueue, Promise!Put, Promise!Prio, Prio
<1>. QED
  BY <1>2, <1>3

LEMMA ForgetMatches ==
  ASSUME QueueInv(q), CallClear \/ CallClearLO
  PROVE  Promise!Forget("clear", Prio) \/ Promise!Forget("clearLO", Prio \ HiCrit)
<1>1. \A p \in Prio : Contents(Drain(q[p])) = <<>>
  BY RingsOfQueue, DrainIsEmpty
<1>2. NullElt \in EltOrNull
  BY DEF EltOrNull
<1>3. CASE CallClear
  <2>1. Fifos' = [p \in Prio |-> <<>>]
    BY <1>1, <1>3 DEF CallClear, Clear, Fifos
  <2>. QED
    BY <1>2, <1>3, <2>1, AnswerMatches
       DEF CallClear, Promise!Forget, Promise!Prio, Prio
<1>4. CASE CallClearLO
  <2>1. Fifos' = [p \in Prio |-> IF p \in Prio \ HiCrit THEN <<>> ELSE Fifos[p]]
    BY <1>1, <1>4 DEF CallClearLO, ClearLO, Fifos
  <2>. QED
    BY <1>2, <1>4, <2>1, AnswerMatches
       DEF CallClearLO, Promise!Forget, Promise!Prio, Prio
<1>. QED
  BY <1>3, <1>4

LEMMA CountMatches ==
  ASSUME QueueInv(q), NEW op, NEW prios, Ask(op, SizeOver(q, prios))
  PROVE  Promise!Count(op, prios)
<1>1. UNCHANGED Fifos /\ NullElt \in EltOrNull
  BY DEF Ask, Fifos, EltOrNull
<1>2. \A p \in Prio : SizeAt(q, prios, p) = Promise!LenAt(prios, p)
  BY FifosType DEF SizeAt, Promise!LenAt
<1>3. SizeOver(q, prios) = Promise!LenAt(prios, 1) + Promise!LenAt(prios, 2)
                           + Promise!LenAt(prios, 3)
  BY <1>2 DEF SizeOver, Prio
<1>. QED
  BY <1>1, <1>3, AnswerMatches DEF Ask, Promise!Count

LEMMA SingleCount ==
  ASSUME QueueInv(q), NEW prios \in SUBSET Prio, NEW p
  PROVE  SizeOver(q, prios \intersect {p}) = IF p \in prios THEN q[p].size ELSE 0
<1>1. \A r \in Prio : q[r].size \in Nat
  BY RingsOfQueue
<1>. QED
  BY <1>1 DEF SizeOver, SizeAt, Prio

\* The rings implement the interface's promise for every capacity, element
\* set and criticality assignment: PrioCritQueueP.nc:17-174 over
\* QueueC.nc:53-114 answers and acts as three bounded FIFOs would.
THEOREM RingsImplementFifos == Spec => ImplementsPrioFifo
<1>1. Init => Promise!Init
  <2>1. \A p \in Prio : Init => Contents(q[p]) = <<>>
    BY InitRingInv, ContentsOfEmpty
       DEF Init, InitPrioQueue, InitRing, IsEmpty
  <2>. QED
    BY <2>1 DEF Init, Promise!Init, Fifos, Promise!Prio, Prio
<1>2. TypeOK /\ [Next]_vars => [Promise!Next]_(Promise!vars)
  <2>. SUFFICES ASSUME TypeOK, [Next]_vars
                PROVE  Promise!Next \/ UNCHANGED Promise!vars
    OBVIOUS
  <2>0. QueueInv(q) /\ HiCrit \in SUBSET Prio /\ Prio \ HiCrit \in SUBSET Prio
    BY HiCritAssumption DEF TypeOK
  <2>1. CASE CallHead \/ CallHeadHI
    BY <2>0, <2>1, PeekMatches DEF CallHead, CallHeadHI, Promise!Next,
                                   Promise!Prio, Prio
  <2>2. CASE CallDequeue \/ CallDequeueHI
    BY <2>0, <2>2, TakeMatches DEF CallDequeue, CallDequeueHI, Promise!Next,
                                   Promise!Prio, Prio
  <2>3. ASSUME NEW p \in PrioArg, CallHeadPrio(p) \/ CallDequeuePrio(p)
        PROVE  Promise!Next
    BY <2>0, <2>3, PeekPrioMatches, TakePrioMatches DEF PrioArg, Promise!Next
  <2>4. ASSUME NEW p \in PrioArg, NEW v \in Elt, CallEnqueue(v, p)
        PROVE  Promise!Next
    BY <2>0, <2>4, PutMatches DEF PrioArg, Promise!Next
  <2>5. ASSUME NEW p \in PrioArg, CallSizePrio(p)
        PROVE  Promise!Next
    <3>1. SizePrio(q, p) = SizeOver(q, Prio \intersect {p})
      BY <2>0, SingleCount DEF SizePrio
    <3>2. Promise!Count("sizePrio", Prio \intersect {p})
      BY <2>0, <2>5, <3>1, CountMatches DEF CallSizePrio
    <3>. QED
      BY <3>2 DEF PrioArg, Promise!Next, Promise!Prio, Prio
  <2>6. CASE CallClear \/ CallClearLO
    BY <2>0, <2>6, ForgetMatches DEF Promise!Next, Promise!Prio, Prio
  <2>7. CASE CallEmpty
    <3>1. QEmpty(q) <=> Promise!Busy(Prio) = {}
      BY <2>0, WaitingIsBusy DEF QEmpty, Waiting
    <3>2. UNCHANGED Fifos
      BY <2>7 DEF CallEmpty, Ask, Fifos
    <3>3. Promise!AskEmpty
      BY <2>7, <3>1, <3>2
         DEF CallEmpty, Ask, Answer, Bool01, Promise!AskEmpty, Promise!Answer,
             Promise!Bool01, Promise!Prio, Prio
    <3>. QED
      BY <3>3 DEF Promise!Next
  <2>8. CASE CallFull
    <3>1. QFull(q) <=> \E p \in Prio : Len(Fifos[p]) = QUEUE_SIZE
      BY <2>0, FifosType, RingsOfQueue, QueueSizeAssumption DEF QFull, IsFull
    <3>2. UNCHANGED Fifos
      BY <2>8 DEF CallFull, Ask, Fifos
    <3>3. Promise!AskFull
      BY <2>8, <3>1, <3>2
         DEF CallFull, Ask, Answer, Bool01, Promise!AskFull, Promise!Answer,
             Promise!Bool01, Promise!Prio, Prio
    <3>. QED
      BY <3>3 DEF Promise!Next
  <2>9. CASE CallSize \/ CallSizeHI \/ CallSizeLO
    BY <2>0, <2>9, CountMatches
       DEF CallSize, CallSizeHI, CallSizeLO, QSize, SizeHI, SizeLO,
           Promise!Next, Promise!Prio, Prio
  <2>10. ASSUME NEW p \in Prio, CallSizeLO_Q(p)
         PROVE  Promise!Next
    <3>1. SizeLO_Q(q, p) = SizeOver(q, (Prio \ HiCrit) \intersect {p})
      BY <2>0, SingleCount DEF SizeLO_Q, SizeAt
    <3>2. Promise!Count("sizeLO_Q", (Prio \ HiCrit) \intersect {p})
      BY <2>0, <2>10, <3>1, CountMatches DEF CallSizeLO_Q
    <3>. QED
      BY <3>2 DEF Promise!Next, Promise!Prio, Prio
  <2>11. CASE CallMaxSize
    <3>1. MaxSize = QUEUE_SIZE + QUEUE_SIZE + QUEUE_SIZE
      BY QueueSizeAssumption DEF MaxSize, QUEUE_COUNT
    <3>2. UNCHANGED Fifos
      BY <2>11 DEF CallMaxSize, Ask, Fifos
    <3>3. Promise!AskMaxSize
      BY <2>11, <3>1, <3>2
         DEF CallMaxSize, Ask, Answer, Promise!AskMaxSize, Promise!Answer
    <3>. QED
      BY <3>3 DEF Promise!Next
  <2>12. CASE UNCHANGED vars
    BY <2>12 DEF vars, Promise!vars, Fifos
  <2>. QED
    BY <2>1, <2>2, <2>3, <2>4, <2>5, <2>6, <2>7, <2>8, <2>9, <2>10, <2>11,
       <2>12
       DEF Next
<1>. QED
  BY <1>1, <1>2, QueueTypeOK, PTL DEF Spec, ImplementsPrioFifo, Promise!Spec
=============================================================================
