------------------------- MODULE PrioCritQueueLemmas -------------------------
(***************************************************************************)
(* Facts about the QueueC ring for every capacity and every element set:   *)
(* each command keeps the cursors and the count in step, and does to the   *)
(* queued elements (Contents) what the FIFO operation of its name does.    *)
(* Then what the operators of PrioCritQueueP return and preserve, on any   *)
(* queue: used by the proofs about PrioCritQueue and about TdmaMac.        *)
(***************************************************************************)
EXTENDS PrioCritQueueP, TLAPS

-----------------------------------------------------------------------------
(* One ring.                                                               *)

LEMMA InitRingInv == RingInv(InitRing)
  BY QueueSizeAssumption
     DEF RingInv, InitRing, Ring, Cell, EltOrNull, Position

\* Only cells of the array are ever addressed, whichever the offset.
LEMMA PositionInArray ==
  ASSUME NEW r \in Ring, NEW k \in 0 .. QUEUE_SIZE
  PROVE  Position(r, k) \in Cell
  BY QueueSizeAssumption DEF Ring, Cell, Position

LEMMA DequeueKeepsInv ==
  ASSUME NEW r, RingInv(r)
  PROVE  RingInv(Dequeue(r))
<1>1. CASE IsEmpty(r)
  BY <1>1 DEF Dequeue
<1>2. CASE ~ IsEmpty(r)
  <2>1. r \in Ring
    BY DEF RingInv
  <2>2. Dequeue(r) = [r EXCEPT !.head = Advance(r.head), !.size = r.size - 1]
    BY <1>2 DEF Dequeue
  <2>3. Advance(r.head) \in Cell /\ r.size - 1 \in 0 .. QUEUE_SIZE
    BY <1>2, <2>1, QueueSizeAssumption DEF Ring, Cell, Advance, IsEmpty
  <2>4. Dequeue(r) \in Ring
    BY <2>1, <2>2, <2>3 DEF Ring
  <2>5. /\ Dequeue(r).size = r.size - 1
        /\ Dequeue(r).head = Advance(r.head)
        /\ Dequeue(r).tail = r.tail
    BY <2>1, <2>2 DEF Ring
  <2>6. Position(Dequeue(r), r.size - 1) = Position(r, r.size)
    BY <1>2, <2>1, <2>5, QueueSizeAssumption
       DEF Ring, Cell, Advance, Position, IsEmpty
  <2>. QED
    BY <2>4, <2>5, <2>6 DEF RingInv
<1>. QED
  BY <1>1, <1>2

LEMMA EnqueueKeepsInv ==
  ASSUME NEW r, RingInv(r), NEW v \in EltOrNull
  PROVE  RingInv(Enqueue(r, v))
<1>1. CASE ~ (r.size < QUEUE_SIZE)
  BY <1>1 DEF Enqueue
<1>2. CASE r.size < QUEUE_SIZE
  <2>1. r \in Ring
    BY DEF RingInv
  <2>2. Enqueue(r, v) = [r EXCEPT !.queue = [r.queue EXCEPT ![r.tail] = v],
                                  !.tail = Advance(r.tail),
                                  !.size = r.size + 1]
    BY <1>2, <2>1 DEF Enqueue, Ring
  <2>3. /\ [r.queue EXCEPT ![r.tail] = v] \in [Cell -> EltOrNull]
        /\ Advance(r.tail) \in Cell
        /\ r.size + 1 \in 0 .. QUEUE_SIZE
    BY <1>2, <2>1, QueueSizeAssumption DEF Ring, Cell, Advance
  <2>4. Enqueue(r, v) \in Ring
    BY <2>1, <2>2, <2>3 DEF Ring
  <2>5. /\ Enqueue(r, v).size = r.size + 1
        /\ Enqueue(r, v).head = r.head
        /\ Enqueue(r, v).tail = Advance(r.tail)
    BY <2>1, <2>2 DEF Ring
  <2>6. Position(Enqueue(r, v), r.size + 1) = Advance(Position(r, r.size))
    BY <1>2, <2>1, <2>5, QueueSizeAssumption
       DEF Ring, Cell, Advance, Position
  <2>. QED
    BY <2>4, <2>5, <2>6 DEF RingInv
<1>. QED
  BY <1>1, <1>2

LEMMA DrainKeepsInv ==
  ASSUME NEW r, RingInv(r)
  PROVE  RingInv(Drain(r)) /\ Drain(r).size = 0
<1>1. CASE IsEmpty(r)
  BY <1>1 DEF Drain, IsEmpty
<1>2. CASE ~ IsEmpty(r)
  <2>1. r \in Ring /\ r.tail = Position(r, r.size)
    BY DEF RingInv
  <2>2. Drain(r) = [r EXCEPT !.head = r.tail, !.size = 0]
    BY <1>2, <2>1 DEF Drain
  <2>3. 0 \in 0 .. QUEUE_SIZE
    BY QueueSizeAssumption
  <2>4. Drain(r) \in Ring
    BY <2>1, <2>2, <2>3 DEF Ring
  <2>5. /\ Drain(r).size = 0
        /\ Drain(r).head = r.tail
        /\ Drain(r).tail = r.tail
    BY <2>1, <2>2 DEF Ring
  <2>6. Position(Drain(r), 0) = r.tail
    BY <2>1, <2>5, QueueSizeAssumption DEF Ring, Cell, Position
  <2>. QED
    BY <2>4, <2>5, <2>6 DEF RingInv
<1>. QED
  BY <1>1, <1>2

-----------------------------------------------------------------------------
LEMMA ContentsType ==
  ASSUME NEW r, RingInv(r)
  PROVE  /\ Contents(r) \in Seq(EltOrNull)
         /\ Len(Contents(r)) = r.size
         /\ \A i \in 1 .. r.size : Contents(r)[i] = Element(r, i - 1)
<1>1. r.size \in Nat
  BY DEF RingInv, Ring
<1>2. \A i \in 1 .. r.size : Element(r, i - 1) \in EltOrNull
  BY QueueSizeAssumption DEF RingInv, Ring, Cell, Element, Position
<1>. QED
  BY <1>1, <1>2 DEF Contents

LEMMA ContentsOfEmpty ==
  ASSUME NEW r, RingInv(r)
  PROVE  IsEmpty(r) <=> Contents(r) = <<>>
  BY ContentsType DEF IsEmpty

LEMMA HeadIsOldest ==
  ASSUME NEW r, RingInv(r), ~ IsEmpty(r)
  PROVE  HeadOf(r) = Head(Contents(r))
<1>1. 1 \in 1 .. r.size
  BY DEF RingInv, Ring, IsEmpty
<1>2. Contents(r)[1] = Element(r, 0)
  BY <1>1, ContentsType
<1>3. Element(r, 0) = HeadOf(r)
  BY QueueSizeAssumption DEF RingInv, Ring, Cell, Element, Position, HeadOf
<1>. QED
  BY <1>1, <1>2, <1>3, ContentsType

\* Two sequences of the same length with the same elements are equal.
LEMMA SeqEqual ==
  ASSUME NEW S, NEW s \in Seq(S), NEW t \in Seq(S), Len(s) = Len(t),
         \A i \in 1 .. Len(s) : s[i] = t[i]
  PROVE  s = t
  OBVIOUS

LEMMA DequeueIsTail ==
  ASSUME NEW r, RingInv(r), ~ IsEmpty(r)
  PROVE  Contents(Dequeue(r)) = Tail(Contents(r))
<1> DEFINE d == Dequeue(r)
<1>1. RingInv(d)
  BY DequeueKeepsInv
<1>2. d.size = r.size - 1 /\ d.queue = r.queue /\ d.head = Advance(r.head)
  BY DEF RingInv, Ring, Dequeue
<1>3. ASSUME NEW i \in 1 .. r.size - 1
      PROVE  Element(d, i - 1) = Element(r, i)
  BY <1>2, QueueSizeAssumption
     DEF RingInv, Ring, Cell, Element, Position, Advance
<1>4. Contents(d) \in Seq(EltOrNull) /\ Len(Contents(d)) = r.size - 1
      /\ \A i \in 1 .. r.size - 1 : Contents(d)[i] = Element(d, i - 1)
  BY <1>1, <1>2, ContentsType
<1>5. /\ Tail(Contents(r)) \in Seq(EltOrNull)
      /\ Len(Tail(Contents(r))) = r.size - 1
      /\ \A i \in 1 .. r.size - 1 : Tail(Contents(r))[i] = Element(r, i)
  <2>1. r.size \in Nat /\ r.size > 0
    BY DEF RingInv, Ring, IsEmpty
  <2>2. Contents(r) # <<>>
    BY ContentsOfEmpty
  <2>. QED
    BY <2>1, <2>2, ContentsType
<1>. QED
  BY <1>3, <1>4, <1>5, SeqEqual

LEMMA EnqueueIsAppend ==
  ASSUME NEW r, RingInv(r), ~ IsFull(r), NEW v \in EltOrNull
  PROVE  Contents(Enqueue(r, v)) = Append(Contents(r), v)
<1> DEFINE e == Enqueue(r, v)
<1>1. RingInv(e)
  BY EnqueueKeepsInv
<1>2. /\ e.size = r.size + 1 /\ e.head = r.head
      /\ e.queue = [r.queue EXCEPT ![r.tail] = v]
  BY QueueSizeAssumption DEF RingInv, Ring, Enqueue, IsFull
<1>. HIDE DEF e
<1>3. ASSUME NEW i \in 1 .. r.size
      PROVE  Element(e, i - 1) = Element(r, i - 1)
  <2>1. Position(e, i - 1) = Position(r, i - 1)
    BY <1>2 DEF Position
  <2>2. r \in Ring /\ r.tail = Position(r, r.size) /\ i - 1 \in 0 .. QUEUE_SIZE
    BY QueueSizeAssumption DEF RingInv, Ring
  <2>3. Position(r, i - 1) \in Cell
    BY <2>2, PositionInArray
  <2>4. Position(r, i - 1) # r.tail
    BY <2>2, QueueSizeAssumption DEF Ring, Cell, Position, IsFull
  <2>. QED
    BY <1>2, <2>1, <2>2, <2>3, <2>4 DEF Ring, Element
<1>4. Element(e, r.size) = v
  <2>1. Position(e, r.size) = r.tail
    BY <1>2 DEF RingInv, Position
  <2>2. r.tail \in Cell /\ r.queue \in [Cell -> EltOrNull]
    BY DEF RingInv, Ring
  <2>. QED
    BY <1>2, <2>1, <2>2 DEF Element
<1>5. r.size \in Nat
  BY DEF RingInv, Ring
<1>6. /\ Contents(e) \in Seq(EltOrNull) /\ Len(Contents(e)) = r.size + 1
      /\ \A i \in 1 .. r.size + 1 : Contents(e)[i] = Element(e, i - 1)
  BY <1>1, <1>2, ContentsType
<1>7. /\ Append(Contents(r), v) \in Seq(EltOrNull)
      /\ Len(Append(Contents(r), v)) = r.size + 1
      /\ \A i \in 1 .. r.size : Append(Contents(r), v)[i] = Element(r, i - 1)
      /\ Append(Contents(r), v)[r.size + 1] = v
  BY <1>5, ContentsType
<1>8. \A i \in 1 .. r.size + 1 : Contents(e)[i] = Append(Contents(r), v)[i]
  BY <1>3, <1>4, <1>5, <1>6, <1>7
<1>. QED
  BY <1>5, <1>6, <1>7, <1>8, SeqEqual DEF e

LEMMA DrainIsEmpty ==
  ASSUME NEW r, RingInv(r)
  PROVE  Contents(Drain(r)) = <<>>
  BY DrainKeepsInv, ContentsOfEmpty DEF IsEmpty

-----------------------------------------------------------------------------
(* Three rings by priority.                                                *)

LEMMA FirstOfIsLeast ==
  ASSUME NEW S \in SUBSET Prio, S # {}
  PROVE  FirstOf(S) \in S /\ \A r \in S : FirstOf(S) <= r
<1>1. \E p \in S : \A r \in S : p <= r
  <2>0. \A r \in S : r \in {1, 2, 3}
    BY DEF Prio
  <2>1. CASE 1 \in S
    <3>1. \A r \in S : 1 <= r
      BY <2>0
    <3>. QED
      BY <2>1, <3>1
  <2>2. CASE 1 \notin S /\ 2 \in S
    <3>1. \A r \in S : 2 <= r
      BY <2>0, <2>2
    <3>. QED
      BY <2>2, <3>1
  <2>3. CASE 1 \notin S /\ 2 \notin S
    <3>1. \A r \in S : r = 3
      BY <2>0, <2>3
    <3>. QED
      BY <3>1
  <2>. QED
    BY <2>1, <2>2, <2>3
<1>. QED
  BY <1>1 DEF FirstOf

LEMMA InitQueueInv == QueueInv(InitPrioQueue)
  BY InitRingInv DEF QueueInv, PrioQueue, InitPrioQueue, RingInv

LEMMA RingsOfQueue ==
  ASSUME NEW s, QueueInv(s), NEW p \in Prio
  PROVE  RingInv(s[p]) /\ s[p] \in Ring /\ s[p].size \in 0 .. QUEUE_SIZE
  BY DEF QueueInv, PrioQueue, RingInv, Ring

LEMMA DequeuePrioInv ==
  ASSUME NEW s, QueueInv(s), NEW p
  PROVE  QueueInv(DequeuePrio(s, p))
<1>1. ASSUME p \in Prio
      PROVE  Dequeue(s[p]) \in Ring /\ RingInv(Dequeue(s[p]))
  BY <1>1, RingsOfQueue, DequeueKeepsInv DEF RingInv
<1>. QED
  BY <1>1 DEF QueueInv, PrioQueue, DequeuePrio

LEMMA EnqueuePrioInv ==
  ASSUME NEW s, QueueInv(s), NEW v \in EltOrNull, NEW p
  PROVE  QueueInv(EnqueuePrio(s, v, p))
<1>1. ASSUME p \in Prio
      PROVE  Enqueue(s[p], v) \in Ring /\ RingInv(Enqueue(s[p], v))
  BY <1>1, RingsOfQueue, EnqueueKeepsInv DEF RingInv
<1>. QED
  BY <1>1 DEF QueueInv, PrioQueue, EnqueuePrio

LEMMA ClearInv ==
  ASSUME NEW s, QueueInv(s)
  PROVE  QueueInv(Clear(s)) /\ QueueInv(ClearLO(s))
<1>1. \A p \in Prio : /\ Drain(s[p]) \in Ring /\ RingInv(Drain(s[p]))
                      /\ s[p] \in Ring /\ RingInv(s[p])
  BY RingsOfQueue, DrainKeepsInv DEF RingInv
<1>. QED
  BY <1>1 DEF QueueInv, PrioQueue, Clear, ClearLO

LEMMA HeadInType ==
  ASSUME NEW s, QueueInv(s), NEW p
  PROVE  HeadPrio(s, p) \in EltOrNull
         /\ (p \in Prio => HeadOf(s[p]) \in EltOrNull)
  BY RingsOfQueue DEF HeadPrio, HeadOf, Ring, EltOrNull

LEMMA SizesInType ==
  ASSUME NEW s, QueueInv(s), NEW S, NEW p
  PROVE  /\ SizeOver(s, S) \in Nat
         /\ SizeAt(s, S, p) \in Nat \/ p \notin Prio
         /\ SizePrio(s, p) \in Nat
<1>1. \A r \in Prio : s[r].size \in Nat
  BY RingsOfQueue
<1>. QED
  BY <1>1 DEF SizeOver, SizeAt, SizePrio, Prio


-----------------------------------------------------------------------------
(* What is in the rings: the elements of ring p all belong to H[p].        *)

HoldsOnly(s, H) == \A p \in Prio : Contents(s[p]) \in Seq(H[p])

LEMMA TailIn ==
  ASSUME NEW S, NEW t \in Seq(S), t # <<>>
  PROVE  Tail(t) \in Seq(S)
  OBVIOUS

LEMMA HeadIn ==
  ASSUME NEW S, NEW t \in Seq(S), t # <<>>
  PROVE  Head(t) \in S
  OBVIOUS

LEMMA AppendIn ==
  ASSUME NEW S, NEW t \in Seq(S), NEW v \in S
  PROVE  Append(t, v) \in Seq(S)
  OBVIOUS

LEMMA SeqMono ==
  ASSUME NEW S, NEW T, \A x \in S : x \in T, NEW t \in Seq(S)
  PROVE  t \in Seq(T)
  OBVIOUS

LEMMA InitHolds ==
  ASSUME NEW H
  PROVE  HoldsOnly(InitPrioQueue, H)
<1>1. Contents(InitRing) = <<>>
  BY InitRingInv, ContentsOfEmpty DEF InitRing, IsEmpty
<1>. QED
  BY <1>1 DEF HoldsOnly, InitPrioQueue

LEMMA DequeuePrioHolds ==
  ASSUME NEW s, QueueInv(s), NEW p, NEW H, HoldsOnly(s, H)
  PROVE  HoldsOnly(DequeuePrio(s, p), H)
<1>1. CASE p \in Prio /\ ~ IsEmpty(s[p])
  <2>1. Contents(Dequeue(s[p])) = Tail(Contents(s[p]))
    BY <1>1, RingsOfQueue, DequeueIsTail
  <2>2. Contents(s[p]) # <<>> /\ Contents(s[p]) \in Seq(H[p])
    BY <1>1, RingsOfQueue, ContentsOfEmpty DEF HoldsOnly
  <2>3. Contents(Dequeue(s[p])) \in Seq(H[p])
    BY <2>1, <2>2, TailIn
  <2>4. \A r \in Prio : DequeuePrio(s, p)[r] = IF r = p THEN Dequeue(s[p]) ELSE s[r]
    BY <1>1 DEF DequeuePrio, QueueInv, PrioQueue
  <2>. QED
    BY <2>3, <2>4 DEF HoldsOnly
<1>2. CASE p \notin Prio \/ IsEmpty(s[p])
  <2>1. DequeuePrio(s, p) = s
    BY <1>2 DEF DequeuePrio, Dequeue, QueueInv, PrioQueue
  <2>. QED
    BY <2>1
<1>. QED
  BY <1>1, <1>2

LEMMA EnqueuePrioHolds ==
  ASSUME NEW s, QueueInv(s), NEW p, NEW H, HoldsOnly(s, H),
         NEW v \in EltOrNull, p \in Prio => v \in H[p]
  PROVE  HoldsOnly(EnqueuePrio(s, v, p), H)
<1>1. CASE p \in Prio /\ ~ IsFull(s[p])
  <2>1. Contents(Enqueue(s[p], v)) = Append(Contents(s[p]), v)
    BY <1>1, RingsOfQueue, EnqueueIsAppend
  <2>2. Contents(s[p]) \in Seq(H[p]) /\ v \in H[p]
    BY <1>1 DEF HoldsOnly
  <2>3. Contents(Enqueue(s[p], v)) \in Seq(H[p])
    BY <2>1, <2>2, AppendIn
  <2>4. \A r \in Prio :
          EnqueuePrio(s, v, p)[r] = IF r = p THEN Enqueue(s[p], v) ELSE s[r]
    BY <1>1 DEF EnqueuePrio, QueueInv, PrioQueue
  <2>. QED
    BY <2>3, <2>4 DEF HoldsOnly
<1>2. CASE p \notin Prio \/ IsFull(s[p])
  <2>1. EnqueuePrio(s, v, p) = s
    BY <1>2, RingsOfQueue, QueueSizeAssumption
       DEF EnqueuePrio, Enqueue, IsFull, QueueInv, PrioQueue
  <2>. QED
    BY <2>1
<1>. QED
  BY <1>1, <1>2

LEMMA ClearHolds ==
  ASSUME NEW s, QueueInv(s), NEW H, HoldsOnly(s, H)
  PROVE  HoldsOnly(Clear(s), H) /\ HoldsOnly(ClearLO(s), H)
<1>1. \A p \in Prio : Contents(Drain(s[p])) = <<>>
  BY RingsOfQueue, DrainIsEmpty
<1>2. \A p \in Prio : <<>> \in Seq(H[p])
  OBVIOUS
<1>3. \A p \in Prio : Contents(Clear(s)[p]) \in Seq(H[p])
  BY <1>1, <1>2 DEF Clear
<1>4. \A p \in Prio : Contents(ClearLO(s)[p]) \in Seq(H[p])
  BY <1>1, <1>2 DEF ClearLO, HoldsOnly
<1>. QED
  BY <1>3, <1>4 DEF HoldsOnly

LEMMA HeadIsHeld ==
  ASSUME NEW s, QueueInv(s), NEW p \in Prio, ~ IsEmpty(s[p]),
         NEW H, HoldsOnly(s, H)
  PROVE  HeadOf(s[p]) \in H[p]
<1>1. HeadOf(s[p]) = Head(Contents(s[p]))
  BY RingsOfQueue, HeadIsOldest
<1>2. Contents(s[p]) # <<>> /\ Contents(s[p]) \in Seq(H[p])
  BY RingsOfQueue, ContentsOfEmpty DEF HoldsOnly
<1>. QED
  BY <1>1, <1>2, HeadIn

\* A queue none of whose rings has anything waiting has size zero.
LEMMA NothingWaitingIsSizeZero ==
  ASSUME NEW s, QueueInv(s), Waiting(s, Prio) = {}
  PROVE  QSize(s) = 0
<1>1. \A p \in Prio : s[p].size = 0
  BY DEF Waiting, IsEmpty
<1>. QED
  BY <1>1 DEF QSize, SizeOver, SizeAt, Prio

=============================================================================
