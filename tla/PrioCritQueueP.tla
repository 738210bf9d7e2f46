--------------------------- MODULE PrioCritQueueP ---------------------------
(***************************************************************************)
(* The three-level priority queue of apps/MCCTable/PrioCritQueueP.nc: one  *)
(* QueueC ring per priority, and for each priority the criticality that    *)
(* priocrit<node>.nc compiles in.  Priority 1 is the most urgent.  A queue *)
(* is a function q from priorities to rings; the commands of the interface *)
(* are operators on such functions.                                        *)
(***************************************************************************)
EXTENDS QueueC

CONSTANT HiCrit   \* the priorities p whose parameter hiCrit<p> is set

Prio == 1 .. 3
QUEUE_COUNT == 3

ASSUME HiCritAssumption == HiCrit \subseteq Prio

PrioQueue == [Prio -> Ring]
InitPrioQueue == [p \in Prio |-> InitRing]

-----------------------------------------------------------------------------
QEmpty(q) == \A p \in Prio : IsEmpty(q[p])
QFull(q)  == \E p \in Prio : IsFull(q[p])

\* The size commands add up the rings of the priorities they are about.
SizeAt(q, prios, p) == IF p \in prios THEN q[p].size ELSE 0
SizeOver(q, prios) ==
  SizeAt(q, prios, 1) + SizeAt(q, prios, 2) + SizeAt(q, prios, 3)

QSize(q)       == SizeOver(q, Prio)
MaxSize        == QUEUE_SIZE * QUEUE_COUNT
SizeHI(q)      == SizeOver(q, HiCrit)
SizeLO(q)      == SizeOver(q, Prio \ HiCrit)
SizeLO_Q(q, p) == SizeAt(q, Prio \ HiCrit, p)

\* The priority that head() / headHI() / dequeue() / dequeueHI() settle on:
\* the most urgent one, among those asked for, that has something queued.
Waiting(q, prios) == {p \in prios : ~ IsEmpty(q[p])}
FirstOf(S) == CHOOSE p \in S : \A r \in S : p <= r

SizePrio(q, p) == IF p \in Prio THEN q[p].size ELSE 0
HeadPrio(q, p) == IF p \in Prio THEN HeadOf(q[p]) ELSE NullElt

DequeuePrio(q, p) ==
  IF p \in Prio THEN [q EXCEPT ![p] = Dequeue(@)] ELSE q

EnqueuePrio(q, v, p) ==
  IF p \in Prio THEN [q EXCEPT ![p] = Enqueue(@, v)] ELSE q
EnqueueFits(q, p) == p \in Prio /\ ~ IsFull(q[p])

\* A mutant: clearLO() that tests hiCrit2 for every ring but the first.
ClearLOKeepsPrio1(q) == [p \in Prio |-> IF p = 1 THEN q[p] ELSE Drain(q[p])]

Clear(q)   == [p \in Prio |-> Drain(q[p])]
ClearLO(q) == [p \in Prio |-> IF p \in HiCrit THEN q[p] ELSE Drain(q[p])]

-----------------------------------------------------------------------------
QueueInv(q) == q \in PrioQueue /\ \A p \in Prio : RingInv(q[p])

=============================================================================
