------------------------------- MODULE QueueC -------------------------------
(***************************************************************************)
(* The bounded ring of tos/system/QueueC.nc, the component every priority  *)
(* level of the AirTight MAC queue is built from.  A ring is a value: the  *)
(* array, the two cursors and the element count of one QueueC instance.    *)
(* Every command of the component is an operator from rings to rings or to *)
(* results, so that the modules which own rings (PrioCritQueue, TdmaMac)   *)
(* keep them in variables of their own.                                    *)
(***************************************************************************)
EXTENDS Naturals, Sequences

CONSTANTS
  QUEUE_SIZE,   \* the generic parameter of the component (20 in AirTight)
  Elt,          \* what the ring holds (packet pointers in AirTight)
  NullElt       \* the zero a static array cell starts with

\* uint8_t arithmetic never wraps in this component nor in the sums
\* PrioCritQueueP makes of three sizes.
ASSUME QueueSizeAssumption == QUEUE_SIZE \in 1 .. 85
ASSUME NullEltAssumption == NullElt \notin Elt

Cell == 0 .. QUEUE_SIZE - 1
EltOrNull == Elt \union {NullElt}

Ring == [queue : [Cell -> EltOrNull],
         head  : Cell,
         tail  : Cell,
         size  : 0 .. QUEUE_SIZE]

\* Static storage of a QueueC instance at boot.
InitRing == [queue |-> [c \in Cell |-> NullElt],
             head  |-> 0,
             tail  |-> 0,
             size  |-> 0]

-----------------------------------------------------------------------------
IsEmpty(r) == r.size = 0
IsFull(r)  == r.size >= QUEUE_SIZE

\* Queue.head() does not look at size: on an empty ring it answers with
\* whatever the cell under the cursor last held.
HeadOf(r) == r.queue[r.head]

\* A mutant: the wrap-around test forgotten.
AdvanceNoWrap(c) == c + 1

\* "cursor++; if (cursor == QUEUE_SIZE) cursor = 0"
Advance(c) == IF c + 1 = QUEUE_SIZE THEN 0 ELSE c + 1

Dequeue(r) ==
  IF IsEmpty(r) THEN r
  ELSE [r EXCEPT !.head = Advance(@), !.size = @ - 1]

Enqueue(r, v) ==
  IF r.size < QUEUE_SIZE
  THEN [r EXCEPT !.queue[r.tail] = v, !.tail = Advance(@), !.size = @ + 1]
  ELSE r

\* The cell that Queue.element(idx) reads; idx counts from the head.
Position(r, idx) ==
  IF r.head + idx >= QUEUE_SIZE THEN r.head + idx - QUEUE_SIZE
                                ELSE r.head + idx
Element(r, idx) == r.queue[Position(r, idx)]

\* "while (size() > 0) dequeue()": the cursor ends where the tail is.
Drain(r) ==
  IF IsEmpty(r) THEN r ELSE [r EXCEPT !.head = Position(r, r.size), !.size = 0]

-----------------------------------------------------------------------------
\* What a ring stands for: its elements, oldest first.
Contents(r) == [i \in 1 .. r.size |-> Element(r, i - 1)]

\* The cursors and the count of a ring always agree.
RingInv(r) == r \in Ring /\ r.tail = Position(r, r.size)

=============================================================================
