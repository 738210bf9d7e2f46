---------------------------- MODULE PrioCritQueue ----------------------------
(***************************************************************************)
(* PrioCritQueueC as its user drives it: any sequence of calls of the      *)
(* PrioCritQueue interface on three QueueC rings, one action per command.  *)
(* ret is the answer to the last call.  The rings are shown to implement   *)
(* PrioFifo, the interface's promise, under the mapping that reads each    *)
(* ring from its head (Contents).                                          *)
(***************************************************************************)
EXTENDS PrioCritQueueP

VARIABLES q,    \* the three rings
          ret   \* status, element and number the last call answered with

vars == <<q, ret>>

Answer(op, status, val, num) ==
  ret' = [op |-> op, status |-> status, val |-> val, num |-> num]

Init == /\ q = InitPrioQueue
        /\ ret = [op |-> "boot", status |-> "NONE", val |-> NullElt, num |-> 0]

-----------------------------------------------------------------------------
\* head() and headHI(): only the criticality of the rings they try differs.
HeadAmong(op, prios) ==
  /\ IF Waiting(q, prios) = {}
     THEN Answer(op, "FAIL", NullElt, 0)
     ELSE Answer(op, "SUCCESS", HeadOf(q[FirstOf(Waiting(q, prios))]), 0)
  /\ UNCHANGED q

CallHead   == HeadAmong("head", Prio)
CallHeadHI == HeadAmong("headHI", HiCrit)

DequeueAmong(op, prios) ==
  IF Waiting(q, prios) = {}
  THEN Answer(op, "NONE", NullElt, 0) /\ UNCHANGED q
  ELSE LET p == FirstOf(Waiting(q, prios))
       IN /\ Answer(op, "NONE", HeadOf(q[p]), 0)
          /\ q' = DequeuePrio(q, p)

CallDequeue   == DequeueAmong("dequeue", Prio)
CallDequeueHI == DequeueAmong("dequeueHI", HiCrit)

CallHeadPrio(p) ==
  /\ Answer("headPrio", "NONE", HeadPrio(q, p), 0)
  /\ UNCHANGED q

CallDequeuePrio(p) ==
  /\ Answer("dequeuePrio", "NONE", HeadPrio(q, p), 0)
  /\ q' = DequeuePrio(q, p)

CallEnqueue(v, p) ==
  /\ Answer("enqueue", IF EnqueueFits(q, p) THEN "SUCCESS" ELSE "FAIL",
            NullElt, 0)
  /\ q' = EnqueuePrio(q, v, p)

CallClear   == q' = Clear(q)   /\ Answer("clear", "NONE", NullElt, 0)
CallClearLO == q' = ClearLO(q) /\ Answer("clearLO", "NONE", NullElt, 0)

Ask(op, num) == Answer(op, "NONE", NullElt, num) /\ UNCHANGED q

Bool01(b) == IF b THEN 1 ELSE 0
CallEmpty       == Ask("empty", Bool01(QEmpty(q)))
CallFull        == Ask("full", Bool01(QFull(q)))
CallSize        == Ask("size", QSize(q))
CallMaxSize     == Ask("maxSize", MaxSize)
CallSizePrio(p) == Ask("sizePrio", SizePrio(q, p))
CallSizeHI      == Ask("sizeHI", SizeHI(q))
CallSizeLO      == Ask("sizeLO", SizeLO(q))
CallSizeLO_Q(p) == Ask("sizeLO_Q", SizeLO_Q(q, p))

-----------------------------------------------------------------------------
\* The prio argument is an unchecked uint8_t: 0 and 4 stand for the values
\* that name no queue.
PrioArg == 0 .. 4

Next ==
  \/ CallHead \/ CallHeadHI \/ CallDequeue \/ CallDequeueHI
  \/ \E p \in PrioArg : \/ CallHeadPrio(p) \/ CallDequeuePrio(p)
                        \/ CallSizePrio(p)
                        \/ \E v \in Elt : CallEnqueue(v, p)
  \/ CallClear \/ CallClearLO
  \/ CallEmpty \/ CallFull \/ CallSize \/ CallMaxSize
  \/ CallSizeHI \/ CallSizeLO
  \/ \E p \in Prio : CallSizeLO_Q(p)

Spec == Init /\ [][Next]_vars

-----------------------------------------------------------------------------
OpName == {"boot", "head", "headHI", "dequeue", "dequeueHI", "headPrio",
           "dequeuePrio", "enqueue", "clear", "clearLO", "empty", "full",
           "size", "maxSize", "sizePrio", "sizeHI", "sizeLO",
           "sizeLO_Q"}
RetType == [op : OpName, status : {"NONE", "SUCCESS", "FAIL"},
            val : EltOrNull, num : Nat]

\* The rings keep their cursors within the array and head, tail and size in
\* step through every sequence of calls (QueueC.nc:89-114), and each answer
\* is a status, an element and a count.
TypeOK == QueueInv(q) /\ ret \in RetType

\* The refinement mapping: a ring stands for its elements, oldest first.
Fifos == [p \in Prio |-> Contents(q[p])]
Promise == INSTANCE PrioFifo WITH fifo <- Fifos

\* The rings behave as PrioCritQueue.nc promises: whatever the calls made
\* before, wrap-arounds and clears included, each command answers and acts
\* as it would on three bounded FIFOs.
ImplementsPrioFifo == Promise!Spec
=============================================================================
