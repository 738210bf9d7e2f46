------------------------------ MODULE PrioFifo ------------------------------
(***************************************************************************)
(* What the interface apps/MCCTable/PrioCritQueue.nc promises its user:    *)
(* one bounded FIFO per priority, head commands that pick the most urgent  *)
(* non-empty FIFO, and an undefined element whenever the interface says    *)
(* "the return value is undefined".  ret is the answer to the last call.   *)
(***************************************************************************)
EXTENDS Naturals, Sequences

CONSTANTS QUEUE_SIZE, Elt, NullElt, HiCrit

VARIABLES fifo, ret

Prio == 1 .. 3
Bool01(b) == IF b THEN 1 ELSE 0

Answer(op, status, val, num) ==
  ret' = [op |-> op, status |-> status, val |-> val, num |-> num]
Undefined(op, status) ==
  \E v \in Elt \union {NullElt} : Answer(op, status, v, 0)

Busy(prios) == {p \in prios : fifo[p] # <<>>}
MostUrgent(p, prios) == p \in Busy(prios) /\ \A r \in Busy(prios) : p <= r

Init == /\ fifo = [p \in Prio |-> <<>>]
        /\ ret = [op |-> "boot", status |-> "NONE", val |-> NullElt, num |-> 0]

-----------------------------------------------------------------------------
Peek(op, prios) ==
  /\ \/ /\ Busy(prios) = {}
        /\ Undefined(op, "FAIL")
     \/ \E p \in Prio : /\ MostUrgent(p, prios)
                        /\ Answer(op, "SUCCESS", Head(fifo[p]), 0)
  /\ UNCHANGED fifo

Take(op, prios) ==
  \/ /\ Busy(prios) = {}
     /\ Undefined(op, "NONE")
     /\ UNCHANGED fifo
  \/ \E p \in Prio : /\ MostUrgent(p, prios)
                     /\ Answer(op, "NONE", Head(fifo[p]), 0)
                     /\ fifo' = [fifo EXCEPT ![p] = Tail(@)]

PeekPrio(p) ==
  /\ IF p \in Busy(Prio) THEN Answer("headPrio", "NONE", Head(fifo[p]), 0)
                         ELSE Undefined("headPrio", "NONE")
  /\ UNCHANGED fifo

TakePrio(p) ==
  \/ /\ p \in Busy(Prio)
     /\ Answer("dequeuePrio", "NONE", Head(fifo[p]), 0)
     /\ fifo' = [fifo EXCEPT ![p] = Tail(@)]
  \/ /\ p \notin Busy(Prio)
     /\ Undefined("dequeuePrio", "NONE")
     /\ UNCHANGED fifo

Put(v, p) ==
  \/ /\ p \in Prio /\ Len(fifo[p]) < QUEUE_SIZE
     /\ fifo' = [fifo EXCEPT ![p] = Append(@, v)]
     /\ Answer("enqueue", "SUCCESS", NullElt, 0)
  \/ /\ p \notin Prio \/ Len(fifo[p]) = QUEUE_SIZE
     /\ Answer("enqueue", "FAIL", NullElt, 0)
     /\ UNCHANGED fifo

Forget(op, prios) ==
  /\ fifo' = [p \in Prio |-> IF p \in prios THEN <<>> ELSE fifo[p]]
  /\ Answer(op, "NONE", NullElt, 0)

LenAt(prios, p) == IF p \in prios THEN Len(fifo[p]) ELSE 0
Count(op, prios) ==
  /\ Answer(op, "NONE", NullElt,
            LenAt(prios, 1) + LenAt(prios, 2) + LenAt(prios, 3))
  /\ UNCHANGED fifo

AskEmpty == /\ Answer("empty", "NONE", NullElt, Bool01(Busy(Prio) = {}))
            /\ UNCHANGED fifo
AskFull  == /\ Answer("full", "NONE", NullElt,
                      Bool01(\E p \in Prio : Len(fifo[p]) = QUEUE_SIZE))
            /\ UNCHANGED fifo

\* "The maximum number of elements the queue can hold": all three FIFOs full.
AskMaxSize == /\ Answer("maxSize", "NONE", NullElt,
                        QUEUE_SIZE + QUEUE_SIZE + QUEUE_SIZE)
              /\ UNCHANGED fifo

-----------------------------------------------------------------------------
Next ==
  \/ Peek("head", Prio) \/ Peek("headHI", HiCrit)
  \/ Take("dequeue", Prio) \/ Take("dequeueHI", HiCrit)
  \/ \E p \in 0 .. 4 : PeekPrio(p) \/ TakePrio(p)
                       \/ Count("sizePrio", Prio \intersect {p})
                       \/ \E v \in Elt : Put(v, p)
  \/ Forget("clear", Prio) \/ Forget("clearLO", Prio \ HiCrit)
  \/ Count("size", Prio) \/ Count("sizeHI", HiCrit)
  \/ Count("sizeLO", Prio \ HiCrit)
  \/ \E p \in Prio : Count("sizeLO_Q", (Prio \ HiCrit) \intersect {p})
  \/ AskEmpty \/ AskFull \/ AskMaxSize

vars == <<fifo, ret>>
Spec == Init /\ [][Next]_vars
=============================================================================
