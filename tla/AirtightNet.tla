----------------------------- MODULE AirtightNet -----------------------------
(***************************************************************************)
(* Frames on their way through several nodes: TXFlowP and MCCP where they  *)
(* are made, the queues, buffers and mode of each node's MAC, the hops of  *)
(* route_next_hop, and a channel that loses frames and acknowledgements.   *)
(*                                                                         *)
(* Each node is coarser than in TdmaMac: a queue operation, and what       *)
(* sendDone decides, are one step, and a queue is the FIFO of rows of      *)
(* forwardPktBuffer that PrioCritQueueProofs shows it to be.  The radio    *)
(* stack is what RadioStack shows it to be: an acknowledged frame is in    *)
(* the receiver's message buffer, where a task has yet to pick it up.      *)
(* Transmissions do not overlap (AirtightSlots), and every node has        *)
(* synchronised.  A flow makes one frame at a time (c = 1, as flow 9).     *)
(***************************************************************************)
EXTENDS Integers, Sequences, FiniteSets, Functions

CONSTANTS
  Node,                \* a subset of 0 .. 4
  NoFrame,
  Flow,                \* the flows, and their parameters in TXFlowC
  SrcOf, DstOf, CritOf, PriorityOf,
  HiCritOf,            \* the HI priorities of each node's priocrit file
  QUEUE_SIZE,          \* MCCBUF_DEPTH_PER_PRIO
  RECEIVE_QUEUE_SIZE,  \* of the radio stack
  MaxSeq,              \* bound: the packets each flow makes
  MaxCopies,           \* bound: unheeded acknowledgements, of all frames
  FaultyNode,          \* bound: the nodes that are told of a fault
  RefusingNode         \* bound: the nodes whose radio may refuse a frame

CRIT_CHANGE_THRESHOLD == 2
MCC_HI_CRIT_RT_LIMIT == 4
MCC_LO_CRIT_RT_LIMIT == 2
BEST_EFFORT_LIMIT == 4
Prio == 1 .. 3
Row == 0 .. QUEUE_SIZE  \* a full queue's next row is one past its last

\* What a mccpacket is told apart by.
Frame == UNION {[flow : {fl}, seq : 0 .. MaxSeq[fl] - 1] : fl \in Flow}

ASSUME NetAssumption ==
  /\ Node \subseteq 0 .. 4 /\ 0 \in Node  \* the sink
  /\ FaultyNode \subseteq Node /\ RefusingNode \subseteq Node
  /\ SrcOf \in [Flow -> Node] /\ DstOf \in [Flow -> Node]
  /\ CritOf \in [Flow -> {"LO", "HI"}] /\ PriorityOf \in [Flow -> Prio]
  /\ HiCritOf \in [Node -> SUBSET Prio]
  /\ QUEUE_SIZE \in Nat \ {0} /\ RECEIVE_QUEUE_SIZE \in Nat \ {0}
  /\ MaxSeq \in [Flow -> Nat \ {0}] /\ MaxCopies \in Nat

VARIABLES
  packetsSent,                 \* TXFlowP, of each flow
  ring, cell,                  \* forwardQueue, forwardPktBuffer of each node
  hiCritMode, node_ack_fails, activeFault,
  selfDataPkt,                 \* the frame each node is sending, or NoFrame
  ackFlag,                     \* whether that message was last acknowledged
  inbox,                       \* received and not yet given to the MAC
  fate,                        \* history: why a copy of a frame was lost
  deliveries, copies           \* history: of each frame; copies made of it

macVars == <<ring, cell, hiCritMode, node_ack_fails>>
vars == <<packetsSent, macVars, activeFault, selfDataPkt, ackFlag, inbox,
          fate, deliveries, copies>>

Init ==
  /\ packetsSent = [fl \in Flow |-> 0]
  /\ ring = [n \in Node |-> [p \in Prio |-> <<>>]]
  /\ cell = [n \in Node |-> [p \in Prio |-> [r \in Row |-> NoFrame]]]
  /\ hiCritMode = [n \in Node |-> FALSE] /\ node_ack_fails = [n \in Node |-> 0]
  /\ activeFault = [n \in Node |-> FALSE]
  /\ selfDataPkt = [n \in Node |-> NoFrame]
  /\ ackFlag = [n \in Node |-> FALSE]
  /\ inbox = [n \in Node |-> <<>>]
  /\ fate = [f \in Frame |-> {}]
  /\ deliveries = [f \in Frame |-> 0] /\ copies = [f \in Frame |-> 1]

\* The nodes are n1, n2 <-> n0 <-> n3, n4.  A mutant sends everything back.
AcrossSink(n, dst) == {n, dst} \in {{1, 3}, {1, 4}, {2, 3}, {2, 4}}
route_next_hop_Back(n, dst) == IF AcrossSink(n, dst) THEN 0 ELSE IF n = 0 THEN 3 ELSE dst
route_next_hop(n, dst) == IF AcrossSink(n, dst) THEN 0 ELSE dst

\* Wherever its packets are queued, the priority of a flow is one of the HI
\* priorities exactly if the flow is HI (node0.nc-node4.nc, priocrit0.nc-
\* priocrit4.nc).
Carriers(fl) ==
  {SrcOf[fl]} \union (IF AcrossSink(SrcOf[fl], DstOf[fl]) THEN {0} ELSE {})

ASSUME CritMatchesPriority ==
  \A fl \in Flow : \A n \in Carriers(fl) :
    CritOf[fl] = "HI" <=> PriorityOf[fl] \in HiCritOf[n]

-----------------------------------------------------------------------------
(* Queues.                                                                 *)

PrioOf(f) == PriorityOf[f.flow]
QueuedAt(n, p) == {cell[n][p][ring[n][p][i]] : i \in DOMAIN ring[n][p]}
HeadOfQueue(n, p) == IF ring[n][p] = <<>> THEN {} ELSE {cell[n][p][Head(ring[n][p])]}
Waiting(n, prios) == {p \in prios : ring[n][p] # <<>>}
FirstOf(prios) == CHOOSE p \in prios : \A r \in prios : p <= r
DequeuePrio(q, p) == [q EXCEPT ![p] = IF @ = <<>> THEN @ ELSE Tail(@)]
DrainedBut(q, kept) == [p \in Prio |-> IF p \in kept THEN q[p] ELSE <<>>]
Lost(frames, cause) ==
  fate' = [f \in Frame |-> IF f \in frames THEN fate[f] \union {cause} ELSE fate[f]]

\* mcc_enqueue_to_buffers: the row of the copy is the length of the queue,
\* and entries that are in that row already now lead to the new frame.
Overwritten(n, p, row) == {i \in DOMAIN ring[n][p] : ring[n][p][i] = row}

\* A mutant: a full queue takes one more.
EnqueueUnchecked(n, f) ==
  LET p == PrioOf(f)
      row == Len(ring[n][p])
  IN /\ cell' = [cell EXCEPT ![n][p][row] = f]
     /\ ring' = [ring EXCEPT ![n][p] = Append(@, row)]
     /\ UNCHANGED <<fate, copies>>

Enqueue(n, f) ==
  LET p == PrioOf(f)
      row == Len(ring[n][p])
      shared == Overwritten(n, p, row)
  IN /\ cell' = [cell EXCEPT ![n][p][row] = f]
     /\ IF row = QUEUE_SIZE
        THEN Lost({f}, "ringFull") /\ UNCHANGED <<ring, copies>>
        ELSE /\ ring' = [ring EXCEPT ![n][p] = Append(@, row)]
             /\ Lost(IF shared = {} THEN {} ELSE {cell[n][p][row]}, "overwritten")
             /\ copies' = [copies EXCEPT ![f] = @ + Cardinality(shared)]

-----------------------------------------------------------------------------
\* TXFlowP.send through MCCP to MacSend.send: a LO packet is refused in HI
\* mode, and counts as sent all the same.
SendTimerFired(fl) ==
  LET n == SrcOf[fl]
      f == [flow |-> fl, seq |-> packetsSent[fl]]
  IN /\ packetsSent[fl] < MaxSeq[fl]
     /\ packetsSent' = [packetsSent EXCEPT ![fl] = @ + 1]
     /\ IF hiCritMode[n] /\ CritOf[fl] = "LO"
        THEN Lost({f}, "refused") /\ UNCHANGED <<ring, cell, copies>>
        ELSE Enqueue(n, f)
     /\ UNCHANGED <<hiCritMode, node_ack_fails, activeFault, selfDataPkt, ackFlag,
                    inbox, deliveries>>

\* handle_tx_slot, while nobody else transmits.
HIDrained(n) == hiCritMode[n] /\ Waiting(n, HiCritOf[n]) = {}
Eligible(n) == Waiting(n, IF hiCritMode[n] /\ ~ HIDrained(n) THEN HiCritOf[n] ELSE Prio)
HeadFrame(n) == CHOOSE f \in HeadOfQueue(n, FirstOf(Eligible(n))) : TRUE

TxSlot(n) ==
  /\ \A m \in Node : selfDataPkt[m] = NoFrame
  /\ hiCritMode' = [hiCritMode EXCEPT ![n] = @ /\ ~ HIDrained(n)]
  /\ node_ack_fails' = [node_ack_fails EXCEPT ![n] =
       IF HIDrained(n) \/ Eligible(n) = {} THEN 0 ELSE @]
  /\ selfDataPkt' = [selfDataPkt EXCEPT ![n] =
       IF Eligible(n) = {} THEN NoFrame ELSE HeadFrame(n)]
  /\ UNCHANGED <<packetsSent, ring, cell, activeFault, ackFlag, inbox, fate,
                 deliveries, copies>>

-----------------------------------------------------------------------------
(* phyDataSend.sendDone.                                                   *)

\* The frame taken for acknowledged leaves its queue, found by its priority.
\* Mutants: the most urgent frame leaves, or none.
DequeueSentNothing(n) == UNCHANGED <<ring, hiCritMode, node_ack_fails>>
DequeueSentMostUrgent(n) ==
  /\ ring' = [ring EXCEPT ![n] = DequeuePrio(@, FirstOf(Waiting(n, Prio)))]
  /\ UNCHANGED <<hiCritMode, node_ack_fails>>
DequeueSent(n) ==
  /\ ring' = [ring EXCEPT ![n] = DequeuePrio(@, PrioOf(selfDataPkt[n]))]
  /\ UNCHANGED <<hiCritMode, node_ack_fails>>

Fails(n) == node_ack_fails[n] + 1
GoesHigh(n) == ~ hiCritMode[n] /\ Fails(n) >= CRIT_CHANGE_THRESHOLD
Limit(f) == IF CritOf[f.flow] = "HI" THEN MCC_HI_CRIT_RT_LIMIT ELSE MCC_LO_CRIT_RT_LIMIT

\* "If we got to 4 fails in a row, empty all HI crit buffers too"
GiveUp(n) ==
  /\ Fails(n) >= BEST_EFFORT_LIMIT
  /\ ring' = [ring EXCEPT ![n] = DrainedBut(@, {})]
  /\ Lost(UNION {QueuedAt(n, p) : p \in Prio}, "gaveUp")
  /\ node_ack_fails' = [node_ack_fails EXCEPT ![n] = 0]
  /\ hiCritMode' = [hiCritMode EXCEPT ![n] = FALSE]

\* On the change to HI mode the LO queues are emptied; then a frame at its
\* limit leaves its queue, whatever is at the head of it.
CountFailure(n) ==
  LET f == selfDataPkt[n]
      kept == IF GoesHigh(n) THEN DrainedBut(ring[n], HiCritOf[n]) ELSE ring[n]
      atLimit == Fails(n) >= Limit(f)
  IN /\ Fails(n) < BEST_EFFORT_LIMIT
     /\ node_ack_fails' = [node_ack_fails EXCEPT ![n] = Fails(n)]
     /\ hiCritMode' = [hiCritMode EXCEPT ![n] = @ \/ GoesHigh(n)]
     /\ ring' = [ring EXCEPT ![n] = IF atLimit THEN DequeuePrio(kept, PrioOf(f)) ELSE kept]
     /\ Lost((IF GoesHigh(n) THEN UNION {QueuedAt(n, p) : p \in Prio \ HiCritOf[n]} ELSE {})
               \union (IF atLimit THEN HeadOfQueue(n, PrioOf(f)) ELSE {}),
             "discarded")

CopiesMade == SumFunction(copies) - Cardinality(Frame)

\* The next hop hears the frame, if it has room, or does not; its radio
\* acknowledges it, and the acknowledgement may be lost; during a fault the
\* sender does not heed it.
Transmitted(n, heard, acked) ==
  LET f == selfDataPkt[n]
      m == route_next_hop(n, DstOf[f.flow])
      success == acked /\ ~ activeFault[n]
  IN /\ f # NoFrame
     /\ heard => Len(inbox[m]) < RECEIVE_QUEUE_SIZE
     /\ heard /\ ~ success => CopiesMade < MaxCopies
     /\ acked => heard
     /\ inbox' = IF heard THEN [inbox EXCEPT ![m] = Append(@, f)] ELSE inbox
     /\ copies' = [copies EXCEPT ![f] = @ + (IF heard /\ ~ success THEN 1 ELSE 0)]
     /\ ackFlag' = [ackFlag EXCEPT ![n] = acked]
     /\ selfDataPkt' = [selfDataPkt EXCEPT ![n] = NoFrame]
     /\ \/ success /\ DequeueSent(n) /\ UNCHANGED fate
        \/ ~ success /\ (GiveUp(n) \/ CountFailure(n))
     /\ UNCHANGED <<packetsSent, cell, activeFault, deliveries>>

\* The radio stack gives up after its attempts; the error is not looked at,
\* and the flag is still that of the frame before.
Refused(n) ==
  LET f == selfDataPkt[n]
      success == ackFlag[n] /\ ~ activeFault[n]
  IN /\ f # NoFrame
     /\ selfDataPkt' = [selfDataPkt EXCEPT ![n] = NoFrame]
     /\ \/ /\ success /\ DequeueSent(n)
           /\ Lost(HeadOfQueue(n, PrioOf(f)), "staleAck")
        \/ ~ success /\ (GiveUp(n) \/ CountFailure(n))
     /\ UNCHANGED <<packetsSent, cell, activeFault, ackFlag, inbox, deliveries, copies>>

-----------------------------------------------------------------------------
\* phyDataReceive.receive: up to the application, or on to the next hop.
Received(n) ==
  LET f == Head(inbox[n]) IN
  /\ inbox[n] # <<>>
  /\ inbox' = [inbox EXCEPT ![n] = Tail(@)]
  /\ \/ /\ DstOf[f.flow] = n
        /\ deliveries' = [deliveries EXCEPT ![f] = @ + 1]
        /\ UNCHANGED <<ring, cell, copies, fate>>
     \/ /\ DstOf[f.flow] # n /\ ~ activeFault[n]
        /\ Enqueue(n, f)
        /\ UNCHANGED deliveries
     \/ /\ DstOf[f.flow] # n /\ activeFault[n]
        /\ Lost({f}, "fault")
        /\ UNCHANGED <<ring, cell, copies, deliveries>>
  /\ UNCHANGED <<packetsSent, hiCritMode, node_ack_fails, activeFault, selfDataPkt,
                 ackFlag>>

\* A fault packet, and the timer that ends the fault.
FaultChanges(n) ==
  /\ activeFault' = [activeFault EXCEPT ![n] = ~ @]
  /\ UNCHANGED <<packetsSent, macVars, selfDataPkt, ackFlag, inbox, fate,
                 deliveries, copies>>

Transmission(n) ==
  \/ \E heard, acked \in BOOLEAN : Transmitted(n, heard, acked)
  \/ n \in RefusingNode /\ Refused(n)

Next ==
  \/ \E fl \in Flow : SendTimerFired(fl)
  \/ \E n \in Node : TxSlot(n) \/ Transmission(n) \/ Received(n)
  \/ \E n \in FaultyNode : FaultChanges(n)

Spec == Init /\ [][Next]_vars

\* Every node gets its slots; a transmission ends; and as long as some node
\* has a frame to pick up, some node does (no more is needed: each node's own
\* tasks run, and a frame is copied only so often).
Fairness ==
  /\ \A n \in Node : SF_vars(TxSlot(n))
  /\ WF_vars(\E n \in Node : Transmission(n))
  /\ WF_vars(\E n \in Node : Received(n))
FairSpec == Spec /\ Fairness

-----------------------------------------------------------------------------
(* Properties.                                                             *)

TypeOK ==
  /\ \A fl \in Flow : packetsSent[fl] \in 0 .. MaxSeq[fl]
  /\ \A n \in Node, p \in Prio :
       /\ Len(ring[n][p]) <= QUEUE_SIZE
       /\ \A i \in DOMAIN ring[n][p] : /\ ring[n][p][i] \in 0 .. QUEUE_SIZE - 1
                                       /\ cell[n][p][ring[n][p][i]] \in Frame
  /\ hiCritMode \in [Node -> BOOLEAN]
  /\ node_ack_fails \in [Node -> 0 .. BEST_EFFORT_LIMIT - 1]
  /\ activeFault \in [Node -> BOOLEAN]
  /\ selfDataPkt \in [Node -> Frame \union {NoFrame}]
  /\ ackFlag \in [Node -> BOOLEAN]
  /\ inbox \in [Node -> UNION {[1 .. k -> Frame] : k \in 0 .. RECEIVE_QUEUE_SIZE}]
  /\ deliveries \in [Frame -> Nat] /\ copies \in [Frame -> Nat]

Queued(f) == \E n \in Node : f \in QueuedAt(n, PrioOf(f))
Underway(f) == \E n \in Node : f \in {inbox[n][i] : i \in DOMAIN inbox[n]}

\* Custody: a frame the application has made is in some queue, on its way to a
\* MAC, delivered, or lost for one of the reasons the code has, which for a HI
\* frame are only a full queue, a reused cell, a fault, four failures, and a
\* stale acknowledgement flag (TdmaMacP.nc:729,753,935,970,1050).  A true
\* acknowledgement hands the frame over.
HIReasons == {"ringFull", "overwritten", "fault", "gaveUp", "staleAck"}
NoSilentLoss ==
  \A f \in Frame :
    /\ f.seq < packetsSent[f.flow] =>
         Queued(f) \/ Underway(f) \/ deliveries[f] > 0 \/ fate[f] # {}
    /\ CritOf[f.flow] = "HI" => fate[f] \subseteq HIReasons

\* A frame arrives more than once only when an acknowledgement of it was lost
\* or not heeded, or its cell was shared: nothing recognises a copy, but each
\* one has a cause (TdmaMacP.nc:922-1012,1050).
CopiesHaveACause == \A f \in Frame : deliveries[f] <= copies[f]

\* When the flows have made their packets, queues run empty and every node
\* returns to LO mode: forwarding frames to each other, and giving up, never
\* keeps the nodes busy for ever (TdmaMacP.nc:325-359,961-978).
NetDrains ==
  <>[](\A n \in Node : /\ ~ hiCritMode[n] /\ inbox[n] = <<>>
                       /\ \A p \in Prio : ring[n][p] = <<>>)
=============================================================================
