------------------------------ MODULE TdmaMac ------------------------------
(***************************************************************************)
(* The AirTight MAC of one node, apps/MCCTable/TdmaMacP.nc.                *)
(*                                                                         *)
(* Two contexts share the MAC's state.  Tasks (the application's send, the *)
(* radio's sendDone and receive events, the fault timer) run one at a time *)
(* to completion; the slot interrupt may run between any two steps of a    *)
(* task and is itself atomic (the alarm is signalled inside an atomic      *)
(* block).  pc is where the running task is, "idle" between tasks.         *)
(*                                                                         *)
(* The queues hold pointers <<row, prio>> into forwardPktBuffer; mem is    *)
(* the content of that array, one row more than declared so that writes    *)
(* past its end have somewhere to go.  The radio stack below the MAC is    *)
(* reduced to the frame it is sending and the answer it gives.             *)
(***************************************************************************)
EXTENDS PrioCritQueueP

CONSTANTS
  TOS_NODE_ID,     \* 0 .. 4, 0 is the sink
  SLOTS_IN_FRAME,  \* 6 in SlotTiming.h
  Packet,          \* the application packets admitted here or forwarded
  NoPacket,
  PriorityOf,      \* packet fields priority, crit_level and c
  CritOf,
  COf,
  Forwarded,       \* the packets that arrive here for another node
  SlotsFit,        \* TRUE: a transmission ends before the node's next slot
  RadioMayRefuse,  \* TRUE: send() may answer EBUSY or FAIL
  MaxDiscard       \* bound on the packets refused between two transmissions

SINK_NODE_ID == 0
MIN_PRIO == 1
MAX_PRIO == 3
MAX_C_COUNT == 3
CRIT_CHANGE_THRESHOLD == 2
MCC_HI_CRIT_RT_LIMIT == 4
MCC_LO_CRIT_RT_LIMIT == 2
BEST_EFFORT_LIMIT == 4

ASSUME PacketAssumption ==
  /\ NoPacket \notin Packet
  /\ Forwarded \subseteq Packet
  /\ PriorityOf \in [Packet -> 0 .. 255]
  /\ CritOf \in [Packet -> {"LO", "HI"}]
  /\ COf \in [Packet -> 0 .. 255]
ASSUME NodeAssumption ==
  /\ TOS_NODE_ID \in 0 .. 4 /\ SLOTS_IN_FRAME \in 2 .. 8
  /\ SlotsFit \in BOOLEAN /\ RadioMayRefuse \in BOOLEAN
  /\ MaxDiscard \in 0 .. 100
ASSUME PointerAssumption ==
  Elt = (0 .. QUEUE_SIZE) \X Prio

VARIABLES
  q, mem,                  \* forwardQueue and the content of forwardPktBuffer
  hiCritMode, node_ack_fails, discarded,
  activeFault, phyLock, init, slotterInit,
  slot,                    \* GenericSlotterP.slot
  selfDataPkt,             \* the frame handed to the radio: content, ack bit
  radio,                   \* what the radio stack is sending
  crashed,                 \* the node spins in "while (1)"
  pc, arg, left, ptr, reg, \* the running task and its locals
  sentPrio,
  sendResult,              \* what mcc_enqueue_to_buffers last returned
  sentPtr, streak, unreported   \* history: see below

queueVars   == <<q, mem>>
modeVars    == <<hiCritMode, node_ack_fails>>
statusVars  == <<activeFault, init, slotterInit>>
radioVars   == <<phyLock, selfDataPkt, radio, sentPtr>>
taskVars    == <<pc, arg, left, ptr, reg, sentPrio, sendResult>>
statVars    == <<discarded, unreported>>
vars == <<queueVars, modeVars, statusVars, radioVars, taskVars, statVars,
          slot, crashed, streak>>

-----------------------------------------------------------------------------
IsSink == TOS_NODE_ID = SINK_NODE_ID
Content == Packet \union {NoPacket}
HasPrio(pk) == PriorityOf[pk] \in MIN_PRIO .. MAX_PRIO

\* A priority is HI in the node's priocrit file exactly when the packets the
\* node queues at that priority are.
PrioritiesSeparate ==
  \A pk \in Packet : HasPrio(pk) => (CritOf[pk] = "HI" <=> PriorityOf[pk] \in HiCrit)

SmallerOf(a, b) == IF a <= b THEN a ELSE b

\* setup_temp_mcc_table: one slot per node, every other one is A_LISTEN.
TxSlotOf(node) == CASE node = 0 -> 2 [] node = 1 -> 3 [] node = 2 -> 4
                    [] node = 3 -> 5 [] node = 4 -> 0

\* &forwardPktBuffer[size][prio] and whether C's array has such a cell.
BufferForPrio1(prio) == <<SizePrio(q, prio), 1>>   \* a mutant
BufferFor(prio) == <<SizePrio(q, prio), prio>>
CellExists(p) == p[1] * 3 + p[2] < QUEUE_SIZE * 3

NothingDiscarded == [p \in Prio |-> 0]

Init ==
  /\ q = InitPrioQueue
  /\ mem = [p \in Elt |-> NoPacket]
  /\ hiCritMode = FALSE /\ node_ack_fails = 0 /\ discarded = NothingDiscarded
  /\ activeFault = FALSE /\ phyLock = FALSE
  /\ init = FALSE /\ slotterInit = FALSE
  /\ slot = 0
  /\ selfDataPkt = [pkt |-> NoPacket, ackReq |-> FALSE]
  /\ radio = "idle"
  /\ crashed = FALSE
  /\ pc = "idle" /\ arg = NoPacket /\ left = 0 /\ ptr = NullElt /\ reg = 0
  /\ sentPrio = 0 /\ sendResult = "SUCCESS"
  /\ sentPtr = NullElt /\ streak = 0 /\ unreported = NothingDiscarded

-----------------------------------------------------------------------------
(* The slot interrupt.                                                     *)

\* Nothing queued: the failure counter is cleared, and a queue that still
\* claims to hold something stops the node for good.
NothingToSend ==
  /\ crashed' = (QSize(q) > 0)
  /\ UNCHANGED <<radioVars, statVars>>

\* The copy into selfDataPkt comes before the lock is looked at.  Inside a
\* dequeue of the task the head has moved, perhaps past the last cell, and
\* the size has not: what is copied then may be anything.  Only the lock
\* keeps it off the air.
ReadByCopy(p) == IF pc \in {"clear", "dequeue"} THEN Content ELSE {mem[p]}

RadioLocked(p) ==
  /\ phyLock
  /\ \E pk \in ReadByCopy(p) : selfDataPkt' = [selfDataPkt EXCEPT !.pkt = pk]
  /\ UNCHANGED <<phyLock, radio, sentPtr, statVars, crashed>>

\* The acknowledgement bit is only ever set: noAck is never called.  The
\* statistics are copied and cleared before the radio answers.
HandToRadio(p) ==
  /\ ~ phyLock
  /\ \E pk \in ReadByCopy(p) :
       selfDataPkt' = [pkt |-> pk,
                       ackReq |-> selfDataPkt.ackReq \/ ~ activeFault]
  /\ discarded' = NothingDiscarded
  /\ \/ /\ radio' = "data" /\ phyLock' = TRUE /\ sentPtr' = p
        /\ unreported' = [r \in Prio |->
                           IF unreported[r] <= discarded[r] THEN 0
                           ELSE unreported[r] - discarded[r]]
     \/ RadioMayRefuse /\ UNCHANGED <<radio, phyLock, sentPtr, unreported>>
  /\ UNCHANGED crashed

HIDrained == hiCritMode /\ Waiting(q, HiCrit) = {}
EligibleKeepsHI  == IF hiCritMode THEN HiCrit ELSE Prio   \* a mutant
EligibleInAnyMode == Prio                                 \* a mutant
Eligible  == IF hiCritMode /\ ~ HIDrained THEN HiCrit ELSE Prio
Selected  == HeadOf(q[FirstOf(Waiting(q, Eligible))])

handle_tx_slot ==
  /\ hiCritMode' = (hiCritMode /\ ~ HIDrained)
  /\ node_ack_fails' = IF HIDrained \/ Waiting(q, Eligible) = {} THEN 0
                       ELSE node_ack_fails
  /\ \/ Waiting(q, Eligible) = {} /\ NothingToSend
     \/ Waiting(q, Eligible) # {} /\ (RadioLocked(Selected) \/ HandToRadio(Selected))

\* Slot 1 of the sink: the notification the other nodes synchronise to.
SendNotification ==
  /\ IF phyLock THEN UNCHANGED <<radio, phyLock>>
     ELSE \/ radio' = "notification" /\ phyLock' = TRUE
          \/ RadioMayRefuse /\ UNCHANGED <<radio, phyLock>>
  /\ UNCHANGED <<modeVars, statVars, selfDataPkt, sentPtr, crashed>>

\* No node's transmission slot is slot 1.
UsesRadio(s) == s = TxSlotOf(TOS_NODE_ID) \/ (s = 1 /\ IsSink)

\* Slotter.slot(s)
SlotEvent(s) ==
  /\ slot' = s
  /\ \/ s = 1 /\ IsSink /\ SendNotification
     \/ s = TxSlotOf(TOS_NODE_ID) /\ handle_tx_slot
     \/ /\ ~ UsesRadio(s)
        /\ UNCHANGED <<modeVars, statVars, radioVars, crashed>>

\* The alarm runs from the sink's start, elsewhere from the first
\* notification.  SlotsFit is the timing assumption of the slot table: the
\* radio is done with a frame before the node's next slot.
SlotterOn == IF IsSink THEN init ELSE slotterInit

AlarmFired ==
  /\ ~ crashed
  /\ SlotterOn
  /\ LET next == (slot + 1) % SLOTS_IN_FRAME
     IN /\ (SlotsFit /\ UsesRadio(next)) => ~ phyLock
        /\ SlotEvent(next)
  /\ UNCHANGED <<queueVars, statusVars, taskVars, streak>>

-----------------------------------------------------------------------------
(* Events that run as one step: nothing in them can be told apart by the   *)
(* slot interrupt.                                                         *)

\* RadioPowerControl.startDone; MCCP sets the frame length in the same step.
StartDone ==
  /\ ~ crashed
  /\ pc = "idle" /\ ~ init
  /\ init' = TRUE
  /\ IF IsSink THEN SlotEvent(1)
     ELSE UNCHANGED <<slot, modeVars, statVars, radioVars, crashed>>
  /\ UNCHANGED <<queueVars, activeFault, slotterInit, taskVars, streak>>

\* A mutant: every notification empties the queues.
NotificationReceivedClears ==
  /\ ~ crashed
  /\ pc = "idle" /\ init /\ ~ IsSink
  /\ SlotEvent(1)
  /\ slotterInit' = TRUE
  /\ q' = Clear(q)
  /\ UNCHANGED <<mem, activeFault, init, taskVars, streak>>

\* phyNotificationReceive at a node that is not the sink: synchronize(1),
\* and at the first notification the queues are emptied.
NotificationReceived ==
  /\ ~ crashed
  /\ pc = "idle" /\ init /\ ~ IsSink
  /\ SlotEvent(1)
  /\ slotterInit' = TRUE
  /\ q' = IF slotterInit THEN q ELSE Clear(q)
  /\ UNCHANGED <<mem, activeFault, init, taskVars, streak>>

NotificationSent ==
  /\ ~ crashed
  /\ pc = "idle" /\ radio = "notification"
  /\ radio' = "idle" /\ phyLock' = FALSE
  /\ UNCHANGED <<queueVars, modeVars, statusVars, selfDataPkt, sentPtr,
                 taskVars, statVars, slot, crashed, streak>>

FaultReceived ==
  /\ ~ crashed
  /\ pc = "idle" /\ init
  /\ activeFault' = TRUE
  /\ UNCHANGED <<queueVars, modeVars, init, slotterInit, radioVars, taskVars,
                 statVars, slot, crashed, streak>>

FaultClearTimerFired ==
  /\ ~ crashed
  /\ pc = "idle" /\ activeFault
  /\ activeFault' = FALSE
  /\ UNCHANGED <<queueVars, modeVars, init, slotterInit, radioVars, taskVars,
                 statVars, slot, crashed, streak>>

-----------------------------------------------------------------------------
(* Admission: MacSend.send and the forwarding branch of phyDataReceive.    *)

\* mcc_enqueue_to_buffers is called n times for pk.
StartEnqueue(pk, n) ==
  /\ pc' = "copy" /\ arg' = pk /\ left' = n
  /\ UNCHANGED <<ptr, reg, sentPrio, sendResult>>

\* A mutant: the mode is not looked at.
MacSendInAnyMode(pk) ==
  /\ ~ crashed
  /\ pc = "idle" /\ COf[pk] > 0
  /\ StartEnqueue(pk, SmallerOf(COf[pk], MAX_C_COUNT))
  /\ UNCHANGED <<queueVars, modeVars, statusVars, radioVars, statVars, slot,
                 crashed, streak>>

\* A packet with c = 0 is admitted as no frame at all: nothing changes.
MacSend(pk) ==
  /\ ~ crashed
  /\ pc = "idle"
  /\ \/ /\ ~ (hiCritMode /\ CritOf[pk] = "LO") /\ COf[pk] > 0
        /\ StartEnqueue(pk, SmallerOf(COf[pk], MAX_C_COUNT))
     \/ /\ hiCritMode /\ CritOf[pk] = "LO" /\ HasPrio(pk)
        /\ discarded[PriorityOf[pk]] + COf[pk] <= MaxDiscard
        /\ pc' = "discard" /\ arg' = pk /\ reg' = discarded[PriorityOf[pk]]
        /\ UNCHANGED <<left, ptr, sentPrio, sendResult>>
  /\ UNCHANGED <<queueVars, modeVars, statusVars, radioVars, statVars, slot,
                 crashed, streak>>

\* "discarded[i] += c" is a load and a store: a slot may come in between.
DiscardStore ==
  /\ ~ crashed
  /\ pc = "discard"
  /\ discarded' = [discarded EXCEPT ![PriorityOf[arg]] = (reg + COf[arg]) % 256]
  /\ unreported' = [unreported EXCEPT ![PriorityOf[arg]] = @ + COf[arg]]
  /\ pc' = "idle" /\ arg' = NoPacket /\ reg' = 0
  /\ UNCHANGED <<queueVars, modeVars, statusVars, radioVars, left, ptr,
                 sentPrio, sendResult, slot, crashed, streak>>

DataReceived(pk) ==
  /\ ~ crashed
  /\ pc = "idle" /\ init
  /\ ~ activeFault
  /\ StartEnqueue(pk, 1)
  /\ UNCHANGED <<queueVars, modeVars, statusVars, radioVars, statVars, slot,
                 crashed, streak>>

\* One more of the burst is done.
NextOfBurst ==
  /\ left' = left - 1
  /\ IF left = 1 THEN pc' = "idle" /\ arg' = NoPacket
                 ELSE pc' = "copy" /\ UNCHANGED arg

\* The buffer row is the number of packets queued at that priority now.
EnqueueCopy ==
  /\ ~ crashed
  /\ pc = "copy" /\ HasPrio(arg)
  /\ ptr' = BufferFor(PriorityOf[arg])
  /\ mem' = [mem EXCEPT ![BufferFor(PriorityOf[arg])] = arg]
  /\ pc' = "insert"
  /\ UNCHANGED <<q, modeVars, statusVars, radioVars, statVars, arg, left, reg,
                 sentPrio, sendResult, slot, crashed, streak>>

EnqueueBadPriority ==
  /\ ~ crashed
  /\ pc = "copy" /\ ~ HasPrio(arg)
  /\ NextOfBurst
  /\ sendResult' = "FAIL"
  /\ UNCHANGED <<queueVars, modeVars, statusVars, radioVars, statVars, ptr,
                 reg, sentPrio, slot, crashed, streak>>

\* The answer of forwardQueue.enqueue is dropped: SUCCESS even when full.
EnqueueInsert ==
  /\ ~ crashed
  /\ pc = "insert"
  /\ q' = EnqueuePrio(q, ptr, PriorityOf[arg])
  /\ NextOfBurst
  /\ ptr' = NullElt
  /\ sendResult' = "SUCCESS"
  /\ UNCHANGED <<mem, modeVars, statusVars, radioVars, statVars, reg, sentPrio,
                 slot, crashed, streak>>

-----------------------------------------------------------------------------
(* phyDataSend.sendDone, one action per step the slot interrupt can see.   *)

\* A mutant: the lock goes as soon as the radio has answered.
DataSentUnlocks(acked) ==
  /\ ~ crashed
  /\ pc = "idle" /\ radio = "data"
  /\ radio' = "idle" /\ phyLock' = FALSE
  /\ sentPrio' = PriorityOf[selfDataPkt.pkt]
  /\ IF acked /\ ~ activeFault
     THEN pc' = "dequeue" /\ streak' = 0
     ELSE pc' = "register" /\ streak' = SmallerOf(streak + 1, BEST_EFFORT_LIMIT)
  /\ UNCHANGED <<queueVars, modeVars, statusVars, selfDataPkt, sentPtr, arg,
                 left, ptr, reg, sendResult, statVars, slot, crashed>>

DataSent(acked) ==
  /\ ~ crashed
  /\ pc = "idle" /\ radio = "data"
  /\ radio' = "idle"
  /\ sentPrio' = PriorityOf[selfDataPkt.pkt]
  /\ IF acked /\ ~ activeFault
     THEN pc' = "dequeue" /\ streak' = 0
     ELSE pc' = "register" /\ streak' = SmallerOf(streak + 1, BEST_EFFORT_LIMIT)
  /\ UNCHANGED <<queueVars, modeVars, statusVars, phyLock, selfDataPkt,
                 sentPtr, arg, left, ptr, reg, sendResult, statVars, slot,
                 crashed>>

SendDoneStep(from, to) ==
  /\ ~ crashed
  /\ pc = from /\ pc' = to
  /\ UNCHANGED <<mem, statusVars, radio, selfDataPkt, arg, left,
                 ptr, reg, sendResult, slot, crashed, streak>>

\* A mutant: failures are counted in LO mode only.
RegisterFailedAckInLO ==
  /\ SendDoneStep("register", "goHigh")
  /\ node_ack_fails' = IF hiCritMode THEN node_ack_fails ELSE node_ack_fails + 1
  /\ UNCHANGED <<q, hiCritMode, statVars, phyLock, sentPrio, sentPtr>>

\* mcc_register_failed_ack
RegisterFailedAck ==
  /\ SendDoneStep("register", "goHigh")
  /\ node_ack_fails' = node_ack_fails + 1
  /\ UNCHANGED <<q, hiCritMode, statVars, phyLock, sentPrio, sentPtr>>

\* Mutants: the threshold off by one; the LO rings emptied before they are
\* counted.
CheckToGoHighLate ==
  /\ SendDoneStep("goHigh", "bestEffort")
  /\ IF ~ hiCritMode /\ node_ack_fails > CRIT_CHANGE_THRESHOLD
     THEN /\ hiCritMode' = TRUE
          /\ q' = ClearLO(q)
     ELSE UNCHANGED <<hiCritMode, q>>
  /\ UNCHANGED <<statVars, node_ack_fails, phyLock, sentPrio, sentPtr>>
CheckToGoHighCountsNothing ==
  /\ SendDoneStep("goHigh", "bestEffort")
  /\ IF ~ hiCritMode /\ node_ack_fails >= CRIT_CHANGE_THRESHOLD
     THEN /\ hiCritMode' = TRUE
          /\ discarded' = [p \in Prio |-> (discarded[p] + SizeLO_Q(ClearLO(q), p)) % 256]
          /\ unreported' = [p \in Prio |-> unreported[p] + SizeLO_Q(q, p)]
          /\ q' = ClearLO(q)
     ELSE UNCHANGED <<hiCritMode, statVars, q>>
  /\ UNCHANGED <<node_ack_fails, phyLock, sentPrio, sentPtr>>

\* mcc_check_to_go_high, atomic.
CheckToGoHigh ==
  /\ SendDoneStep("goHigh", "bestEffort")
  /\ IF ~ hiCritMode /\ node_ack_fails >= CRIT_CHANGE_THRESHOLD
     THEN /\ hiCritMode' = TRUE
          /\ discarded' = [p \in Prio |-> (discarded[p] + SizeLO_Q(q, p)) % 256]
          /\ unreported' = [p \in Prio |-> unreported[p] + SizeLO_Q(q, p)]
          /\ q' = ClearLO(q)
     ELSE UNCHANGED <<hiCritMode, statVars, q>>
  /\ UNCHANGED <<node_ack_fails, phyLock, sentPrio, sentPtr>>

\* "If we got to 4 fails in a row, empty all HI crit buffers too"
CheckBestEffort ==
  /\ SendDoneStep("bestEffort",
       IF node_ack_fails >= BEST_EFFORT_LIMIT THEN "clear" ELSE "limit")
  /\ UNCHANGED <<q, modeVars, statVars, phyLock, sentPrio, sentPtr>>

\* forwardQueue.clear() is not atomic: one dequeue of its loops at a time.
ClearOne ==
  /\ ~ QEmpty(q)
  /\ SendDoneStep("clear", "clear")
  /\ q' = DequeuePrio(q, FirstOf(Waiting(q, Prio)))
  /\ UNCHANGED <<modeVars, statVars, phyLock, sentPrio, sentPtr>>

\* A mutant: HI mode is not left when the queues are given up.
ClearDoneStaysHI ==
  /\ QEmpty(q)
  /\ SendDoneStep("clear", "limit")
  /\ node_ack_fails' = 0
  /\ UNCHANGED <<q, hiCritMode, statVars, phyLock, sentPrio, sentPtr>>

ClearDone ==
  /\ QEmpty(q)
  /\ SendDoneStep("clear", "limit")
  /\ node_ack_fails' = 0 /\ hiCritMode' = FALSE
  /\ UNCHANGED <<q, statVars, phyLock, sentPrio, sentPtr>>

\* mcc_check_should_dequeue_packet: the limits are compared with the node's
\* failure counter, and the criticality is read from selfDataPkt.
RetransmitLimitSwapped(pk) ==   \* a mutant
  IF pk \in Packet /\ CritOf[pk] = "LO" THEN MCC_HI_CRIT_RT_LIMIT ELSE MCC_LO_CRIT_RT_LIMIT

RetransmitLimit(pk) ==
  IF pk \in Packet /\ CritOf[pk] = "HI" THEN MCC_HI_CRIT_RT_LIMIT ELSE MCC_LO_CRIT_RT_LIMIT

CheckLimit ==
  /\ SendDoneStep("limit",
       IF node_ack_fails >= RetransmitLimit(selfDataPkt.pkt) THEN "dequeue"
                                                       ELSE "retransmit")
  /\ UNCHANGED <<q, modeVars, statVars, phyLock, sentPrio, sentPtr>>

DequeueSent ==
  /\ SendDoneStep("dequeue", "unlock")
  /\ q' = DequeuePrio(q, sentPrio)
  /\ UNCHANGED <<modeVars, statVars, phyLock, sentPrio, sentPtr>>

\* headPrio(sentPrio)->local_retransmits++: a field nothing decides on.
CountRetransmit ==
  /\ SendDoneStep("retransmit", "unlock")
  /\ UNCHANGED <<q, modeVars, statVars, phyLock, sentPrio, sentPtr>>

\* A mutant: the lock outlives a frame that was given up.
UnlockAfterAckOnly ==
  /\ SendDoneStep("unlock", "idle")
  /\ phyLock' = (streak > 0)
  /\ sentPrio' = 0 /\ sentPtr' = NullElt
  /\ UNCHANGED <<q, modeVars, statVars>>

Unlock ==
  /\ SendDoneStep("unlock", "idle")
  /\ phyLock' = FALSE /\ sentPrio' = 0 /\ sentPtr' = NullElt
  /\ UNCHANGED <<q, modeVars, statVars>>

SendDoneSteps ==
  \/ RegisterFailedAck \/ CheckToGoHigh \/ CheckBestEffort
  \/ ClearOne \/ ClearDone \/ CheckLimit
  \/ DequeueSent \/ CountRetransmit \/ Unlock

-----------------------------------------------------------------------------
Admit == \/ \E pk \in Packet \ Forwarded : MacSend(pk)
         \/ \E pk \in Forwarded : DataReceived(pk)
AdmissionSteps == DiscardStore \/ EnqueueCopy \/ EnqueueBadPriority \/ EnqueueInsert
RadioDone == NotificationSent \/ \E acked \in BOOLEAN : DataSent(acked)
FaultEvents == FaultReceived \/ FaultClearTimerFired

\* Nothing runs once the node spins in its endless loop.
Next == \/ AlarmFired \/ StartDone \/ NotificationReceived
        \/ Admit \/ AdmissionSteps \/ RadioDone \/ SendDoneSteps
        \/ FaultEvents

Spec == Init /\ [][Next]_vars

\* The alarm keeps firing, the radio finishes what it accepted, a running
\* task is never abandoned, and a node that is up hears the sink.
Fairness ==
  /\ WF_vars(AlarmFired)
  /\ WF_vars(StartDone)
  /\ WF_vars(~ slotterInit /\ NotificationReceived)
  /\ WF_vars(RadioDone)
  /\ WF_vars(AdmissionSteps)
  /\ WF_vars(SendDoneSteps)

FairSpec == Spec /\ Fairness

-----------------------------------------------------------------------------
(* Properties.                                                             *)

SendDonePc == {"register", "goHigh", "bestEffort", "clear", "limit",
               "dequeue", "retransmit", "unlock"}
TaskPc == {"idle", "discard", "copy", "insert"} \union SendDonePc

\* Every variable holds a value of its C type or of its stage of the model,
\* and the rings are well formed.
TypeOK ==
  /\ QueueInv(q)
  /\ mem \in [Elt -> Content]
  /\ hiCritMode \in BOOLEAN /\ node_ack_fails \in 0 .. 255
  /\ discarded \in [Prio -> 0 .. 255] /\ unreported \in [Prio -> Nat]
  /\ activeFault \in BOOLEAN /\ phyLock \in BOOLEAN
  /\ init \in BOOLEAN /\ slotterInit \in BOOLEAN
  /\ slot \in 0 .. SLOTS_IN_FRAME - 1
  /\ selfDataPkt \in [pkt : Content, ackReq : BOOLEAN]
  /\ radio \in {"idle", "data", "notification"}
  /\ crashed \in BOOLEAN
  /\ pc \in TaskPc /\ arg \in Content /\ left \in 0 .. MAX_C_COUNT
  /\ ptr \in EltOrNull /\ reg \in 0 .. 255 /\ sentPrio \in 0 .. 255
  /\ sendResult \in {"SUCCESS", "FAIL"}
  /\ sentPtr \in EltOrNull /\ streak \in 0 .. BEST_EFFORT_LIMIT

\* Every queued pointer leads to a packet of its ring's own priority, however
\* often cells are written again while they are queued: sendDone removes a
\* frame from the ring its priority field names (TdmaMacP.nc:728-753, 939).
QueuedCellsMatchRing ==
  \A p \in Prio : \A i \in 0 .. q[p].size - 1 :
    LET e == Element(q[p], i)
    IN e \in Elt /\ mem[e] \in Packet /\ PriorityOf[mem[e]] = p

\* Between tasks the mode is a function of the failure counter: HI exactly
\* from the second missed acknowledgement on, and never as many as four.
\* The counter is incremented, tested and reset in different steps of
\* sendDone (TdmaMacP.nc:962-978) with slot interrupts that reset it in
\* between (537-556).
ModeMatchesCounter ==
  pc = "idle" => /\ hiCritMode <=> node_ack_fails >= CRIT_CHANGE_THRESHOLD
                 /\ node_ack_fails < BEST_EFFORT_LIMIT

\* While a data frame is out, up to the point where sendDone removes or
\* keeps it, the head of the ring it came from is still the pointer it was
\* copied from: an acknowledgement removes the frame it acknowledges
\* (TdmaMacP.nc:941-947), whatever was admitted in the meantime.
FrameUndecided ==
  \/ radio = "data"
  \/ pc \in {"register", "goHigh"}
  \/ pc = "dequeue" /\ streak = 0
SentFrameIsHead ==
  FrameUndecided =>
    LET r == IF radio = "data" THEN PriorityOf[selfDataPkt.pkt] ELSE sentPrio
    IN r \in Prio /\ ~ IsEmpty(q[r]) /\ HeadOf(q[r]) = sentPtr

\* One frame at a time: the lock is held exactly while the radio has a frame
\* or sendDone has not finished with it.
LockCoversTransmission == phyLock <=> radio # "idle" \/ pc \in SendDonePc

\* In HI mode no LO ring holds anything: they are emptied by the step that
\* enters HI mode and nothing LO is admitted until the step that leaves it
\* (TdmaMacP.nc:257-265, 801).  For nodes that forward nothing: the
\* forwarding branch (1050) has no such test.
HIModeHasNoLO == hiCritMode => \A p \in Prio \ HiCrit : IsEmpty(q[p])

\* The deliberate endless loop of handle_tx_slot is never entered, not even
\* from a slot in the middle of clear() (TdmaMacP.nc:558-565).
NeverCrashes == ~ crashed

\* Every discarded LO frame that no transmitted frame has reported yet is
\* still counted in discarded, although the counter is cleared in the slot
\* interrupt and increased by load and store in a task (TdmaMacP.nc:261-263,
\* 626-631, 807-809).
LossesStayCounted ==
  \A p \in Prio : unreported[p] <= discarded[p]

\* A frame goes to the radio only if it is the most urgent one of the mode
\* the node is in: in HI mode among the HI rings (TdmaMacP.nc:534-549).
MostUrgentFirst ==
  [][radio = "idle" /\ radio' = "data"
     => /\ hiCritMode' => CritOf[selfDataPkt'.pkt] = "HI"
        /\ \A p \in Prio : /\ p < PriorityOf[selfDataPkt'.pkt]
                           /\ hiCritMode' => p \in HiCrit
                           => IsEmpty(q[p])]_vars

\* What goes to the radio is the content of the head of the ring its own
\* priority names, never what a slot read in the middle of a dequeue, where
\* the head has moved and the size has not (QueueC.nc:89-99): the lock is
\* kept until sendDone is through with the queues (TdmaMacP.nc:591-606).
WholeFramesSent ==
  [][radio = "idle" /\ radio' = "data"
     => /\ selfDataPkt'.pkt \in Packet /\ HasPrio(selfDataPkt'.pkt)
        /\ LET r == q[PriorityOf[selfDataPkt'.pkt]]
           IN ~ IsEmpty(r) /\ selfDataPkt'.pkt = mem[HeadOf(r)]]_vars

\* A HI frame leaves its ring only when it has been acknowledged, or when
\* the node is in HI mode and has missed its fourth acknowledgement, or at
\* the first synchronisation.
HIFramesSurvive ==
  [][\A p \in HiCrit : q'[p].size < q[p].size
     => \/ pc = "dequeue" /\ streak = 0
        \/ pc = "clear" /\ node_ack_fails >= BEST_EFFORT_LIMIT /\ hiCritMode
        \/ ~ slotterInit /\ slotterInit']_vars

\* The node follows the criticality protocol.  The step that commits a
\* missed acknowledgement is mcc_check_to_go_high: before it the protocol
\* has not seen the failure, after it a fourth failure counts as served.
protocolMode ==
  IF hiCritMode /\ (node_ack_fails < BEST_EFFORT_LIMIT \/ pc = "goHigh")
  THEN "HI" ELSE "LO"
protocolFails ==
  IF pc = "goHigh" THEN node_ack_fails - 1
  ELSE IF node_ack_fails < BEST_EFFORT_LIMIT THEN node_ack_fails ELSE 0
protocolOnAir ==
  IF radio = "data" \/ pc \in {"register", "goHigh"}
  THEN CritOf[selfDataPkt.pkt] ELSE "none"

Protocol == INSTANCE CritMode WITH
  mode <- protocolMode, fails <- protocolFails, onAir <- protocolOnAir
ImplementsCritMode == Protocol!Spec

\* When nothing more is admitted, every queued frame is sent or given up and
\* the node settles in LO mode, even if no acknowledgement ever arrives.
Quiesces ==
  []<><<Admit>>_vars \/ <>[](QEmpty(q) /\ ~ hiCritMode)

-----------------------------------------------------------------------------
(* What the sources say and the code does not do.                          *)

\* "If we got to 4 fails in a row, empty all HI crit buffers too".
ClearedOnlyAfterFourInARow == pc = "clear" => streak >= BEST_EFFORT_LIMIT

\* "in faulty mode, don't request the ACK".
NoAckRequestInFault ==
  [][radio = "idle" /\ radio' = "data" /\ activeFault
     => ~ selfDataPkt'.ackReq]_vars

\* Packets are buffered in an array of MCCBUF_DEPTH_PER_PRIO rows of
\* MCCBUF_PRIOS cells.
WritesStayInBuffer == pc = "insert" => CellExists(ptr)

\* "Inject multiple packets for the given C count in the buffer": each
\* queued packet has a cell of its own.
NoSharedBuffer ==
  \A p \in Prio : \A i, j \in 0 .. q[p].size - 1 :
    i # j => Element(q[p], i) # Element(q[p], j)
=============================================================================
