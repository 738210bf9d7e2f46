---------------------------- MODULE TdmaMacProofs ----------------------------
(***************************************************************************)
(* Safety of the MAC of one node, for every node, slot table, packet set,  *)
(* criticality assignment and ring capacity, whether or not a transmission *)
(* ends before the node's next slot and whether or not the radio may       *)
(* refuse a frame.                                                         *)
(***************************************************************************)
EXTENDS TdmaMac, PrioCritQueueLemmas

-----------------------------------------------------------------------------
(* The inductive invariant.  Its parts are named for what they are about.  *)

\* The pointers that ring p may hold in the present state of the buffer.
Holding ==
  [p \in Prio |-> {e \in Elt : /\ e[2] = p
                              /\ mem[e] \in Packet /\ PriorityOf[mem[e]] = p}]

\* The mode follows the counter except between the increment and the test in
\* mcc_check_to_go_high; the fourth failure is served before the task ends.
ModeInv ==
  /\ node_ack_fails \in 0 .. BEST_EFFORT_LIMIT
  /\ pc = "goHigh" => IF hiCritMode THEN node_ack_fails > CRIT_CHANGE_THRESHOLD
                                    ELSE node_ack_fails <= CRIT_CHANGE_THRESHOLD
  /\ pc # "goHigh" => (hiCritMode <=> node_ack_fails >= CRIT_CHANGE_THRESHOLD)
  /\ pc \notin {"goHigh", "bestEffort", "clear"} => node_ack_fails < BEST_EFFORT_LIMIT

\* sendDone runs after the radio is done and under the lock.
LockInv ==
  /\ LockCoversTransmission
  /\ pc \in SendDonePc => radio = "idle"

\* What the locals of the running task hold.
TaskInv ==
  /\ pc \in {"discard", "copy", "insert"} => arg \in Packet
  /\ pc = "discard" => HasPrio(arg)
  /\ pc \in {"copy", "insert"} => left \in 1 .. MAX_C_COUNT
  /\ pc = "insert" => HasPrio(arg) /\ ptr \in Holding[PriorityOf[arg]]

\* A frame on the air is a packet a ring could hold.
FrameInv ==
  radio = "data"
    => selfDataPkt.pkt \in Packet /\ HasPrio(selfDataPkt.pkt)

MacInv ==
  /\ TypeOK
  /\ HoldsOnly(q, Holding)
  /\ ModeInv
  /\ LockInv
  /\ TaskInv
  /\ FrameInv
  /\ NeverCrashes

-----------------------------------------------------------------------------
(* The slot interrupt.                                                     *)

LEMMA PrioIsRange == Prio = MIN_PRIO .. MAX_PRIO
  BY DEF Prio, MIN_PRIO, MAX_PRIO

\* What the slot interrupt picks is a packet of the ring it is the head of.
LEMMA SelectedIsHeld ==
  ASSUME MacInv, Waiting(q, Eligible) # {}
  PROVE  /\ Selected \in Elt /\ mem[Selected] \in Packet /\ HasPrio(mem[Selected])
         /\ ~ IsEmpty(q[PriorityOf[mem[Selected]]])
         /\ HeadOf(q[PriorityOf[mem[Selected]]]) = Selected
         /\ PriorityOf[mem[Selected]] = FirstOf(Waiting(q, Eligible))
<1> DEFINE p == FirstOf(Waiting(q, Eligible))
<1>1. Eligible \in SUBSET Prio /\ Waiting(q, Eligible) \in SUBSET Prio
  BY HiCritAssumption DEF Eligible, Waiting
<1>2. p \in Waiting(q, Eligible)
  BY <1>1, FirstOfIsLeast
<1>3. p \in Prio /\ ~ IsEmpty(q[p])
  BY <1>1, <1>2 DEF Waiting
<1>4. Selected = HeadOf(q[p])
  BY DEF Selected
<1>. HIDE DEF p
<1>5. Selected \in Holding[p]
  BY <1>3, <1>4, HeadIsHeld DEF MacInv, TypeOK
<1>6. Selected \in Elt /\ mem[Selected] \in Packet /\ PriorityOf[mem[Selected]] = p
  BY <1>3, <1>5 DEF Holding
<1>7. p = FirstOf(Waiting(q, Eligible))
  BY DEF p
<1>. QED
  BY <1>3, <1>4, <1>6, <1>7, PrioIsRange DEF HasPrio

\* The mode and the counter are left alone or reset together.
ModeKeptOrReset ==
  \/ UNCHANGED modeVars
  \/ hiCritMode' = FALSE /\ node_ack_fails' = 0

\* What a slot event leaves behind, whatever step of a task it comes in.
SlotEventPost ==
  /\ slot' \in 0 .. SLOTS_IN_FRAME - 1
  /\ ModeKeptOrReset
  /\ discarded' \in [Prio -> 0 .. 255] /\ unreported' \in [Prio -> Nat]
  /\ selfDataPkt' \in [pkt : Content, ackReq : BOOLEAN]
  /\ radio' \in {"idle", "data", "notification"}
  /\ phyLock' \in BOOLEAN /\ sentPtr' \in EltOrNull
  /\ phyLock' <=> radio' # "idle" \/ pc \in SendDonePc
  /\ pc \in SendDonePc => radio' = "idle"
  /\ radio' = "data"
       => selfDataPkt'.pkt \in Packet /\ HasPrio(selfDataPkt'.pkt)
  /\ crashed' = FALSE

\* The lock is not free inside a dequeue, so what is handed to the radio is
\* what the pointer leads to.
LEMMA FreeCopyIsWhole ==
  ASSUME MacInv, NEW p, HandToRadio(p)
  PROVE  selfDataPkt' = [pkt |-> mem[p],
                         ackReq |-> selfDataPkt.ackReq \/ ~ activeFault]
<1>1. pc \notin {"clear", "dequeue"}
  BY DEF HandToRadio, MacInv, LockInv, LockCoversTransmission, SendDonePc
<1>. QED
  BY <1>1 DEF HandToRadio, ReadByCopy

LEMMA HandToRadioPost ==
  ASSUME MacInv, NEW p \in Elt, mem[p] \in Packet, HasPrio(mem[p]),
         RadioLocked(p) \/ HandToRadio(p)
  PROVE  /\ discarded' \in [Prio -> 0 .. 255] /\ unreported' \in [Prio -> Nat]
         /\ selfDataPkt' \in [pkt : Content, ackReq : BOOLEAN]
         /\ radio' = "data" => selfDataPkt'.pkt = mem[p]
         /\ radio' \in {"idle", "data", "notification"}
         /\ phyLock' \in BOOLEAN /\ sentPtr' \in EltOrNull
         /\ phyLock' <=> radio' # "idle" \/ pc \in SendDonePc
         /\ pc \in SendDonePc => radio' = "idle"
         /\ crashed' = FALSE
<1>. USE DEF MacInv, TypeOK, LockInv, LockCoversTransmission, NeverCrashes
<1>1. CASE RadioLocked(p)
  <2>1. PICK pk \in Content :
          /\ selfDataPkt' = [selfDataPkt EXCEPT !.pkt = pk]
          /\ radio = "data" => pk = mem[p]
    BY <1>1 DEF RadioLocked, ReadByCopy, SendDonePc, Content
  <2>2. UNCHANGED <<phyLock, radio, sentPtr, statVars, crashed>>
    BY <1>1 DEF RadioLocked
  <2>. QED
    BY <2>1, <2>2 DEF statVars
<1>2. CASE HandToRadio(p)
  <2>1. discarded' \in [Prio -> 0 .. 255]
    BY <1>2 DEF HandToRadio, NothingDiscarded
  <2>2. unreported' \in [Prio -> Nat]
    <3>1. \A r \in Prio : /\ unreported[r] \in Nat /\ discarded[r] \in 0 .. 255
                          /\ ~ (unreported[r] <= discarded[r])
                               => unreported[r] - discarded[r] \in Nat
      OBVIOUS
    <3>. QED
      BY <1>2, <3>1 DEF HandToRadio
  <2>3. /\ selfDataPkt' \in [pkt : Content, ackReq : BOOLEAN]
        /\ selfDataPkt'.pkt = mem[p]
    <3>1. selfDataPkt' = [pkt |-> mem[p],
                          ackReq |-> selfDataPkt.ackReq \/ ~ activeFault]
      BY <1>2, FreeCopyIsWhole
    <3>2. mem[p] \in Content /\ (selfDataPkt.ackReq \/ ~ activeFault) \in BOOLEAN
      BY DEF Content
    <3>. QED
      BY <3>1, <3>2
  <2>4. /\ radio' \in {"idle", "data", "notification"}
        /\ phyLock' \in BOOLEAN /\ sentPtr' \in EltOrNull
        /\ phyLock' <=> radio' # "idle" \/ pc \in SendDonePc
        /\ pc \in SendDonePc => radio' = "idle"
        /\ crashed' = FALSE
    <3>1. ~ phyLock /\ radio = "idle" /\ pc \notin SendDonePc
      BY <1>2 DEF HandToRadio
    <3>2. crashed' = FALSE
      BY <1>2 DEF HandToRadio
    <3>3. CASE radio' = "data" /\ phyLock' = TRUE /\ sentPtr' = p
      BY <3>1, <3>2, <3>3 DEF EltOrNull
    <3>4. CASE UNCHANGED <<radio, phyLock, sentPtr>>
      BY <3>1, <3>2, <3>4
    <3>. QED
      BY <1>2, <3>3, <3>4 DEF HandToRadio
  <2>. QED
    BY <2>1, <2>2, <2>3, <2>4
<1>. QED
  BY <1>1, <1>2

\* The endless loop: with nothing to select, in whatever mode, every ring
\* is empty.
LEMMA NothingSelectedIsEmpty ==
  ASSUME MacInv, Waiting(q, Eligible) = {}
  PROVE  QSize(q) = 0
<1>1. Eligible = Prio
  BY DEF Eligible, HIDrained
<1>. QED
  BY <1>1, NothingWaitingIsSizeZero DEF MacInv, TypeOK

LEMMA HandleTxSlotPost ==
  ASSUME MacInv, NEW s \in 0 .. SLOTS_IN_FRAME - 1, slot' = s, handle_tx_slot
  PROVE  SlotEventPost
<1>1. ModeKeptOrReset
  BY DEF handle_tx_slot, ModeKeptOrReset, modeVars, Eligible, HIDrained,
         MacInv, TypeOK
<1>2. CASE Waiting(q, Eligible) = {} /\ NothingToSend
  <2>1. crashed' = FALSE
    <3>1. ~ (QSize(q) > 0)
      BY <1>2, NothingSelectedIsEmpty
    <3>2. (QSize(q) > 0) = FALSE
      BY <3>1
    <3>3. crashed' = (QSize(q) > 0)
      BY <1>2 DEF NothingToSend
    <3>. QED
      BY <3>2, <3>3, Zenon
  <2>3. UNCHANGED <<selfDataPkt, phyLock, radio, sentPtr, discarded, unreported>>
    BY <1>2 DEF NothingToSend, radioVars, statVars
  <2>4. /\ discarded \in [Prio -> 0 .. 255] /\ unreported \in [Prio -> Nat]
        /\ selfDataPkt \in [pkt : Content, ackReq : BOOLEAN]
        /\ radio \in {"idle", "data", "notification"}
        /\ phyLock \in BOOLEAN /\ sentPtr \in EltOrNull
    BY DEF MacInv, TypeOK
  <2>5. /\ phyLock <=> radio # "idle" \/ pc \in SendDonePc
        /\ pc \in SendDonePc => radio = "idle"
        /\ radio = "data" => selfDataPkt.pkt \in Packet /\ HasPrio(selfDataPkt.pkt)
    BY DEF MacInv, LockInv, LockCoversTransmission, FrameInv
  <2>. QED
    BY <1>1, <2>1, <2>3, <2>4, <2>5 DEF SlotEventPost
<1>3. CASE /\ Waiting(q, Eligible) # {}
           /\ RadioLocked(Selected) \/ HandToRadio(Selected)
  <2>1. Selected \in Elt /\ mem[Selected] \in Packet /\ HasPrio(mem[Selected])
    BY <1>3, SelectedIsHeld
  <2>2. /\ discarded' \in [Prio -> 0 .. 255] /\ unreported' \in [Prio -> Nat]
        /\ selfDataPkt' \in [pkt : Content, ackReq : BOOLEAN]
        /\ radio' = "data" => selfDataPkt'.pkt = mem[Selected]
        /\ radio' \in {"idle", "data", "notification"}
        /\ phyLock' \in BOOLEAN /\ sentPtr' \in EltOrNull
        /\ phyLock' <=> radio' # "idle" \/ pc \in SendDonePc
        /\ pc \in SendDonePc => radio' = "idle"
        /\ crashed' = FALSE
    BY <1>3, <2>1, HandToRadioPost
  <2>3. radio' = "data"
          => selfDataPkt'.pkt \in Packet /\ HasPrio(selfDataPkt'.pkt)
    BY <2>1, <2>2
  <2>. QED
    BY <1>1, <2>2, <2>3 DEF SlotEventPost
<1>. QED
  BY <1>2, <1>3 DEF handle_tx_slot

LEMMA SlotEventKeeps ==
  ASSUME MacInv, NEW s \in 0 .. SLOTS_IN_FRAME - 1, SlotEvent(s)
  PROVE  SlotEventPost
<1>0. slot' = s
  BY DEF SlotEvent
<1>1. CASE SendNotification
  BY <1>0, <1>1
     DEF SendNotification, SlotEventPost, ModeKeptOrReset, modeVars, statVars,
         MacInv, TypeOK, LockInv, LockCoversTransmission, FrameInv, NeverCrashes
<1>2. CASE handle_tx_slot
  BY <1>0, <1>2, HandleTxSlotPost
<1>3. CASE UNCHANGED <<modeVars, statVars, radioVars, crashed>>
  BY <1>0, <1>3
     DEF SlotEventPost, ModeKeptOrReset, modeVars, statVars, radioVars,
         MacInv, TypeOK, LockInv, LockCoversTransmission, FrameInv, NeverCrashes
<1>. QED
  BY <1>1, <1>2, <1>3 DEF SlotEvent

LEMMA SlotEventKeepsInv ==
  ASSUME MacInv, NEW s \in 0 .. SLOTS_IN_FRAME - 1, SlotEvent(s),
         UNCHANGED <<mem, activeFault, taskVars, streak>>,
         init' \in BOOLEAN, slotterInit' \in BOOLEAN,
         QueueInv(q'), HoldsOnly(q', Holding)
  PROVE  MacInv'
<1>1. SlotEventPost
  BY SlotEventKeeps
<1>2. Holding' = Holding
  BY DEF Holding
<1>3. TypeOK'
  <2>1. hiCritMode' \in BOOLEAN /\ node_ack_fails' \in 0 .. 255
    <3>1. hiCritMode \in BOOLEAN /\ node_ack_fails \in 0 .. 255
      BY DEF MacInv, TypeOK
    <3>2. CASE UNCHANGED modeVars
      BY <3>1, <3>2 DEF modeVars
    <3>3. CASE hiCritMode' = FALSE /\ node_ack_fails' = 0
      <4>1. hiCritMode' \in BOOLEAN
        BY <3>3, Zenon
      <4>2. node_ack_fails' \in 0 .. 255
        BY <3>3
      <4>. QED
        BY <4>1, <4>2
    <3>. QED
      BY <1>1, <3>2, <3>3 DEF SlotEventPost, ModeKeptOrReset
  <2>2. /\ mem' \in [Elt -> Content]
        /\ activeFault' \in BOOLEAN /\ streak' \in 0 .. BEST_EFFORT_LIMIT
    BY DEF MacInv, TypeOK
  <2>3. /\ pc' \in TaskPc /\ arg' \in Content /\ left' \in 0 .. MAX_C_COUNT
        /\ ptr' \in EltOrNull /\ reg' \in 0 .. 255 /\ sentPrio' \in 0 .. 255
        /\ sendResult' \in {"SUCCESS", "FAIL"}
    BY DEF taskVars, MacInv, TypeOK
  <2>4. /\ slot' \in 0 .. SLOTS_IN_FRAME - 1
        /\ discarded' \in [Prio -> 0 .. 255] /\ unreported' \in [Prio -> Nat]
        /\ selfDataPkt' \in [pkt : Content, ackReq : BOOLEAN]
        /\ radio' \in {"idle", "data", "notification"}
        /\ phyLock' \in BOOLEAN /\ sentPtr' \in EltOrNull /\ crashed' \in BOOLEAN
    BY <1>1 DEF SlotEventPost
  <2>. QED
    BY <2>1, <2>2, <2>3, <2>4 DEF TypeOK
<1>4. HoldsOnly(q, Holding)'
  BY <1>2
<1>5. ModeInv'
  BY <1>1 DEF SlotEventPost, ModeKeptOrReset, modeVars, taskVars, MacInv, TypeOK,
              ModeInv, BEST_EFFORT_LIMIT, CRIT_CHANGE_THRESHOLD
<1>6. LockInv' /\ FrameInv'
  BY <1>1 DEF SlotEventPost, taskVars, MacInv, LockInv, LockCoversTransmission,
              FrameInv, HasPrio
<1>7. TaskInv'
  BY <1>2 DEF taskVars, MacInv, TaskInv, HasPrio
<1>8. NeverCrashes'
  BY <1>1 DEF SlotEventPost, NeverCrashes
<1>. QED
  BY <1>3, <1>4, <1>5, <1>6, <1>7, <1>8 DEF MacInv

LEMMA AlarmKeepsInv ==
  ASSUME MacInv, AlarmFired
  PROVE  MacInv'
<1>1. (slot + 1) % SLOTS_IN_FRAME \in 0 .. SLOTS_IN_FRAME - 1
  BY NodeAssumption DEF MacInv, TypeOK
<1>2. SlotEvent((slot + 1) % SLOTS_IN_FRAME)
  BY DEF AlarmFired
<1>3. UNCHANGED <<queueVars, statusVars, taskVars, streak>>
  BY DEF AlarmFired
<1>. QED
  BY <1>1, <1>2, <1>3, SlotEventKeepsInv
     DEF queueVars, statusVars, MacInv, TypeOK

LEMMA NotificationKeepsInv ==
  ASSUME MacInv, NotificationReceived
  PROVE  MacInv'
<1>1. 1 \in 0 .. SLOTS_IN_FRAME - 1
  BY NodeAssumption
<1>2. QueueInv(q') /\ HoldsOnly(q', Holding)
  BY ClearInv, ClearHolds DEF NotificationReceived, MacInv, TypeOK
<1>3. /\ SlotEvent(1) /\ slotterInit' = TRUE
      /\ UNCHANGED <<mem, activeFault, init, taskVars, streak>>
  BY DEF NotificationReceived
<1>. QED
  BY <1>1, <1>2, <1>3, SlotEventKeepsInv DEF MacInv, TypeOK

LEMMA StartDoneKeepsInv ==
  ASSUME MacInv, StartDone
  PROVE  MacInv'
<1>1. /\ init' = TRUE
      /\ UNCHANGED <<queueVars, activeFault, slotterInit, taskVars, streak>>
  BY DEF StartDone
<1>2. CASE IsSink
  <2>1. 1 \in 0 .. SLOTS_IN_FRAME - 1
    BY NodeAssumption
  <2>2. SlotEvent(1)
    BY <1>2 DEF StartDone
  <2>. QED
    BY <1>1, <2>1, <2>2, SlotEventKeepsInv DEF queueVars, MacInv, TypeOK
<1>3. CASE ~ IsSink
  <2>1. UNCHANGED <<slot, modeVars, statVars, radioVars, crashed>>
    BY <1>3 DEF StartDone
  <2>2. Holding' = Holding
    BY <1>1 DEF Holding, queueVars
  <2>3. TypeOK'
    BY <1>1, <2>1 DEF queueVars, taskVars, modeVars, statVars, radioVars,
                      MacInv, TypeOK
  <2>. QED
    BY <1>1, <2>1, <2>2, <2>3
       DEF queueVars, taskVars, modeVars, statVars, radioVars, MacInv, ModeInv,
           LockInv, LockCoversTransmission, TaskInv, FrameInv, HasPrio,
           NeverCrashes
<1>. QED
  BY <1>2, <1>3

-----------------------------------------------------------------------------
(* Admission.                                                              *)

\* The first step of a task that leaves everything but the task alone.
LEMMA TaskStartKeepsInv ==
  ASSUME MacInv, pc = "idle",
         UNCHANGED <<queueVars, modeVars, statusVars, radioVars, statVars, slot,
                     crashed, streak>>,
         NEW pk \in Packet, arg' = pk,
         UNCHANGED <<ptr, sentPrio, sendResult>>,
         left' \in 0 .. MAX_C_COUNT, reg' \in 0 .. 255,
         \/ pc' = "copy" /\ left' \in 1 .. MAX_C_COUNT
         \/ pc' = "discard" /\ HasPrio(pk)
  PROVE  MacInv'
<1>1. /\ UNCHANGED <<q, mem, hiCritMode, node_ack_fails, discarded, unreported>>
      /\ UNCHANGED <<activeFault, phyLock, init, slotterInit, slot>>
      /\ UNCHANGED <<selfDataPkt, radio, sentPtr, crashed, streak>>
  BY DEF queueVars, modeVars, statusVars, radioVars, statVars
<1>2. /\ pc' \in {"copy", "discard"} /\ pc' \in TaskPc
      /\ pc' \notin SendDonePc /\ pc \notin SendDonePc
  BY DEF TaskPc, SendDonePc
<1>3. TypeOK'
  <2>1. /\ QueueInv(q') /\ mem' \in [Elt -> Content]
        /\ hiCritMode' \in BOOLEAN /\ node_ack_fails' \in 0 .. 255
        /\ discarded' \in [Prio -> 0 .. 255] /\ unreported' \in [Prio -> Nat]
    BY <1>1 DEF MacInv, TypeOK
  <2>2. /\ activeFault' \in BOOLEAN /\ phyLock' \in BOOLEAN
        /\ init' \in BOOLEAN /\ slotterInit' \in BOOLEAN
        /\ slot' \in 0 .. SLOTS_IN_FRAME - 1
    BY <1>1 DEF MacInv, TypeOK
  <2>3. /\ selfDataPkt' \in [pkt : Content, ackReq : BOOLEAN]
        /\ radio' \in {"idle", "data", "notification"} /\ crashed' \in BOOLEAN
        /\ sentPtr' \in EltOrNull /\ streak' \in 0 .. BEST_EFFORT_LIMIT
    BY <1>1 DEF MacInv, TypeOK
  <2>4. /\ arg' \in Content /\ ptr' \in EltOrNull /\ sentPrio' \in 0 .. 255
        /\ sendResult' \in {"SUCCESS", "FAIL"}
    BY DEF MacInv, TypeOK, Content
  <2>. QED
    BY <1>2, <2>1, <2>2, <2>3, <2>4 DEF TypeOK
<1>4. HoldsOnly(q, Holding)'
  <2>1. Holding' = Holding
    BY <1>1 DEF Holding
  <2>. QED
    BY <1>1, <2>1 DEF MacInv, HoldsOnly
<1>5. ModeInv'
  BY <1>1, <1>2 DEF MacInv, ModeInv
<1>6. LockInv'
  BY <1>1, <1>2 DEF MacInv, LockInv, LockCoversTransmission
<1>7. TaskInv'
  BY <1>2 DEF TaskInv
<1>8. FrameInv' /\ NeverCrashes'
  BY <1>1 DEF MacInv, FrameInv, NeverCrashes
<1>. QED
  BY <1>3, <1>4, <1>5, <1>6, <1>7, <1>8 DEF MacInv

LEMMA MacSendKeepsInv ==
  ASSUME MacInv, NEW pk \in Packet, MacSend(pk)
  PROVE  MacInv'
<1>1. /\ UNCHANGED <<queueVars, modeVars, statusVars, radioVars, statVars, slot,
                     crashed, streak>>
      /\ pc = "idle"
  BY DEF MacSend
<1>2. left \in 0 .. MAX_C_COUNT /\ reg \in 0 .. 255
  BY DEF MacInv, TypeOK
<1>3. CASE COf[pk] > 0 /\ StartEnqueue(pk, SmallerOf(COf[pk], MAX_C_COUNT))
  <2>1. SmallerOf(COf[pk], MAX_C_COUNT) \in 1 .. MAX_C_COUNT
    BY <1>3, PacketAssumption DEF SmallerOf, MAX_C_COUNT
  <2>2. /\ pc' = "copy" /\ arg' = pk /\ left' \in 1 .. MAX_C_COUNT
        /\ UNCHANGED <<ptr, reg, sentPrio, sendResult>>
    BY <1>3, <2>1 DEF StartEnqueue
  <2>3. left' \in 0 .. MAX_C_COUNT
    BY <2>2 DEF MAX_C_COUNT
  <2>. QED
    BY <1>1, <1>2, <2>2, <2>3, TaskStartKeepsInv
<1>4. CASE /\ HasPrio(pk)
           /\ pc' = "discard" /\ arg' = pk /\ reg' = discarded[PriorityOf[pk]]
           /\ UNCHANGED <<left, ptr, sentPrio, sendResult>>
  <2>1. discarded[PriorityOf[pk]] \in 0 .. 255
    BY <1>4, PrioIsRange DEF HasPrio, MacInv, TypeOK
  <2>. QED
    BY <1>1, <1>2, <1>4, <2>1, TaskStartKeepsInv
<1>. QED
  BY <1>3, <1>4 DEF MacSend

LEMMA DataReceivedKeepsInv ==
  ASSUME MacInv, NEW pk \in Packet, DataReceived(pk)
  PROVE  MacInv'
<1>1. /\ UNCHANGED <<queueVars, modeVars, statusVars, radioVars, statVars, slot,
                     crashed, streak>>
      /\ pc = "idle"
  BY DEF DataReceived
<1>2. reg \in 0 .. 255
  BY DEF MacInv, TypeOK
<1>3. /\ pc' = "copy" /\ arg' = pk /\ left' = 1
      /\ UNCHANGED <<ptr, reg, sentPrio, sendResult>>
  BY DEF DataReceived, StartEnqueue
<1>. QED
  BY <1>1, <1>2, <1>3, TaskStartKeepsInv DEF MAX_C_COUNT

LEMMA DiscardStoreKeepsInv ==
  ASSUME MacInv, DiscardStore
  PROVE  MacInv'
<1>1. Holding' = Holding
  BY DEF DiscardStore, Holding, queueVars
<1>2. COf[arg] \in Nat /\ reg \in Nat
  <2>1. arg \in Packet
    BY DEF DiscardStore, MacInv, TaskInv
  <2>2. reg \in Nat
    BY DEF MacInv, TypeOK
  <2>. QED
    BY <2>1, <2>2, PacketAssumption
<1>3. (reg + COf[arg]) % 256 \in 0 .. 255
  <2>1. \A n \in Nat : n % 256 \in 0 .. 255
    OBVIOUS
  <2>. QED
    BY <1>2, <2>1
<1>4. discarded' \in [Prio -> 0 .. 255] /\ unreported' \in [Prio -> Nat]
  <2>1. \A p \in Prio : unreported[p] + COf[arg] \in Nat
    BY <1>2 DEF MacInv, TypeOK
  <2>2. discarded \in [Prio -> 0 .. 255] /\ unreported \in [Prio -> Nat]
    BY DEF MacInv, TypeOK
  <2>3. discarded' = [discarded EXCEPT ![PriorityOf[arg]] = (reg + COf[arg]) % 256]
    BY DEF DiscardStore
  <2>4. unreported' = [unreported EXCEPT ![PriorityOf[arg]] = @ + COf[arg]]
    BY DEF DiscardStore
  <2>5. discarded' \in [Prio -> 0 .. 255]
    BY <1>3, <2>2, <2>3
  <2>6. unreported' \in [Prio -> Nat]
    BY <2>1, <2>2, <2>4
  <2>. QED
    BY <2>5, <2>6
<1>5. TypeOK'
  <2>1. UNCHANGED <<q, mem, hiCritMode, node_ack_fails, activeFault, phyLock, init,
                    slotterInit, slot, selfDataPkt, radio, sentPtr, crashed, streak>>
    BY DEF DiscardStore, queueVars, modeVars, statusVars, radioVars
  <2>2. /\ pc' \in TaskPc /\ arg' \in Content /\ left' \in 0 .. MAX_C_COUNT
        /\ ptr' \in EltOrNull /\ reg' \in 0 .. 255 /\ sentPrio' \in 0 .. 255
        /\ sendResult' \in {"SUCCESS", "FAIL"}
    BY DEF DiscardStore, MacInv, TypeOK, TaskPc, Content
  <2>. QED
    BY <1>4, <2>1, <2>2 DEF MacInv, TypeOK
<1>. QED
  BY <1>1, <1>5
     DEF DiscardStore, queueVars, modeVars, statusVars, radioVars,
         MacInv, ModeInv, LockInv, LockCoversTransmission, TaskInv, FrameInv,
         NeverCrashes, SendDonePc, HasPrio

\* A buffer cell is written again only with a packet of its own column's
\* priority, so what the rings may hold only grows.
LEMMA EnqueueCopyKeepsInv ==
  ASSUME MacInv, EnqueueCopy
  PROVE  MacInv'
<1> DEFINE p == PriorityOf[arg]
           b == BufferFor(p)
<1>1. arg \in Packet /\ p \in Prio /\ left \in 1 .. MAX_C_COUNT
  BY PrioIsRange DEF EnqueueCopy, MacInv, TaskInv, HasPrio
<1>2. b \in Elt
  BY <1>1, RingsOfQueue, PointerAssumption
     DEF BufferFor, SizePrio, MacInv, TypeOK
<1>3. mem' = [mem EXCEPT ![b] = arg] /\ ptr' = b
  BY DEF EnqueueCopy
<1>4. /\ UNCHANGED <<q, modeVars, statusVars, radioVars, statVars, arg, left,
                     reg, sentPrio, sendResult, slot, crashed, streak>>
      /\ pc = "copy" /\ pc' = "insert" /\ HasPrio(arg)
  BY DEF EnqueueCopy
<1>5. mem \in [Elt -> Content] /\ mem' \in [Elt -> Content]
  BY <1>1, <1>2, <1>3 DEF MacInv, TypeOK, Content
<1>6. QueueInv(q) /\ HoldsOnly(q, Holding)
  BY DEF MacInv, TypeOK
<1>. HIDE DEF b
<1>7. b[2] = p
  BY DEF b, BufferFor
<1>8. Holding'[p] = {e \in Elt : /\ e[2] = p
                                /\ mem'[e] \in Packet /\ PriorityOf[mem'[e]] = p}
  BY <1>1 DEF Holding
<1>9. b \in Holding'[p]
  BY <1>1, <1>2, <1>3, <1>5, <1>7, <1>8
<1>10. HoldsOnly(q', Holding')
  <2>1. ASSUME NEW r \in Prio
        PROVE  Contents(q[r]) \in Seq(Holding'[r])
    <3>1. \A e \in Holding[r] : e \in Holding'[r]
      <4>1. ASSUME NEW e \in Holding[r]
            PROVE  e \in Holding'[r]
        <5>1. /\ e \in Elt /\ e[2] = r
              /\ mem[e] \in Packet /\ PriorityOf[mem[e]] = r
          BY DEF Holding
        <5>2. mem'[e] \in Packet /\ PriorityOf[mem'[e]] = r
          BY <1>1, <1>3, <1>5, <1>7, <5>1
        <5>. QED
          BY <5>1, <5>2 DEF Holding
      <4>. QED
        BY <4>1
    <3>2. Contents(q[r]) \in Seq(Holding[r])
      BY <1>6 DEF HoldsOnly
    <3>. QED
      BY <3>1, <3>2, SeqMono
  <2>. QED
    BY <1>4, <2>1 DEF HoldsOnly
<1>11. TypeOK'
  BY <1>2, <1>3, <1>4, <1>5
     DEF modeVars, statusVars, radioVars, statVars, MacInv, TypeOK, TaskPc,
         EltOrNull
<1>12. TaskInv'
  BY <1>1, <1>3, <1>4, <1>9 DEF TaskInv, HasPrio
<1>. QED
  BY <1>4, <1>10, <1>11, <1>12
     DEF modeVars, statusVars, radioVars, statVars, MacInv, ModeInv,
         LockInv, LockCoversTransmission, FrameInv, NeverCrashes, SendDonePc,
         HasPrio

\* The end of one turn of the burst loop.
LEMMA NextOfBurstPost ==
  ASSUME MacInv, pc \in {"copy", "insert"}, NextOfBurst
  PROVE  /\ left' \in 0 .. MAX_C_COUNT /\ arg' \in Content
         /\ pc' \in {"idle", "copy"}
         /\ pc' = "copy" => arg' \in Packet /\ left' \in 1 .. MAX_C_COUNT
<1>1. arg \in Packet /\ left \in 1 .. 3
  BY DEF MacInv, TaskInv, MAX_C_COUNT
<1>2. CASE left = 1
  BY <1>1, <1>2 DEF NextOfBurst, Content, MAX_C_COUNT
<1>3. CASE left # 1
  BY <1>1, <1>3 DEF NextOfBurst, Content, MAX_C_COUNT
<1>. QED
  BY <1>2, <1>3

LEMMA EnqueueBadPriorityKeepsInv ==
  ASSUME MacInv, EnqueueBadPriority
  PROVE  MacInv'
<1>1. Holding' = Holding
  BY DEF EnqueueBadPriority, Holding, queueVars
<1>2. /\ UNCHANGED <<queueVars, modeVars, statusVars, radioVars, statVars, ptr,
                     reg, sentPrio, slot, crashed, streak>>
      /\ pc = "copy" /\ NextOfBurst /\ sendResult' = "FAIL"
  BY DEF EnqueueBadPriority
<1>3. /\ left' \in 0 .. MAX_C_COUNT /\ arg' \in Content
      /\ pc' \in {"idle", "copy"}
      /\ pc' = "copy" => arg' \in Packet /\ left' \in 1 .. MAX_C_COUNT
  BY <1>2, NextOfBurstPost
<1>4. TypeOK'
  BY <1>2, <1>3 DEF queueVars, modeVars, statusVars, radioVars, statVars,
                    MacInv, TypeOK, TaskPc
<1>. QED
  BY <1>1, <1>2, <1>3, <1>4
     DEF queueVars, modeVars, statusVars, radioVars, statVars, MacInv, ModeInv,
         LockInv, LockCoversTransmission, TaskInv, FrameInv, NeverCrashes,
         SendDonePc, HasPrio

LEMMA EnqueueInsertKeepsInv ==
  ASSUME MacInv, EnqueueInsert
  PROVE  MacInv'
<1>1. Holding' = Holding
  BY DEF EnqueueInsert, Holding
<1>2. /\ UNCHANGED <<mem, modeVars, statusVars, radioVars, statVars, reg,
                     sentPrio, slot, crashed, streak>>
      /\ pc = "insert" /\ NextOfBurst /\ sendResult' = "SUCCESS"
      /\ ptr' = NullElt
      /\ q' = EnqueuePrio(q, ptr, PriorityOf[arg])
  BY DEF EnqueueInsert
<1>3. /\ left' \in 0 .. MAX_C_COUNT /\ arg' \in Content
      /\ pc' \in {"idle", "copy"}
      /\ pc' = "copy" => arg' \in Packet /\ left' \in 1 .. MAX_C_COUNT
  BY <1>2, NextOfBurstPost
<1>4. ptr \in EltOrNull /\ ptr \in Holding[PriorityOf[arg]]
  BY <1>2 DEF MacInv, TypeOK, TaskInv
<1>5. QueueInv(q') /\ HoldsOnly(q', Holding)
  BY <1>2, <1>4, EnqueuePrioInv, EnqueuePrioHolds DEF MacInv, TypeOK
<1>6. TypeOK'
  BY <1>2, <1>3, <1>5
     DEF modeVars, statusVars, radioVars, statVars, MacInv, TypeOK, TaskPc,
         EltOrNull
<1>. QED
  BY <1>1, <1>2, <1>3, <1>5, <1>6
     DEF modeVars, statusVars, radioVars, statVars, MacInv, ModeInv,
         LockInv, LockCoversTransmission, TaskInv, FrameInv, NeverCrashes,
         SendDonePc, HasPrio

-----------------------------------------------------------------------------
(* The radio's events and the fault.                                       *)

LEMMA FaultKeepsInv ==
  ASSUME MacInv, FaultEvents
  PROVE  MacInv'
<1>1. /\ UNCHANGED <<queueVars, modeVars, init, slotterInit, radioVars,
                     taskVars, statVars, slot, crashed, streak>>
      /\ activeFault' \in BOOLEAN
  BY DEF FaultEvents, FaultReceived, FaultClearTimerFired
<1>2. Holding' = Holding
  BY <1>1 DEF Holding, queueVars
<1>3. TypeOK'
  BY <1>1 DEF queueVars, modeVars, radioVars, taskVars, statVars, MacInv, TypeOK
<1>. QED
  BY <1>1, <1>2, <1>3
     DEF queueVars, modeVars, radioVars, taskVars, statVars, MacInv, ModeInv,
         LockInv, LockCoversTransmission, TaskInv, FrameInv, NeverCrashes,
         HasPrio

LEMMA NotificationSentKeepsInv ==
  ASSUME MacInv, NotificationSent
  PROVE  MacInv'
<1>1. /\ UNCHANGED <<queueVars, modeVars, statusVars, selfDataPkt, sentPtr,
                     taskVars, statVars, slot, crashed, streak>>
      /\ pc = "idle" /\ radio' = "idle" /\ phyLock' = FALSE
  BY DEF NotificationSent
<1>2. Holding' = Holding
  BY <1>1 DEF Holding, queueVars
<1>3. TypeOK'
  BY <1>1 DEF queueVars, modeVars, statusVars, taskVars, statVars, MacInv, TypeOK
<1>. QED
  BY <1>1, <1>2, <1>3
     DEF queueVars, modeVars, statusVars, taskVars, statVars, MacInv, ModeInv,
         LockInv, LockCoversTransmission, TaskInv, FrameInv, NeverCrashes,
         SendDonePc, HasPrio

LEMMA DataSentKeepsInv ==
  ASSUME MacInv, NEW acked \in BOOLEAN, DataSent(acked)
  PROVE  MacInv'
<1>1. /\ UNCHANGED <<queueVars, modeVars, statusVars, phyLock, selfDataPkt,
                     sentPtr, arg, left, ptr, reg, sendResult, statVars, slot,
                     crashed>>
      /\ pc = "idle" /\ radio = "data" /\ radio' = "idle"
      /\ sentPrio' = PriorityOf[selfDataPkt.pkt]
      /\ pc' \in {"dequeue", "register"} /\ streak' \in 0 .. BEST_EFFORT_LIMIT
  BY DEF DataSent, SmallerOf, MacInv, TypeOK, BEST_EFFORT_LIMIT
<1>2. Holding' = Holding
  BY <1>1 DEF Holding, queueVars
<1>3. sentPrio' \in 0 .. 255
  BY <1>1, PacketAssumption DEF MacInv, FrameInv
<1>4. TypeOK'
  BY <1>1, <1>3 DEF queueVars, modeVars, statusVars, statVars, MacInv, TypeOK,
                    TaskPc, SendDonePc
<1>. QED
  BY <1>1, <1>2, <1>4
     DEF queueVars, modeVars, statusVars, statVars, MacInv, ModeInv,
         LockInv, LockCoversTransmission, TaskInv, FrameInv, NeverCrashes,
         SendDonePc, HasPrio

-----------------------------------------------------------------------------
(* sendDone, after the radio's answer.                                     *)

\* What is left to show of a step of sendDone that keeps the lock.
LEMMA SendDoneStepKeepsInv ==
  ASSUME MacInv, NEW from \in SendDonePc, NEW to \in SendDonePc,
         SendDoneStep(from, to), UNCHANGED <<phyLock, sentPrio, sentPtr>>,
         QueueInv(q'), HoldsOnly(q', Holding),
         hiCritMode' \in BOOLEAN, ModeInv',
         discarded' \in [Prio -> 0 .. 255], unreported' \in [Prio -> Nat]
  PROVE  MacInv'
<1>1. /\ UNCHANGED <<mem, statusVars, radio, selfDataPkt, arg, left,
                     ptr, reg, sendResult, slot, crashed, streak>>
      /\ pc = from /\ pc' = to
  BY DEF SendDoneStep
<1>2. Holding' = Holding
  BY <1>1 DEF Holding
<1>3. node_ack_fails' \in 0 .. 255
  BY DEF ModeInv, BEST_EFFORT_LIMIT
<1>4. TypeOK'
  BY <1>1, <1>3 DEF statusVars, MacInv, TypeOK, TaskPc
<1>. QED
  BY <1>1, <1>2, <1>4
     DEF statusVars, MacInv, LockInv, LockCoversTransmission, TaskInv, FrameInv,
         NeverCrashes, SendDonePc, HasPrio

LEMMA RegisterFailedAckKeepsInv ==
  ASSUME MacInv, RegisterFailedAck
  PROVE  MacInv'
<1>1. /\ SendDoneStep("register", "goHigh")
      /\ node_ack_fails' = node_ack_fails + 1
      /\ UNCHANGED <<q, hiCritMode, statVars, phyLock, sentPrio, sentPtr>>
  BY DEF RegisterFailedAck
<1>2. ModeInv'
  BY <1>1 DEF SendDoneStep, MacInv, TypeOK, ModeInv, BEST_EFFORT_LIMIT,
              CRIT_CHANGE_THRESHOLD
<1>. QED
  BY <1>1, <1>2, SendDoneStepKeepsInv DEF statVars, SendDonePc, MacInv, TypeOK

LEMMA CheckToGoHighKeepsInv ==
  ASSUME MacInv, CheckToGoHigh
  PROVE  MacInv'
<1>1. /\ SendDoneStep("goHigh", "bestEffort")
      /\ UNCHANGED <<node_ack_fails, phyLock, sentPrio, sentPtr>>
  BY DEF CheckToGoHigh
<1>2. QueueInv(q) /\ HoldsOnly(q, Holding)
  BY DEF MacInv, TypeOK
<1>3. CASE /\ ~ hiCritMode /\ node_ack_fails >= CRIT_CHANGE_THRESHOLD
           /\ hiCritMode' = TRUE
           /\ discarded' = [p \in Prio |-> (discarded[p] + SizeLO_Q(q, p)) % 256]
           /\ unreported' = [p \in Prio |-> unreported[p] + SizeLO_Q(q, p)]
           /\ q' = ClearLO(q)
  <2>1. \A n \in Nat : n % 256 \in 0 .. 255
    OBVIOUS
  <2>2. \A p \in Prio : SizeLO_Q(q, p) \in Nat
    BY <1>2, SizesInType DEF SizeLO_Q
  <2>3. \A p \in Prio : /\ discarded[p] + SizeLO_Q(q, p) \in Nat
                        /\ unreported[p] + SizeLO_Q(q, p) \in Nat
    BY <2>2 DEF MacInv, TypeOK
  <2>4. discarded' \in [Prio -> 0 .. 255]
    BY <1>3, <2>1, <2>3
  <2>5. unreported' \in [Prio -> Nat]
    BY <1>3, <2>3
  <2>6. QueueInv(q') /\ HoldsOnly(q', Holding)
    BY <1>2, <1>3, ClearInv, ClearHolds
  <2>7. ModeInv'
    BY <1>1, <1>3 DEF SendDoneStep, MacInv, TypeOK, ModeInv, BEST_EFFORT_LIMIT,
                      CRIT_CHANGE_THRESHOLD
  <2>. QED
    BY <1>1, <1>3, <2>4, <2>5, <2>6, <2>7, SendDoneStepKeepsInv DEF SendDonePc
<1>4. CASE /\ ~ (~ hiCritMode /\ node_ack_fails >= CRIT_CHANGE_THRESHOLD)
           /\ UNCHANGED <<hiCritMode, statVars, q>>
  <2>1. ModeInv'
    BY <1>1, <1>4 DEF SendDoneStep, MacInv, TypeOK, ModeInv, BEST_EFFORT_LIMIT,
                      CRIT_CHANGE_THRESHOLD
  <2>. QED
    BY <1>1, <1>2, <1>4, <2>1, SendDoneStepKeepsInv
       DEF SendDonePc, statVars, MacInv, TypeOK
<1>. QED
  BY <1>3, <1>4 DEF CheckToGoHigh

LEMMA CheckBestEffortKeepsInv ==
  ASSUME MacInv, CheckBestEffort
  PROVE  MacInv'
<1> DEFINE to == IF node_ack_fails >= BEST_EFFORT_LIMIT THEN "clear" ELSE "limit"
<1>1. /\ SendDoneStep("bestEffort", to)
      /\ UNCHANGED <<q, modeVars, statVars, phyLock, sentPrio, sentPtr>>
  BY DEF CheckBestEffort
<1>2. ModeInv'
  BY <1>1 DEF SendDoneStep, modeVars, MacInv, TypeOK, ModeInv, BEST_EFFORT_LIMIT,
              CRIT_CHANGE_THRESHOLD
<1>. QED
  BY <1>1, <1>2, SendDoneStepKeepsInv
     DEF SendDonePc, modeVars, statVars, MacInv, TypeOK

LEMMA ClearKeepsInv ==
  ASSUME MacInv, ClearOne \/ ClearDone
  PROVE  MacInv'
<1>1. CASE ClearOne
  <2>1. /\ SendDoneStep("clear", "clear")
        /\ UNCHANGED <<modeVars, statVars, phyLock, sentPrio, sentPtr>>
    BY <1>1 DEF ClearOne
  <2>2. QueueInv(q') /\ HoldsOnly(q', Holding)
    BY <1>1, DequeuePrioInv, DequeuePrioHolds DEF ClearOne, MacInv, TypeOK
  <2>3. ModeInv'
    BY <2>1 DEF SendDoneStep, modeVars, MacInv, TypeOK, ModeInv
  <2>. QED
    BY <2>1, <2>2, <2>3, SendDoneStepKeepsInv
       DEF SendDonePc, modeVars, statVars, MacInv, TypeOK
<1>2. CASE ClearDone
  <2>1. /\ SendDoneStep("clear", "limit")
        /\ node_ack_fails' = 0 /\ hiCritMode' = FALSE
        /\ UNCHANGED <<q, statVars, phyLock, sentPrio, sentPtr>>
    BY <1>2 DEF ClearDone
  <2>2. ModeInv'
    BY <2>1 DEF SendDoneStep, ModeInv, BEST_EFFORT_LIMIT, CRIT_CHANGE_THRESHOLD
  <2>3. hiCritMode' \in BOOLEAN
    BY <2>1, Zenon
  <2>. QED
    BY <2>1, <2>2, <2>3, SendDoneStepKeepsInv DEF SendDonePc, statVars, MacInv, TypeOK
<1>. QED
  BY <1>1, <1>2

LEMMA LimitKeepsInv ==
  ASSUME MacInv, CheckLimit \/ DequeueSent \/ CountRetransmit
  PROVE  MacInv'
<1>1. PICK from \in {"limit", "dequeue", "retransmit"},
           to \in {"dequeue", "retransmit", "unlock"} :
         /\ SendDoneStep(from, to)
         /\ UNCHANGED <<modeVars, statVars, phyLock, sentPrio, sentPtr>>
  BY DEF CheckLimit, DequeueSent, CountRetransmit
<1>2. QueueInv(q') /\ HoldsOnly(q', Holding)
  BY DequeuePrioInv, DequeuePrioHolds
     DEF CheckLimit, DequeueSent, CountRetransmit, MacInv, TypeOK
<1>3. ModeInv'
  BY <1>1 DEF SendDoneStep, modeVars, MacInv, ModeInv
<1>. QED
  BY <1>1, <1>2, <1>3, SendDoneStepKeepsInv
     DEF SendDonePc, modeVars, statVars, MacInv, TypeOK

LEMMA UnlockKeepsInv ==
  ASSUME MacInv, Unlock
  PROVE  MacInv'
<1>1. /\ UNCHANGED <<mem, statusVars, radio, selfDataPkt, arg, left,
                     ptr, reg, sendResult, slot, crashed, streak>>
      /\ UNCHANGED <<q, modeVars, statVars>>
      /\ pc = "unlock" /\ pc' = "idle"
      /\ phyLock' = FALSE /\ sentPrio' = 0 /\ sentPtr' = NullElt
  BY DEF Unlock, SendDoneStep
<1>2. Holding' = Holding
  BY <1>1 DEF Holding
<1>3. TypeOK'
  <2>1. phyLock' \in BOOLEAN
    BY <1>1, Zenon
  <2>2. pc' \in TaskPc /\ sentPrio' \in 0 .. 255 /\ sentPtr' \in EltOrNull
    BY <1>1 DEF TaskPc, EltOrNull
  <2>. QED
    BY <1>1, <2>1, <2>2 DEF statusVars, modeVars, statVars, MacInv, TypeOK
<1>. QED
  BY <1>1, <1>2, <1>3
     DEF statusVars, modeVars, statVars, MacInv, ModeInv, LockInv,
         LockCoversTransmission, TaskInv, FrameInv, NeverCrashes, SendDonePc,
         HasPrio

-----------------------------------------------------------------------------
LEMMA InitMacInv == Init => MacInv
<1>. SUFFICES ASSUME Init
              PROVE  MacInv
  OBVIOUS
<1>1. QueueInv(q) /\ HoldsOnly(q, Holding)
  BY InitQueueInv, InitHolds DEF Init
<1>2. TypeOK
  <2>1. /\ hiCritMode \in BOOLEAN /\ activeFault \in BOOLEAN
        /\ phyLock \in BOOLEAN /\ init \in BOOLEAN /\ slotterInit \in BOOLEAN
        /\ crashed \in BOOLEAN
    BY Zenon DEF Init
  <2>2. selfDataPkt \in [pkt : Content, ackReq : BOOLEAN]
    BY DEF Init, Content
  <2>3. mem \in [Elt -> Content] /\ arg \in Content
    BY DEF Init, Content
  <2>4. discarded \in [Prio -> 0 .. 255] /\ unreported \in [Prio -> Nat]
    BY DEF Init, NothingDiscarded
  <2>5. /\ node_ack_fails \in 0 .. 255 /\ left \in 0 .. MAX_C_COUNT
        /\ reg \in 0 .. 255 /\ sentPrio \in 0 .. 255
        /\ streak \in 0 .. BEST_EFFORT_LIMIT /\ slot \in 0 .. SLOTS_IN_FRAME - 1
    BY NodeAssumption DEF Init, MAX_C_COUNT, BEST_EFFORT_LIMIT
  <2>6. /\ radio \in {"idle", "data", "notification"} /\ pc \in TaskPc
        /\ ptr \in EltOrNull /\ sentPtr \in EltOrNull
        /\ sendResult \in {"SUCCESS", "FAIL"}
    BY DEF Init, TaskPc, EltOrNull
  <2>. QED
    BY <1>1, <2>1, <2>2, <2>3, <2>4, <2>5, <2>6 DEF TypeOK
<1>. QED
  BY <1>1, <1>2
     DEF Init, MacInv, ModeInv, LockInv, LockCoversTransmission, TaskInv,
         FrameInv, NeverCrashes, SendDonePc, BEST_EFFORT_LIMIT,
         CRIT_CHANGE_THRESHOLD

LEMMA MacInvIsInductive == MacInv /\ [Next]_vars => MacInv'
<1>. SUFFICES ASSUME MacInv, [Next]_vars
              PROVE  MacInv'
  OBVIOUS
<1>1. CASE AlarmFired \/ StartDone \/ NotificationReceived
  BY <1>1, AlarmKeepsInv, StartDoneKeepsInv, NotificationKeepsInv
<1>2. CASE Admit
  BY <1>2, PacketAssumption, MacSendKeepsInv, DataReceivedKeepsInv DEF Admit
<1>3. CASE AdmissionSteps
  BY <1>3, DiscardStoreKeepsInv, EnqueueCopyKeepsInv, EnqueueBadPriorityKeepsInv,
     EnqueueInsertKeepsInv DEF AdmissionSteps
<1>4. CASE RadioDone
  BY <1>4, NotificationSentKeepsInv, DataSentKeepsInv DEF RadioDone
<1>5. CASE SendDoneSteps
  BY <1>5, RegisterFailedAckKeepsInv, CheckToGoHighKeepsInv,
     CheckBestEffortKeepsInv, ClearKeepsInv, LimitKeepsInv, UnlockKeepsInv
     DEF SendDoneSteps
<1>6. CASE FaultEvents
  BY <1>6, FaultKeepsInv
<1>7. CASE UNCHANGED vars
  <2>1. Holding' = Holding
    BY <1>7 DEF vars, queueVars, Holding
  <2>2. TypeOK'
    BY <1>7 DEF vars, queueVars, modeVars, statusVars, radioVars, taskVars,
                statVars, MacInv, TypeOK
  <2>. QED
    BY <1>7, <2>1, <2>2
       DEF vars, queueVars, modeVars, statusVars, radioVars, taskVars, statVars,
           MacInv, ModeInv, LockInv, LockCoversTransmission, TaskInv, FrameInv,
           NeverCrashes, HasPrio
<1>. QED
  BY <1>1, <1>2, <1>3, <1>4, <1>5, <1>6, <1>7 DEF Next

LEMMA MacInvHolds == Spec => []MacInv
  BY InitMacInv, MacInvIsInductive, PTL DEF Spec

-----------------------------------------------------------------------------
(* The theorems.                                                           *)

\* Every state of every behaviour is well typed: in particular the failure
\* counter never comes near the width of its uint8_t, and a frame on the air
\* always has a priority some ring has (TdmaMacP.nc:80-210, 939).
THEOREM MacTypeOK == Spec => []TypeOK
<1>1. MacInv => TypeOK
  BY DEF MacInv
<1>. QED
  BY <1>1, MacInvHolds, PTL

\* Between tasks the node is in HI mode exactly from the second missed
\* acknowledgement on and never holds a fourth, whatever slot interrupts come
\* between the increment, the test and the resets of sendDone
\* (TdmaMacP.nc:537-556, 961-978).
THEOREM ModeFollowsCounter == Spec => []ModeMatchesCounter
<1>1. MacInv => ModeMatchesCounter
  BY DEF MacInv, ModeInv, ModeMatchesCounter, BEST_EFFORT_LIMIT
<1>. QED
  BY <1>1, MacInvHolds, PTL

\* The lock is held exactly while the radio has a frame or sendDone is not
\* finished with it, even when the radio refuses frames and slots come in
\* the middle of a transmission (TdmaMacP.nc:597-643, 1010).
THEOREM LockIsExact == Spec => []LockCoversTransmission
<1>1. MacInv => LockCoversTransmission
  BY DEF MacInv, LockInv
<1>. QED
  BY <1>1, MacInvHolds, PTL

\* The deliberate endless loop of handle_tx_slot is unreachable
\* (TdmaMacP.nc:558-565).
THEOREM CrashIsUnreachable == Spec => []NeverCrashes
<1>1. MacInv => NeverCrashes
  BY DEF MacInv
<1>. QED
  BY <1>1, MacInvHolds, PTL

\* Whatever is overwritten in forwardPktBuffer, a queued pointer leads to a
\* packet of its ring's priority (TdmaMacP.nc:728-753).
THEOREM CellsMatchRings == Spec => []QueuedCellsMatchRing
<1>1. MacInv => QueuedCellsMatchRing
  <2>. SUFFICES ASSUME MacInv, NEW p \in Prio, NEW i \in 0 .. q[p].size - 1
                PROVE  LET e == Element(q[p], i)
                       IN e \in Elt /\ mem[e] \in Packet /\ PriorityOf[mem[e]] = p
    BY DEF QueuedCellsMatchRing
  <2>1. RingInv(q[p]) /\ q[p].size \in Nat
    BY RingsOfQueue DEF MacInv, TypeOK
  <2>2. i + 1 \in 1 .. q[p].size /\ (i + 1) - 1 = i
    BY <2>1
  <2>3. Contents(q[p])[i + 1] = Element(q[p], i)
    BY <2>1, <2>2, ContentsType
  <2>4. Contents(q[p]) \in Seq(Holding[p]) /\ Len(Contents(q[p])) = q[p].size
    BY <2>1, ContentsType DEF MacInv, HoldsOnly
  <2>5. Element(q[p], i) \in Holding[p]
    BY <2>2, <2>3, <2>4
  <2>. QED
    BY <2>5 DEF Holding
<1>. QED
  BY <1>1, MacInvHolds, PTL

-----------------------------------------------------------------------------
(* The statistics of discarded packets.                                    *)

\* The counters are cleared when a frame starts, so the mode change that may
\* follow it adds one queue's worth to at most MaxDiscard; and what a task is
\* about to store covers what a slot in between has not reported.
CountInv ==
  /\ LossesStayCounted
  /\ \A p \in Prio : discarded[p] <= MaxDiscard + QUEUE_SIZE
  /\ radio = "data" \/ pc \in {"register", "goHigh"}
       => \A p \in Prio : discarded[p] <= MaxDiscard
  /\ pc = "discard" => /\ unreported[PriorityOf[arg]] <= reg
                       /\ reg + COf[arg] <= MaxDiscard

\* What every step does that leaves the statistics alone.
CountersUntouched ==
  /\ UNCHANGED statVars
  /\ radio' = "data" \/ pc' \in {"register", "goHigh"}
       => radio = "data" \/ pc \in {"register", "goHigh"}
  /\ pc' = "discard" => pc = "discard" /\ UNCHANGED <<arg, reg>>

LEMMA UntouchedKeepsCount ==
  ASSUME CountInv, CountersUntouched
  PROVE  CountInv'
BY DEF CountInv, CountersUntouched, statVars, LossesStayCounted

LEMMA SlotKeepsCount ==
  ASSUME ~ RadioMayRefuse, MacInv, CountInv, NEW s, SlotEvent(s),
         UNCHANGED taskVars
  PROVE  CountInv'
<1>0. UNCHANGED <<pc, arg, reg>>
  BY DEF taskVars
<1>1. CASE SendNotification
  BY <1>0, <1>1, UntouchedKeepsCount DEF SendNotification, CountersUntouched
<1>2. CASE UNCHANGED <<modeVars, statVars, radioVars, crashed>>
  BY <1>0, <1>2, UntouchedKeepsCount DEF radioVars, CountersUntouched
<1>3. CASE NothingToSend
  BY <1>0, <1>3, UntouchedKeepsCount DEF NothingToSend, radioVars, CountersUntouched
<1>4. CASE RadioLocked(Selected)
  BY <1>0, <1>4, UntouchedKeepsCount DEF RadioLocked, CountersUntouched
<1>5. CASE HandToRadio(Selected)
  <2>1. discarded' = [p \in Prio |-> 0]
    BY <1>5 DEF HandToRadio, NothingDiscarded
  <2>2. unreported' = [p \in Prio |-> 0]
    BY <1>5 DEF HandToRadio, CountInv, LossesStayCounted
  <2>3. pc = "discard" => /\ PriorityOf[arg] \in Prio /\ reg \in Nat
    BY PrioIsRange DEF MacInv, TaskInv, TypeOK, HasPrio
  <2>. QED
    BY <1>0, <2>1, <2>2, <2>3, NodeAssumption, QueueSizeAssumption
       DEF CountInv, LossesStayCounted
<1>. QED
  BY <1>1, <1>2, <1>3, <1>4, <1>5 DEF SlotEvent, handle_tx_slot

LEMMA MacSendKeepsCount ==
  ASSUME MacInv, CountInv, NEW pk \in Packet, MacSend(pk)
  PROVE  CountInv'
<1>1. UNCHANGED <<statVars, radio>> /\ pc = "idle"
  BY DEF MacSend, radioVars
<1>2. CASE StartEnqueue(pk, SmallerOf(COf[pk], MAX_C_COUNT))
  BY <1>1, <1>2, UntouchedKeepsCount DEF StartEnqueue, CountersUntouched
<1>3. CASE /\ HasPrio(pk) /\ discarded[PriorityOf[pk]] + COf[pk] <= MaxDiscard
           /\ pc' = "discard" /\ arg' = pk /\ reg' = discarded[PriorityOf[pk]]
  BY <1>1, <1>3, PrioIsRange DEF HasPrio, CountInv, LossesStayCounted, statVars
<1>. QED
  BY <1>2, <1>3 DEF MacSend

LEMMA DiscardStoreKeepsCount ==
  ASSUME MacInv, CountInv, DiscardStore
  PROVE  CountInv'
<1> DEFINE a == PriorityOf[arg]
           c == COf[arg]
<1>1. a \in Prio /\ c \in Nat /\ reg \in Nat
  <2>1. arg \in Packet /\ HasPrio(arg)
    BY DEF DiscardStore, MacInv, TaskInv
  <2>2. a \in Prio
    BY <2>1, PrioIsRange DEF HasPrio
  <2>3. c \in Nat
    BY <2>1, PacketAssumption
  <2>4. reg \in Nat
    BY DEF MacInv, TypeOK
  <2>. QED
    BY <2>2, <2>3, <2>4
<1>2. unreported[a] <= reg /\ reg + c <= MaxDiscard /\ (reg + c) % 256 = reg + c
  BY <1>1, NodeAssumption DEF DiscardStore, CountInv
<1>3. /\ discarded' = [discarded EXCEPT ![a] = reg + c]
      /\ unreported' = [unreported EXCEPT ![a] = @ + c]
      /\ pc' = "idle" /\ radio' = radio
  BY <1>2 DEF DiscardStore, radioVars
<1>4. discarded \in [Prio -> 0 .. 255] /\ unreported \in [Prio -> Nat]
  BY DEF MacInv, TypeOK
<1>5. \A p \in Prio : /\ discarded'[p] = IF p = a THEN reg + c ELSE discarded[p]
                      /\ unreported'[p] = IF p = a THEN unreported[a] + c ELSE unreported[p]
  BY <1>3, <1>4
<1>. HIDE DEF a, c
<1>. QED
  BY <1>1, <1>2, <1>3, <1>4, <1>5, NodeAssumption, QueueSizeAssumption
     DEF CountInv, LossesStayCounted

LEMMA CheckToGoHighKeepsCount ==
  ASSUME MacInv, CountInv, CheckToGoHigh
  PROVE  CountInv'
<1>1. radio' = radio /\ pc = "goHigh" /\ pc' = "bestEffort" /\ radio = "idle"
  BY DEF CheckToGoHigh, SendDoneStep, MacInv, LockInv, SendDonePc
<1>2. CASE UNCHANGED <<hiCritMode, statVars, q>>
  BY <1>1, <1>2, UntouchedKeepsCount DEF CountersUntouched
<1>3. CASE /\ discarded' = [p \in Prio |-> (discarded[p] + SizeLO_Q(q, p)) % 256]
           /\ unreported' = [p \in Prio |-> unreported[p] + SizeLO_Q(q, p)]
  <2>1. \A p \in Prio : SizeLO_Q(q, p) \in 0 .. QUEUE_SIZE
    BY RingsOfQueue, QueueSizeAssumption DEF SizeLO_Q, SizeAt, MacInv, TypeOK
  <2>2. \A p \in Prio : discarded[p] \in 0 .. MaxDiscard
    BY <1>1, NodeAssumption DEF CountInv, MacInv, TypeOK
  <2>3. \A p \in Prio : discarded'[p] = discarded[p] + SizeLO_Q(q, p)
    <3>1. \A n \in 0 .. 255 : n % 256 = n
      OBVIOUS
    <3>2. MaxDiscard \in 0 .. 100 /\ QUEUE_SIZE \in 1 .. 85
      BY NodeAssumption, QueueSizeAssumption
    <3>3. ASSUME NEW a \in 0 .. MaxDiscard, NEW b \in 0 .. QUEUE_SIZE
          PROVE  a + b \in 0 .. 255
      BY <3>2
    <3>4. \A p \in Prio : discarded[p] + SizeLO_Q(q, p) \in 0 .. 255
      BY <2>1, <2>2, <3>3, Zenon
    <3>. QED
      BY <1>3, <3>1, <3>4
  <2>4. \A p \in Prio : unreported[p] \in Nat
    BY DEF MacInv, TypeOK
  <2>. QED
    BY <1>1, <1>3, <2>1, <2>2, <2>3, <2>4, NodeAssumption, QueueSizeAssumption
       DEF CountInv, LossesStayCounted
<1>. QED
  BY <1>2, <1>3 DEF CheckToGoHigh

LEMMA CountIsInductive ==
  ASSUME ~ RadioMayRefuse, MacInv, CountInv, [Next]_vars
  PROVE  CountInv'
<1>1. CASE AlarmFired
  BY <1>1, SlotKeepsCount DEF AlarmFired
<1>2. CASE StartDone
  <2>1. CASE IsSink
    BY <1>2, <2>1, SlotKeepsCount DEF StartDone
  <2>2. CASE ~ IsSink
    BY <1>2, <2>2, UntouchedKeepsCount
       DEF StartDone, radioVars, taskVars, CountersUntouched
  <2>. QED
    BY <2>1, <2>2
<1>3. CASE NotificationReceived
  BY <1>3, SlotKeepsCount DEF NotificationReceived
<1>4. CASE Admit
  <2>1. ASSUME NEW pk \in Forwarded, DataReceived(pk)
        PROVE  CountInv'
    BY <2>1, UntouchedKeepsCount DEF DataReceived, StartEnqueue, radioVars, CountersUntouched
  <2>. QED
    BY <1>4, <2>1, MacSendKeepsCount DEF Admit
<1>5. CASE AdmissionSteps
  <2>1. CASE EnqueueCopy \/ EnqueueBadPriority \/ EnqueueInsert
    BY <2>1, UntouchedKeepsCount
       DEF EnqueueCopy, EnqueueBadPriority, EnqueueInsert, NextOfBurst, radioVars,
           CountersUntouched
  <2>. QED
    BY <1>5, <2>1, DiscardStoreKeepsCount DEF AdmissionSteps
<1>6. CASE RadioDone
  <2>1. ASSUME NEW acked \in BOOLEAN, DataSent(acked)
        PROVE  CountersUntouched
    BY <2>1 DEF DataSent, CountersUntouched
  <2>2. ASSUME NotificationSent
        PROVE  CountersUntouched
    <3>1. /\ UNCHANGED <<taskVars, statVars>> /\ pc = "idle" /\ radio' = "idle"
      BY <2>2 DEF NotificationSent
    <3>. QED
      BY <3>1 DEF taskVars, CountersUntouched
  <2>. QED
    BY <1>6, <2>1, <2>2, UntouchedKeepsCount DEF RadioDone
<1>7. CASE SendDoneSteps
  <2>1. CASE \/ RegisterFailedAck \/ CheckBestEffort \/ ClearOne \/ ClearDone
             \/ CheckLimit \/ DequeueSent \/ CountRetransmit \/ Unlock
    <3>1. CountersUntouched
      BY <2>1 DEF RegisterFailedAck, CheckBestEffort, ClearOne, ClearDone,
         CheckLimit, DequeueSent, CountRetransmit, Unlock, SendDoneStep,
         CountersUntouched
    <3>. QED
      BY <3>1, UntouchedKeepsCount
  <2>. QED
    BY <1>7, <2>1, CheckToGoHighKeepsCount DEF SendDoneSteps
<1>8. CASE FaultEvents
  BY <1>8, UntouchedKeepsCount
     DEF FaultEvents, FaultReceived, FaultClearTimerFired, radioVars, taskVars,
         CountersUntouched
<1>9. CASE UNCHANGED vars
  BY <1>9, UntouchedKeepsCount DEF vars, radioVars, taskVars, CountersUntouched
<1>. QED
  BY <1>1, <1>2, <1>3, <1>4, <1>5, <1>6, <1>7, <1>8, <1>9 DEF Next

\* When the radio accepts every frame, a packet discarded in HI mode or at
\* the mode change stays counted until a frame has reported it: the slot may
\* clear the counters between the load and the store of an increment, and
\* they never wrap (TdmaMacP.nc:261-263, 626-631, 807-809).
THEOREM DiscardedStayCounted ==
  ASSUME ~ RadioMayRefuse
  PROVE  Spec => []LossesStayCounted
<1>1. Init => CountInv
  BY NodeAssumption, QueueSizeAssumption
     DEF Init, CountInv, LossesStayCounted, NothingDiscarded
<1>2. MacInv /\ CountInv /\ [Next]_vars => CountInv'
  BY CountIsInductive
<1>3. CountInv => LossesStayCounted
  BY DEF CountInv
<1>. QED
  BY <1>1, <1>2, <1>3, MacInvHolds, PTL DEF Spec
=============================================================================
