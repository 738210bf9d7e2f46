----------------------- MODULE TdmaMacRefinementProofs -----------------------
(***************************************************************************)
(* The MAC of a node implements the criticality protocol of CritMode, for  *)
(* every node, packet set and ring capacity, when transmissions end before *)
(* the node's next slot and priorities separate the criticalities.         *)
(***************************************************************************)
EXTENDS TdmaMacHIProofs

\* mcc_check_to_go_high finds the failure that sendDone has just registered.
CountedInv == pc = "goHigh" => node_ack_fails > 0

protocolVars == <<protocolMode, protocolFails, protocolOnAir>>

\* What the abstract state is made of.
sources == <<hiCritMode, node_ack_fails, pc, radio, selfDataPkt>>

LEMMA SameSourcesSameState ==
  ASSUME UNCHANGED sources
  PROVE  UNCHANGED protocolVars
  BY DEF sources, protocolVars, protocolMode, protocolFails, protocolOnAir

\* With nothing out the abstract state is the concrete one.
LEMMA QuietState ==
  ASSUME MacInv, ~ phyLock
  PROVE  /\ radio = "idle" /\ pc \notin SendDonePc
         /\ protocolMode = (IF hiCritMode THEN "HI" ELSE "LO")
         /\ protocolFails = node_ack_fails /\ protocolOnAir = "none"
         /\ node_ack_fails \in 0 .. 3
<1>1. radio = "idle" /\ pc \notin SendDonePc
  BY DEF MacInv, LockInv, LockCoversTransmission
<1>2. node_ack_fails \in 0 .. 3
  BY <1>1 DEF MacInv, ModeInv, SendDonePc, BEST_EFFORT_LIMIT
<1>. QED
  BY <1>1, <1>2 DEF protocolMode, protocolFails, protocolOnAir, SendDonePc,
                    BEST_EFFORT_LIMIT

-----------------------------------------------------------------------------
LEMMA TxSlotImplements ==
  ASSUME MacInv, PrioritiesSeparate, ~ phyLock, handle_tx_slot, pc' = pc
  PROVE  Protocol!Next \/ UNCHANGED protocolVars
<1> DEFINE now == (IF hiCritMode THEN "HI" ELSE "LO")
           then == (IF hiCritMode' THEN "HI" ELSE "LO")
<1>1. /\ radio = "idle" /\ pc \notin SendDonePc
      /\ protocolMode = now
      /\ protocolFails = node_ack_fails /\ protocolOnAir = "none"
      /\ node_ack_fails \in 0 .. 3
  BY QuietState
<1>2. /\ hiCritMode' = (hiCritMode /\ ~ HIDrained)
      /\ node_ack_fails' = IF HIDrained \/ Waiting(q, Eligible) = {} THEN 0
                           ELSE node_ack_fails
  BY DEF handle_tx_slot
<1>3. /\ protocolMode' = then /\ protocolFails' = node_ack_fails'
      /\ protocolOnAir' = IF radio' = "data" THEN CritOf[selfDataPkt'.pkt] ELSE "none"
  BY <1>1, <1>2 DEF protocolMode, protocolFails, protocolOnAir, SendDonePc,
                    BEST_EFFORT_LIMIT
<1>4. CASE Waiting(q, Eligible) = {}
  <2>1. hiCritMode' = FALSE /\ node_ack_fails' = 0
    BY <1>2, <1>4, Zenon DEF Eligible, HIDrained
  <2>2. radio' = "idle"
    BY <1>1, <1>4 DEF handle_tx_slot, NothingToSend, radioVars
  <2>. QED
    BY <1>1, <1>3, <2>1, <2>2 DEF Protocol!Next, Protocol!Restart
<1>5. CASE Waiting(q, Eligible) # {}
  <2>1. HandToRadio(Selected)
    BY <1>5 DEF handle_tx_slot, RadioLocked
  <2>2. radio' = "data" \/ radio' = "idle"
    BY <1>1, <2>1 DEF HandToRadio
  <2>3. \/ UNCHANGED <<hiCritMode, node_ack_fails>>
        \/ hiCritMode /\ hiCritMode' = FALSE /\ node_ack_fails' = 0
    BY <1>2, <1>5 DEF HIDrained, MacInv, TypeOK
  <2>4. CASE radio' = "idle"
    BY <1>1, <1>3, <2>3, <2>4 DEF Protocol!Next, Protocol!Restart, protocolVars
  <2>5. CASE radio' = "data"
    <3> DEFINE c == CritOf[selfDataPkt'.pkt]
    <3>1. selfDataPkt'.pkt = mem[Selected] /\ mem[Selected] \in Packet
          /\ HasPrio(mem[Selected])
          /\ PriorityOf[mem[Selected]] = FirstOf(Waiting(q, Eligible))
      BY <1>5, <2>1, SelectedIsHeld, FreeCopyIsWhole
    <3>2. c \in {"LO", "HI"}
      BY <3>1, PacketAssumption
    <3>3. hiCritMode' => c = "HI"
      <4>1. ASSUME hiCritMode'
            PROVE  PriorityOf[mem[Selected]] \in HiCrit
        <5>1. Waiting(q, Eligible) \in SUBSET HiCrit
          BY <1>2, <4>1 DEF Eligible, Waiting
        <5>2. Waiting(q, Eligible) \in SUBSET Prio
          BY <5>1, HiCritAssumption
        <5>. QED
          BY <1>5, <3>1, <5>1, <5>2, FirstOfIsLeast
      <4>. QED
        BY <3>1, <4>1 DEF PrioritiesSeparate
    <3>4. Protocol!Transmit(c)
      BY <1>1, <1>3, <2>3, <2>5, <3>3 DEF Protocol!Transmit
    <3>. QED
      BY <3>2, <3>4 DEF Protocol!Next
  <2>. QED
    BY <2>2, <2>4, <2>5
<1>. QED
  BY <1>4, <1>5

LEMMA InterruptImplements ==
  ASSUME MacInv, PrioritiesSeparate, SlotsFit,
         AlarmFired \/ StartDone \/ NotificationReceived
  PROVE  Protocol!Next \/ UNCHANGED protocolVars
<1>0. pc' = pc
  BY DEF AlarmFired, StartDone, NotificationReceived, taskVars
<1>1. CASE StartDone /\ ~ IsSink
  BY <1>0, <1>1, SameSourcesSameState DEF StartDone, sources, modeVars, radioVars
<1>2. ASSUME NEW s, SlotEvent(s), UsesRadio(s) => ~ phyLock \/ s = 1
      PROVE  Protocol!Next \/ UNCHANGED protocolVars
  <2>1. CASE handle_tx_slot /\ ~ phyLock
    BY <1>0, <2>1, TxSlotImplements
  <2>2. CASE SendNotification
    <3>1. UNCHANGED <<modeVars, selfDataPkt>>
      BY <2>2 DEF SendNotification
    <3>2. CASE phyLock
      BY <1>0, <2>2, <3>1, <3>2, SameSourcesSameState
         DEF SendNotification, sources, modeVars
    <3>3. CASE ~ phyLock
      <4>1. radio # "data" /\ radio' # "data"
        BY <2>2, <3>3, QuietState DEF SendNotification
      <4>. QED
        BY <1>0, <3>1, <4>1 DEF protocolVars, protocolMode, protocolFails,
                                protocolOnAir, modeVars
    <3>. QED
      BY <3>2, <3>3
  <2>3. CASE UNCHANGED <<modeVars, radioVars>>
    BY <1>0, <2>3, SameSourcesSameState DEF sources, modeVars, radioVars
  <2>4. s = TxSlotOf(TOS_NODE_ID) => s # 1
    BY NodeAssumption DEF TxSlotOf
  <2>. QED
    BY <1>2, <2>1, <2>2, <2>3, <2>4 DEF SlotEvent, UsesRadio
<1>. QED
  BY <1>1, <1>2 DEF AlarmFired, StartDone, NotificationReceived

-----------------------------------------------------------------------------
LEMMA DataSentImplements ==
  ASSUME MacInv, NEW acked \in BOOLEAN, DataSent(acked)
  PROVE  Protocol!Next \/ UNCHANGED protocolVars
<1>1. /\ pc = "idle" /\ radio = "data" /\ radio' = "idle"
      /\ UNCHANGED <<hiCritMode, node_ack_fails, selfDataPkt>>
      /\ pc' \in {"dequeue", "register"}
  BY DEF DataSent, modeVars
<1>2. UNCHANGED <<protocolMode, protocolFails>>
  BY <1>1 DEF protocolMode, protocolFails
<1>3. protocolOnAir = CritOf[selfDataPkt.pkt] /\ CritOf[selfDataPkt.pkt] # "none"
  BY <1>1, PacketAssumption DEF protocolOnAir, MacInv, FrameInv
<1>4. protocolOnAir' = IF pc' = "register" THEN CritOf[selfDataPkt.pkt] ELSE "none"
  BY <1>1 DEF protocolOnAir
<1>5. CASE pc' = "register"
  BY <1>2, <1>3, <1>4, <1>5 DEF protocolVars
<1>6. CASE pc' = "dequeue"
  BY <1>2, <1>3, <1>4, <1>6 DEF Protocol!Next, Protocol!Acknowledged
<1>. QED
  BY <1>1, <1>5, <1>6

LEMMA RegisterImplements ==
  ASSUME MacInv, RegisterFailedAck
  PROVE  UNCHANGED protocolVars
<1>1. /\ pc = "register" /\ pc' = "goHigh" /\ node_ack_fails' = node_ack_fails + 1
      /\ UNCHANGED <<hiCritMode, radio, selfDataPkt>>
  BY DEF RegisterFailedAck, SendDoneStep
<1>2. node_ack_fails \in 0 .. 3
  BY <1>1 DEF MacInv, ModeInv, BEST_EFFORT_LIMIT
<1>. QED
  BY <1>1, <1>2 DEF protocolVars, protocolMode, protocolFails, protocolOnAir,
                    BEST_EFFORT_LIMIT

LEMMA CheckToGoHighImplements ==
  ASSUME MacInv, JudgeInv, CountedInv, CheckToGoHigh
  PROVE  Protocol!Missed
<1>1. /\ pc = "goHigh" /\ pc' = "bestEffort"
      /\ UNCHANGED <<node_ack_fails, radio, selfDataPkt>>
      /\ hiCritMode' = (hiCritMode \/ node_ack_fails >= CRIT_CHANGE_THRESHOLD)
  BY DEF CheckToGoHigh, SendDoneStep, MacInv, TypeOK
<1>2. /\ node_ack_fails \in 1 .. 4 /\ radio = "idle"
      /\ IF hiCritMode THEN node_ack_fails > 2 ELSE node_ack_fails <= 2
  BY <1>1 DEF MacInv, ModeInv, LockInv, CountedInv, SendDonePc,
              BEST_EFFORT_LIMIT, CRIT_CHANGE_THRESHOLD
<1>3. protocolOnAir # "none" /\ protocolOnAir' = "none"
  BY <1>1, <1>2, PacketAssumption DEF protocolOnAir, JudgeInv, SendDonePc
<1>4. /\ protocolFails = node_ack_fails - 1
      /\ protocolFails' = IF node_ack_fails < 4 THEN node_ack_fails ELSE 0
  BY <1>1 DEF protocolFails, BEST_EFFORT_LIMIT
<1>5. /\ protocolMode = IF hiCritMode THEN "HI" ELSE "LO"
      /\ protocolMode' = IF node_ack_fails \in {2, 3} THEN "HI" ELSE "LO"
  <2>1. hiCritMode \/ node_ack_fails >= CRIT_CHANGE_THRESHOLD
          <=> node_ack_fails >= 2
    BY <1>2 DEF CRIT_CHANGE_THRESHOLD
  <2>2. hiCritMode' <=> node_ack_fails >= 2
    BY <1>1, <2>1, Zenon
  <2>. QED
    BY <1>1, <1>2, <2>2 DEF protocolMode, BEST_EFFORT_LIMIT
<1>6. CASE node_ack_fails = 1
  BY <1>2, <1>3, <1>4, <1>5, <1>6 DEF Protocol!Missed
<1>7. CASE node_ack_fails \in {2, 3}
  BY <1>2, <1>3, <1>4, <1>5, <1>7 DEF Protocol!Missed
<1>8. CASE node_ack_fails = 4
  BY <1>2, <1>3, <1>4, <1>5, <1>8 DEF Protocol!Missed
<1>. QED
  BY <1>2, <1>6, <1>7, <1>8

\* The rest of sendDone is over for the protocol.
LEMMA SendDoneTailImplements ==
  ASSUME MacInv, JudgeInv, SendDoneSteps, ~ RegisterFailedAck, ~ CheckToGoHigh
  PROVE  UNCHANGED protocolVars
<1>1. /\ pc \in SendDonePc \ {"register", "goHigh"}
      /\ pc' \notin {"register", "goHigh"}
      /\ radio = "idle" /\ radio' = "idle"
  BY DEF SendDoneSteps, SendDoneStep, CheckBestEffort, ClearOne, ClearDone,
     CheckLimit, DequeueSent, CountRetransmit, Unlock, SendDonePc, MacInv, LockInv
<1>2. UNCHANGED protocolOnAir
  BY <1>1 DEF protocolOnAir
<1>3. CASE ~ ClearDone
  <2>1. UNCHANGED modeVars
    BY <1>3 DEF SendDoneSteps, CheckBestEffort, ClearOne, CheckLimit,
       DequeueSent, CountRetransmit, Unlock
  <2>. QED
    BY <1>1, <1>2, <2>1 DEF protocolVars, protocolMode, protocolFails, modeVars
<1>4. CASE ClearDone
  <2>1. /\ pc = "clear" /\ node_ack_fails' = 0 /\ hiCritMode' = FALSE
    BY <1>4 DEF ClearDone, SendDoneStep
  <2>2. node_ack_fails >= BEST_EFFORT_LIMIT /\ node_ack_fails \in Nat
    BY <2>1 DEF JudgeInv, MacInv, TypeOK
  <2>. QED
    BY <1>1, <1>2, <2>1, <2>2
       DEF protocolVars, protocolMode, protocolFails, BEST_EFFORT_LIMIT
<1>. QED
  BY <1>3, <1>4

-----------------------------------------------------------------------------
LEMMA CountedIsInductive ==
  ASSUME SlotsFit
  PROVE  MacInv /\ JudgeInv /\ CountedInv /\ [Next]_vars => CountedInv'
<1>. SUFFICES ASSUME MacInv, JudgeInv, CountedInv, [Next]_vars, pc' = "goHigh"
              PROVE  node_ack_fails' > 0
  BY DEF CountedInv
<1>1. CASE AlarmFired \/ StartDone \/ NotificationReceived
  BY <1>1, InterruptsKeepJudged DEF CountedInv, judged, SendDonePc
<1>2. CASE RegisterFailedAck
  BY <1>2 DEF RegisterFailedAck, MacInv, TypeOK
<1>3. CASE NotificationSent \/ FaultEvents \/ UNCHANGED vars
  BY <1>3 DEF NotificationSent, FaultEvents, FaultReceived, FaultClearTimerFired,
     vars, modeVars, taskVars, CountedInv
<1>4. ~ (Admit \/ AdmissionSteps) /\ ~ (\E acked \in BOOLEAN : DataSent(acked))
  BY DEF Admit, AdmissionSteps, MacSend, DataReceived, StartEnqueue, DataSent,
     DiscardStore, EnqueueCopy, EnqueueBadPriority, EnqueueInsert, NextOfBurst
<1>5. SendDoneSteps => RegisterFailedAck
  BY DEF SendDoneSteps, SendDoneStep, CheckToGoHigh, CheckBestEffort, ClearOne,
     ClearDone, CheckLimit, DequeueSent, CountRetransmit, Unlock
<1>. QED
  BY <1>1, <1>2, <1>3, <1>4, <1>5 DEF Next, RadioDone

LEMMA StepImplements ==
  ASSUME PrioritiesSeparate, SlotsFit
  PROVE  MacInv /\ JudgeInv /\ CountedInv /\ [Next]_vars
           => [Protocol!Next]_protocolVars
<1>. SUFFICES ASSUME MacInv, JudgeInv, CountedInv, [Next]_vars
              PROVE  Protocol!Next \/ UNCHANGED protocolVars
  OBVIOUS
<1>1. CASE AlarmFired \/ StartDone \/ NotificationReceived
  BY <1>1, InterruptImplements
<1>2. CASE Admit \/ AdmissionSteps
  <2>1. /\ UNCHANGED <<hiCritMode, node_ack_fails, radio, selfDataPkt>>
        /\ pc \notin SendDonePc /\ pc' \notin SendDonePc
    BY <1>2 DEF Admit, AdmissionSteps, MacSend, DataReceived, StartEnqueue,
       DiscardStore, EnqueueCopy, EnqueueBadPriority, EnqueueInsert, NextOfBurst,
       SendDonePc, modeVars, radioVars
  <2>. QED
    BY <2>1 DEF protocolVars, protocolMode, protocolFails, protocolOnAir, SendDonePc
<1>3. CASE NotificationSent \/ FaultEvents \/ UNCHANGED vars
  <2>1. /\ UNCHANGED <<hiCritMode, node_ack_fails, pc, selfDataPkt>>
        /\ radio' = "data" <=> radio = "data"
    BY <1>3 DEF NotificationSent, FaultEvents, FaultReceived,
       FaultClearTimerFired, vars, modeVars, radioVars, taskVars
  <2>. QED
    BY <2>1 DEF protocolVars, protocolMode, protocolFails, protocolOnAir
<1>4. CASE \E acked \in BOOLEAN : DataSent(acked)
  BY <1>4, DataSentImplements
<1>5. CASE SendDoneSteps
  BY <1>5, RegisterImplements, CheckToGoHighImplements, SendDoneTailImplements
     DEF Protocol!Next
<1>. QED
  BY <1>1, <1>2, <1>3, <1>4, <1>5 DEF Next, RadioDone

\* Whatever the order of admissions, slots, faults, notifications and
\* answers, a node follows the criticality protocol: HI from the second
\* missed acknowledgement to the fourth or to the last HI frame, and only HI
\* frames meanwhile (TdmaMacP.nc:238-281, 522-645, 925-1012).
THEOREM MacImplementsCritMode ==
  ASSUME PrioritiesSeparate, SlotsFit
  PROVE  Spec => ImplementsCritMode
<1>1. Init => JudgeInv /\ CountedInv /\ Protocol!Init
  BY DEF Init, JudgeInv, CountedInv, SendDonePc, Protocol!Init, protocolMode,
     protocolFails, protocolOnAir, BEST_EFFORT_LIMIT
<1>2. MacInv /\ JudgeInv /\ CountedInv /\ [Next]_vars
        => [Protocol!Next]_(Protocol!vars)
  BY StepImplements DEF protocolVars, Protocol!vars
<1>. QED
  BY <1>1, <1>2, MacInvHolds, JudgeIsInductive, CountedIsInductive, PTL
     DEF Spec, ImplementsCritMode, Protocol!Spec
=============================================================================
