--------------------------- MODULE TdmaMacHIProofs ---------------------------
(***************************************************************************)
(* What the MAC promises its HI packets, for every node, packet set and    *)
(* ring capacity, given priorities that separate the criticalities: in HI  *)
(* mode nothing LO is queued, and a HI frame is not given up early.        *)
(***************************************************************************)
EXTENDS TdmaMacProofs

-----------------------------------------------------------------------------
(* Sizes of rings under the queue operations.                              *)

\* Only enqueue makes a ring longer, and only the ring it is given.
LEMMA ShrinkingOperations ==
  ASSUME NEW s, QueueInv(s), NEW p \in Prio, IsEmpty(s[p])
  PROVE  /\ IsEmpty(Clear(s)[p]) /\ IsEmpty(ClearLO(s)[p])
         /\ \A r : IsEmpty(DequeuePrio(s, r)[p])
<1>1. s \in [Prio -> Ring]
  BY DEF QueueInv, PrioQueue
<1>2. Drain(s[p]) = s[p]
  BY DEF Drain
<1>3. \A r : DequeuePrio(s, r)[p] = s[p]
  BY <1>1 DEF DequeuePrio, Dequeue
<1>. QED
  BY <1>2, <1>3 DEF Clear, ClearLO

LEMMA ClearLOEmptiesLO ==
  ASSUME NEW s, QueueInv(s), NEW p \in Prio \ HiCrit
  PROVE  IsEmpty(ClearLO(s)[p])
  BY RingsOfQueue, DrainKeepsInv DEF ClearLO, IsEmpty

LEMMA EnqueueElsewhere ==
  ASSUME NEW s, QueueInv(s), NEW v, NEW p \in Prio, NEW r, r # p
  PROVE  EnqueuePrio(s, v, r)[p] = s[p]
  BY DEF EnqueuePrio, QueueInv, PrioQueue

LEMMA EnqueueDoesNotShrink ==
  ASSUME NEW s, QueueInv(s), NEW v, NEW p \in Prio, NEW r
  PROVE  ~ (EnqueuePrio(s, v, r)[p].size < s[p].size)
<1>1. s[p].size \in Nat /\ s \in [Prio -> Ring] /\ s[p] \in Ring
  BY RingsOfQueue DEF QueueInv, PrioQueue
<1>2. Enqueue(s[p], v).size \in {s[p].size, s[p].size + 1}
  BY <1>1 DEF Enqueue, Ring
<1>3. EnqueuePrio(s, v, r)[p] \in {s[p], Enqueue(s[p], v)}
  BY <1>1 DEF EnqueuePrio
<1>. QED
  BY <1>1, <1>2, <1>3

-----------------------------------------------------------------------------
(* HI mode and the LO rings.                                               *)

\* An admission that is under way in HI mode is not for a LO ring.
NoLOInv ==
  /\ HIModeHasNoLO
  /\ hiCritMode /\ pc \in {"copy", "insert"} /\ HasPrio(arg)
       => PriorityOf[arg] \in HiCrit

\* Steps that neither raise the mode, nor lengthen a ring, nor start an
\* admission.
Harmless ==
  /\ hiCritMode' => hiCritMode
  /\ \A p \in Prio : IsEmpty(q[p]) => IsEmpty(q'[p])
  /\ pc' \in {"copy", "insert"} => pc \in {"copy", "insert"} /\ arg' = arg

LEMMA HarmlessKeepsNoLO ==
  ASSUME NoLOInv, Harmless
  PROVE  NoLOInv'
  BY DEF NoLOInv, Harmless, HIModeHasNoLO, HasPrio

LEMMA SlotEventLowersMode ==
  ASSUME MacInv, NEW s \in 0 .. SLOTS_IN_FRAME - 1, SlotEvent(s)
  PROVE  hiCritMode' => hiCritMode
  BY SlotEventKeeps DEF SlotEventPost, ModeKeptOrReset, modeVars

LEMMA InterruptsAreHarmless ==
  ASSUME MacInv, AlarmFired \/ StartDone \/ NotificationReceived
  PROVE  Harmless
<1>1. /\ 1 \in 0 .. SLOTS_IN_FRAME - 1
      /\ (slot + 1) % SLOTS_IN_FRAME \in 0 .. SLOTS_IN_FRAME - 1
  BY NodeAssumption DEF MacInv, TypeOK
<1>2. hiCritMode' => hiCritMode
  BY <1>1, SlotEventLowersMode
     DEF AlarmFired, StartDone, NotificationReceived, modeVars
<1>3. q' = q \/ q' = Clear(q)
  BY DEF AlarmFired, StartDone, NotificationReceived, queueVars
<1>4. UNCHANGED taskVars
  BY DEF AlarmFired, StartDone, NotificationReceived
<1>. QED
  BY <1>2, <1>3, <1>4, ShrinkingOperations DEF Harmless, taskVars, MacInv, TypeOK

LEMMA AdmissionKeepsNoLO ==
  ASSUME MacInv, NoLOInv, PrioritiesSeparate, Forwarded = {},
         Admit \/ AdmissionSteps
  PROVE  NoLOInv'
<1>1. CASE Admit
  <2>1. PICK pk \in Packet : MacSend(pk)
    BY <1>1 DEF Admit
  <2>2. UNCHANGED <<q, hiCritMode>>
    BY <2>1 DEF MacSend, queueVars, modeVars
  <2>3. CASE pc' = "discard"
    BY <2>2, <2>3 DEF NoLOInv, HIModeHasNoLO
  <2>4. CASE arg' = pk /\ ~ (hiCritMode /\ CritOf[pk] = "LO")
    <3>1. CritOf[pk] \in {"LO", "HI"}
      BY PacketAssumption
    <3>. QED
      BY <2>2, <2>4, <3>1 DEF NoLOInv, HIModeHasNoLO, PrioritiesSeparate, HasPrio
  <2>. QED
    BY <2>1, <2>3, <2>4 DEF MacSend, StartEnqueue
<1>2. CASE DiscardStore
  BY <1>2, HarmlessKeepsNoLO DEF DiscardStore, Harmless, queueVars, modeVars
<1>3. CASE EnqueueCopy
  BY <1>3, HarmlessKeepsNoLO DEF EnqueueCopy, Harmless, modeVars
<1>4. CASE EnqueueBadPriority
  BY <1>4, HarmlessKeepsNoLO
     DEF EnqueueBadPriority, NextOfBurst, Harmless, queueVars, modeVars
<1>5. CASE EnqueueInsert
  <2>1. /\ pc = "insert" /\ q' = EnqueuePrio(q, ptr, PriorityOf[arg])
        /\ UNCHANGED hiCritMode
        /\ pc' \in {"copy", "insert"} => arg' = arg
    BY <1>5 DEF EnqueueInsert, NextOfBurst, modeVars
  <2>2. HasPrio(arg) /\ QueueInv(q)
    BY <2>1 DEF MacInv, TypeOK, TaskInv
  <2>3. hiCritMode => \A p \in Prio \ HiCrit : q'[p] = q[p]
    BY <2>1, <2>2, EnqueueElsewhere DEF NoLOInv
  <2>. QED
    BY <2>1, <2>3 DEF NoLOInv, HIModeHasNoLO, HasPrio
<1>. QED
  BY <1>1, <1>2, <1>3, <1>4, <1>5 DEF AdmissionSteps

LEMMA SendDoneKeepsNoLO ==
  ASSUME MacInv, NoLOInv, SendDoneSteps
  PROVE  NoLOInv'
<1>1. QueueInv(q)
  BY DEF MacInv, TypeOK
<1>2. CASE CheckToGoHigh
  <2>1. pc' = "bestEffort"
    BY <1>2 DEF CheckToGoHigh, SendDoneStep
  <2>2. CASE q' = ClearLO(q)
    BY <1>1, <2>1, <2>2, ClearLOEmptiesLO DEF NoLOInv, HIModeHasNoLO
  <2>3. CASE UNCHANGED <<hiCritMode, q>>
    BY <2>1, <2>3 DEF NoLOInv, HIModeHasNoLO
  <2>. QED
    BY <1>2, <2>2, <2>3 DEF CheckToGoHigh
<1>3. CASE ~ CheckToGoHigh
  <2>1. pc' \notin {"copy", "insert"}
    BY <1>3 DEF SendDoneSteps, SendDoneStep, RegisterFailedAck, CheckBestEffort,
       ClearOne, ClearDone, CheckLimit, DequeueSent, CountRetransmit, Unlock
  <2>2. q' = q \/ \E r : q' = DequeuePrio(q, r)
    BY <1>3 DEF SendDoneSteps, RegisterFailedAck, CheckBestEffort, ClearOne,
       ClearDone, CheckLimit, DequeueSent, CountRetransmit, Unlock
  <2>3. hiCritMode' => hiCritMode
    BY <1>3 DEF SendDoneSteps, RegisterFailedAck, CheckBestEffort, ClearOne,
       ClearDone, CheckLimit, DequeueSent, CountRetransmit, Unlock, modeVars
  <2>4. Harmless
    BY <1>1, <2>1, <2>2, <2>3, ShrinkingOperations DEF Harmless
  <2>. QED
    BY <2>4, HarmlessKeepsNoLO
<1>. QED
  BY <1>2, <1>3

LEMMA NoLOIsInductive ==
  ASSUME PrioritiesSeparate, Forwarded = {}
  PROVE  MacInv /\ NoLOInv /\ [Next]_vars => NoLOInv'
<1>. SUFFICES ASSUME MacInv, NoLOInv, [Next]_vars
              PROVE  NoLOInv'
  OBVIOUS
<1>1. CASE AlarmFired \/ StartDone \/ NotificationReceived
  BY <1>1, InterruptsAreHarmless, HarmlessKeepsNoLO
<1>2. CASE Admit \/ AdmissionSteps
  BY <1>2, AdmissionKeepsNoLO
<1>3. CASE RadioDone \/ FaultEvents \/ UNCHANGED vars
  <2>1. UNCHANGED <<q, hiCritMode, arg>> /\ (pc' = pc \/ pc' \in SendDonePc)
    BY <1>3 DEF RadioDone, FaultEvents, NotificationSent, DataSent,
       FaultReceived, FaultClearTimerFired, vars, queueVars, modeVars, taskVars,
       SendDonePc
  <2>. QED
    BY <2>1, HarmlessKeepsNoLO DEF Harmless, SendDonePc
<1>4. CASE SendDoneSteps
  BY <1>4, SendDoneKeepsNoLO
<1>. QED
  BY <1>1, <1>2, <1>3, <1>4 DEF Next

\* A node that forwards nothing never has a LO packet queued in HI mode,
\* even when slots preempt its tasks and the radio refuses frames: the step
\* that raises the mode drops them all and no admission that is under way
\* adds one (TdmaMacP.nc:250-270, 801).
THEOREM NoLOInHIMode ==
  ASSUME PrioritiesSeparate, Forwarded = {}
  PROVE  Spec => []HIModeHasNoLO
<1>1. Init => NoLOInv
  BY DEF Init, NoLOInv, HIModeHasNoLO
<1>2. NoLOInv => HIModeHasNoLO
  BY DEF NoLOInv
<1>. QED
  BY <1>1, <1>2, MacInvHolds, NoLOIsInductive, PTL DEF Spec

-----------------------------------------------------------------------------
(* HI frames and the failures they survive, for a MAC whose transmissions  *)
(* end before the node's next slot.                                        *)

\* What sendDone relies on while no slot touches the mode or the message:
\* it judges the frame it was called for, gives up everything only after a
\* fourth failure, and gives up a single frame only if it is a LO one.
JudgeInv ==
  /\ pc \in SendDonePc => /\ selfDataPkt.pkt \in Packet
                          /\ HasPrio(selfDataPkt.pkt)
                          /\ sentPrio = PriorityOf[selfDataPkt.pkt]
  /\ pc = "clear" => hiCritMode /\ node_ack_fails >= BEST_EFFORT_LIMIT
  /\ pc = "dequeue" => streak = 0 \/ CritOf[selfDataPkt.pkt] = "LO"
  /\ pc \in SendDonePc /\ streak = 0 => pc \in {"dequeue", "unlock"}

judged == <<pc, selfDataPkt, sentPrio, hiCritMode, node_ack_fails, streak>>

\* No slot comes between a task and what it judges.
LEMMA InterruptsKeepJudged ==
  ASSUME MacInv, SlotsFit, AlarmFired \/ StartDone \/ NotificationReceived
  PROVE  pc' \notin SendDonePc \/ UNCHANGED judged
<1>1. CASE pc \in SendDonePc
  <2>1. AlarmFired /\ phyLock
    BY <1>1 DEF StartDone, NotificationReceived, SendDonePc, MacInv, LockInv,
                LockCoversTransmission
  <2>2. PICK s : ~ UsesRadio(s) /\ SlotEvent(s)
    BY <2>1 DEF AlarmFired
  <2>3. UNCHANGED <<modeVars, radioVars, taskVars, streak>>
    BY <2>1, <2>2 DEF SlotEvent, UsesRadio, AlarmFired
  <2>. QED
    BY <2>3 DEF judged, modeVars, radioVars, taskVars
<1>2. CASE pc \notin SendDonePc
  BY <1>2 DEF AlarmFired, StartDone, NotificationReceived, taskVars
<1>. QED
  BY <1>1, <1>2

LEMMA JudgedKeepsJudgeInv ==
  ASSUME JudgeInv, pc' \notin SendDonePc \/ UNCHANGED judged
  PROVE  JudgeInv'
  BY DEF JudgeInv, judged, HasPrio, SendDonePc

LEMMA SendDoneKeepsJudgeInv ==
  ASSUME MacInv, JudgeInv, SendDoneSteps
  PROVE  JudgeInv'
<1>1. UNCHANGED <<selfDataPkt, streak>> /\ pc \in SendDonePc
  BY DEF SendDoneSteps, SendDoneStep, RegisterFailedAck, CheckToGoHigh,
     CheckBestEffort, ClearOne, ClearDone, CheckLimit, DequeueSent,
     CountRetransmit, Unlock, SendDonePc
<1>2. pc' = "idle" \/ sentPrio' = sentPrio
  BY DEF SendDoneSteps, SendDoneStep, RegisterFailedAck, CheckToGoHigh,
     CheckBestEffort, ClearOne, ClearDone, CheckLimit, DequeueSent,
     CountRetransmit, Unlock
<1>3. pc' \in SendDonePc => /\ selfDataPkt'.pkt \in Packet
                            /\ HasPrio(selfDataPkt'.pkt)
                            /\ sentPrio' = PriorityOf[selfDataPkt'.pkt]
  BY <1>1, <1>2 DEF JudgeInv, SendDonePc
<1>4. ASSUME pc' = "clear"
      PROVE  hiCritMode' /\ node_ack_fails' >= BEST_EFFORT_LIMIT
  <2>1. CheckBestEffort \/ ClearOne
    BY <1>4 DEF SendDoneSteps, SendDoneStep, RegisterFailedAck, CheckToGoHigh,
       ClearDone, CheckLimit, DequeueSent, CountRetransmit, Unlock
  <2>2. UNCHANGED modeVars
    BY <2>1 DEF CheckBestEffort, ClearOne
  <2>3. hiCritMode /\ node_ack_fails >= BEST_EFFORT_LIMIT
    <3>1. CASE ClearOne
      BY <3>1 DEF ClearOne, SendDoneStep, JudgeInv
    <3>2. CASE CheckBestEffort
      BY <1>4, <3>2 DEF CheckBestEffort, SendDoneStep, MacInv, ModeInv,
                        CRIT_CHANGE_THRESHOLD, BEST_EFFORT_LIMIT
    <3>. QED
      BY <2>1, <3>1, <3>2
  <2>. QED
    BY <2>2, <2>3 DEF modeVars
<1>5. ASSUME pc' = "dequeue"
      PROVE  CritOf[selfDataPkt'.pkt] = "LO"
  <2>1. CheckLimit
    BY <1>5 DEF SendDoneSteps, SendDoneStep, RegisterFailedAck, CheckToGoHigh,
       CheckBestEffort, ClearOne, ClearDone, DequeueSent, CountRetransmit, Unlock
  <2>2. pc = "limit" /\ node_ack_fails >= RetransmitLimit(selfDataPkt.pkt)
    BY <1>5, <2>1 DEF CheckLimit, SendDoneStep
  <2>3. node_ack_fails \in 0 .. 3
    BY <2>2 DEF MacInv, ModeInv, BEST_EFFORT_LIMIT
  <2>4. selfDataPkt.pkt \in Packet
    BY <1>1 DEF JudgeInv
  <2>5. CritOf[selfDataPkt.pkt] # "HI"
    BY <2>2, <2>3, <2>4 DEF RetransmitLimit, MCC_HI_CRIT_RT_LIMIT
  <2>. QED
    BY <1>1, <2>4, <2>5, PacketAssumption
<1>6. pc' \in SendDonePc /\ streak' = 0 => pc' \in {"dequeue", "unlock"}
  BY <1>1 DEF SendDoneSteps, SendDoneStep, RegisterFailedAck, CheckToGoHigh,
     CheckBestEffort, ClearOne, ClearDone, CheckLimit, DequeueSent,
     CountRetransmit, Unlock, JudgeInv, SendDonePc
<1>. QED
  BY <1>3, <1>4, <1>5, <1>6 DEF JudgeInv, HasPrio

LEMMA JudgeIsInductive ==
  ASSUME SlotsFit
  PROVE  MacInv /\ JudgeInv /\ [Next]_vars => JudgeInv'
<1>. SUFFICES ASSUME MacInv, JudgeInv, [Next]_vars
              PROVE  JudgeInv'
  OBVIOUS
<1>1. CASE AlarmFired \/ StartDone \/ NotificationReceived
  BY <1>1, InterruptsKeepJudged, JudgedKeepsJudgeInv
<1>2. CASE Admit \/ AdmissionSteps
  <2>1. pc' \notin SendDonePc
    BY <1>2 DEF Admit, AdmissionSteps, MacSend, DataReceived, StartEnqueue,
       DiscardStore, EnqueueCopy, EnqueueBadPriority, EnqueueInsert, NextOfBurst,
       SendDonePc
  <2>. QED
    BY <2>1, JudgedKeepsJudgeInv
<1>3. CASE NotificationSent \/ FaultEvents \/ UNCHANGED vars
  <2>1. UNCHANGED judged
    BY <1>3 DEF NotificationSent, FaultEvents, FaultReceived,
       FaultClearTimerFired, vars, modeVars, radioVars, taskVars, judged
  <2>. QED
    BY <2>1, JudgedKeepsJudgeInv
<1>4. ASSUME NEW acked \in BOOLEAN, DataSent(acked)
      PROVE  JudgeInv'
  <2>1. /\ radio = "data" /\ UNCHANGED selfDataPkt
        /\ sentPrio' = PriorityOf[selfDataPkt.pkt]
        /\ \/ pc' = "register" /\ streak' # 0
           \/ pc' = "dequeue" /\ streak' = 0
    BY <1>4 DEF DataSent, SmallerOf, BEST_EFFORT_LIMIT, MacInv, TypeOK
  <2>. QED
    BY <2>1 DEF JudgeInv, MacInv, FrameInv, HasPrio
<1>5. CASE SendDoneSteps
  BY <1>5, SendDoneKeepsJudgeInv
<1>. QED
  BY <1>1, <1>2, <1>3, <1>4, <1>5 DEF Next, RadioDone

LEMMA OnlyGivenUpLate ==
  ASSUME MacInv, JudgeInv, PrioritiesSeparate, [Next]_vars,
         NEW p \in HiCrit, q'[p].size < q[p].size
  PROVE  \/ pc = "dequeue" /\ streak = 0
         \/ pc = "clear" /\ node_ack_fails >= BEST_EFFORT_LIMIT /\ hiCritMode
         \/ ~ slotterInit /\ slotterInit'
<1>1. QueueInv(q) /\ p \in Prio /\ q[p].size \in Nat /\ q \in [Prio -> Ring]
  BY HiCritAssumption, RingsOfQueue DEF MacInv, TypeOK, QueueInv, PrioQueue
<1>2. q' # q
  BY <1>1
<1>3. CASE NotificationReceived
  BY <1>2, <1>3, Zenon DEF NotificationReceived
<1>4. CASE EnqueueInsert
  BY <1>1, <1>4, EnqueueDoesNotShrink DEF EnqueueInsert
<1>5. CASE CheckToGoHigh
  <2>1. q' = ClearLO(q)
    BY <1>2, <1>5 DEF CheckToGoHigh
  <2>. QED
    BY <1>1, <2>1 DEF ClearLO
<1>6. CASE ClearOne
  BY <1>6 DEF ClearOne, SendDoneStep, JudgeInv
<1>7. CASE DequeueSent
  <2>1. pc = "dequeue" /\ q' = DequeuePrio(q, sentPrio)
    BY <1>7 DEF DequeueSent, SendDoneStep
  <2>2. sentPrio = p
    BY <1>1, <2>1 DEF DequeuePrio
  <2>3. CritOf[selfDataPkt.pkt] = "HI"
    BY <2>1, <2>2 DEF JudgeInv, SendDonePc, PrioritiesSeparate
  <2>. QED
    BY <2>1, <2>3 DEF JudgeInv
<1>8. AlarmFired \/ StartDone \/ Admit \/ RadioDone \/ FaultEvents
        \/ DiscardStore \/ EnqueueCopy \/ EnqueueBadPriority
        \/ RegisterFailedAck \/ CheckBestEffort \/ ClearDone \/ CheckLimit
        \/ CountRetransmit \/ Unlock \/ UNCHANGED vars
      => UNCHANGED q
  BY DEF AlarmFired, StartDone, Admit, RadioDone, FaultEvents, MacSend,
     DataReceived, NotificationSent, DataSent, FaultReceived,
     FaultClearTimerFired, DiscardStore, EnqueueCopy, EnqueueBadPriority,
     RegisterFailedAck, CheckBestEffort, ClearDone, CheckLimit, CountRetransmit,
     Unlock, vars, queueVars
<1>. QED
  BY <1>2, <1>3, <1>4, <1>5, <1>6, <1>7, <1>8 DEF Next, AdmissionSteps, SendDoneSteps

\* A HI frame leaves its ring only acknowledged, with everything else in HI
\* mode after the fourth failure, or at the first synchronisation: the limit
\* of its criticality is never reached by itself (TdmaMacP.nc:324-335,
\* 941-947, 969-992).
THEOREM HIFramesAreKept ==
  ASSUME PrioritiesSeparate, SlotsFit
  PROVE  Spec => HIFramesSurvive
<1>1. Init => JudgeInv
  BY DEF Init, JudgeInv, SendDonePc
<1>2. MacInv /\ JudgeInv /\ [Next]_vars =>
        [\A p \in HiCrit : q'[p].size < q[p].size
           => \/ pc = "dequeue" /\ streak = 0
              \/ pc = "clear" /\ node_ack_fails >= BEST_EFFORT_LIMIT /\ hiCritMode
              \/ ~ slotterInit /\ slotterInit']_vars
  BY OnlyGivenUpLate
<1>. QED
  BY <1>1, <1>2, MacInvHolds, JudgeIsInductive, PTL DEF Spec, HIFramesSurvive

-----------------------------------------------------------------------------
(* The frame on the air and the head of its ring.                          *)

\* The ring the frame in selfDataPkt was taken from.
RingOut == q[PriorityOf[selfDataPkt.pkt]]

HeadInv ==
  /\ radio = "data" => IsSink \/ slotterInit
  /\ FrameUndecided => ~ IsEmpty(RingOut) /\ HeadOf(RingOut) = sentPtr

outVars == <<radio, pc, streak, selfDataPkt, sentPtr>>

LEMMA UndecidedIsOut ==
  ASSUME MacInv, JudgeInv, FrameUndecided
  PROVE  phyLock /\ PriorityOf[selfDataPkt.pkt] \in Prio
  BY PrioIsRange DEF FrameUndecided, MacInv, FrameInv, JudgeInv, LockInv,
     LockCoversTransmission, SendDonePc, HasPrio

\* A step that leaves the frame and the head of its ring alone.
LEMMA HeadKept ==
  ASSUME MacInv, JudgeInv, HeadInv,
         radio' = "data" => radio = "data" /\ (slotterInit => slotterInit'),
         FrameUndecided' => FrameUndecided /\ UNCHANGED <<selfDataPkt, sentPtr>>,
         FrameUndecided /\ FrameUndecided' =>
           \A p \in Prio : ~ IsEmpty(q[p]) =>
             ~ IsEmpty(q'[p]) /\ HeadOf(q'[p]) = HeadOf(q[p])
  PROVE  HeadInv'
<1>1. radio' = "data" => (IsSink \/ slotterInit)'
  BY DEF HeadInv, IsSink
<1>2. FrameUndecided' => ~ IsEmpty(RingOut)' /\ HeadOf(RingOut)' = sentPtr'
  BY UndecidedIsOut DEF HeadInv, RingOut, IsEmpty, HeadOf
<1>. QED
  BY <1>1, <1>2 DEF HeadInv

\* No node sends a frame of its own in the notification slot.
LEMMA SlotOneSendsNoFrame ==
  ASSUME SlotEvent(1)
  PROVE  /\ UNCHANGED <<selfDataPkt, sentPtr>>
         /\ radio' = radio \/ (radio' = "notification" /\ ~ phyLock)
  BY NodeAssumption DEF SlotEvent, TxSlotOf, UsesRadio, SendNotification, radioVars

LEMMA LockedInterruptKeepsHead ==
  ASSUME MacInv, JudgeInv, HeadInv, SlotsFit, phyLock,
         AlarmFired \/ StartDone \/ NotificationReceived
  PROVE  HeadInv'
<1>1. UNCHANGED outVars
  <2>1. CASE AlarmFired
    <3>1. PICK s : ~ UsesRadio(s) /\ SlotEvent(s)
      BY <2>1 DEF AlarmFired
    <3>2. UNCHANGED <<radioVars, taskVars, streak>>
      BY <2>1, <3>1 DEF SlotEvent, UsesRadio, AlarmFired
    <3>. QED
      BY <3>2 DEF outVars, radioVars, taskVars
  <2>2. CASE StartDone \/ NotificationReceived
    BY <2>2, SlotOneSendsNoFrame
       DEF StartDone, NotificationReceived, outVars, taskVars, radioVars
  <2>. QED
    BY <2>1, <2>2
<1>2. FrameUndecided' <=> FrameUndecided
  BY <1>1 DEF FrameUndecided, outVars
<1>3. slotterInit => slotterInit'
  BY DEF AlarmFired, StartDone, NotificationReceived, statusVars
<1>4. FrameUndecided => q' = q
  <2>1. AlarmFired \/ StartDone => q' = q
    BY DEF AlarmFired, StartDone, queueVars
  <2>2. NotificationReceived => pc = "idle" /\ ~ IsSink /\ (slotterInit => q' = q)
    BY DEF NotificationReceived
  <2>3. FrameUndecided /\ pc = "idle" => IsSink \/ slotterInit
    BY DEF FrameUndecided, HeadInv
  <2>. QED
    BY <2>1, <2>2, <2>3
<1>. QED
  BY <1>1, <1>2, <1>3, <1>4, HeadKept DEF outVars

LEMMA FreeInterruptKeepsHead ==
  ASSUME MacInv, ~ phyLock, AlarmFired \/ StartDone \/ NotificationReceived
  PROVE  HeadInv'
<1>1. radio = "idle" /\ pc \notin SendDonePc /\ pc' = pc
  BY DEF MacInv, LockInv, LockCoversTransmission, AlarmFired, StartDone,
     NotificationReceived, taskVars
<1>2. CASE radio' # "data"
  BY <1>1, <1>2 DEF HeadInv, FrameUndecided, SendDonePc
<1>3. CASE radio' = "data"
  <2>1. AlarmFired
    BY <1>1, <1>3, SlotOneSendsNoFrame DEF StartDone, NotificationReceived, radioVars
  <2>2. PICK s : SlotEvent(s)
    BY <2>1 DEF AlarmFired
  <2>3. handle_tx_slot
    BY <1>1, <1>3, <2>2 DEF SlotEvent, SendNotification, radioVars
  <2>4. Waiting(q, Eligible) # {} /\ HandToRadio(Selected)
    BY <1>1, <1>3, <2>3 DEF handle_tx_slot, NothingToSend, RadioLocked, radioVars
  <2>5. selfDataPkt'.pkt = mem[Selected] /\ sentPtr' = Selected
    <3>1. selfDataPkt'.pkt = mem[Selected]
      BY <2>4, FreeCopyIsWhole
    <3>. QED
      BY <1>1, <1>3, <2>4, <3>1 DEF HandToRadio
  <2>6. q' = q /\ slotterInit' = slotterInit /\ (IsSink \/ slotterInit)
    <3>1. init = FALSE => ~ IsSink \/ SlotterOn = FALSE
      BY DEF SlotterOn
    <3>. QED
      BY <2>1 DEF AlarmFired, SlotterOn, queueVars, statusVars
  <2>. QED
    BY <2>4, <2>5, <2>6, SelectedIsHeld DEF HeadInv, RingOut, IsEmpty, HeadOf, IsSink
<1>. QED
  BY <1>2, <1>3

LEMMA EnqueueKeepsHeads ==
  ASSUME NEW s, QueueInv(s), NEW v \in EltOrNull, NEW r, NEW p \in Prio,
         ~ IsEmpty(s[p])
  PROVE  /\ ~ IsEmpty(EnqueuePrio(s, v, r)[p])
         /\ HeadOf(EnqueuePrio(s, v, r)[p]) = HeadOf(s[p])
<1>1. /\ s[p] \in Ring /\ s \in [Prio -> Ring]
      /\ s[p].tail = Position(s[p], s[p].size)
  BY DEF QueueInv, PrioQueue, RingInv
<1>2. s[p].size < QUEUE_SIZE => s[p].tail # s[p].head
  BY <1>1, QueueSizeAssumption DEF Ring, Cell, Position, IsEmpty
<1>3. ~ IsEmpty(Enqueue(s[p], v)) /\ HeadOf(Enqueue(s[p], v)) = HeadOf(s[p])
  BY <1>1, <1>2 DEF Enqueue, IsEmpty, HeadOf, Ring
<1>4. EnqueuePrio(s, v, r)[p] \in {s[p], Enqueue(s[p], v)}
  BY <1>1 DEF EnqueuePrio
<1>. QED
  BY <1>3, <1>4

LEMMA HeadIsInductive ==
  ASSUME SlotsFit
  PROVE  MacInv /\ JudgeInv /\ HeadInv /\ [Next]_vars => HeadInv'
<1>. SUFFICES ASSUME MacInv, JudgeInv, HeadInv, [Next]_vars
              PROVE  HeadInv'
  OBVIOUS
<1>1. CASE AlarmFired \/ StartDone \/ NotificationReceived
  BY <1>1, LockedInterruptKeepsHead, FreeInterruptKeepsHead
<1>2. CASE EnqueueInsert
  <2>1. /\ q' = EnqueuePrio(q, ptr, PriorityOf[arg])
        /\ UNCHANGED <<radio, selfDataPkt, sentPtr, slotterInit>>
        /\ pc = "insert" /\ pc' \in {"idle", "copy"}
    BY <1>2 DEF EnqueueInsert, NextOfBurst, radioVars, statusVars
  <2>2. FrameUndecided' => FrameUndecided
    BY <2>1 DEF FrameUndecided
  <2>3. QueueInv(q) /\ ptr \in EltOrNull
    BY DEF MacInv, TypeOK
  <2>. QED
    BY <2>1, <2>2, <2>3, EnqueueKeepsHeads, HeadKept
<1>3. CASE Admit \/ DiscardStore \/ EnqueueCopy \/ EnqueueBadPriority
  <2>1. /\ UNCHANGED <<q, radio, selfDataPkt, sentPtr, slotterInit>>
        /\ pc' \notin SendDonePc
    BY <1>3 DEF Admit, MacSend, DataReceived, StartEnqueue, DiscardStore,
       EnqueueCopy, EnqueueBadPriority, NextOfBurst, queueVars, radioVars,
       statusVars, SendDonePc
  <2>2. FrameUndecided' => FrameUndecided
    BY <2>1 DEF FrameUndecided, SendDonePc
  <2>. QED
    BY <2>1, <2>2, HeadKept
<1>4. CASE NotificationSent \/ FaultEvents \/ UNCHANGED vars
  <2>1. /\ UNCHANGED <<q, selfDataPkt, sentPtr, slotterInit, pc, streak>>
        /\ radio' = "data" => radio = "data"
    BY <1>4 DEF NotificationSent, FaultEvents, FaultReceived,
       FaultClearTimerFired, vars, queueVars, statusVars, radioVars, taskVars
  <2>2. FrameUndecided' => FrameUndecided
    BY <2>1 DEF FrameUndecided
  <2>. QED
    BY <2>1, <2>2, HeadKept
<1>5. ASSUME NEW acked \in BOOLEAN, DataSent(acked)
      PROVE  HeadInv'
  <2>1. /\ UNCHANGED <<q, selfDataPkt, sentPtr, slotterInit>>
        /\ radio = "data" /\ radio' = "idle"
    BY <1>5 DEF DataSent, queueVars, statusVars
  <2>. QED
    BY <2>1, HeadKept DEF FrameUndecided
<1>6. CASE SendDoneSteps
  <2>1. UNCHANGED <<radio, selfDataPkt, streak, slotterInit>>
    BY <1>6 DEF SendDoneSteps, SendDoneStep, RegisterFailedAck, CheckToGoHigh,
       CheckBestEffort, ClearOne, ClearDone, CheckLimit, DequeueSent,
       CountRetransmit, Unlock, statusVars
  <2>2. radio = "idle"
    BY <1>6 DEF SendDoneSteps, SendDoneStep, RegisterFailedAck, CheckToGoHigh,
       CheckBestEffort, ClearOne, ClearDone, CheckLimit, DequeueSent,
       CountRetransmit, Unlock, MacInv, LockInv, SendDonePc
  <2>3. CASE RegisterFailedAck
    BY <2>1, <2>2, <2>3, HeadKept DEF RegisterFailedAck, SendDoneStep, FrameUndecided
  <2>4. CASE CheckLimit
    <3>1. pc = "limit" /\ UNCHANGED <<q, sentPtr>>
      BY <2>4 DEF CheckLimit, SendDoneStep
    <3>2. FrameUndecided' => streak = 0
      BY <2>1, <2>2, <2>4 DEF CheckLimit, SendDoneStep, FrameUndecided
    <3>3. FrameUndecided' => FALSE
      BY <3>1, <3>2 DEF JudgeInv, SendDonePc
    <3>. QED
      BY <2>1, <2>2, <3>3 DEF HeadInv
  <2>5. CASE ~ RegisterFailedAck /\ ~ CheckLimit
    <3>1. pc' \notin {"register", "goHigh", "dequeue"}
      BY <1>6, <2>5 DEF SendDoneSteps, SendDoneStep, CheckToGoHigh,
         CheckBestEffort, ClearOne, ClearDone, DequeueSent, CountRetransmit, Unlock
    <3>. QED
      BY <2>1, <2>2, <3>1 DEF HeadInv, FrameUndecided
  <2>. QED
    BY <2>3, <2>4, <2>5
<1>. QED
  BY <1>1, <1>2, <1>3, <1>4, <1>5, <1>6 DEF Next, AdmissionSteps, RadioDone

\* An acknowledgement removes the frame it acknowledges: while the frame is
\* out, whatever is admitted, its pointer stays the head of its ring
\* (TdmaMacP.nc:726-753, 941-947).
THEOREM SentFrameStaysHead ==
  ASSUME SlotsFit
  PROVE  Spec => []SentFrameIsHead
<1>1. Init => JudgeInv /\ HeadInv
  BY DEF Init, JudgeInv, HeadInv, FrameUndecided, SendDonePc
<1>2. MacInv /\ JudgeInv /\ HeadInv => SentFrameIsHead
  BY UndecidedIsOut
     DEF HeadInv, JudgeInv, SentFrameIsHead, RingOut, FrameUndecided, SendDonePc
<1>. QED
  BY <1>1, <1>2, MacInvHolds, JudgeIsInductive, HeadIsInductive, PTL DEF Spec

-----------------------------------------------------------------------------
(* The frame that is sent next.                                            *)

LEMMA FrameSentIsSelected ==
  ASSUME MacInv, [Next]_vars, radio = "idle", radio' = "data"
  PROVE  /\ hiCritMode' = (hiCritMode /\ ~ HIDrained)
         /\ Waiting(q, Eligible) # {} /\ selfDataPkt'.pkt = mem[Selected]
<1>1. AlarmFired
  <2>1. ~ (StartDone \/ NotificationReceived)
    BY SlotOneSendsNoFrame DEF StartDone, NotificationReceived, radioVars
  <2>2. ~ (Admit \/ AdmissionSteps)
    BY DEF Admit, AdmissionSteps, MacSend, DataReceived, DiscardStore,
       EnqueueCopy, EnqueueBadPriority, EnqueueInsert, radioVars
  <2>3. ~ (RadioDone \/ FaultEvents \/ UNCHANGED vars)
    BY DEF RadioDone, NotificationSent, DataSent, FaultEvents, FaultReceived,
       FaultClearTimerFired, vars, radioVars
  <2>4. ~ SendDoneSteps
    BY DEF SendDoneSteps, SendDoneStep, RegisterFailedAck, CheckToGoHigh,
       CheckBestEffort, ClearOne, ClearDone, CheckLimit, DequeueSent,
       CountRetransmit, Unlock
  <2>. QED
    BY <2>1, <2>2, <2>3, <2>4 DEF Next
<1>2. PICK s : SlotEvent(s)
  BY <1>1 DEF AlarmFired
<1>3. handle_tx_slot
  BY <1>2 DEF SlotEvent, SendNotification, radioVars
<1>4. Waiting(q, Eligible) # {} /\ HandToRadio(Selected)
  BY <1>3 DEF handle_tx_slot, NothingToSend, RadioLocked, radioVars
<1>. QED
  BY <1>3, <1>4, FreeCopyIsWhole DEF handle_tx_slot

\* A slot sends the most urgent frame of the mode it leaves the node in, in
\* HI mode a HI frame though forwarded LO ones may be queued
\* (TdmaMacP.nc:531-549).
THEOREM MostUrgentIsSent ==
  ASSUME PrioritiesSeparate
  PROVE  Spec => MostUrgentFirst
<1>1. MacInv /\ [Next]_vars =>
        [radio = "idle" /\ radio' = "data"
           => /\ hiCritMode' => CritOf[selfDataPkt'.pkt] = "HI"
              /\ \A p \in Prio : /\ p < PriorityOf[selfDataPkt'.pkt]
                                 /\ hiCritMode' => p \in HiCrit
                                 => IsEmpty(q[p])]_vars
  <2>. SUFFICES ASSUME MacInv, [Next]_vars, radio = "idle", radio' = "data"
                PROVE  /\ hiCritMode' => CritOf[selfDataPkt'.pkt] = "HI"
                       /\ \A p \in Prio : /\ p < PriorityOf[selfDataPkt'.pkt]
                                          /\ hiCritMode' => p \in HiCrit
                                          => IsEmpty(q[p])
    OBVIOUS
  <2> DEFINE W == Waiting(q, Eligible)
  <2>1. /\ hiCritMode' = (hiCritMode /\ ~ HIDrained)
        /\ W # {} /\ selfDataPkt'.pkt = mem[Selected]
    BY FrameSentIsSelected
  <2>2. /\ mem[Selected] \in Packet /\ HasPrio(mem[Selected])
        /\ PriorityOf[mem[Selected]] = FirstOf(W)
    BY <2>1, SelectedIsHeld
  <2>3. Eligible = IF hiCritMode' THEN HiCrit ELSE Prio
    BY <2>1 DEF Eligible
  <2>4. W \in SUBSET Prio /\ W \in SUBSET Eligible
    BY <2>3, HiCritAssumption DEF Waiting
  <2>5. FirstOf(W) \in W /\ \A r \in W : FirstOf(W) <= r
    BY <2>1, <2>4, FirstOfIsLeast
  <2>6. hiCritMode' => CritOf[selfDataPkt'.pkt] = "HI"
    BY <2>1, <2>2, <2>3, <2>4, <2>5 DEF PrioritiesSeparate
  <2>7. ASSUME NEW p \in Prio, p < FirstOf(W), hiCritMode' => p \in HiCrit
        PROVE  IsEmpty(q[p])
    <3>1. p \in Eligible
      BY <2>3, <2>7
    <3>2. p \notin W
      BY <2>4, <2>5, <2>7 DEF Prio
    <3>. QED
      BY <3>1, <3>2 DEF Waiting
  <2>. QED
    BY <2>1, <2>2, <2>6, <2>7
<1>. QED
  BY <1>1, MacInvHolds, PTL DEF Spec, MostUrgentFirst

\* What is transmitted is always a queued frame read whole: a slot in the
\* middle of a dequeue finds the lock held, whatever it has copied
\* (QueueC.nc:89-99, TdmaMacP.nc:591-606).
THEOREM OnlyWholeFramesSent == Spec => WholeFramesSent
<1>1. MacInv /\ [Next]_vars =>
        [radio = "idle" /\ radio' = "data"
           => /\ selfDataPkt'.pkt \in Packet /\ HasPrio(selfDataPkt'.pkt)
              /\ LET r == q[PriorityOf[selfDataPkt'.pkt]]
                 IN ~ IsEmpty(r) /\ selfDataPkt'.pkt = mem[HeadOf(r)]]_vars
  BY FrameSentIsSelected, SelectedIsHeld
<1>. QED
  BY <1>1, MacInvHolds, PTL DEF Spec, WholeFramesSent
==============================================================================
