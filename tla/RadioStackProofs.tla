-------------------------- MODULE RadioStackProofs --------------------------
(***************************************************************************)
(* Safety of the radio stack for every number of retries, every size of    *)
(* the receive queue and every set of messages and sequence numbers.       *)
(***************************************************************************)
EXTENDS RadioStack, TLAPS

\* The shape of the stack: where each layer is, who owns the alarm and what
\* will wake the sender.  Each part needs the others to be inductive.
DeliversFrame == task = "deliver" => size > 0
RetriesBounded == mb # "READY" => retries <= MAX_RETRIES

ShapeInv ==
  /\ TypeOK
  /\ DeliversFrame
  /\ RetriesBounded
  /\ LayersAgree
  /\ AlarmHasOneOwner
  /\ RetryIsWokenUp

\* Positions in the receive queue.
LEMMA WrapStaysInQueue ==
  /\ \A h \in Slot : Wrap(h + 1) \in Slot
  /\ \A h \in Slot, n \in Slot : Wrap(h + n) \in Slot
  BY StackAssumption DEF Wrap, Slot

LEMMA TypeOKInit == Init => TypeOK
<1>. SUFFICES ASSUME Init PROVE TypeOK
  OBVIOUS
<1>1. /\ receiveQueue \in [Slot -> Buffer] /\ rxMsg \in Buffer
      /\ head \in Slot /\ size \in 0 .. RECEIVE_QUEUE_SIZE
  BY StackAssumption DEF Init, Slot, Buffer
<1>2. retries \in 0 .. MAX_RETRIES + 1
  BY StackAssumption DEF Init
<1>. QED
  BY <1>1, <1>2, Zenon DEF Init, TypeOK

LEMMA ShapeStep ==
  ASSUME ShapeInv, [Next]_vars
  PROVE  LayersAgree' /\ AlarmHasOneOwner' /\ RetryIsWokenUp'
<1>. USE DEF ShapeInv, LayersAgree, AlarmHasOneOwner, RetryIsWokenUp, CollisionWaits,
              sendVars, recvVars, rcVars, saVars, alarmVars, chipVars
<1>0. barrier \in BOOLEAN /\ sendPosted \in BOOLEAN
  BY DEF TypeOK
<1>. USE <1>0
<1>1. ASSUME NEW m \in Message, NEW w \in BOOLEAN, Send(m, w)
      PROVE  LayersAgree' /\ AlarmHasOneOwner' /\ RetryIsWokenUp'
  BY <1>1 DEF Send
<1>2. CASE SendTaskTries
  BY <1>2 DEF SendTaskTries, SendTaskRuns, MayTry, CollisionFree, AlarmFree, StartAlarm
<1>3. CASE SendTaskWaits
  BY <1>3 DEF SendTaskWaits, SendTaskRuns, MayTry, CollisionFree, AlarmFree
<1>4. CASE SendTaskEnds
  BY <1>4 DEF SendTaskEnds, SendTaskRuns, MayTry
<1>5. CASE SignalSendDone
  BY <1>5 DEF SignalSendDone
<1>6. CASE DeliverTask
  BY <1>6 DEF DeliverTask, DeliverStarts, DeliverNext
<1>7. CASE AlarmFired
  BY <1>7 DEF AlarmFired
<1>8. CASE BarrierOver
  BY <1>8 DEF BarrierOver, CollisionAlarm, StopAlarm, BufferReady
<1>9. CASE FrameGoesOut
  BY <1>9 DEF FrameGoesOut, CollisionAlarm, StopAlarm
<1>10. CASE BackOffAgain
  BY <1>10 DEF BackOffAgain, CollisionAlarm, StartAlarm
<1>11. CASE AckTimeout
  BY <1>11 DEF AckTimeout, StopAlarm, FrameDone, BufferSendDone
<1>12. ASSUME NEW ahead \in BOOLEAN, BackOffGivesUp(ahead)
       PROVE  LayersAgree' /\ AlarmHasOneOwner' /\ RetryIsWokenUp'
  BY <1>12 DEF BackOffGivesUp, CollisionAlarm, StartAlarm, StopAlarm, BufferSendDone
<1>13. CASE AckSent
  BY <1>13 DEF AckSent, DriverReady, BufferReady
<1>14. CASE FrameSent
  BY <1>14 DEF FrameSent, AlarmFree, StartAlarm, FrameDone, BufferSendDone
<1>15. CASE ReceptionStarts
  BY <1>15 DEF ReceptionStarts
<1>16. CASE FrameDropped
  BY <1>16 DEF FrameDropped, DriverReady, BufferReady
<1>17. CASE AckReceived
  BY <1>17 DEF AckReceived, StopAlarm, FrameDone, BufferSendDone
<1>18. ASSUME NEW w \in BOOLEAN, NEW a \in BOOLEAN, NEW d \in Dsn, FrameReceived(w, a, d)
       PROVE  LayersAgree' /\ AlarmHasOneOwner' /\ RetryIsWokenUp'
  BY <1>18 DEF FrameReceived, Acknowledge, RaiseBarrier, AlarmFree, StartAlarm,
               DriverReady, BufferReady
<1>19. CASE UNCHANGED vars
  BY <1>19 DEF vars
<1>. QED
  BY <1>1, <1>2, <1>3, <1>4, <1>5, <1>6, <1>7, <1>8, <1>9, <1>10, <1>11, <1>12,
     <1>13, <1>14, <1>15, <1>16, <1>17, <1>18, <1>19
  DEF Next, SendTask, AlarmServed, ChipTransmitted, ChipReceived

-----------------------------------------------------------------------------
(* Types.                                                                  *)

LEMMA StoreTypes ==
  ASSUME TypeOK, NEW d \in Dsn, PassUp(d)
  PROVE  /\ receiveQueue' \in [Slot -> Buffer] /\ rxMsg' \in Buffer
         /\ head' \in Slot /\ size' \in 0 .. RECEIVE_QUEUE_SIZE
         /\ receivedNumber' \in Dsn \union {NoDsn}
<1>1. /\ receiveQueue \in [Slot -> Buffer] /\ rxMsg \in Buffer
      /\ head \in Slot /\ size \in 0 .. RECEIVE_QUEUE_SIZE
      /\ receivedNumber \in Dsn \union {NoDsn}
  BY DEF TypeOK
<1>2. CASE UNCHANGED recvVars
  BY <1>1, <1>2 DEF recvVars
<1>3. CASE receivedNumber' = d /\ UNCHANGED <<receiveQueue, head, size, rxMsg>>
  BY <1>1, <1>3
<1>4. CASE receivedNumber' = d /\ size < RECEIVE_QUEUE_SIZE /\ Store
  <2>1. size \in Slot /\ size + 1 \in 0 .. RECEIVE_QUEUE_SIZE
    BY <1>1, <1>4, StackAssumption DEF Slot
  <2>2. Wrap(head + size) \in Slot
    BY <1>1, <2>1, WrapStaysInQueue
  <2>3. receiveQueue[Wrap(head + size)] \in Buffer
    BY <1>1, <2>2
  <2>4. /\ rxMsg' = receiveQueue[Wrap(head + size)]
        /\ receiveQueue' = [receiveQueue EXCEPT ![Wrap(head + size)] = rxMsg]
        /\ size' = size + 1 /\ head' = head
    BY <1>1, <1>4, StackAssumption DEF Store
  <2>5. receiveQueue' \in [Slot -> Buffer] /\ rxMsg' \in Buffer
    BY <1>1, <2>2, <2>3, <2>4
  <2>. QED
    BY <1>1, <1>4, <2>1, <2>4, <2>5
<1>5. size < RECEIVE_QUEUE_SIZE \/ size >= RECEIVE_QUEUE_SIZE
  BY <1>1, StackAssumption
<1>6. size >= RECEIVE_QUEUE_SIZE /\ Store => UNCHANGED <<receiveQueue, head, size, rxMsg>>
  BY DEF Store
<1>. QED
  BY <1>2, <1>3, <1>4, <1>5, <1>6 DEF PassUp

\* Which actions touch the receive queue, which the history and which the task.
ReceiveSteps ==
  \/ UNCHANGED recvVars
  \/ DeliverNext
  \/ \E w, a \in BOOLEAN, d \in Dsn : FrameReceived(w, a, d)

HistorySteps ==
  \/ UNCHANGED history
  \/ \E m \in Message, w \in BOOLEAN : Send(m, w)
  \/ SignalSendDone \/ FrameGoesOut \/ AckReceived

TaskSteps ==
  \/ UNCHANGED task
  \/ DeliverTask
  \/ task' \in {"idle", "sendDone"}

LEMMA WhoTouches == [Next]_vars => ReceiveSteps /\ HistorySteps /\ TaskSteps
<1>. SUFFICES ASSUME [Next]_vars PROVE ReceiveSteps /\ HistorySteps /\ TaskSteps
  OBVIOUS
<1>. USE DEF ReceiveSteps, HistorySteps, TaskSteps
<1>1. CASE UNCHANGED vars
  BY <1>1 DEF vars
<1>2. CASE \E m \in Message, w \in BOOLEAN : Send(m, w)
  BY <1>2 DEF Send
<1>3. CASE SendTask
  BY <1>3 DEF SendTask, SendTaskTries, SendTaskWaits, SendTaskEnds, SignalSendDone
<1>4. CASE DeliverTask
  BY <1>4 DEF DeliverTask, DeliverStarts, DeliverNext
<1>5. CASE AlarmFired \/ ReceptionStarts
  BY <1>5 DEF AlarmFired, ReceptionStarts
<1>6. CASE AlarmServed
  BY <1>6 DEF AlarmServed, BarrierOver, FrameGoesOut, BackOffAgain, AckTimeout, BackOffGivesUp
<1>7. CASE ChipTransmitted
  BY <1>7 DEF ChipTransmitted, AckSent, FrameSent
<1>8. CASE FrameDropped \/ AckReceived
  BY <1>8 DEF FrameDropped, AckReceived
<1>9. ASSUME NEW w \in BOOLEAN, NEW a \in BOOLEAN, NEW d \in Dsn, FrameReceived(w, a, d)
      PROVE  ReceiveSteps /\ HistorySteps /\ TaskSteps
  <2>1. UNCHANGED <<task, history>>
    BY <1>9 DEF FrameReceived
  <2>. QED
    BY <1>9, <2>1
<1>. QED
  BY <1>1, <1>2, <1>3, <1>4, <1>5, <1>6, <1>7, <1>8, <1>9 DEF Next, ChipReceived

LEMMA ReceiveTypesStep ==
  ASSUME ShapeInv, [Next]_vars
  PROVE  /\ receiveQueue' \in [Slot -> Buffer] /\ rxMsg' \in Buffer
         /\ head' \in Slot /\ size' \in 0 .. RECEIVE_QUEUE_SIZE
         /\ receivedNumber' \in Dsn \union {NoDsn}
<1>. TypeOK /\ DeliversFrame
  BY DEF ShapeInv
<1>1. CASE UNCHANGED recvVars
  BY <1>1 DEF recvVars, TypeOK
<1>2. CASE DeliverNext
  <2>1. head \in Slot /\ size \in 0 .. RECEIVE_QUEUE_SIZE /\ size > 0
    BY <1>2 DEF DeliverNext, TypeOK, DeliversFrame
  <2>2. head' \in Slot /\ size' \in 0 .. RECEIVE_QUEUE_SIZE
    BY <1>2, <2>1, WrapStaysInQueue, StackAssumption DEF DeliverNext
  <2>. QED
    BY <1>2, <2>2 DEF DeliverNext, TypeOK
<1>3. ASSUME NEW w \in BOOLEAN, NEW a \in BOOLEAN, NEW d \in Dsn, FrameReceived(w, a, d)
      PROVE  PassUp(d)
  BY <1>3 DEF FrameReceived
<1>. QED
  BY <1>1, <1>2, <1>3, StoreTypes, WhoTouches DEF ReceiveSteps

LEMMA HistoryTypesStep ==
  ASSUME ShapeInv, [Next]_vars
  PROVE  /\ busy' \in BOOLEAN /\ airings' \in Nat /\ answered' \in BOOLEAN
         /\ report' \in [error : {"SUCCESS", "EBUSY"}, acked : BOOLEAN]
<1>1. /\ busy \in BOOLEAN /\ airings \in Nat /\ answered \in BOOLEAN
      /\ report \in [error : {"SUCCESS", "EBUSY"}, acked : BOOLEAN]
  BY DEF ShapeInv, TypeOK
<1>2. txError \in {"SUCCESS", "EBUSY"} /\ ackFlag[txMsg] \in BOOLEAN
  BY DEF ShapeInv, TypeOK
<1>3. CASE UNCHANGED history
  BY <1>1, <1>3 DEF history
<1>4. CASE \E m \in Message, w \in BOOLEAN : Send(m, w)
  <2>1. busy' = TRUE /\ airings' = 0 /\ answered' = FALSE /\ report' = report
    BY <1>4 DEF Send
  <2>. QED
    BY <1>1, <2>1
<1>5. CASE SignalSendDone
  BY <1>1, <1>2, <1>5 DEF SignalSendDone
<1>6. CASE FrameGoesOut \/ AckReceived
  <2>1. /\ busy' = busy /\ report' = report
        /\ airings' \in {airings, airings + 1} /\ answered' \in {answered, TRUE}
    BY <1>6 DEF FrameGoesOut, AckReceived
  <2>2. airings' \in Nat
    BY <1>1, <2>1
  <2>3. report' \in [error : {"SUCCESS", "EBUSY"}, acked : BOOLEAN]
    BY <1>1, <2>1
  <2>. QED
    BY <1>1, <2>1, <2>2, <2>3, Zenon
<1>. QED
  BY <1>3, <1>4, <1>5, <1>6, WhoTouches DEF HistorySteps

\* The states of the layers, the task and the sender's variables.
LayerTypes ==
  /\ mb \in {"READY", "TX_PENDING", "TX_RETRY", "TX_SEND", "TX_DONE"}
  /\ txError \in {"SUCCESS", "EBUSY"} /\ txMsg \in Message
  /\ sendPosted \in BOOLEAN /\ retries \in 0 .. MAX_RETRIES + 1
  /\ rc \in {"READY", "TX_PENDING_FIRST", "TX_PENDING_SECOND", "TX_SENDING"}
  /\ barrier \in BOOLEAN
  /\ sa \in {"READY", "DATA_SEND", "ACK_WAIT", "ACK_SEND"}
  /\ ackReq \in BOOLEAN /\ ackFlag \in [Message -> BOOLEAN]
  /\ alarm \in {"READY", "WAIT", "FIRED"} /\ owner \in {"collision", "ack"}
  /\ cmd \in {"NONE", "TRANSMIT", "RECEIVE"} /\ upload \in {"frame", "ack"}
  /\ task \in {"idle", "sendDone", "deliver"}

LEMMA LayerTypesStep ==
  ASSUME ShapeInv, [Next]_vars
  PROVE  LayerTypes'
<1>. LayerTypes
  BY DEF ShapeInv, TypeOK, LayerTypes
<1>. USE DEF LayerTypes, sendVars, rcVars, saVars, alarmVars, chipVars
<1>1. ASSUME NEW m \in Message, NEW w \in BOOLEAN, Send(m, w) PROVE LayerTypes'
  <2>1. retries' \in 0 .. MAX_RETRIES + 1
    BY <1>1, StackAssumption DEF Send
  <2>. QED
    BY <1>1, <2>1 DEF Send
<1>2. CASE SendTaskTries \/ SendTaskWaits \/ SendTaskEnds
  <2>1. retries' \in 0 .. MAX_RETRIES + 1
    <3>1. MayTry => retries + 1 \in 0 .. MAX_RETRIES + 1
      BY StackAssumption DEF MayTry
    <3>2. mb = "TX_PENDING" /\ sendPosted => retries + 1 \in 0 .. MAX_RETRIES + 1
      BY StackAssumption DEF ShapeInv, RetriesBounded, TypeOK
    <3>. QED
      BY <1>2, <3>1, <3>2 DEF SendTaskTries, SendTaskWaits, SendTaskEnds, SendTaskRuns
  <2>. QED
    BY <1>2, <2>1
    DEF SendTaskTries, SendTaskWaits, SendTaskEnds, SendTaskRuns, StartAlarm
<1>3. CASE SignalSendDone \/ DeliverTask
  BY <1>3 DEF SignalSendDone, DeliverTask, DeliverStarts, DeliverNext
<1>4. CASE AlarmFired \/ ReceptionStarts
  BY <1>4 DEF AlarmFired, ReceptionStarts
<1>5. CASE BarrierOver \/ FrameGoesOut \/ BackOffAgain
  BY <1>5 DEF BarrierOver, BufferReady, FrameGoesOut, BackOffAgain, StartAlarm, StopAlarm
<1>6. ASSUME NEW ahead \in BOOLEAN, BackOffGivesUp(ahead) PROVE LayerTypes'
  BY <1>6 DEF BackOffGivesUp, StartAlarm, StopAlarm, BufferSendDone
<1>7. CASE AckTimeout \/ AckReceived
  BY <1>7 DEF AckTimeout, AckReceived, StopAlarm, FrameDone, BufferSendDone
<1>8. CASE AckSent \/ FrameDropped
  BY <1>8 DEF AckSent, FrameDropped, DriverReady, BufferReady
<1>9. CASE FrameSent
  BY <1>9 DEF FrameSent, StartAlarm, FrameDone, BufferSendDone
<1>10. ASSUME NEW w \in BOOLEAN, NEW a \in BOOLEAN, NEW d \in Dsn, FrameReceived(w, a, d)
       PROVE  LayerTypes'
  BY <1>10 DEF FrameReceived, Acknowledge, RaiseBarrier, StartAlarm, DriverReady, BufferReady
<1>11. CASE UNCHANGED vars
  BY <1>11 DEF vars
<1>. QED
  BY <1>1, <1>2, <1>3, <1>4, <1>5, <1>6, <1>7, <1>8, <1>9, <1>10, <1>11
  DEF Next, SendTask, AlarmServed, ChipTransmitted, ChipReceived

LEMMA TypeStep ==
  ASSUME ShapeInv, [Next]_vars
  PROVE  TypeOK'
  BY ReceiveTypesStep, HistoryTypesStep, LayerTypesStep, Zenon DEF TypeOK, LayerTypes

LEMMA DeliversFrameStep ==
  ASSUME ShapeInv, [Next]_vars
  PROVE  DeliversFrame'
<1>. TypeOK /\ DeliversFrame /\ ReceiveSteps /\ TaskSteps
  BY WhoTouches DEF ShapeInv
<1>1. CASE DeliverTask
  BY <1>1, StackAssumption DEF TypeOK, DeliverTask, DeliverStarts, DeliverNext,
                               recvVars, DeliversFrame
<1>2. CASE task' \in {"idle", "sendDone"}
  BY <1>2 DEF DeliversFrame
<1>3. CASE UNCHANGED task /\ ~ DeliverTask
  <2>1. CASE UNCHANGED recvVars
    BY <1>3, <2>1 DEF recvVars, DeliversFrame
  <2>2. ASSUME NEW w \in BOOLEAN, NEW a \in BOOLEAN, NEW d \in Dsn, FrameReceived(w, a, d)
        PROVE  size' \in {size, size + 1}
    BY <2>2 DEF FrameReceived, PassUp, Store, recvVars
  <2>. QED
    BY <1>3, <2>1, <2>2 DEF ReceiveSteps, DeliverTask, TypeOK, DeliversFrame
<1>. QED
  BY <1>1, <1>2, <1>3 DEF TaskSteps

LEMMA RetriesStep ==
  ASSUME ShapeInv, [Next]_vars
  PROVE  RetriesBounded'
<1>. RetriesBounded /\ retries \in Nat /\ MAX_RETRIES \in Nat
  BY StackAssumption DEF ShapeInv, TypeOK
<1>. /\ mb = "TX_SEND" <=> rc # "READY"
     /\ rc = "TX_SENDING" <=> sa \in {"DATA_SEND", "ACK_WAIT"}
     /\ cmd = "TRANSMIT" <=> sa \in {"DATA_SEND", "ACK_SEND"}
     /\ alarm = "FIRED" => (owner = "ack" <=> sa = "ACK_WAIT")
  BY DEF ShapeInv, LayersAgree, AlarmHasOneOwner
<1>. USE DEF RetriesBounded, sendVars
<1>1. CASE \E m \in Message, w \in BOOLEAN : Send(m, w)
  BY <1>1 DEF Send
<1>2. CASE SendTask
  BY <1>2 DEF SendTask, SendTaskTries, SendTaskWaits, SendTaskEnds, SignalSendDone,
              SendTaskRuns, MayTry
<1>3. CASE retries' = retries /\ (mb' # "READY" => mb # "READY")
  BY <1>3
<1>4. CASE UNCHANGED sendVars
  BY <1>4
<1>5. ASSUME BufferReady PROVE RetriesBounded'
  BY <1>5 DEF BufferReady
<1>6. CASE DeliverTask \/ AlarmFired \/ ReceptionStarts \/ UNCHANGED vars
  BY <1>4, <1>6 DEF DeliverTask, DeliverStarts, DeliverNext, AlarmFired, ReceptionStarts, vars
<1>7. CASE AlarmServed
  <2>1. CASE BarrierOver
    BY <1>5, <2>1 DEF BarrierOver
  <2>2. CASE FrameGoesOut \/ BackOffAgain
    BY <1>4, <2>2 DEF FrameGoesOut, BackOffAgain
  <2>3. ASSUME NEW ahead \in BOOLEAN, BackOffGivesUp(ahead) PROVE RetriesBounded'
    BY <1>3, <2>3 DEF BackOffGivesUp, CollisionAlarm, BufferSendDone
  <2>4. CASE AckTimeout
    BY <1>3, <2>4 DEF AckTimeout, FrameDone, BufferSendDone
  <2>. QED
    BY <1>7, <2>1, <2>2, <2>3, <2>4 DEF AlarmServed
<1>8. CASE ChipTransmitted
  BY <1>3, <1>4, <1>5, <1>8 DEF ChipTransmitted, AckSent, FrameSent, FrameDone,
                                BufferSendDone, DriverReady
<1>9. CASE AckReceived
  BY <1>3, <1>9 DEF AckReceived, FrameDone, BufferSendDone
<1>10. CASE FrameDropped
  BY <1>4, <1>5, <1>10 DEF FrameDropped, DriverReady
<1>11. ASSUME NEW w \in BOOLEAN, NEW a \in BOOLEAN, NEW d \in Dsn, FrameReceived(w, a, d)
       PROVE  RetriesBounded'
  <2>1. DriverReady
    BY <1>11 DEF FrameReceived
  <2>. QED
    BY <1>4, <1>5, <2>1 DEF DriverReady
<1>. QED
  BY <1>1, <1>2, <1>6, <1>7, <1>8, <1>9, <1>10, <1>11 DEF Next, ChipReceived

LEMMA LayersStayInStep == Spec => []ShapeInv
<1>1. Init => ShapeInv
  BY TypeOKInit, StackAssumption
  DEF Init, ShapeInv, DeliversFrame, RetriesBounded, LayersAgree, AlarmHasOneOwner,
      RetryIsWokenUp, CollisionWaits
<1>2. ShapeInv /\ [Next]_vars => ShapeInv'
  BY ShapeStep, TypeStep, DeliversFrameStep, RetriesStep DEF ShapeInv
<1>. QED
  BY <1>1, <1>2, PTL DEF Spec

\* Every state the stack reaches is well typed.
THEOREM StackTypeCorrect == Spec => []TypeOK
  BY LayersStayInStep, PTL DEF ShapeInv

\* No event of a layer meets another layer in a state it does not expect.
THEOREM LayersAlwaysAgree == Spec => []LayersAgree
  BY LayersStayInStep, PTL DEF ShapeInv

\* The one alarm of the stack is never taken from the layer that waits for it.
THEOREM AlarmAlwaysHasOneOwner == Spec => []AlarmHasOneOwner
  BY LayersStayInStep, PTL DEF ShapeInv

\* A send that was refused will be tried again.
THEOREM RefusedSendIsWokenUp == Spec => []RetryIsWokenUp
  BY LayersStayInStep, PTL DEF ShapeInv

-----------------------------------------------------------------------------
(* The receive queue and the driver.                                       *)

Distinct ==
  /\ \A i \in Slot : receiveQueue[i] # rxMsg
  /\ \A i, j \in Slot : i # j => receiveQueue[i] # receiveQueue[j]

LEMMA DistinctStep ==
  ASSUME ShapeInv, Distinct, [Next]_vars
  PROVE  Distinct'
<1>. TypeOK
  BY DEF ShapeInv
<1>1. CASE UNCHANGED <<receiveQueue, rxMsg>>
  BY <1>1 DEF Distinct
<1>2. ASSUME Store PROVE Distinct'
  <2>1. CASE size < RECEIVE_QUEUE_SIZE
    <3>. DEFINE idx == Wrap(head + size)
    <3>1. idx \in Slot
      BY <2>1, WrapStaysInQueue, StackAssumption DEF TypeOK, Slot
    <3>2. /\ rxMsg' = receiveQueue[idx]
          /\ receiveQueue' = [receiveQueue EXCEPT ![idx] = rxMsg]
      BY <1>2, <2>1, StackAssumption DEF Store, TypeOK
    <3>3. receiveQueue \in [Slot -> Buffer]
      BY DEF TypeOK
    <3>. HIDE DEF idx
    <3>. QED
      BY <3>1, <3>2, <3>3 DEF Distinct
  <2>. QED
    BY <1>1, <1>2, <2>1, StackAssumption DEF Store, TypeOK
<1>3. ASSUME NEW w \in BOOLEAN, NEW a \in BOOLEAN, NEW d \in Dsn, FrameReceived(w, a, d)
      PROVE  Distinct'
  <2>1. PassUp(d)
    BY <1>3 DEF FrameReceived
  <2>. QED
    BY <1>1, <1>2, <2>1 DEF PassUp, recvVars
<1>. QED
  BY <1>1, <1>3, WhoTouches DEF ReceiveSteps, DeliverNext, recvVars

\* The driver never receives into a buffer that is queued or being delivered.
THEOREM BuffersStayDistinct == Spec => []BuffersDistinct
<1>1. Init => Distinct
  BY StackAssumption DEF Init, Distinct, Slot
<1>2. ShapeInv /\ Distinct /\ [Next]_vars => Distinct'
  BY DistinctStep
<1>3. ShapeInv /\ Distinct => BuffersDistinct
  BY DEF ShapeInv, DeliversFrame, Distinct, BuffersDistinct
<1>. QED
  BY <1>1, <1>2, <1>3, LayersStayInStep, PTL DEF Spec

\* A frame is not acknowledged and then dropped for want of room.
THEOREM AcknowledgedIsKept == Spec => AckedFramesAreKept
<1>. DEFINE Kept ==
       /\ sa # "ACK_SEND" /\ sa' = "ACK_SEND"
             => size' = size + 1 \/ receivedNumber' = receivedNumber
       /\ receivedNumber' # receivedNumber => size' = size + 1
<1>1. ASSUME ShapeInv, [Next]_vars PROVE Kept
  <2>. size \in Int /\ RECEIVE_QUEUE_SIZE \in Int
    BY <1>1, StackAssumption DEF ShapeInv, TypeOK
  <2>1. CASE UNCHANGED receivedNumber
    BY <2>1
  <2>2. ASSUME NEW w \in BOOLEAN, NEW a \in BOOLEAN, NEW d \in Dsn, FrameReceived(w, a, d)
        PROVE  Kept
    BY <2>2 DEF FrameReceived, HeaderAccepted, PassUp, Store, recvVars
  <2>. QED
    BY <2>1, <2>2, WhoTouches, <1>1 DEF ReceiveSteps, DeliverNext, recvVars
<1>2. ASSUME ShapeInv, [Next]_vars PROVE [Kept]_vars
  BY <1>1, <1>2
<1>. QED
  BY <1>2, LayersStayInStep, PTL DEF Spec, AckedFramesAreKept

-----------------------------------------------------------------------------
(* The stack implements FrameService.                                      *)

\* What the MAC has been promised, in terms of where its frame is.  The flag
\* of the packet is tied to the acknowledgement only once the frame is on air.
PromiseInv ==
  /\ busy <=> mb # "READY" \/ task = "sendDone"
  /\ task = "sendDone" => mb = "READY"
  /\ mb \in {"TX_PENDING", "TX_RETRY"} => airings = 0 /\ ~ answered
  /\ rc \in {"TX_PENDING_FIRST", "TX_PENDING_SECOND"} => airings = 0 /\ ~ answered
  /\ rc = "TX_SENDING" => airings = 1 /\ ~ answered /\ ~ ackFlag[txMsg]
  /\ mb = "TX_DONE" => txError = "SUCCESS"
  /\ mb = "TX_DONE" \/ (task = "sendDone" /\ txError = "SUCCESS")
       => airings = 1 /\ (answered <=> ackFlag[txMsg])
  /\ task = "sendDone" /\ txError = "EBUSY" => airings = 0
  /\ mb \in {"TX_PENDING", "TX_RETRY"} /\ retries > 0 => txError = "EBUSY"

\* What is needed of ShapeInv.
ShapeFacts ==
  /\ mb \in {"READY", "TX_PENDING", "TX_RETRY", "TX_SEND", "TX_DONE"}
  /\ rc \in {"READY", "TX_PENDING_FIRST", "TX_PENDING_SECOND", "TX_SENDING"}
  /\ retries \in Nat /\ MAX_RETRIES \in Nat \ {0}
  /\ ackFlag \in [Message -> BOOLEAN] /\ txMsg \in Message
  /\ txError \in {"SUCCESS", "EBUSY"}
  /\ sendPosted => mb \in {"TX_PENDING", "TX_DONE"}
  /\ mb = "TX_SEND" <=> rc # "READY"
  /\ rc = "TX_SENDING" <=> sa \in {"DATA_SEND", "ACK_WAIT"}
  /\ cmd = "TRANSMIT" <=> sa \in {"DATA_SEND", "ACK_SEND"}
  /\ alarm = "FIRED" => (owner = "ack" <=> sa = "ACK_WAIT")

LEMMA ShapeGivesFacts == ShapeInv => ShapeFacts
  BY StackAssumption
  DEF ShapeInv, ShapeFacts, TypeOK, LayersAgree, AlarmHasOneOwner, RetryIsWokenUp

LEMMA PromiseStep ==
  ASSUME ShapeInv, PromiseInv, [Next]_vars
  PROVE  PromiseInv'
<1>. ShapeFacts
  BY ShapeGivesFacts
<1>. USE DEF ShapeFacts, PromiseInv, sendVars, rcVars, saVars, history
<1>1. ASSUME NEW m \in Message, NEW w \in BOOLEAN, Send(m, w) PROVE PromiseInv'
  BY <1>1 DEF Send
<1>2. CASE SendTaskTries
  BY <1>2 DEF SendTaskTries, SendTaskRuns, MayTry, CollisionFree
<1>3. CASE SendTaskWaits
  BY <1>3 DEF SendTaskWaits, SendTaskRuns, MayTry
<1>4. CASE SendTaskEnds
  BY <1>4 DEF SendTaskEnds, SendTaskRuns, MayTry
<1>5. CASE SignalSendDone
  BY <1>5 DEF SignalSendDone
<1>6. CASE DeliverTask
  BY <1>6 DEF DeliverTask, DeliverStarts, DeliverNext
<1>7. CASE AlarmFired \/ ReceptionStarts
  BY <1>7 DEF AlarmFired, ReceptionStarts
<1>8. CASE BarrierOver
  BY <1>8 DEF BarrierOver, BufferReady
<1>9. CASE FrameGoesOut
  BY <1>9 DEF FrameGoesOut, CollisionAlarm
<1>10. CASE BackOffAgain
  BY <1>10 DEF BackOffAgain, CollisionAlarm
<1>11. CASE AckTimeout
  BY <1>11 DEF AckTimeout, FrameDone, BufferSendDone
<1>12. ASSUME NEW ahead \in BOOLEAN, BackOffGivesUp(ahead) PROVE PromiseInv'
  BY <1>12 DEF BackOffGivesUp, CollisionAlarm, BufferSendDone
<1>13. CASE AckSent
  BY <1>13 DEF AckSent, DriverReady, BufferReady
<1>14. CASE FrameSent
  BY <1>14 DEF FrameSent, FrameDone, BufferSendDone
<1>15. CASE FrameDropped
  BY <1>15 DEF FrameDropped, DriverReady, BufferReady
<1>16. CASE AckReceived
  BY <1>16 DEF AckReceived, FrameDone, BufferSendDone
<1>17. ASSUME NEW w \in BOOLEAN, NEW a \in BOOLEAN, NEW d \in Dsn, FrameReceived(w, a, d)
       PROVE  PromiseInv'
  BY <1>17 DEF FrameReceived, DriverReady, BufferReady
<1>18. CASE UNCHANGED vars
  BY <1>18 DEF vars
<1>. QED
  BY <1>1, <1>2, <1>3, <1>4, <1>5, <1>6, <1>7, <1>8, <1>9, <1>10, <1>11, <1>12,
     <1>13, <1>14, <1>15, <1>16, <1>17, <1>18
  DEF Next, SendTask, AlarmServed, ChipTransmitted, ChipReceived

\* Only four actions are visible to the MAC or on the air.
LEMMA PromiseSimulation ==
  ASSUME ShapeInv, PromiseInv, [Next]_vars
  PROVE  [Promise!Next]_Promise!vars
<1>. ShapeFacts
  BY ShapeGivesFacts
<1>. USE DEF Promise!vars
<1>1. CASE UNCHANGED history
  BY <1>1 DEF history
<1>2. CASE \E m \in Message, w \in BOOLEAN : Send(m, w)
  <2>1. Promise!Send
    BY <1>2 DEF Send, Promise!Send
  <2>. QED
    BY <2>1 DEF Promise!Next
<1>3. CASE FrameGoesOut
  <2>1. Promise!GoOnAir
    BY <1>3 DEF FrameGoesOut, CollisionAlarm, Promise!GoOnAir, PromiseInv, ShapeFacts
  <2>. QED
    BY <2>1 DEF Promise!Next
<1>4. CASE AckReceived
  <2>1. Promise!AckArrives
    BY <1>4 DEF AckReceived, Promise!AckArrives, PromiseInv, ShapeFacts
  <2>. QED
    BY <2>1 DEF Promise!Next
<1>5. CASE SignalSendDone
  <2>1. task = "sendDone" /\ busy' = FALSE /\ UNCHANGED <<airings, answered>>
    BY <1>5 DEF SignalSendDone
  <2>2. busy /\ ackFlag[txMsg] \in BOOLEAN
    BY <2>1 DEF PromiseInv, ShapeFacts
  <2>3. report' = [error |-> txError, acked |-> ackFlag[txMsg]]
    BY <1>5 DEF SignalSendDone
  <2>4. ASSUME txError = "SUCCESS" PROVE Promise!Sent
    <3>1. airings = 1 /\ ackFlag[txMsg] = answered
      BY <2>1, <2>2, <2>4, ShapeInv DEF PromiseInv, ShapeInv, TypeOK
    <3>. QED
      BY <2>2, <2>3, <2>4, <3>1 DEF Promise!Sent
  <2>5. ASSUME txError = "EBUSY" PROVE Promise!GaveUp
    <3>1. report' \in {r \in Promise!Reports : r.error = "EBUSY"}
      BY <2>2, <2>3, <2>5 DEF Promise!Reports
    <3>. QED
      BY <2>1, <2>2, <2>5, <3>1 DEF PromiseInv, Promise!GaveUp
  <2>6. Promise!SendDone
    BY <2>1, <2>4, <2>5 DEF ShapeFacts, Promise!SendDone
  <2>. QED
    BY <2>6 DEF Promise!Next
<1>. QED
  BY <1>1, <1>2, <1>3, <1>4, <1>5, WhoTouches DEF HistorySteps

\* Every send is answered once, truly, and its frame goes out at most once.
THEOREM StackImplementsFrameService == Spec => ImplementsFrameService
<1>1. Init => PromiseInv /\ Promise!Init
  <2>1. Init => report \in Promise!Reports
    BY DEF Init, Promise!Reports
  <2>. QED
    BY <2>1 DEF Init, PromiseInv, Promise!Init
<1>2. ShapeInv /\ PromiseInv /\ [Next]_vars => PromiseInv'
  BY PromiseStep
<1>3. ShapeInv /\ PromiseInv /\ [Next]_vars => [Promise!Next]_Promise!vars
  BY PromiseSimulation
<1>. QED
  BY <1>1, <1>2, <1>3, LayersStayInStep, PTL
  DEF Spec, ImplementsFrameService, Promise!SafeSpec
=============================================================================
