------------------------------ MODULE RadioStack ------------------------------
(***************************************************************************)
(* The radio stack between the MAC and the RF230 chip, on one node:        *)
(* MessageBufferLayerP (mb), RandomCollisionLayerP (rc, barrier),          *)
(* SoftwareAckLayerC (sa), UniqueLayerP (receivedNumber), the alarm all    *)
(* of them share (RadioAlarmP) and, of RF230DriverLayerP, what the chip is *)
(* doing.  The stack is switched on; nothing here switches it off.         *)
(*                                                                         *)
(* Layer code runs in tasklets, which exclude each other, and each action  *)
(* below is one tasklet or one stretch of a task inside suspend/resume,    *)
(* with the whole chain of events it signals through the layers.  The      *)
(* alarm interrupt only marks the alarm as fired; a tasklet serves it      *)
(* later.  task is where the running task is between two such stretches.   *)
(***************************************************************************)
EXTENDS Integers

CONSTANTS
  Message,             \* the messages the MAC hands down, one at a time
  Dsn,                 \* sequence numbers of received frames
  NoDsn,
  MAX_RETRIES,         \* 5
  RECEIVE_QUEUE_SIZE   \* 3

ASSUME StackAssumption ==
  /\ MAX_RETRIES \in Nat \ {0}
  /\ RECEIVE_QUEUE_SIZE \in Nat \ {0}
  /\ NoDsn \notin Dsn

VARIABLES
  mb, retries, txError, txMsg, sendPosted,   \* MessageBufferLayerP, sending
  receiveQueue, head, size,                  \* MessageBufferLayerP, receiving
  rc, barrier,                               \* RandomCollisionLayerP
  sa, ackReq, ackFlag,                       \* SoftwareAckLayerC, frame bits
  alarm, owner,                              \* RadioAlarmP
  cmd, upload, rxMsg,                        \* RF230DriverLayerP
  receivedNumber,                            \* UniqueLayerP
  task,                                      \* the task that is running
  busy, airings, answered, report            \* history, see FrameService

sendVars == <<mb, retries, txError, txMsg, sendPosted>>
recvVars == <<receiveQueue, head, size, rxMsg, receivedNumber>>
rcVars == <<rc, barrier>>
saVars == <<sa, ackReq, ackFlag>>
alarmVars == <<alarm, owner>>
chipVars == <<cmd, upload>>
history == <<busy, airings, answered, report>>
vars == <<sendVars, recvVars, rcVars, saVars, alarmVars, chipVars, task, history>>

\* The three buffers of the queue and the one the driver receives into.
Slot == 0 .. RECEIVE_QUEUE_SIZE - 1
Buffer == 0 .. RECEIVE_QUEUE_SIZE
Wrap(i) == IF i >= RECEIVE_QUEUE_SIZE THEN i - RECEIVE_QUEUE_SIZE ELSE i

Init ==
  /\ mb = "READY" /\ retries = 0 /\ txError = "SUCCESS"
  /\ txMsg \in Message /\ sendPosted = FALSE
  /\ receiveQueue = [i \in Slot |-> i] /\ head = 0 /\ size = 0
  /\ rxMsg = RECEIVE_QUEUE_SIZE /\ receivedNumber = NoDsn
  /\ rc = "READY" /\ barrier = FALSE
  /\ sa = "READY" /\ ackReq = FALSE /\ ackFlag = [m \in Message |-> FALSE]
  /\ alarm = "READY" /\ owner = "collision"
  /\ cmd = "NONE" /\ upload = "frame"
  /\ task = "idle"
  /\ busy = FALSE /\ airings = 0 /\ answered = FALSE
  /\ report = [error |-> "SUCCESS", acked |-> FALSE]

-----------------------------------------------------------------------------
(* RadioAlarmP: one alarm, used by whichever layer finds it free.          *)

AlarmFree == alarm = "READY"
StartAlarm(who) == alarm' = "WAIT" /\ owner' = who
StopAlarm == alarm' = "READY" /\ UNCHANGED owner

\* The interrupt; the layer is told in a later tasklet.
AlarmFired ==
  /\ alarm = "WAIT" /\ alarm' = "FIRED"
  /\ UNCHANGED <<sendVars, recvVars, rcVars, saVars, owner, chipVars, task, history>>

-----------------------------------------------------------------------------
(* Events that pass up through the layers.                                 *)

\* MessageBufferLayerP.RadioSend.sendDone
BufferSendDone(error) ==
  /\ txError' = error
  /\ mb' = IF error = "SUCCESS" THEN "TX_DONE" ELSE "TX_PENDING"
  /\ sendPosted' = TRUE
  /\ UNCHANGED <<retries, txMsg>>

\* MessageBufferLayerP.RadioSend.ready
BufferReady ==
  IF mb = "TX_RETRY"
  THEN /\ mb' = "TX_PENDING" /\ sendPosted' = TRUE
       /\ UNCHANGED <<retries, txError, txMsg>>
  ELSE UNCHANGED sendVars

\* SoftwareAckLayerC signals sendDone: the collision layer forgets the
\* frame, and a barrier it met meanwhile, and passes the event on.
FrameDone(error) ==
  /\ sa' = "READY"
  /\ rc' = "READY" /\ barrier' = FALSE
  /\ BufferSendDone(error)

\* The driver signals ready after every tasklet that leaves it idle; the
\* event gets through when every layer is idle then.
DriverReady ==
  IF /\ cmd' = "NONE" /\ sa' = "READY"
     /\ rc' = "READY" /\ ~ barrier' /\ alarm' = "READY"
  THEN BufferReady
  ELSE UNCHANGED sendVars

-----------------------------------------------------------------------------
(* MessageBufferLayerP: the MAC's send, and the task behind it.            *)

\* The MAC holds its lock until sendDone, so it sends again only after it.
Send(m, wantsAck) ==
  /\ mb = "READY" /\ ~ busy
  /\ txMsg' = m /\ ackReq' = wantsAck
  /\ mb' = "TX_PENDING" /\ retries' = 0 /\ sendPosted' = TRUE
  /\ busy' = TRUE /\ airings' = 0 /\ answered' = FALSE
  /\ UNCHANGED <<txError, recvVars, rcVars, sa, ackFlag, alarmVars, chipVars,
                 task, report>>

SendTaskRuns == task = "idle" /\ sendPosted /\ sendPosted' = FALSE

\* RandomCollisionLayerP.RadioSend.send accepts only when it and the alarm
\* are free.
CollisionFree == rc = "READY" /\ ~ barrier /\ AlarmFree
MayTry == mb = "TX_PENDING" /\ retries < MAX_RETRIES

\* A mutant: attempts are not counted.
SendTaskTriesUncounted ==
  /\ SendTaskRuns /\ MayTry /\ CollisionFree
  /\ mb' = "TX_SEND" /\ txError' = "SUCCESS"
  /\ rc' = "TX_PENDING_FIRST" /\ StartAlarm("collision")
  /\ UNCHANGED <<txMsg, retries, recvVars, barrier, saVars, chipVars, task, history>>

SendTaskTries ==
  /\ SendTaskRuns /\ MayTry /\ CollisionFree
  /\ retries' = retries + 1
  /\ mb' = "TX_SEND" /\ txError' = "SUCCESS"
  /\ rc' = "TX_PENDING_FIRST" /\ StartAlarm("collision")
  /\ UNCHANGED <<txMsg, recvVars, barrier, saVars, chipVars, task, history>>

SendTaskWaits ==
  /\ SendTaskRuns /\ MayTry /\ ~ CollisionFree
  /\ retries' = retries + 1
  /\ mb' = "TX_RETRY" /\ txError' = "EBUSY"
  /\ UNCHANGED <<txMsg, recvVars, rcVars, saVars, alarmVars, chipVars, task, history>>

SendTaskEnds ==
  /\ SendTaskRuns /\ ~ MayTry
  /\ retries' = IF mb = "TX_PENDING" THEN retries + 1 ELSE retries
  /\ mb' = "READY" /\ task' = "sendDone"
  /\ UNCHANGED <<txError, txMsg, recvVars, rcVars, saVars, alarmVars, chipVars, history>>

\* signal Send.sendDone(txMsg, txError), after resume; the MAC asks wasAcked.
SignalSendDone ==
  /\ task = "sendDone" /\ task' = "idle"
  /\ busy' = FALSE
  /\ report' = [error |-> txError, acked |-> ackFlag[txMsg]]
  /\ UNCHANGED <<sendVars, recvVars, rcVars, saVars, alarmVars, chipVars,
                 airings, answered>>

-----------------------------------------------------------------------------
(* RandomCollisionLayerP.RadioAlarm.fired                                  *)

CollisionAlarm(states) ==
  /\ alarm = "FIRED" /\ owner = "collision" /\ rc \in states

\* A mutant: nobody is told that the barrier is over.
BarrierOverSilent ==
  /\ CollisionAlarm({"READY"}) /\ barrier
  /\ StopAlarm /\ barrier' = FALSE
  /\ UNCHANGED <<sendVars, rc, recvVars, saVars, chipVars, task, history>>

BarrierOver ==
  /\ CollisionAlarm({"READY"}) /\ barrier
  /\ StopAlarm /\ barrier' = FALSE
  /\ BufferReady
  /\ UNCHANGED <<rc, recvVars, saVars, chipVars, task, history>>

\* The back-off is over, no barrier is ahead, no acknowledgement of ours is
\* being sent, and the driver is idle and hears nothing.
FrameGoesOut ==
  /\ CollisionAlarm({"TX_PENDING_FIRST", "TX_PENDING_SECOND"})
  /\ sa = "READY" /\ cmd = "NONE"
  /\ StopAlarm
  /\ rc' = "TX_SENDING" /\ barrier' = FALSE
  /\ sa' = "DATA_SEND" /\ ackFlag' = [ackFlag EXCEPT ![txMsg] = FALSE]
  /\ cmd' = "TRANSMIT" /\ upload' = "frame"
  /\ airings' = airings + 1
  /\ UNCHANGED <<sendVars, recvVars, ackReq, task, busy, answered, report>>

\* The first attempt fails, for any reason: back off once more.
BackOffAgain ==
  /\ CollisionAlarm({"TX_PENDING_FIRST"})
  /\ rc' = "TX_PENDING_SECOND" /\ StartAlarm("collision")
  /\ UNCHANGED <<sendVars, recvVars, barrier, saVars, chipVars, task, history>>

\* So does the second; a barrier that still lies ahead is waited for.
BackOffGivesUp(ahead) ==
  /\ CollisionAlarm({"TX_PENDING_SECOND"})
  /\ rc' = "READY" /\ barrier' = (barrier /\ ahead)
  /\ IF barrier /\ ahead THEN StartAlarm("collision") ELSE StopAlarm
  /\ BufferSendDone("EBUSY")
  /\ UNCHANGED <<recvVars, saVars, chipVars, task, history>>

-----------------------------------------------------------------------------
(* The driver has transmitted a frame or an acknowledgement.  It has one   *)
(* sendDone for both; SoftwareAckLayerC tells them apart by its state.     *)

AckSent ==
  /\ cmd = "TRANSMIT" /\ sa = "ACK_SEND"
  /\ cmd' = "NONE" /\ sa' = "READY"
  /\ UNCHANGED <<upload, rcVars, alarmVars>>
  /\ DriverReady
  /\ UNCHANGED <<recvVars, ackReq, ackFlag, task, history>>

FrameSent ==
  /\ cmd = "TRANSMIT" /\ sa # "ACK_SEND"
  /\ cmd' = "NONE"
  /\ IF ackReq /\ AlarmFree
     THEN /\ sa' = "ACK_WAIT" /\ StartAlarm("ack")
          /\ UNCHANGED <<rcVars, sendVars>>
     ELSE /\ FrameDone("SUCCESS")
          /\ UNCHANGED alarmVars
  /\ UNCHANGED <<upload, recvVars, ackReq, ackFlag, task, history>>

\* SoftwareAckLayerC.RadioAlarm.fired.  A mutant: a frame without an
\* acknowledgement counts as not sent.
AckTimeoutAsFailure ==
  /\ alarm = "FIRED" /\ owner = "ack"
  /\ StopAlarm
  /\ FrameDone("EBUSY")
  /\ UNCHANGED <<recvVars, ackReq, ackFlag, chipVars, task, history>>

AckTimeout ==
  /\ alarm = "FIRED" /\ owner = "ack"
  /\ StopAlarm
  /\ FrameDone("SUCCESS")
  /\ UNCHANGED <<recvVars, ackReq, ackFlag, chipVars, task, history>>

-----------------------------------------------------------------------------
(* Reception.                                                              *)

ReceptionStarts ==
  /\ cmd = "NONE" /\ cmd' = "RECEIVE"
  /\ UNCHANGED <<sendVars, recvVars, rcVars, saVars, alarmVars, upload, task, history>>

\* The CRC is wrong, or a layer has refused the header: an unexpected
\* acknowledgement or no room in the queue.
FrameDropped ==
  /\ cmd = "RECEIVE" /\ cmd' = "NONE"
  /\ UNCHANGED <<saVars, rcVars, alarmVars, upload>>
  /\ DriverReady
  /\ UNCHANGED <<recvVars, task, history>>

\* A mutant: the timeout is left running.
AckReceivedKeepsAlarm ==
  /\ cmd = "RECEIVE" /\ cmd' = "NONE"
  /\ sa = "ACK_WAIT"
  /\ ackFlag' = [ackFlag EXCEPT ![txMsg] = TRUE]
  /\ FrameDone("SUCCESS")
  /\ answered' = TRUE
  /\ UNCHANGED <<recvVars, alarmVars, ackReq, upload, task, busy, airings, report>>

\* An acknowledgement with the sequence number of the frame that waits.
AckReceived ==
  /\ cmd = "RECEIVE" /\ cmd' = "NONE"
  /\ sa = "ACK_WAIT"
  /\ StopAlarm
  /\ ackFlag' = [ackFlag EXCEPT ![txMsg] = TRUE]
  /\ FrameDone("SUCCESS")
  /\ answered' = TRUE
  /\ UNCHANGED <<recvVars, ackReq, upload, task, busy, airings, report>>

\* A mutant: it answers while it waits for an acknowledgement itself.
AcknowledgeWhileWaiting(accepted) ==
  IF accepted
  THEN cmd' = "TRANSMIT" /\ upload' = "ack" /\ sa' = "ACK_SEND"
  ELSE cmd' = "NONE" /\ UNCHANGED <<upload, sa>>

\* SoftwareAckLayerC answers at once, if it is idle and the driver accepts;
\* otherwise the frame is passed up without an acknowledgement.
Acknowledge(accepted) ==
  IF sa = "READY" /\ accepted
  THEN cmd' = "TRANSMIT" /\ upload' = "ack" /\ sa' = "ACK_SEND"
  ELSE cmd' = "NONE" /\ UNCHANGED <<upload, sa>>

\* RandomCollisionLayerP keeps the air free for the acknowledgement.
RaiseBarrier ==
  IF rc = "READY"
  THEN IF ~ barrier /\ AlarmFree
       THEN barrier' = TRUE /\ StartAlarm("collision")
       ELSE UNCHANGED <<barrier, alarmVars>>
  ELSE barrier' = TRUE /\ UNCHANGED alarmVars

\* A mutant: the queued buffer is also the one the driver goes on using.
StoreWithoutSwap ==
  /\ receiveQueue' = [receiveQueue EXCEPT ![Wrap(head + size)] = rxMsg]
  /\ size' = size + 1
  /\ UNCHANGED <<head, rxMsg>>

\* MessageBufferLayerP.RadioReceive.receive swaps buffers with the driver.
Store ==
  IF size >= RECEIVE_QUEUE_SIZE
  THEN UNCHANGED <<receiveQueue, head, size, rxMsg>>
  ELSE LET idx == Wrap(head + size)
       IN /\ rxMsg' = receiveQueue[idx]
          /\ receiveQueue' = [receiveQueue EXCEPT ![idx] = rxMsg]
          /\ size' = size + 1
          /\ UNCHANGED head

\* UniqueLayerP drops a repeated sequence number.
PassUp(dsn) ==
  IF receivedNumber = dsn
  THEN UNCHANGED recvVars
  ELSE receivedNumber' = dsn /\ Store

\* MessageBufferLayerP.RadioReceive.header, asked before the frame is
\* acknowledged; a mutant of it.
HeaderAlwaysAccepted == TRUE
HeaderAccepted == size < RECEIVE_QUEUE_SIZE

\* A data frame, for this node and to be acknowledged or not.
FrameReceived(wantsAck, accepted, dsn) ==
  /\ cmd = "RECEIVE"
  /\ HeaderAccepted
  /\ IF wantsAck
     THEN Acknowledge(accepted) /\ RaiseBarrier
     ELSE cmd' = "NONE" /\ UNCHANGED <<upload, sa, barrier, alarmVars>>
  /\ UNCHANGED <<rc, ackReq, ackFlag>>
  /\ PassUp(dsn)
  /\ DriverReady
  /\ UNCHANGED <<task, history>>

\* deliverTask: the frame keeps its place until the MAC has returned.
DeliverStarts ==
  /\ task = "idle" /\ size > 0
  /\ task' = "deliver"
  /\ UNCHANGED <<sendVars, recvVars, rcVars, saVars, alarmVars, chipVars, history>>

\* A mutant: the head runs off the end of the queue.
DeliverNextUnwrapped ==
  /\ task = "deliver"
  /\ head' = head + 1 /\ size' = size - 1
  /\ task' = IF size = 1 THEN "idle" ELSE "deliver"
  /\ UNCHANGED <<sendVars, receiveQueue, rxMsg, receivedNumber, rcVars, saVars,
                 alarmVars, chipVars, history>>

\* The MAC returns the buffer it was given.
DeliverNext ==
  /\ task = "deliver"
  /\ head' = Wrap(head + 1) /\ size' = size - 1
  /\ task' = IF size = 1 THEN "idle" ELSE "deliver"
  /\ UNCHANGED <<sendVars, receiveQueue, rxMsg, receivedNumber, rcVars, saVars,
                 alarmVars, chipVars, history>>

-----------------------------------------------------------------------------
SendTask == SendTaskTries \/ SendTaskWaits \/ SendTaskEnds \/ SignalSendDone
DeliverTask == DeliverStarts \/ DeliverNext
AlarmServed ==
  \/ BarrierOver \/ FrameGoesOut \/ BackOffAgain \/ AckTimeout
  \/ \E ahead \in BOOLEAN : BackOffGivesUp(ahead)
ChipTransmitted == AckSent \/ FrameSent
ChipReceived ==
  \/ FrameDropped \/ AckReceived
  \/ \E wantsAck, accepted \in BOOLEAN, dsn \in Dsn :
       FrameReceived(wantsAck, accepted, dsn)

Next ==
  \/ \E m \in Message, wantsAck \in BOOLEAN : Send(m, wantsAck)
  \/ SendTask \/ DeliverTask
  \/ AlarmFired \/ AlarmServed
  \/ ChipTransmitted \/ ReceptionStarts \/ ChipReceived

Spec == Init /\ [][Next]_vars

\* Posted tasks run in turn, the alarm fires and is served, the chip ends
\* what it has begun, and the MAC takes a frame faster than the next one is
\* received, so that the loop of deliverTask ends.  Nothing is assumed of the
\* channel or of acknowledgements.
Fairness ==
  /\ SF_vars(SendTask) /\ WF_vars(DeliverTask) /\ []<>(task = "idle")
  /\ WF_vars(AlarmFired) /\ WF_vars(AlarmServed)
  /\ WF_vars(ChipTransmitted) /\ WF_vars(ChipReceived)

FairSpec == Spec /\ Fairness

-----------------------------------------------------------------------------
(* Properties.                                                             *)

TypeOK ==
  /\ mb \in {"READY", "TX_PENDING", "TX_RETRY", "TX_SEND", "TX_DONE"}
  /\ retries \in 0 .. MAX_RETRIES + 1
  /\ txError \in {"SUCCESS", "EBUSY"} /\ txMsg \in Message
  /\ sendPosted \in BOOLEAN
  /\ receiveQueue \in [Slot -> Buffer] /\ rxMsg \in Buffer
  /\ head \in Slot /\ size \in 0 .. RECEIVE_QUEUE_SIZE
  /\ receivedNumber \in Dsn \union {NoDsn}
  /\ rc \in {"READY", "TX_PENDING_FIRST", "TX_PENDING_SECOND", "TX_SENDING"}
  /\ barrier \in BOOLEAN
  /\ sa \in {"READY", "DATA_SEND", "ACK_WAIT", "ACK_SEND"}
  /\ ackReq \in BOOLEAN /\ ackFlag \in [Message -> BOOLEAN]
  /\ alarm \in {"READY", "WAIT", "FIRED"} /\ owner \in {"collision", "ack"}
  /\ cmd \in {"NONE", "TRANSMIT", "RECEIVE"} /\ upload \in {"frame", "ack"}
  /\ task \in {"idle", "sendDone", "deliver"}
  /\ busy \in BOOLEAN /\ airings \in Nat /\ answered \in BOOLEAN
  /\ report \in [error : {"SUCCESS", "EBUSY"}, acked : BOOLEAN]

\* Each layer is where the one below it thinks it is, so that every event
\* finds the state its RADIO_ASSERT asks for (they are compiled out in this
\* build: MessageBufferLayerP.nc:195,219, SoftwareAckLayerC.nc:108,126,
\* RandomCollisionLayerP.nc:115) and the driver's one sendDone is taken for
\* the frame it is about.
LayersAgree ==
  /\ mb = "TX_SEND" <=> rc # "READY"
  /\ rc = "TX_SENDING" <=> sa \in {"DATA_SEND", "ACK_WAIT"}
  /\ cmd = "TRANSMIT" <=> sa \in {"DATA_SEND", "ACK_SEND"}
  /\ cmd = "TRANSMIT" => (upload = "ack" <=> sa = "ACK_SEND")

\* The alarm runs exactly for the one layer that waits for it, whichever
\* layer cancelled or restarted it last (RadioAlarmP.nc:93-127).
CollisionWaits == rc \in {"TX_PENDING_FIRST", "TX_PENDING_SECOND"} \/ (rc = "READY" /\ barrier)
AlarmHasOneOwner ==
  /\ alarm # "READY" <=> CollisionWaits \/ sa = "ACK_WAIT"
  /\ alarm # "READY" => (owner = "ack" <=> sa = "ACK_WAIT")

\* A refused send is never forgotten: the layer that refused it has the
\* alarm running and will signal ready, and a state the task must look at
\* has the task posted (MessageBufferLayerP.nc:197-204,227,252-259).
RetryIsWokenUp ==
  /\ mb = "TX_RETRY" => rc = "READY" /\ barrier /\ alarm # "READY"
  /\ sendPosted <=> mb \in {"TX_PENDING", "TX_DONE"}

\* The driver never writes into a buffer that is queued or being delivered,
\* although frames arrive while deliverTask is in the MAC
\* (MessageBufferLayerP.nc:322-374).
BuffersDistinct ==
  /\ \A i \in Slot : receiveQueue[i] # rxMsg
  /\ \A i, j \in Slot : i # j => receiveQueue[i] # receiveQueue[j]
  /\ task = "deliver" => size > 0

\* A frame is acknowledged only if it is kept, or repeats one that was: "this
\* prevents undeliverable messages to be acknowledged"
\* (MessageBufferLayerP.nc:316).  The acknowledgement goes out three layers
\* below the queue, and before it.
AckedFramesAreKept ==
  [][/\ sa # "ACK_SEND" /\ sa' = "ACK_SEND"
        => size' = size + 1 \/ receivedNumber' = receivedNumber
     /\ receivedNumber' # receivedNumber => size' = size + 1]_vars

\* To the MAC the five layers are FrameService: one answer for each send,
\* SUCCESS exactly if the frame was transmitted, once, however often layers
\* refused and retried, and with SUCCESS a true acknowledgement flag
\* (BareSend.nc, RadioSend.nc, SoftwareAckLayerC.nc:78-160).
Promise == INSTANCE FrameService
ImplementsFrameService == Promise!SafeSpec

\* ... and the answer always comes, even if every attempt is refused.
EverySendIsAnswered == busy ~> ~ busy

\* "Tell a caller whether or not a transmitted packet was acknowledged"; the
\* MAC takes TRUE for "successful" and dequeues the frame.
AckFlagIsTrue == task = "sendDone" /\ ackFlag[txMsg] => answered
=============================================================================
