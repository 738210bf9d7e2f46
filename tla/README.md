# AirTight in TLA+

A verification development of the AirTight mixed-criticality TDMA protocol: the application
under `src/apps/MCCTable`, the two TinyOS components written for or shaped by it,
`src/tos/system/QueueC.nc` and `src/tos/system/GenericSlotterP.nc`, and the radio stack it
sends through, `src/tos/lib/rfxlink` over the RF230 driver. The rest of the repository is
TinyOS, on which it runs.

## 1. The system

Up to five nodes share one radio channel. Time is cut into frames of six slots; every node owns
one transmission slot, slot 1 belongs to the sink's notification, to which the other nodes
synchronise. A node queues the packets of its flows, and the ones it forwards, in three rings, one
per priority; each ring is of LO or HI criticality, fixed at compile time for each node. In its
slot a node sends the most urgent packet. Two missed acknowledgements put it in HI mode: LO
packets are dropped and refused and only HI ones sent. It returns to LO mode when no HI packet is
left, or after a fourth failure, when it gives up everything it holds.

| component | state | operations | depends on |
|---|---|---|---|
| `QueueC` ring | array, head, tail, size | head, dequeue, enqueue, element, sizes | - |
| `PrioCritQueueP` | three rings, three criticality flags | head/dequeue of all, of HI, of one priority; enqueue; clear, clearLO; sizes | QueueC |
| `TdmaMacP` (MAC) | queue and its buffer array, mode, failure counter, lock, fault flag, counters of discarded frames, shared message | slot event, send, sendDone, receive data, receive notification, fault timer | PrioCritQueue, GenericSlotter, ActiveMessageC |
| `GenericSlotterP` | slot, frame and slot lengths, alarm | synchronize, Alarm.fired, setters | alarm |
| `TXFlowP`, `MCCP` (application) | sequence count, busy flag | timer, send, sendDone | MAC |
| `MessageBufferLayerP` | sending state, attempts, last error; receive queue of three buffers | send, its task, sendDone and ready from below; header, receive, deliverTask | UniqueLayer, RandomCollision |
| `UniqueLayerP` | last sequence number of each sender | number a frame; drop a repeated one | - |
| `RandomCollisionLayerP` | state, barrier | send with two back-offs, alarm, barrier after a received frame | SoftwareAck, RadioAlarm |
| `SoftwareAckLayerC` | state, ack flag of the message | send, sendDone, acknowledge, await an acknowledgement, timeout | driver, RadioAlarm |
| `RadioAlarmP` | state, owner | wait, cancel, fired; one alarm for all layers | hardware alarm |
| `RF230DriverLayerP` | cmd, receive buffer | send, interrupt, download; ready when idle | chip |
| `TimeSyncP` (FTSP) | regression table | message, timer | wired, but inert: user mode, `send` commented out |

**Concurrency.** TinyOS has two contexts. Tasks run one at a time to completion: the application's
send, the radio's sendDone and receive events and the fault timer are tasks. The alarm is an
interrupt and runs in one `atomic` block (`TransformAlarmC`), so the slot event, with everything
`TdmaMacP` does in it, is atomic and may come between any two steps of a task. Most of what is
hard about the MAC is there: sendDone takes a dozen separately atomic steps on the mode, the
counter, the rings and the lock. `synchronize` is another such task: it sets the slot in one
atomic section and stops the alarm after it. The radio stack adds tasklets, which exclude each
other: interrupts schedule them, tasks hold them off between `suspend` and `resume`, and one
tasklet runs a whole chain of events through the layers. Between nodes, frames and
acknowledgements are lost, and a node acknowledges a frame long before its MAC sees it.

**What makes each component correct.** The ring: cursors and count agree after any sequence of
calls. The priority queue: it is three bounded FIFOs. The MAC: the mode is a function of missed
acknowledgements; an acknowledgement removes the frame it is for; no HI frame is lost before its
node has given up; HI mode sends only HI; one frame at a time; the node never reaches its own
endless loop; losses are reported; everything queued is eventually sent or given up. The slotter:
a synchronised node is in the sink's slot, but for the latency of the notification and the drift
of the alarms, and no two nodes send at once. The radio stack: every accepted send is answered
once and truthfully, and a frame is acknowledged only if it is kept. The network: a frame is
delivered, or lost for a reason one can name; copies have a cause; traffic ends. The hazards, each at its line and with the properties aimed at it,
are in `PROJECT.json`.

## 2. The modules

| module | stands for | remarks |
|---|---|---|
| `QueueC` | `QueueC.nc` | a ring is a record; a command is an operator |
| `PrioCritQueueP` | `PrioCritQueueP.nc` | a queue is a function from priorities to rings |
| `PrioCritQueue` | the component on its own | one action per command; `ret` is what the last call returned |
| `PrioFifo` | the interface `PrioCritQueue.nc` | abstract: three bounded sequences; results the interface leaves undefined are arbitrary |
| `TdmaMac` | one node's `TdmaMacP.nc` | see below |
| `CritMode` | the criticality protocol | abstract: mode, missed acknowledgements, what is on the air |
| `RadioStack` | the five layers between the MAC and the chip | one action per tasklet or per stretch of a task |
| `FrameService` | `BareSend.nc`, `RadioSend.nc`, `PacketAcknowledgements.nc` | abstract: what a send is promised |
| `AirtightSlots` | `GenericSlotterP.nc` on several nodes, with the notification | time in ticks |
| `AirtightNet` | frames through several MACs, from `TXFlowP` to delivery | composes coarse nodes with a lossy channel |
| `MCPrioCritQueue`, `MCTdmaMac`, `MCAirtightNet` | - | TLC instances |
| `PrioCritQueueLemmas`, `PrioCritQueueProofs`, `TdmaMacProofs`, `TdmaMacHIProofs`, `TdmaMacRefinementProofs`, `RadioStackProofs`, `AirtightSlotsProofs`, `AirtightNetProofs` | - | theorems and proofs |

How they fit together: `TdmaMac` takes from the stack that one frame at a time is out and that its
answer comes, which is `FrameService`, which `RadioStack` implements. `AirtightNet` takes from
`PrioCritQueueProofs` that a ring is a FIFO, from `AirtightSlots` that transmissions do not overlap,
and from `RadioStack` that an acknowledged frame waits in the receiver's queue and that a refused
send reports the flag of the frame before.

`TdmaMac` and the code:

- `q` is `forwardQueue`, whose elements are pointers `<<row, prio>>` into `forwardPktBuffer`; `mem`
  is the content of that array with one row more than the code declares, so that writes past the
  end have a place. `hiCritMode`, `node_ack_fails`, `discarded`, `activeFault`, `phyLock`, `init`,
  `slotterInit` are the variables of the same names. `selfDataPkt` is the shared message: the packet
  copied into it and the acknowledgement request bit of its header.
- `pc`, `arg`, `left`, `ptr`, `reg`, `sentPrio`, `sendResult` are the running task: where it is and its
  locals. `radio` is the frame the stack is sending. `crashed` is the endless loop.
- `sentPtr` (the pointer the frame on the air was copied from), `streak` (failures in a row) and
  `unreported` (discarded frames no transmission has reported) are history: no action reads them.
- One action per step of a task that the slot interrupt can see: the copy into the buffer and the
  insertion of an admission; the load and the store of `discarded[i] += c`; and in sendDone the
  answer, the increment, the test for HI mode with its clearLO (one atomic block), the test for four
  failures, each dequeue of `clear()`, the reset, the limit test, the dequeue and the unlock.
  `AlarmFired` is a whole slot event.
- The data of a packet are reduced to its priority, criticality and C count (`PriorityOf`, `CritOf`,
  `COf`), which decide everything the MAC does. Sequence numbers, times, histories and LEDs are left
  out: the MAC writes them and never decides on them.
- Events are enabled at any time unless the code or the radio forbids it: a notification may come in
  any slot, an acknowledgement be reported or not whatever was requested, a fault start at any time.
- Data races with the slot interrupt. `QueueC.dequeue` moves the head before it takes one off the
  size, outside any atomic block: a slot in between copies an arbitrary cell into `selfDataPkt`
  (`ReadByCopy`). Only the lock, which sendDone holds until it has left the queues, keeps such a copy
  off the air (`WholeFramesSent`); the limit test may read it, but only after the clear has reset the
  counter, so it keeps the frame whatever it reads.
  `QueueC.enqueue` raises the size last, so a slot sees the ring before or after it. The `memcpy`
  into `forwardPktBuffer` may be read half done when the cell is the head of a ring (`NoSharedBuffer`
  shows how that comes to be): both contents have the priority of the ring, and of the other fields
  the MAC decides on only one byte, `crit_level`, so the old or the new content stands for any mix.

`SlotsFit` is the one timing assumption, a constant: TRUE says a transmission ends before the
node's next use of the radio (115 ms slots, six of them; a frame and its acknowledgement take a few
milliseconds). `SentFrameIsHead`, `HIFramesSurvive` and `ImplementsCritMode` need it, because the code
copies the next frame into the shared message before it looks at the lock (`TdmaMacP.nc:591,603`).
`mac_preempted` drops it; section 4 says which theorems use it.

`RadioStack` and the code:

- `mb`, `rc`, `sa` are the `state` of the message buffer, collision and acknowledgement layers, with the
  bit STATE_BARRIER of the second as `barrier`; `alarm`, `owner` those of `RadioAlarmP`; `cmd` the
  driver's, where `upload` says whether the frame being transmitted is data or an acknowledgement.
  `retries`, `txError`, `txMsg`, `receiveQueue`, `head`, `size`, `rxMsg` are the variables of those names;
  `sendPosted` says that sendTask is posted. `receivedNumber` is kept for one sender.
- An action goes all the way: `FrameSent` is the driver's sendDone with what the acknowledgement,
  collision and buffer layers do in their handlers, in that order. `DriverReady` closes every tasklet
  that leaves the driver idle (`RF230DriverLayerP.nc:882`) and gets through a layer only if that is idle.
- The alarm's interrupt (`AlarmFired`) only marks it; the tasklet that serves it comes later, after any
  others. Whether the air is free, whether the driver accepts an acknowledgement, whether a frame
  passes its CRC and how long a barrier still lasts are choices.
- `busy`, `airings`, `answered`, `report` are history, and the variables of `FrameService`.
- The MAC sends again only after the answer, as `phyLock` has it (`LockCoversTransmission`).

`AirtightSlots` and the code:

- `slot`, `slotLength`, `frameLength` are the slotter's; `alarm` counts the ticks until it fires. `Fired`
  is the handler: next slot, the MAC's slot event, restart. `SyncBegins` is the first line of
  `synchronize`, `SyncEnds` the rest; `AlarmFires` may come between. `SinkStarts` and `Configure` are the
  two halves of the sink's start: its first slot event still has the default lengths.
- `notice` is the age of a notification on its way to each node; every other node hears it or not,
  but a node that is in step misses at most `MAX_MISSED` in a row. `onAir` counts what is left of a
  transmission. `Tick` lets time pass when nothing is due.
- The handler restarts the alarm when it is done, so slots come late. The lateness of a whole frame,
  at most `MAX_LATE`, is put at its slot 0.
- A race in `synchronize` leaves the node exactly one slot ahead until its next notification
  (`synced[n] = "raced"`), and the notification of the sink's first slot, 320 ticks long, leaves it ahead
  by what that slot is short (`"early"`). In both states it may transmit together with another node;
  `OneSenderAtATime` says that nothing else can.

`AirtightNet` and the code:

- `ring[n][p]` is the FIFO of buffer rows at node n, `cell` its `forwardPktBuffer`, so that the reuse of
  a queued row (`Overwritten`) is there. `inbox` is the receive queue of its radio stack. A frame is a
  flow and a sequence number; flows have a C count of 1, as flow 9 of `node3.nc` has.
- `SendTimerFired` is the timer, the task and `MCCP` down to `MacSend.send`; `TxSlot` the slot event;
  `Transmitted` the journey of the frame and of its acknowledgement, with all of sendDone; `Refused`
  a send that the stack gives up, where sendDone finds the flag of the frame before; `Received` what the
  MAC does with a frame its stack has acknowledged: deliver, forward, or drop it in a fault.
- `fate` collects for each frame the causes for which a copy of it was lost, `deliveries` how often it
  arrived, `copies` how many of it there may be. They are history.
- That frames arrive in the order they were made is not stated: the reuse of buffer rows breaks it
  (`find_shared_buffer`).

## 3. What is checked

Passing runs:

| run | instance | shows |
|---|---|---|
| `queue` | capacity 2, two elements and a symmetry over them, any criticality of one assignment | the ring arithmetic (`TypeOK`) and the refinement of `PrioFifo` |
| `mac_protocol` | a node that synchronises to the sink (node 4, three slots) with the flows 8 (LO) and 9 (HI) of `node3.nc`, capacity 2 | `ModeMatchesCounter`, `SentFrameIsHead`, `QueuedCellsMatchRing`, `HIModeHasNoLO`, `HIFramesSurvive`, and that the node implements `CritMode`. `SlotsFit` keeps slots out of sendDone here, so the mode and counter are interleaved only with admissions and notifications; slots between the sections of sendDone are in `mac_preempted` |
| `mac_preempted` | sink, three slots, flow 7 (HI) and a LO packet it forwards, capacity 2; slots in the middle of transmissions, a radio that may refuse | `NeverCrashes`, `LockCoversTransmission`; `ModeMatchesCounter` with slots that reset mode and counter between the sections of sendDone; `MostUrgentFirst` where LO packets do wait in HI mode; `WholeFramesSent` with slots in the middle of a dequeue |
| `mac_quiesces` | sink, flows 6 and 7 and a packet of a priority no ring has, capacity 1 | `LossesStayCounted` with the race on the counters; `Quiesces` under fairness |
| `radio_stack` | two messages, two sequence numbers, two retries, a receive queue of two | `LayersAgree`, `AlarmHasOneOwner`, `RetryIsWokenUp`, `BuffersDistinct`, `AckedFramesAreKept`, the refinement of `FrameService`, and `EverySendIsAnswered` under fairness |
| `slots` | sink, nodes 3 and 4; slots of 8 ticks, 3 on the air, latency, lateness and missed notifications up to 1 | `SlotsAgree`, `OneSenderAtATime`, `SlotInTable`; `EveryNodeKeepsItsSlot` under fairness |
| `net` | nodes 0, 1, 3; two HI packets from 3 to 1 through the sink and one LO packet from the sink to 1; capacity 2, receive queue of 1 | `NoSilentLoss`, `CopiesHaveACause`; `NetDrains` under fairness |

Violation runs, each a disagreement between the code and what it says of itself:

| run | disagreement |
|---|---|
| `find_shared_buffer` | the buffer row of a new packet is the ring's *size*, so after a dequeue it is the row of a packet still queued, which is overwritten (`TdmaMacP.nc:729`) |
| `find_buffer_bounds` | priorities 1 to 3 index a dimension of three counted from 0, and the row is the ring's size: at priority 3 the copy leaves the array from one short of full on (730) |
| `find_four_in_a_row` | the counter is not reset by an acknowledgement, so the clear "after 4 fails in a row" comes after four failures in all (970-972) |
| `find_ack_in_fault` | "in faulty mode, don't request the ACK" only skips setting a bit an earlier frame has set (612-621) |
| `find_stale_ack` | a send refused in all its attempts is answered with the acknowledgement flag of the frame before it; the MAC dequeues a frame that was never sent (`SoftwareAckLayerC.nc:86`, `TdmaMacP.nc:935`) |

One more disagreement needs no run: the refusal of `enqueue` is dropped (`TdmaMacP.nc:753`) and SUCCESS
returned for a packet that found its ring full, where the comment at 769 says "FAIL if the buffer packet
was NULL (space not in the queue)". In `AirtightNet` it is the cause `"ringFull"`: a forwarder loses a
frame it has acknowledged.

**Bounds.** `QUEUE_SIZE` 1 or 2 for the code's 20: every branch of the ring (empty, full, wrapped, a
cursor at either end) occurs with two cells, and the rings differ only in priority and criticality;
the proofs cover every capacity. Two packets of different priority and criticality: a ring holds
copies of one packet, and the pointers tell them apart. `SLOTS_IN_FRAME` 3 keeps the
notification slot, the transmission slot (2 at the sink, 0 at node 4) and one idle slot: more idle
slots only put more slot events between two uses of the radio. The violation runs of node 3 use six. `MaxDiscard`
bounds the packets refused between two transmissions, otherwise only the wrap of a statistics
counter would bound the state; the wrap itself, which takes 256 frames discarded between two
transmissions, is therefore not reached. The view of `mac_preempted` leaves the three
history variables out: no action reads them and no property of that run mentions them.

In `radio_stack` two retries and a queue of two reach every branch (accepted, refused, exhausted; empty,
full, wrapped); `find_stale_ack` has the code's five and three, and the proofs cover all. In `slots`
nodes 3 and 4 have the two slots before the notification and the sink the two after it, so the tightest
neighbours are there: 4 is followed at once by the notification. The lengths make the guard time
exactly enough (`SlotsAssumption`: 3 + 1 + 2 * 2 = 8 ticks): one tick more of lateness, and
transmissions may overlap. In `net` every cause a frame can be lost for occurs, and double deliveries.
`MaxCopies` bounds the acknowledgements that are lost or not heeded (each makes a copy), `MaxSeq` the
packets, `FaultyNode` and `RefusingNode` say where faults and refusals happen. Node 1 is where frames end
and needs neither. The relayed flow is not one of the committed ones, which are single-hop: it uses the
routing table as `route_next_hop` has it, with a priority that is HI at both nodes.

**Fairness** (`FairSpec`): the alarm is restarted by its own handler, so it fires again; the radio
finishes a frame it accepted; a task that runs is never abandoned; and a node that is up hears the
sink. Nothing is assumed of acknowledgements or of the application. `Quiesces` is checked at the
sink, whose slot counter nothing disturbs: elsewhere a notification may in that model come in every
slot and the transmission slot never. `EveryNodeKeepsItsSlot` is the other half: in time, with one
notification in a frame, a synchronised node does get its slot.

`RadioStack`: posted tasks run, the alarm fires and is served, the chip ends what it began. Strong
fairness for the send task, because deliverTask may run many times between; and infinitely often no
task runs, which says that the loop of deliverTask ends: the MAC takes a frame faster than the channel
brings the next. Nothing is assumed of the channel. `AirtightSlots`: time goes on and what is due happens.
`AirtightNet`: each node gets its slots (strong, since a slot is only used while nobody else transmits),
transmissions end, and received frames are picked up; nothing of whether frames or acknowledgements
arrive, so `NetDrains` holds over a channel that loses everything.

Each property of a passing run also has a mutant, an operator next to the definition it changes,
that breaks it the way a plausible slip in the code would.

## 4. What is proved

With TLAPS, for every value of the constants that satisfies the named assumptions
(`QueueSizeAssumption`: a capacity of 1 to 85, so that the sum of three sizes fits its byte;
`HiCritAssumption`, `PacketAssumption`, `NodeAssumption`, `PointerAssumption`, `NullEltAssumption`: the
constants have their types):

- `PrioCritQueueProofs!QueueTypeOK`: the rings keep `tail = head + size` (mod capacity) under any
  sequence of calls. The lemmas of `PrioCritQueueLemmas` say what a command does to the *sequence* a ring
  stands for: dequeue is `Tail`, enqueue `Append`, and so on.
- `PrioCritQueueProofs!RingsImplementFifos`: `Spec => PrioFifo!Spec` with the rings' contents as
  the FIFOs, one lemma per command.
- `TdmaMacProofs!MacTypeOK`, `ModeFollowsCounter`, `LockIsExact`, `CrashIsUnreachable`,
  `CellsMatchRings`: all from one inductive invariant, `MacInv`, preserved by every action
  (`MacInvIsInductive`). It strengthens the properties by what holds in the middle of a task.
  `ModeInv`: mode and counter agree except between the increment and the test, where HI means
  three or four and LO at most two, and four is seen only until the clear is over; a slot event
  leaves them alone or resets both (`ModeKeptOrReset`), which preserves each clause. `LockInv`: while
  sendDone runs the radio is idle. `HoldsOnly(q, Holding)`: every ring holds only pointers of its own
  column whose cell has a packet of its priority; a new copy is made in the column of its own
  priority, so overwriting a queued cell cannot break it. `TaskInv`, `FrameInv`: what the locals and
  the frame on the air may be, which the type of `sentPrio` needs. `NeverCrashes` is there because
  with no frame selected the rings of the mode are all rings.

- `TdmaMacProofs!DiscardedStayCounted`: discarded frames stay counted until reported. `CountInv` adds
  to `MacInv` that while a refused packet is being counted the value loaded is no less than what is
  unreported (a slot in between can only report more), and that the counters stay within their bound.
  It assumes a radio that accepts (`~ RadioMayRefuse`): a refused send loses the counters it has just
  cleared (`TdmaMacP.nc:629`).

None but the last of these assumes `SlotsFit` or a radio that accepts, nor does `OnlyWholeFramesSent` below. The
theorems on HI packets and on the protocol need hypotheses, stated in each of them:

- `PrioritiesSeparate`: a priority is HI in `priocrit<node>.nc` exactly when the packets queued at it
  are. It holds for the flows of all five committed nodes (`MCTdmaMac` assumes it, so TLC evaluates it
  in every instance). Nothing in the code enforces it: a forwarded packet keeps the priority its source
  gave it, which another node's file may class differently. None of the committed flows is forwarded.
- `SlotsFit`, and for the first theorem that the node forwards nothing.

| theorem | needs | argument |
|---|---|---|
| `TdmaMacHIProofs!NoLOInHIMode` | `PrioritiesSeparate`, `Forwarded = {}` | `NoLOInv` adds that an admission already under way in HI mode is not for a LO ring; the mode rises in one atomic block with `clearLO`, while no admission runs |
| `TdmaMacHIProofs!MostUrgentIsSent` | `PrioritiesSeparate` | a slot selects the head of the first nonempty ring of the mode, so what `MacInv` says of queued cells gives the packet's priority |
| `TdmaMacHIProofs!OnlyWholeFramesSent` | - | the lock is exact, so no frame is handed over inside a dequeue (`FreeCopyIsWhole`), and then the slot read the head of a ring of the packet's priority |
| `TdmaMacHIProofs!HIFramesAreKept` | `PrioritiesSeparate`, `SlotsFit` | `JudgeInv`: sendDone judges the frame it was called for, clears only after a fourth failure, and gives up a frame that was not acknowledged only if it is LO |
| `TdmaMacHIProofs!SentFrameStaysHead` | `SlotsFit` | `HeadInv`: until it is decided, the frame out is a copy of the head of its ring; an admission never changes the head of a ring that is not empty |
| `TdmaMacRefinementProofs!MacImplementsCritMode` | `PrioritiesSeparate`, `SlotsFit` | each action is a step of `CritMode` or leaves its state alone; `CountedInv` says the test for HI mode finds the failure just registered |

The mapping of the last one (`protocolMode`, `protocolFails`, `protocolOnAir`) puts a missed
acknowledgement at the step that tests for HI mode: before it the protocol has not seen the failure,
after it a fourth failure counts as served, although `clear()` still has elements to remove.

`RadioStackProofs` proves all safety properties of the stack, for every set of messages and
sequence numbers, every number of retries and every size of the receive queue (`StackAssumption`). The
invariant `ShapeInv` joins `TypeOK`, `LayersAgree`, `AlarmHasOneOwner` and `RetryIsWokenUp`, which only
hold together: a layer's handler keeps the agreement because the alarm it stops is its own, and the
alarm is its own because the layers agree. It needs two more parts, that a delivering task has
something in the queue and that attempts are counted up to one past the limit. On top of it stand
`Distinct` (the pointers of the queue and the driver's are a permutation: a swap keeps it) for
`BuffersStayDistinct`, and `PromiseInv` (how often the frame was aired and whether it was answered, as a
function of where the layers are) for `StackImplementsFrameService`, where each action is a step of
`FrameService` or leaves its variables alone. `AcknowledgedIsKept` needs no more than the types.

`AirtightSlotsProofs` proves the safety properties of the slot clocks for every set of nodes and every
length that satisfies `SlotsAssumption`: the sink is node 0, as in the routing table; its first frame is
no shorter than the configured one and its first slot is shorter than a configured slot (17 against
6 slots, a tenth of the length, `SlotTiming.h`); and the guard time `AIR_TICKS + MAX_LATENCY + 2 * Drift <=
SLOT_TICKS`, where `Drift` is how late the slots of `MAX_MISSED` frames and one more may be. That is the
whole argument for slots of 115 ms: nothing else is assumed of their length. The theorems are `OneSender`,
`ClocksAgree`, `SlotStaysInTable` and `TypesHold`, all from `SlotsInv`:

- `SinkInv`, `SyncedInv`: how far the start of the sink has come, and which nodes have their alarm
  running; a node that has not heard the sink never sends. `SlotStaysInTable` needs the start: the
  first slot event is there before the frame has its length.
- `ClockInv`: an alarm never waits longer than its slot plus what the frame may be late, and `NoticeInv`:
  while a notification is on its way the sink stays in the slot it was sent in (only the short one of
  its first frame may end before).
- `DriftInv` is the heart. A node's offset from the sink lies in a window that grows by `MAX_LATE` with
  every frame the sink begins (on the node's early side) or the node begins (on its late side) since it
  last heard the sink. It counts the begun frames of both, which differ by at most one, because either of
  them may have entered its next frame first: `k` is that difference. `WithinDrift(n, k)` moves from one
  `k` to the next when a clock wraps, and is established anew by a notification. `SlotsAgree` alone is not
  inductive: it bounds the offset, not how much of the bound the frames so far have used up.
- `AirInv`: a transmission is in its own slot and as old as the slot. With `DriftInv` it puts the sink's
  clock in a window around the sender's slot, and the windows of different slots are apart by the guard time.

`AirtightNetProofs` proves, for any number of flows, any capacities and any pattern of lost frames,
lost acknowledgements, faults and refusals, that no frame disappears without a reason
(`NothingLostSilently`), that none is delivered more often than it was copied (`CopiesCaused`) and that
types and bounds hold (`TypesHold`). Two assumptions on the constants go
beyond types. The sink is one of the nodes. And `CritMatchesPriority`: at every node that queues a
flow's packets (its source, and the sink if the flow crosses it) its priority is a HI priority exactly
if the flow is HI; all eleven flows of `node0.nc` to `node4.nc` satisfy it with `priocrit0.nc` to
`priocrit4.nc`. Only the second part of `NoSilentLoss` uses it, that a HI frame is lost for no other than
the five reasons. `NetInv` adds to the property:

- `QueueInv`: a queued frame has the priority of its queue and is at a node on its way, whatever cells
  have been reused. A forwarder's test for LO and HI therefore agrees with the flow's.
- `SendingInv`: the frame being sent is at the head of its queue, *or* its cell was reused, and then
  another entry of that queue leads to the frame that replaced it (`AtHead`). This is what saves custody
  when an acknowledgement comes after the reuse: the entry removed is not the one of the frame sent, but
  the frame it led to is still queued. The obvious invariant, that the head is the frame being sent, is
  false in this code.
- `InboxInv`: what waits to be picked up is at its destination or at a node that carries it on.

`CopiesCaused` needs a second invariant, `CountInv`: the deliveries of a frame and its `Places` together
are at most its `copies`. A frame has a place for every queue entry that leads to it (`Entries`), for every
message waiting to be picked up (`Arrivals`), one while it is not made yet, and one for every node that is
sending it although its queue entry already leads to another frame (`Orphans`). The last is what the reused
cells ask for: such a frame is in no queue, but the radio still brings it to the next hop, and the entry its
acknowledgement removes belongs to another frame. Each step is then an account (`NothingGained`): a frame
heard gains a place and one acknowledged loses one, by its own entry or as an orphan (`SentCounts`); a packet
queued takes a place, the entries that come to lead to it take one each and are counted as copies, and the
frames they led to lose as many (`EnqueueCounts`). `CopiesMade`, the bound on the copies TLC explores, plays
no part in it. TLC found no violation of `CountInv` on the instance of `net` before it was proved.

Only model-checked: liveness (`Quiesces`, `EverySendIsAnswered`, `EveryNodeKeepsItsSlot`, `NetDrains`),
which is beyond the prover.

## 5. What is not modelled

- `MacPowerControl.stop` and the sleeping radio: nothing in the application stops the MAC. In the
  same way `Send.cancel`, `SplitControl`, channels and clear-channel assessment of the radio stack, which
  the application does not use after start-up.
- The headers that `ActiveMessageLayerP` and `Ieee154PacketLayerP` write and read, SPI arbitration, and the
  neighbourhood table of `UniqueLayerP` (the model has one sender).
- The frame length the sink sets before `MCCP` sets it is taken as set at once in `TdmaMac` (`StartDone`);
  `AirtightSlots` has the interval.
- `busy` and the counters of `TXFlowP` and `MCCP`, which nothing reads; `RXFlow`, an empty interface.
- In `AirtightNet`, the interleaving of one node's interrupt with its tasks (that is `TdmaMac`) and of
  its radio's tasklets (that is `RadioStack`); first synchronisation, which empties a node's rings.
- FTSP (inert here: user mode, and its only `send` commented out), the chip drivers but for `cmd`, timers,
  the listener, the baseline variant, the retired applications and stock TinyOS: see the components in
  `PROJECT.json`.

## 6. Plan

1. Queue, MAC of one node, first theorems (done).
2. The slotter against its alarm and the slots of several nodes: `AirtightSlots` (done).
3. The radio stack and its service: `RadioStack`, `FrameService`, proved (done).
4. The network: `AirtightNet` (done).
5. Proofs of `AirtightSlots`: slot exclusivity for every length of slot with the guard time (done).
6. Proofs of `AirtightNet`: custody, and the count of copies (done).
7. First synchronisation and node resets in the network.
