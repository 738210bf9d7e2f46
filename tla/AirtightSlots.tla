---------------------------- MODULE AirtightSlots ----------------------------
(***************************************************************************)
(* The slot clocks of several nodes: GenericSlotterP on each, the part of  *)
(* TdmaMacP that starts and synchronises it, and the notification the sink *)
(* broadcasts in slot 1 of every frame.  Time is counted in ticks.         *)
(*                                                                         *)
(* synchronize() writes the slot in one atomic section and stops the alarm *)
(* after it, so the alarm may fire in between: SyncBegins and SyncEnds are *)
(* separate actions and AlarmFires may come between them.                  *)
(***************************************************************************)
EXTENDS Integers

CONSTANTS
  Node,            \* the nodes looked at, a subset of 0 .. 4
  SINK_NODE_ID,    \* 0
  SLOTS_IN_FRAME,  \* 6, and its value before MCCP has set it: 17
  BOOT_FRAME,
  SLOT_TICKS,      \* length of a slot, and before MCCP has set it: a tenth
  BOOT_TICKS,
  AIR_TICKS,       \* what a data frame and its acknowledgement take
  MAX_LATENCY,     \* from the sink's slot 1 to synchronize() at a node
  MAX_LATE,        \* how much a node's slots are late in one frame, in all
  MAX_MISSED       \* notifications a synchronised node misses in a row

\* What an alarm may be off by at the end of MAX_MISSED frames and one more.
Drift == (MAX_MISSED + 1) * MAX_LATE

ASSUME SlotsAssumption ==
  /\ Node \subseteq 0 .. 4 /\ SINK_NODE_ID \in Node /\ SINK_NODE_ID = 0
  /\ SLOTS_IN_FRAME \in 6 .. 8 /\ BOOT_FRAME \in Nat /\ BOOT_FRAME >= SLOTS_IN_FRAME
  /\ SLOT_TICKS \in Nat /\ BOOT_TICKS \in 1 .. SLOT_TICKS - 1 /\ AIR_TICKS \in Nat \ {0}
  /\ MAX_LATENCY \in Nat /\ MAX_LATE \in Nat /\ MAX_MISSED \in Nat
  \* the guard time of the slots
  /\ AIR_TICKS + MAX_LATENCY + 2 * Drift <= SLOT_TICKS

VARIABLES
  slot, slotLength, frameLength,  \* GenericSlotterP, at each node
  alarm,                          \* ticks until its alarm fires, or Off
  syncing,                        \* nodes inside synchronize()
  notice,                         \* age of the notification on its way, or None
  onAir,                          \* ticks until the node's transmission ends
  regular,                        \* the sink has begun a second frame
  synced,                         \* history: how the node last synchronised
  missed                          \* history: notifications missed since then

clockVars == <<slot, slotLength, frameLength, alarm, syncing>>
vars == <<clockVars, notice, onAir, regular, synced, missed>>

Off == -1
None == -1
Others == Node \ {SINK_NODE_ID}

\* setup_temp_mcc_table, and a mutant of it.
TxSlotShared(n) == IF n = 4 THEN 5 ELSE n + 2
TxSlot(n) == IF n = 4 THEN 0 ELSE n + 2

\* The sink is about to start; MCCP has configured the others already, and
\* their alarms are off until they have heard a notification.
Init ==
  /\ slot = [n \in Node |-> 0]
  /\ slotLength = [n \in Node |-> IF n = SINK_NODE_ID THEN BOOT_TICKS ELSE SLOT_TICKS]
  /\ frameLength = [n \in Node |-> IF n = SINK_NODE_ID THEN BOOT_FRAME ELSE SLOTS_IN_FRAME]
  /\ alarm = [n \in Node |-> Off] /\ syncing = {}
  /\ notice = [n \in Node |-> None] /\ onAir = [n \in Node |-> 0]
  /\ regular = FALSE
  /\ synced = [n \in Node |-> "never"] /\ missed = [n \in Node |-> 0]

-----------------------------------------------------------------------------
(* Slotter.slot in TdmaMacP: the sink's notification and the data frames.  *)

\* Some nodes receive the notification, none that is transmitting; one that
\* is in step misses at most MAX_MISSED of them in a row.
Counting == {n \in Others : synced[n] \in {"good", "raced"}}

Notify ==
  \E heard \in SUBSET {n \in Others : onAir[n] = 0} :
    /\ {n \in Counting : missed[n] = MAX_MISSED} \subseteq heard
    /\ notice' = [n \in Node |-> IF n \in heard THEN 0 ELSE notice[n]]
    /\ onAir' = [onAir EXCEPT ![SINK_NODE_ID] = AIR_TICKS]
    /\ missed' = [n \in Node |-> IF n \in Counting \ heard THEN missed[n] + 1 ELSE missed[n]]

\* The radio is locked while it sends and busy while it receives; a node may
\* have nothing to send.
Transmit(n) ==
  \E ticks \in {0, AIR_TICKS} :
    onAir' = [onAir EXCEPT ![n] = IF @ = 0 /\ notice[n] = None THEN ticks ELSE @]

SlotEvent(n, s) ==
  IF n = SINK_NODE_ID /\ s = 1 /\ onAir[n] = 0
  THEN Notify
  ELSE /\ UNCHANGED <<notice, missed>>
       /\ IF s # 1 /\ s = TxSlot(n) THEN Transmit(n) ELSE UNCHANGED onAir

\* GenericSlotterP.Alarm.fired; the alarm is restarted after the slot event,
\* which makes a frame late.  A mutant: the slot is not reduced.
NextSlotUnbounded(n) == slot[n] + 1
NextSlot(n) == (slot[n] + 1) % frameLength[n]

Fired(n) ==
  LET s == NextSlot(n) IN
  /\ slot' = [slot EXCEPT ![n] = s]
  /\ \E late \in (IF s = 0 THEN 0 .. MAX_LATE ELSE {0}) :
       alarm' = [alarm EXCEPT ![n] = slotLength[n] + late]
  /\ SlotEvent(n, s)

AlarmFires(n) ==
  /\ alarm[n] = 0
  /\ Fired(n)
  /\ regular' = (regular \/ (n = SINK_NODE_ID /\ slot'[n] = 1))
  /\ UNCHANGED <<slotLength, frameLength, syncing, synced>>

-----------------------------------------------------------------------------
(* Starting the sink: RadioPowerControl.startDone calls synchronize(1) and *)
(* then, through MCCP's startDone, configures the slots.                   *)

SinkStarts ==
  LET n == SINK_NODE_ID IN
  /\ alarm[n] = Off /\ synced[n] = "never"
  /\ Fired(n)
  /\ synced' = [synced EXCEPT ![n] = "good"]
  /\ UNCHANGED <<slotLength, frameLength, syncing, regular>>

\* A mutant: the frame keeps its default length.
ConfigureOnlySlot ==
  LET n == SINK_NODE_ID IN
  /\ synced[n] = "good" /\ slotLength[n] # SLOT_TICKS
  /\ slotLength' = [slotLength EXCEPT ![n] = SLOT_TICKS]
  /\ UNCHANGED <<slot, frameLength, alarm, syncing, notice, onAir, regular, synced, missed>>

Configure ==
  LET n == SINK_NODE_ID IN
  /\ synced[n] = "good" /\ slotLength[n] # SLOT_TICKS
  /\ slotLength' = [slotLength EXCEPT ![n] = SLOT_TICKS]
  /\ frameLength' = [frameLength EXCEPT ![n] = SLOTS_IN_FRAME]
  /\ UNCHANGED <<slot, alarm, syncing, notice, onAir, regular, synced, missed>>

-----------------------------------------------------------------------------
(* SlotterControl.synchronize(1), called where the notification arrives.   *)

SyncBegins(n) ==
  /\ notice[n] # None /\ n \notin syncing
  /\ notice' = [notice EXCEPT ![n] = None]
  /\ slot' = [slot EXCEPT ![n] = 0]
  /\ syncing' = syncing \union {n}
  /\ missed' = [missed EXCEPT ![n] = 0]
  /\ UNCHANGED <<slotLength, frameLength, alarm, onAir, regular, synced>>

HowSynced(n) ==
  IF slot[n] # 0 THEN "raced" ELSE IF regular THEN "good" ELSE "early"

\* Mutants: the alarm goes on as it was, or is not started again.
SyncEndsKeepsAlarm(n) ==
  /\ n \in syncing /\ syncing' = syncing \ {n}
  /\ slot' = [slot EXCEPT ![n] = NextSlot(n)]
  /\ alarm' = [alarm EXCEPT ![n] = IF @ = Off THEN SLOT_TICKS ELSE @]
  /\ synced' = [synced EXCEPT ![n] = HowSynced(n)]
  /\ UNCHANGED <<slotLength, frameLength, notice, onAir, regular, missed>>

SyncEndsStopped(n) ==
  /\ n \in syncing /\ syncing' = syncing \ {n}
  /\ slot' = [slot EXCEPT ![n] = NextSlot(n)]
  /\ alarm' = [alarm EXCEPT ![n] = Off]
  /\ synced' = [synced EXCEPT ![n] = HowSynced(n)]
  /\ UNCHANGED <<slotLength, frameLength, notice, onAir, regular, missed>>

\* The alarm is stopped and Alarm.fired signalled from here.
SyncEnds(n) ==
  /\ n \in syncing /\ syncing' = syncing \ {n}
  /\ Fired(n)
  /\ synced' = [synced EXCEPT ![n] = HowSynced(n)]
  /\ UNCHANGED <<slotLength, frameLength, regular>>

-----------------------------------------------------------------------------
\* Time passes when nothing is due: no alarm, no task and no notification.
Tick ==
  /\ alarm[SINK_NODE_ID] # Off /\ slotLength[SINK_NODE_ID] = SLOT_TICKS
  /\ \A n \in Node : alarm[n] # 0 /\ notice[n] < MAX_LATENCY
  /\ syncing = {}
  /\ alarm' = [n \in Node |-> IF alarm[n] = Off THEN Off ELSE alarm[n] - 1]
  /\ notice' = [n \in Node |-> IF notice[n] = None THEN None ELSE notice[n] + 1]
  /\ onAir' = [n \in Node |-> IF onAir[n] = 0 THEN 0 ELSE onAir[n] - 1]
  /\ UNCHANGED <<slot, slotLength, frameLength, syncing, regular, synced, missed>>

Next ==
  \/ SinkStarts \/ Configure \/ Tick
  \/ \E n \in Node : AlarmFires(n)
  \/ \E n \in Others : SyncBegins(n) \/ SyncEnds(n)

\* Time goes on and what is due happens.
Spec == Init /\ [][Next]_vars /\ WF_vars(Next)

-----------------------------------------------------------------------------
(* Properties.                                                             *)

TypeOK ==
  /\ slot \in [Node -> 0 .. BOOT_FRAME - 1]
  /\ slotLength \in [Node -> {BOOT_TICKS, SLOT_TICKS}]
  /\ frameLength \in [Node -> {BOOT_FRAME, SLOTS_IN_FRAME}]
  /\ alarm \in [Node -> {Off} \union 0 .. SLOT_TICKS + MAX_LATE]
  /\ syncing \subseteq Others
  /\ notice \in [Node -> {None} \union 0 .. MAX_LATENCY]
  /\ onAir \in [Node -> 0 .. AIR_TICKS]
  /\ regular \in BOOLEAN
  /\ synced \in [Node -> {"never", "early", "raced", "good"}]
  /\ missed \in [Node -> 0 .. MAX_MISSED]

\* How far the clock of n is ahead of the sink's, around the frame.
FrameTicks == SLOTS_IN_FRAME * SLOT_TICKS
Position(n) == (slot[n] + 1) * SLOT_TICKS - alarm[n]
Ahead(n) == (Position(n) - Position(SINK_NODE_ID)) % FrameTicks

\* "Makes sure nodes are time synced" (TdmaMacP.nc:882): a node that has
\* synchronised is behind the sink by the latency of the notification and off
\* by the drift since, or, when its alarm fired inside synchronize(), exactly
\* one slot further ahead; never two, however often that happens
\* (GenericSlotterP.nc:73-79,112-118).
InStep(n, slots) ==
  \E off \in -(MAX_LATENCY + Drift) .. Drift :
    Ahead(n) = (slots * SLOT_TICKS + off) % FrameTicks

SlotsAgree ==
  \A n \in Others \ syncing :
    /\ synced[n] = "good" => InStep(n, 0)
    /\ synced[n] = "raced" => InStep(n, 1)

\* No two nodes transmit at the same time, the notification included, unless
\* one has synchronised in a race or to the sink's first, short slot
\* (TdmaMacP.nc:297-319,683-713).
OneSenderAtATime ==
  \A n, m \in Node :
    /\ n # m /\ onAir[n] > 0 /\ onAir[m] > 0
    => \E k \in {n, m} : synced[k] \in {"raced", "early"} \/ k \in syncing

\* The slot finds an entry of mccSchedTable that has been set up, the first
\* eight of its ten, though the sink's slotter starts with frames of seventeen
\* (TdmaMacP.nc:148,171,303,676, GenericSlotterP.nc:52-55).
SlotInTable == \A n \in Node : slot[n] \in 0 .. 7

\* A node that has synchronised once gets its transmission slot again and
\* again, whatever notifications come, though each of them stops its alarm.
EveryNodeKeepsItsSlot ==
  \A n \in Others : synced[n] # "never" ~> slot[n] = TxSlot(n)
=============================================================================
