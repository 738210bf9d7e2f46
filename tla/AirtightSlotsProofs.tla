------------------------- MODULE AirtightSlotsProofs -------------------------
(***************************************************************************)
(* The slot clocks of the nodes, for every slot length, latency, lateness  *)
(* and number of missed notifications that the guard time leaves room for: *)
(* the clocks stay in step and no two nodes transmit at the same time.     *)
(***************************************************************************)
EXTENDS AirtightSlots, TLAPS

-----------------------------------------------------------------------------
(* The inductive invariant.                                                *)

Sink == SINK_NODE_ID

\* The sink before its start, before MCCP has configured it, and after.
NotStarted ==
  /\ synced[Sink] = "never" /\ ~ regular
  /\ slot[Sink] = 0 /\ alarm[Sink] = Off
  /\ slotLength[Sink] = BOOT_TICKS /\ frameLength[Sink] = BOOT_FRAME
  /\ onAir[Sink] = 0 /\ syncing = {}
  /\ \A n \in Others : synced[n] = "never" /\ notice[n] = None

Starting ==
  /\ synced[Sink] = "good" /\ ~ regular
  /\ slot[Sink] = 1 /\ alarm[Sink] = BOOT_TICKS
  /\ slotLength[Sink] = BOOT_TICKS /\ frameLength[Sink] = BOOT_FRAME

Running ==
  /\ synced[Sink] = "good"
  /\ slot[Sink] < SLOTS_IN_FRAME /\ alarm[Sink] # Off
  /\ slotLength[Sink] = SLOT_TICKS /\ frameLength[Sink] = SLOTS_IN_FRAME

SinkInv ==
  /\ NotStarted \/ Starting \/ Running
  /\ notice[Sink] = None

\* The other nodes are configured; a slot is late only if it is slot 0.
ClockInv ==
  /\ \A n \in Others :
       /\ slotLength[n] = SLOT_TICKS /\ frameLength[n] = SLOTS_IN_FRAME
       /\ slot[n] < SLOTS_IN_FRAME
  /\ \A n \in Node :
       alarm[n] <= SLOT_TICKS + (IF slot[n] = 0 THEN MAX_LATE ELSE 0)

\* A node that has not synchronised does nothing; one that is in step has
\* heard of a frame of full length.
SyncedInv ==
  \A n \in Others :
    /\ IF synced[n] = "never" THEN alarm[n] = Off /\ slot[n] = 0 /\ onAir[n] = 0
                              ELSE alarm[n] # Off
    /\ synced[n] \in {"good", "raced"} => regular

\* While a notification is on its way, and while it is served, the sink is
\* in the slot it was sent in; only the short slot of the sink's first frame
\* may end before.
NoticeAge(n) ==
  IF regular
  THEN slot[Sink] = 1 /\ alarm[Sink] = SLOT_TICKS - notice[n]
  ELSE /\ synced[n] = "never"
       /\ \/ slot[Sink] = 1 /\ alarm[Sink] = BOOT_TICKS - notice[n]
          \/ slot[Sink] = 2 /\ alarm[Sink] = SLOT_TICKS + BOOT_TICKS - notice[n]

ServedInTime(n) ==
  IF regular
  THEN slot[Sink] = 1 /\ alarm[Sink] \in SLOT_TICKS - MAX_LATENCY .. SLOT_TICKS
  ELSE /\ synced[n] = "never"
       /\ slot[Sink] \in {1, 2} /\ (slot[Sink] = 2 => alarm[Sink] > 0)

NoticeInv ==
  \A n \in Others :
    /\ notice[n] # None => onAir[n] = 0 /\ NoticeAge(n)
    /\ n \in syncing =>
         /\ notice[n] = None /\ onAir[n] = 0 /\ missed[n] = 0
         /\ slot[n] = 0 \/ (slot[n] = 1 /\ alarm[n] = SLOT_TICKS)
         /\ ServedInTime(n)

\* A transmission is in its own slot, and as old as the slot.
InOwnSlot(n) == onAir[n] + SLOT_TICKS - alarm[n] <= AIR_TICKS

AirInv ==
  /\ \A n \in Others : onAir[n] > 0 => slot[n] = TxSlot(n) /\ InOwnSlot(n)
  /\ onAir[Sink] > 0 => \/ slot[Sink] = 1 /\ (regular => InOwnSlot(Sink))
                        \/ slot[Sink] = 2 /\ InOwnSlot(Sink)

\* The drift of a node: how often the sink and the node have begun a frame
\* since the node synchronised, and how late they were in all.  The node may
\* be a frame ahead of the sink or behind it (k), where one of them has
\* begun the next and the other has not.
Lateness(frames) == frames * MAX_LATE
SinkFrames(n) ==
  missed[n] + (IF slot[Sink] = 0 \/ notice[n] # None THEN 1 ELSE 0)
RaceTicks(n) == IF synced[n] = "raced" THEN SLOT_TICKS ELSE 0
Offset(n, k) == Position(n) - Position(Sink) + k * FrameTicks - RaceTicks(n)

WithinDrift(n, k) ==
  /\ SinkFrames(n) + k \in 0 .. MAX_MISSED + 1
  /\ Offset(n, k) <= Lateness(SinkFrames(n))
  /\ Offset(n, k) >= -(MAX_LATENCY + Lateness(SinkFrames(n) + k))
  /\ slot[n] = 0 => Position(n) >= Offset(n, k) - Lateness(SinkFrames(n))

DriftInv ==
  \A n \in Others \ syncing :
    synced[n] \in {"good", "raced"} => \E k \in {-1, 0, 1} : WithinDrift(n, k)

SlotsInv ==
  TypeOK /\ SinkInv /\ ClockInv /\ SyncedInv /\ NoticeInv /\ AirInv /\ DriftInv

-----------------------------------------------------------------------------
(* Arithmetic.                                                             *)

LEMMA DivMod ==
  ASSUME NEW b \in Nat, 0 < b, NEW x \in Int
  PROVE  x = (x \div b) * b + (x % b) /\ x % b \in 0 .. b - 1 /\ x \div b \in Int
<1>1. x % b \in 0 .. b - 1
  OBVIOUS
<1>2. x \div b \in Int
  OBVIOUS
<1>3. x = (x \div b) * b + (x % b)
  OBVIOUS
<1>. QED
  BY <1>1, <1>2, <1>3

LEMMA MultipleIsFar ==
  ASSUME NEW b \in Nat, NEW d \in Int
  PROVE  (d >= 1 => d * b >= b) /\ (d <= -1 => d * b <= -b)
  OBVIOUS

LEMMA ModUnique ==
  ASSUME NEW b \in Nat, 0 < b, NEW q \in Int, NEW r \in 0 .. b - 1
  PROVE  (q * b + r) % b = r
<1> DEFINE m == (q * b + r) % b
           p == (q * b + r) \div b
<1>1. q * b + r = p * b + m /\ m \in 0 .. b - 1 /\ p \in Int
  <2>1. q * b + r \in Int
    OBVIOUS
  <2>. QED
    BY <2>1, DivMod
<1>. HIDE DEF m, p
<1>2. (q - p) * b = m - r
  BY <1>1
<1>3. q = p
  <2>1. q - p \in Int
    BY <1>1
  <2>2. (q - p >= 1 => (q - p) * b >= b) /\ (q - p <= -1 => (q - p) * b <= -b)
    BY <2>1, MultipleIsFar
  <2>3. ~ (q - p >= 1) /\ ~ (q - p <= -1)
    BY <1>1, <1>2, <2>1, <2>2
  <2>. QED
    BY <1>1, <2>1, <2>3
<1>. QED
  BY <1>1, <1>3 DEF m

\* Two numbers a multiple of b apart have the same remainder.
LEMMA ModShift ==
  ASSUME NEW b \in Nat, 0 < b, NEW x \in Int, NEW y \in Int, NEW k \in Int,
         x = y + k * b
  PROVE  x % b = y % b
<1> DEFINE q == y \div b
           r == y % b
<1>1. y = q * b + r /\ r \in 0 .. b - 1 /\ q \in Int
  BY DivMod
<1>. HIDE DEF q, r
<1>2. x = (q + k) * b + r
  BY <1>1
<1>3. q + k \in Int
  BY <1>1
<1>4. x % b = r
  BY <1>1, <1>2, <1>3, ModUnique
<1>. QED
  BY <1>4 DEF r

LEMMA SmallMod ==
  ASSUME NEW a \in Nat, NEW b \in Nat
  PROVE  (a < b => a % b = a) /\ (a = b /\ 0 < b => a % b = 0)
  OBVIOUS

LEMMA ProductsGrow ==
  ASSUME NEW b \in Nat, NEW x \in Int, NEW y \in Int, x <= y
  PROVE  x * b <= y * b
  OBVIOUS

\* What the guard time leaves room for.
LEMMA GuardTime ==
  /\ SLOT_TICKS \in Nat /\ BOOT_TICKS \in Nat /\ AIR_TICKS \in Nat
  /\ MAX_LATENCY \in Nat /\ MAX_LATE \in Nat /\ MAX_MISSED \in Nat
  /\ Drift \in Nat /\ MAX_LATE <= Drift
  /\ 0 < BOOT_TICKS /\ BOOT_TICKS < SLOT_TICKS /\ 0 < AIR_TICKS
  /\ AIR_TICKS + MAX_LATENCY + 2 * Drift <= SLOT_TICKS
<1>1. MAX_LATE \in Nat /\ MAX_MISSED \in Nat
  BY SlotsAssumption
<1>2. Drift \in Nat /\ MAX_LATE <= Drift
  BY <1>1, ProductsGrow DEF Drift
<1>. QED
  BY <1>2, SlotsAssumption

LEMMA FrameLength ==
  /\ SLOTS_IN_FRAME \in 6 .. 8 /\ FrameTicks \in Nat
  /\ 6 * SLOT_TICKS <= FrameTicks /\ FrameTicks = SLOTS_IN_FRAME * SLOT_TICKS
<1>1. SLOTS_IN_FRAME \in 6 .. 8 /\ SLOT_TICKS \in Nat
  BY SlotsAssumption
<1>. QED
  BY <1>1, ProductsGrow DEF FrameTicks

LEMMA LatenessBounds ==
  /\ Lateness(0) = 0
  /\ \A w \in 0 .. MAX_MISSED + 1 : Lateness(w) \in 0 .. Drift
  /\ \A w \in 0 .. MAX_MISSED : Lateness(w + 1) = Lateness(w) + MAX_LATE
<1>1. MAX_LATE \in Nat /\ MAX_MISSED \in Nat
  BY SlotsAssumption
<1>2. ASSUME NEW w \in 0 .. MAX_MISSED + 1
      PROVE  Lateness(w) \in 0 .. Drift
  BY <1>1, ProductsGrow DEF Lateness, Drift
<1>3. ASSUME NEW w \in 0 .. MAX_MISSED
      PROVE  Lateness(w + 1) = Lateness(w) + MAX_LATE
  BY <1>1 DEF Lateness
<1>4. Lateness(0) = 0
  BY <1>1 DEF Lateness
<1>. QED
  BY <1>2, <1>3, <1>4

-----------------------------------------------------------------------------
(* What the slot interrupt does.                                           *)

LEMMA NodeFacts ==
  ASSUME NEW n \in Node
  PROVE  /\ n \in 0 .. 4 /\ TxSlot(n) \in {0, 2, 3, 4, 5} /\ TxSlot(Sink) = 2
         /\ Sink \in Node /\ (n \in Others <=> n # Sink)
         /\ \A m \in Node : m # n => TxSlot(m) # TxSlot(n)
<1>1. Node \subseteq 0 .. 4 /\ Sink \in Node /\ Sink = 0
  BY SlotsAssumption DEF Sink
<1>. QED
  BY <1>1 DEF TxSlot, Others, Sink

\* Every slot but the last is followed by the next, in time; the last by
\* slot 0, which may be late.
LEMMA FiredClock ==
  ASSUME TypeOK, NEW n \in Node, Fired(n), slotLength[n] = SLOT_TICKS,
         frameLength[n] = SLOTS_IN_FRAME, slot[n] < SLOTS_IN_FRAME
  PROVE  /\ \/ /\ slot[n] < SLOTS_IN_FRAME - 1
               /\ slot'[n] = slot[n] + 1 /\ alarm'[n] = SLOT_TICKS
            \/ /\ slot[n] = SLOTS_IN_FRAME - 1
               /\ slot'[n] = 0 /\ alarm'[n] \in SLOT_TICKS .. SLOT_TICKS + MAX_LATE
         /\ slot' \in [Node -> 0 .. BOOT_FRAME - 1]
         /\ alarm' \in [Node -> {Off} \union 0 .. SLOT_TICKS + MAX_LATE]
         /\ \A m \in Node \ {n} : slot'[m] = slot[m] /\ alarm'[m] = alarm[m]
         /\ SlotEvent(n, slot'[n])
<1>1. /\ slot \in [Node -> 0 .. BOOT_FRAME - 1] /\ slot[n] \in Nat
      /\ alarm \in [Node -> {Off} \union 0 .. SLOT_TICKS + MAX_LATE]
      /\ SLOTS_IN_FRAME \in 6 .. 8 /\ BOOT_FRAME \in Nat /\ BOOT_FRAME >= SLOTS_IN_FRAME
  BY SlotsAssumption DEF TypeOK
<1>2. SLOT_TICKS \in Nat /\ MAX_LATE \in Nat /\ 0 < SLOT_TICKS
  BY GuardTime
<1> DEFINE s == NextSlot(n)
<1>3. /\ slot' = [slot EXCEPT ![n] = s] /\ SlotEvent(n, s)
      /\ \E late \in (IF s = 0 THEN 0 .. MAX_LATE ELSE {0}) :
           alarm' = [alarm EXCEPT ![n] = SLOT_TICKS + late]
  BY DEF Fired
<1>4. IF slot[n] < SLOTS_IN_FRAME - 1 THEN s = slot[n] + 1
                                      ELSE s = 0 /\ slot[n] = SLOTS_IN_FRAME - 1
  BY <1>1, SmallMod DEF NextSlot
<1>. HIDE DEF s
<1>5. s \in 0 .. BOOT_FRAME - 1 /\ slot'[n] = s
  BY <1>1, <1>3, <1>4
<1>6. /\ alarm'[n] \in SLOT_TICKS .. SLOT_TICKS + MAX_LATE
      /\ s # 0 => alarm'[n] = SLOT_TICKS
      /\ \A m \in Node \ {n} : alarm'[m] = alarm[m]
      /\ alarm' \in [Node -> {Off} \union 0 .. SLOT_TICKS + MAX_LATE]
  <2>1. PICK late \in (IF s = 0 THEN 0 .. MAX_LATE ELSE {0}) :
          alarm' = [alarm EXCEPT ![n] = SLOT_TICKS + late]
    BY <1>3
  <2>2. late \in 0 .. MAX_LATE /\ (s # 0 => late = 0)
    BY <1>2, <2>1
  <2>3. SLOT_TICKS + late \in SLOT_TICKS .. SLOT_TICKS + MAX_LATE
    BY <1>2, <2>2
  <2>4. alarm'[n] = SLOT_TICKS + late
    BY <1>1, <2>1
  <2>5. s # 0 => SLOT_TICKS + late = SLOT_TICKS
    BY <1>2, <2>2
  <2>6. SLOT_TICKS + late \in 0 .. SLOT_TICKS + MAX_LATE
    BY <1>2, <2>3
  <2>. QED
    BY <1>1, <2>1, <2>3, <2>4, <2>5, <2>6
<1>9. \/ /\ slot[n] < SLOTS_IN_FRAME - 1
         /\ slot'[n] = slot[n] + 1 /\ alarm'[n] = SLOT_TICKS
      \/ /\ slot[n] = SLOTS_IN_FRAME - 1
         /\ slot'[n] = 0 /\ alarm'[n] \in SLOT_TICKS .. SLOT_TICKS + MAX_LATE
  BY <1>1, <1>2, <1>4, <1>5, <1>6
<1>10. slot' \in [Node -> 0 .. BOOT_FRAME - 1]
  BY <1>1, <1>3, <1>5
<1>11. \A m \in Node \ {n} : slot'[m] = slot[m] /\ alarm'[m] = alarm[m]
  BY <1>1, <1>3, <1>6
<1>. QED
  BY <1>3, <1>5, <1>6, <1>9, <1>10, <1>11

\* Where a node is in its frame when its alarm is due and after it.
LEMMA FiredPosition ==
  ASSUME TypeOK, NEW n \in Node, Fired(n), slotLength[n] = SLOT_TICKS,
         frameLength[n] = SLOTS_IN_FRAME, slot[n] < SLOTS_IN_FRAME, alarm[n] = 0
  PROVE  /\ Position(n) \in Int /\ Position(n)' \in Int
         /\ \/ slot'[n] = slot[n] + 1 /\ Position(n)' = Position(n)
            \/ /\ slot'[n] = 0 /\ slot[n] = SLOTS_IN_FRAME - 1
               /\ Position(n) = FrameTicks
               /\ -Position(n)' \in 0 .. MAX_LATE
         /\ \A m \in Node \ {n} : Position(m)' = Position(m)
<1>1. SLOT_TICKS \in Nat /\ MAX_LATE \in Nat /\ slot[n] \in Nat
  BY GuardTime DEF TypeOK
<1>2. CASE slot'[n] = slot[n] + 1 /\ alarm'[n] = SLOT_TICKS
  <2>1. Position(n) = (slot[n] + 1) * SLOT_TICKS
    BY <1>1 DEF Position
  <2>2. Position(n)' = (slot[n] + 1 + 1) * SLOT_TICKS - SLOT_TICKS
    BY <1>2 DEF Position
  <2>3. Position(n)' = Position(n) /\ Position(n) \in Int
    BY <1>1, <2>1, <2>2
  <2>. QED
    BY <1>2, <2>3, FiredClock DEF Position
<1>3. CASE /\ slot[n] = SLOTS_IN_FRAME - 1
           /\ slot'[n] = 0 /\ alarm'[n] \in SLOT_TICKS .. SLOT_TICKS + MAX_LATE
  <2>1. Position(n) = SLOTS_IN_FRAME * SLOT_TICKS
    BY <1>1, <1>3, FrameLength DEF Position
  <2>2. Position(n)' = SLOT_TICKS - alarm'[n]
    BY <1>1, <1>3 DEF Position
  <2>3. /\ Position(n) = FrameTicks /\ Position(n) \in Int
        /\ -Position(n)' \in 0 .. MAX_LATE /\ Position(n)' \in Int
    BY <1>1, <1>3, <2>1, <2>2, FrameLength
  <2>. QED
    BY <1>3, <2>3, FiredClock DEF Position
<1>. QED
  BY <1>2, <1>3, FiredClock

\* A node may begin a transmission, in its own slot.
LEMMA OwnSlotEvent ==
  ASSUME TypeOK, NEW n \in Node, NEW s, SlotEvent(n, s),
         n # Sink \/ s # 1 \/ onAir[Sink] # 0
  PROVE  /\ UNCHANGED <<notice, missed>>
         /\ onAir' \in [Node -> 0 .. AIR_TICKS]
         /\ \A m \in Node \ {n} : onAir'[m] = onAir[m]
         /\ \/ onAir'[n] = onAir[n]
            \/ /\ s = TxSlot(n) /\ s # 1 /\ onAir[n] = 0 /\ notice[n] = None
               /\ onAir'[n] \in {0, AIR_TICKS}
<1>1. onAir \in [Node -> 0 .. AIR_TICKS] /\ AIR_TICKS \in Nat
  BY GuardTime DEF TypeOK
<1>2. /\ UNCHANGED <<notice, missed>>
      /\ IF s # 1 /\ s = TxSlot(n) THEN Transmit(n) ELSE UNCHANGED onAir
  BY DEF SlotEvent, Sink
<1>3. CASE UNCHANGED onAir
  BY <1>1, <1>2, <1>3
<1>4. CASE s # 1 /\ s = TxSlot(n) /\ Transmit(n)
  <2>1. PICK ticks \in {0, AIR_TICKS} :
          onAir' = [onAir EXCEPT ![n] = IF @ = 0 /\ notice[n] = None THEN ticks ELSE @]
    BY <1>4 DEF Transmit
  <2>2. onAir'[n] = IF onAir[n] = 0 /\ notice[n] = None THEN ticks ELSE onAir[n]
    BY <1>1, <2>1
  <2>3. onAir' \in [Node -> 0 .. AIR_TICKS] /\ \A m \in Node \ {n} : onAir'[m] = onAir[m]
    BY <1>1, <2>1
  <2>. QED
    BY <1>2, <1>4, <2>1, <2>2, <2>3
<1>. QED
  BY <1>2, <1>3, <1>4

\* The notification reaches some nodes; those in step that it does not reach
\* count it as missed.
LEMMA NotifyEvent ==
  ASSUME TypeOK, SlotEvent(Sink, 1), onAir[Sink] = 0
  PROVE  /\ notice' \in [Node -> {None} \union 0 .. MAX_LATENCY]
         /\ onAir' \in [Node -> 0 .. AIR_TICKS]
         /\ missed' \in [Node -> 0 .. MAX_MISSED]
         /\ notice'[Sink] = notice[Sink] /\ onAir'[Sink] = AIR_TICKS
         /\ \A m \in Others :
              /\ onAir'[m] = onAir[m]
              /\ \/ notice'[m] = 0 /\ onAir[m] = 0 /\ missed'[m] = missed[m]
                 \/ /\ notice'[m] = notice[m]
                    /\ m \in Counting => missed'[m] = missed[m] + 1
<1>1. /\ onAir \in [Node -> 0 .. AIR_TICKS] /\ missed \in [Node -> 0 .. MAX_MISSED]
      /\ notice \in [Node -> {None} \union 0 .. MAX_LATENCY]
      /\ AIR_TICKS \in Nat /\ MAX_LATENCY \in Nat /\ MAX_MISSED \in Nat
      /\ Sink \in Node /\ Others = Node \ {Sink}
  BY GuardTime, SlotsAssumption DEF TypeOK, Sink, Others
<1>2. PICK heard \in SUBSET {n \in Others : onAir[n] = 0} :
        /\ {n \in Counting : missed[n] = MAX_MISSED} \subseteq heard
        /\ notice' = [n \in Node |-> IF n \in heard THEN 0 ELSE notice[n]]
        /\ onAir' = [onAir EXCEPT ![SINK_NODE_ID] = AIR_TICKS]
        /\ missed' = [n \in Node |-> IF n \in Counting \ heard THEN missed[n] + 1
                                                               ELSE missed[n]]
  BY DEF SlotEvent, Notify, Sink
<1>3. notice' \in [Node -> {None} \union 0 .. MAX_LATENCY]
  BY <1>1, <1>2
<1>4. onAir' \in [Node -> 0 .. AIR_TICKS] /\ onAir'[Sink] = AIR_TICKS
      /\ \A m \in Others : onAir'[m] = onAir[m]
  BY <1>1, <1>2 DEF Sink
<1>5. missed' \in [Node -> 0 .. MAX_MISSED]
  <2>1. ASSUME NEW n \in Node, n \in Counting \ heard
        PROVE  missed[n] + 1 \in 0 .. MAX_MISSED
    <3>1. missed[n] # MAX_MISSED /\ missed[n] \in 0 .. MAX_MISSED
      BY <1>1, <1>2, <2>1
    <3>. QED
      BY <1>1, <3>1
  <2>. QED
    BY <1>1, <1>2, <2>1
<1>6. notice'[Sink] = notice[Sink]
  BY <1>1, <1>2
<1>7. ASSUME NEW m \in Others
      PROVE  \/ notice'[m] = 0 /\ onAir[m] = 0 /\ missed'[m] = missed[m]
             \/ /\ notice'[m] = notice[m]
                /\ m \in Counting => missed'[m] = missed[m] + 1
  BY <1>1, <1>2
<1>. QED
  BY <1>3, <1>4, <1>5, <1>6, <1>7

-----------------------------------------------------------------------------
(* Every step keeps the invariant: first those before the sink runs.       *)

LEMMA Types ==
  ASSUME TypeOK, NEW n \in Node
  PROVE  /\ slot[n] \in Nat /\ alarm[n] \in Int /\ onAir[n] \in 0 .. AIR_TICKS
         /\ alarm[n] # Off => alarm[n] >= 0
         /\ notice[n] \in {None} \union 0 .. MAX_LATENCY
         /\ missed[n] \in 0 .. MAX_MISSED
         /\ Position(n) \in Int /\ SinkFrames(n) \in 0 .. MAX_MISSED + 1
         /\ RaceTicks(n) \in Nat
<1>1. /\ slot[n] \in Nat /\ alarm[n] \in Int /\ onAir[n] \in 0 .. AIR_TICKS
      /\ alarm[n] # Off => alarm[n] >= 0
      /\ notice[n] \in {None} \union 0 .. MAX_LATENCY
      /\ missed[n] \in 0 .. MAX_MISSED
  BY GuardTime DEF TypeOK, Off
<1>2. Position(n) \in Int
  BY <1>1, GuardTime DEF Position
<1>3. SinkFrames(n) \in 0 .. MAX_MISSED + 1 /\ RaceTicks(n) \in Nat
  BY <1>1, GuardTime DEF SinkFrames, RaceTicks
<1>. QED
  BY <1>1, <1>2, <1>3

LEMMA InitSlots == Init => SlotsInv
<1>. SUFFICES ASSUME Init PROVE SlotsInv
  OBVIOUS
<1>0. /\ SLOTS_IN_FRAME \in 6 .. 8 /\ BOOT_FRAME \in Nat /\ BOOT_FRAME >= SLOTS_IN_FRAME
      /\ Sink \in Node /\ Others = Node \ {Sink}
  BY SlotsAssumption DEF Sink, Others
<1>1. TypeOK
  <2>1. slot \in [Node -> 0 .. BOOT_FRAME - 1] /\ onAir \in [Node -> 0 .. AIR_TICKS]
    BY <1>0, GuardTime DEF Init
  <2>2. /\ slotLength \in [Node -> {BOOT_TICKS, SLOT_TICKS}]
        /\ frameLength \in [Node -> {BOOT_FRAME, SLOTS_IN_FRAME}]
    BY DEF Init
  <2>3. /\ alarm \in [Node -> {Off} \union 0 .. SLOT_TICKS + MAX_LATE]
        /\ notice \in [Node -> {None} \union 0 .. MAX_LATENCY]
        /\ missed \in [Node -> 0 .. MAX_MISSED]
    BY GuardTime DEF Init
  <2>. QED
    BY <2>1, <2>2, <2>3 DEF TypeOK, Init
<1>2. SinkInv
  BY <1>0 DEF Init, SinkInv, NotStarted, Sink
<1>3. ClockInv
  BY <1>0, GuardTime DEF Init, ClockInv, Off, Sink
<1>4. SyncedInv /\ NoticeInv /\ AirInv
  BY <1>0 DEF Init, SyncedInv, NoticeInv, AirInv, Sink
<1>5. DriftInv
  BY <1>0 DEF Init, DriftInv
<1>. QED
  BY <1>1, <1>2, <1>3, <1>4, <1>5 DEF SlotsInv

LEMMA ConfigureKeeps ==
  ASSUME SlotsInv, Configure
  PROVE  SlotsInv'
<1>1. /\ TypeOK /\ SinkInv /\ ClockInv /\ SyncedInv /\ NoticeInv /\ AirInv /\ DriftInv
      /\ Sink \in Node /\ Others = Node \ {Sink}
  BY SlotsAssumption DEF SlotsInv, Sink, Others
<1>2. /\ UNCHANGED <<slot, alarm, syncing, notice, onAir, regular, synced, missed>>
      /\ slotLength' = [slotLength EXCEPT ![Sink] = SLOT_TICKS]
      /\ frameLength' = [frameLength EXCEPT ![Sink] = SLOTS_IN_FRAME]
      /\ synced[Sink] = "good" /\ slotLength[Sink] # SLOT_TICKS
  BY DEF Configure, Sink
<1>3. Starting
  BY <1>1, <1>2 DEF SinkInv, NotStarted, Running
<1>4. TypeOK'
  BY <1>1, <1>2 DEF TypeOK
<1>5. SinkInv'
  BY <1>1, <1>2, <1>3, GuardTime, FrameLength
     DEF SinkInv, Starting, Running, TypeOK, Off
<1>6. ClockInv'
  BY <1>1, <1>2 DEF ClockInv, TypeOK
<1>7. SyncedInv'
  BY <1>1, <1>2 DEF SyncedInv
<1>8. NoticeInv'
  BY <1>1, <1>2 DEF NoticeInv, NoticeAge, ServedInTime
<1>9. AirInv'
  BY <1>1, <1>2 DEF AirInv, InOwnSlot
<1>10. DriftInv'
  BY <1>1, <1>2, <1>3 DEF DriftInv, SyncedInv, Starting
<1>. QED
  BY <1>4, <1>5, <1>6, <1>7, <1>8, <1>9, <1>10 DEF SlotsInv

LEMMA SinkStartsKeeps ==
  ASSUME SlotsInv, SinkStarts
  PROVE  SlotsInv'
<1>1. /\ TypeOK /\ SinkInv /\ ClockInv /\ SyncedInv /\ NoticeInv /\ AirInv /\ DriftInv
      /\ Sink \in Node /\ Others = Node \ {Sink}
  BY SlotsAssumption DEF SlotsInv, Sink, Others
<1>2. /\ Fired(Sink) /\ synced' = [synced EXCEPT ![Sink] = "good"]
      /\ UNCHANGED <<slotLength, frameLength, syncing, regular>>
      /\ synced[Sink] = "never"
  BY DEF SinkStarts, Sink
<1>3. NotStarted
  BY <1>1, <1>2 DEF SinkInv, Starting, Running
<1>4. NextSlot(Sink) = 1
  <2>1. BOOT_FRAME \in Nat /\ 1 < BOOT_FRAME
    BY SlotsAssumption
  <2>. QED
    BY <1>3, <2>1, SmallMod DEF NotStarted, NextSlot
<1>5. /\ slot' = [slot EXCEPT ![Sink] = 1]
      /\ alarm' = [alarm EXCEPT ![Sink] = BOOT_TICKS]
      /\ SlotEvent(Sink, 1)
  <2>1. /\ slot' = [slot EXCEPT ![Sink] = 1]
        /\ \E late \in {0} : alarm' = [alarm EXCEPT ![Sink] = slotLength[Sink] + late]
        /\ SlotEvent(Sink, 1)
    BY <1>2, <1>4 DEF Fired
  <2>2. alarm' = [alarm EXCEPT ![Sink] = BOOT_TICKS + 0]
    BY <1>3, <2>1 DEF NotStarted
  <2>3. BOOT_TICKS + 0 = BOOT_TICKS
    BY GuardTime
  <2>. QED
    BY <2>1, <2>2, <2>3
<1>6. onAir[Sink] = 0
  BY <1>3 DEF NotStarted
<1>7. /\ notice' \in [Node -> {None} \union 0 .. MAX_LATENCY]
      /\ onAir' \in [Node -> 0 .. AIR_TICKS]
      /\ missed' \in [Node -> 0 .. MAX_MISSED]
      /\ notice'[Sink] = notice[Sink] /\ onAir'[Sink] = AIR_TICKS
      /\ \A m \in Others : /\ onAir'[m] = onAir[m]
                           /\ \/ notice'[m] = 0 /\ onAir[m] = 0
                              \/ notice'[m] = notice[m]
  BY <1>1, <1>5, <1>6, NotifyEvent
<1>8. /\ slot'[Sink] = 1 /\ alarm'[Sink] = BOOT_TICKS /\ synced'[Sink] = "good"
      /\ \A m \in Others : /\ slot'[m] = slot[m] /\ alarm'[m] = alarm[m]
                           /\ synced'[m] = synced[m] /\ synced[m] = "never"
  BY <1>1, <1>2, <1>3, <1>5 DEF TypeOK, NotStarted
<1>9. TypeOK'
  <2>1. BOOT_FRAME \in Nat /\ 1 < BOOT_FRAME /\ BOOT_TICKS \in 0 .. SLOT_TICKS + MAX_LATE
    BY SlotsAssumption, GuardTime
  <2>2. slot' \in [Node -> 0 .. BOOT_FRAME - 1]
    BY <1>1, <1>5, <2>1 DEF TypeOK
  <2>3. alarm' \in [Node -> {Off} \union 0 .. SLOT_TICKS + MAX_LATE]
    BY <1>1, <1>5, <2>1 DEF TypeOK
  <2>4. synced' \in [Node -> {"never", "early", "raced", "good"}]
    BY <1>1, <1>2 DEF TypeOK
  <2>. QED
    BY <1>1, <1>2, <1>7, <2>2, <2>3, <2>4 DEF TypeOK
<1>10. SinkInv'
  BY <1>1, <1>2, <1>3, <1>7, <1>8 DEF SinkInv, NotStarted, Starting
<1>11. ClockInv'
  BY <1>1, <1>2, <1>8, GuardTime DEF ClockInv
<1>12. SyncedInv'
  BY <1>1, <1>2, <1>7, <1>8 DEF SyncedInv
<1>13. NoticeInv'
  BY <1>1, <1>2, <1>3, <1>7, <1>8, GuardTime DEF NoticeInv, NoticeAge, NotStarted, None
<1>14. AirInv'
  BY <1>1, <1>2, <1>3, <1>7, <1>8 DEF AirInv, SyncedInv, NotStarted
<1>15. DriftInv'
  BY <1>8 DEF DriftInv
<1>. QED
  BY <1>9, <1>10, <1>11, <1>12, <1>13, <1>14, <1>15 DEF SlotsInv

-----------------------------------------------------------------------------
(* Time passes.                                                            *)

\* The clocks of a node and of the sink advance alike.
LEMMA SameDrift ==
  ASSUME NEW n \in Node, NEW k \in {-1, 0, 1}, WithinDrift(n, k),
         Position(n) \in Int, Position(Sink) \in Int,
         Position(n)' \in Int, Position(Sink)' \in Int,
         Position(n)' - Position(Sink)' = Position(n) - Position(Sink),
         Position(n)' >= Position(n),
         SinkFrames(n) \in Nat, SinkFrames(n)' = SinkFrames(n),
         RaceTicks(n) \in Nat, RaceTicks(n)' = RaceTicks(n),
         slot'[n] = 0 => slot[n] = 0
  PROVE  WithinDrift(n, k)'
<1>1. k * FrameTicks \in Int
  BY FrameLength
<1>2. Offset(n, k)' = Offset(n, k) /\ Offset(n, k) \in Int
  BY <1>1 DEF Offset
<1>3. Lateness(SinkFrames(n)) \in Int
  BY GuardTime DEF Lateness
<1>4. /\ (SinkFrames(n) + k \in 0 .. MAX_MISSED + 1)'
      /\ (Offset(n, k) <= Lateness(SinkFrames(n)))'
      /\ (Offset(n, k) >= -(MAX_LATENCY + Lateness(SinkFrames(n) + k)))'
  BY <1>2 DEF WithinDrift, Lateness
<1>5. (slot[n] = 0 => Position(n) >= Offset(n, k) - Lateness(SinkFrames(n)))'
  <2>1. SUFFICES ASSUME slot'[n] = 0
                 PROVE  Position(n)' >= Offset(n, k) - Lateness(SinkFrames(n))
    BY <1>2 DEF Lateness
  <2>2. Position(n) >= Offset(n, k) - Lateness(SinkFrames(n))
    BY <2>1 DEF WithinDrift
  <2>. QED
    BY <1>2, <1>3, <2>2
<1>. QED
  BY <1>4, <1>5 DEF WithinDrift

LEMMA TickKeeps ==
  ASSUME SlotsInv, Tick
  PROVE  SlotsInv'
<1>1. /\ TypeOK /\ SinkInv /\ ClockInv /\ SyncedInv /\ NoticeInv /\ AirInv /\ DriftInv
      /\ Sink \in Node /\ Others = Node \ {Sink}
  BY SlotsAssumption DEF SlotsInv, Sink, Others
<1>2. /\ alarm[Sink] # Off /\ slotLength[Sink] = SLOT_TICKS /\ syncing = {}
      /\ alarm' = [n \in Node |-> IF alarm[n] = Off THEN Off ELSE alarm[n] - 1]
      /\ notice' = [n \in Node |-> IF notice[n] = None THEN None ELSE notice[n] + 1]
      /\ onAir' = [n \in Node |-> IF onAir[n] = 0 THEN 0 ELSE onAir[n] - 1]
      /\ UNCHANGED <<slot, slotLength, frameLength, syncing, regular, synced, missed>>
      /\ \A n \in Node : alarm[n] # 0 /\ notice[n] < MAX_LATENCY
  BY DEF Tick, Sink
<1>3. Running
  BY <1>1, <1>2, GuardTime DEF SinkInv, NotStarted, Starting
<1>4. ASSUME NEW n \in Node
      PROVE  /\ IF alarm[n] = Off THEN alarm'[n] = Off
                ELSE /\ alarm[n] \in 1 .. SLOT_TICKS + MAX_LATE
                     /\ alarm'[n] = alarm[n] - 1 /\ alarm'[n] # Off
             /\ IF notice[n] = None THEN notice'[n] = None
                ELSE /\ notice[n] \in 0 .. MAX_LATENCY - 1
                     /\ notice'[n] = notice[n] + 1 /\ notice'[n] # None
             /\ IF onAir[n] = 0 THEN onAir'[n] = 0
                ELSE onAir[n] \in 1 .. AIR_TICKS /\ onAir'[n] = onAir[n] - 1
  <2>1. /\ alarm[n] \in {Off} \union 0 .. SLOT_TICKS + MAX_LATE /\ alarm[n] # 0
        /\ notice[n] \in {None} \union 0 .. MAX_LATENCY /\ notice[n] < MAX_LATENCY
        /\ onAir[n] \in 0 .. AIR_TICKS
    BY <1>1, <1>2 DEF TypeOK
  <2>2. /\ alarm'[n] = IF alarm[n] = Off THEN Off ELSE alarm[n] - 1
        /\ notice'[n] = IF notice[n] = None THEN None ELSE notice[n] + 1
        /\ onAir'[n] = IF onAir[n] = 0 THEN 0 ELSE onAir[n] - 1
    BY <1>2
  <2>3. IF alarm[n] = Off THEN alarm'[n] = Off
        ELSE /\ alarm[n] \in 1 .. SLOT_TICKS + MAX_LATE
             /\ alarm'[n] = alarm[n] - 1 /\ alarm'[n] # Off
    BY <2>1, <2>2, GuardTime DEF Off
  <2>4. IF notice[n] = None THEN notice'[n] = None
        ELSE /\ notice[n] \in 0 .. MAX_LATENCY - 1
             /\ notice'[n] = notice[n] + 1 /\ notice'[n] # None
    BY <2>1, <2>2, GuardTime DEF None
  <2>5. IF onAir[n] = 0 THEN onAir'[n] = 0
        ELSE onAir[n] \in 1 .. AIR_TICKS /\ onAir'[n] = onAir[n] - 1
    BY <2>1, <2>2, GuardTime
  <2>. QED
    BY <2>3, <2>4, <2>5
<1>5. TypeOK'
  <2>1. alarm' \in [Node -> {Off} \union 0 .. SLOT_TICKS + MAX_LATE]
    <3>1. ASSUME NEW n \in Node
          PROVE  alarm'[n] \in {Off} \union 0 .. SLOT_TICKS + MAX_LATE
      BY <1>4, GuardTime
    <3>. QED
      BY <1>2, <3>1
  <2>2. notice' \in [Node -> {None} \union 0 .. MAX_LATENCY]
    <3>1. ASSUME NEW n \in Node
          PROVE  notice'[n] \in {None} \union 0 .. MAX_LATENCY
      BY <1>4, GuardTime
    <3>. QED
      BY <1>2, <3>1
  <2>3. onAir' \in [Node -> 0 .. AIR_TICKS]
    <3>1. ASSUME NEW n \in Node
          PROVE  onAir'[n] \in 0 .. AIR_TICKS
      BY <1>4, GuardTime
    <3>. QED
      BY <1>2, <3>1
  <2>. QED
    BY <1>1, <1>2, <2>1, <2>2, <2>3 DEF TypeOK
<1>6. SinkInv'
  BY <1>1, <1>2, <1>3, <1>4 DEF SinkInv, Running
<1>7. ClockInv'
  <2>1. ASSUME NEW n \in Node
        PROVE  alarm'[n] <= SLOT_TICKS + (IF slot'[n] = 0 THEN MAX_LATE ELSE 0)
    <3>1. alarm[n] <= SLOT_TICKS + (IF slot[n] = 0 THEN MAX_LATE ELSE 0)
      BY <1>1 DEF ClockInv
    <3>2. alarm'[n] <= alarm[n] /\ alarm'[n] \in Int /\ alarm[n] \in Int
      BY <1>4, GuardTime DEF Off
    <3>. QED
      BY <1>2, <3>1, <3>2, GuardTime
  <2>. QED
    BY <1>1, <1>2, <2>1 DEF ClockInv
<1>8. SyncedInv'
  BY <1>1, <1>2, <1>4 DEF SyncedInv
<1>9. NoticeInv'
  <2>1. ASSUME NEW n \in Others, notice'[n] # None
        PROVE  onAir'[n] = 0 /\ NoticeAge(n)'
    <3>1. notice[n] # None /\ onAir[n] = 0 /\ NoticeAge(n)
      BY <1>1, <1>4, <2>1 DEF NoticeInv
    <3>2. onAir'[n] = 0
      BY <1>1, <1>4, <3>1
    <3>3. /\ notice[n] \in Int /\ notice'[n] = notice[n] + 1
          /\ alarm[Sink] \in Int /\ alarm'[Sink] = alarm[Sink] - 1
      BY <1>1, <1>2, <1>4, <3>1, GuardTime
    <3>4. NoticeAge(n)'
      BY <1>2, <3>1, <3>3, GuardTime DEF NoticeAge
    <3>. QED
      BY <3>2, <3>4
  <2>. QED
    BY <1>1, <1>2, <2>1 DEF NoticeInv
<1>10. AirInv'
  <2>1. ASSUME NEW n \in Node, onAir'[n] > 0, InOwnSlot(n), alarm[n] # Off
        PROVE  InOwnSlot(n)'
    <3>1. /\ onAir[n] \in Int /\ onAir'[n] = onAir[n] - 1
          /\ alarm[n] \in Int /\ alarm'[n] = alarm[n] - 1
      BY <1>4, <2>1, GuardTime
    <3>. QED
      BY <2>1, <3>1, GuardTime DEF InOwnSlot
  <2>2. ASSUME NEW n \in Node, onAir'[n] > 0
        PROVE  onAir[n] > 0
    BY <1>4, <2>2
  <2>3. ASSUME NEW n \in Others, onAir'[n] > 0
        PROVE  slot'[n] = TxSlot(n) /\ InOwnSlot(n)'
    <3>1. onAir[n] > 0 /\ slot[n] = TxSlot(n) /\ InOwnSlot(n)
      BY <1>1, <2>2, <2>3 DEF AirInv
    <3>2. alarm[n] # Off
      BY <1>1, <3>1 DEF SyncedInv
    <3>. QED
      BY <1>1, <1>2, <2>1, <2>3, <3>1, <3>2
  <2>4. ASSUME onAir'[Sink] > 0
        PROVE  \/ slot'[Sink] = 1 /\ (regular' => InOwnSlot(Sink)')
               \/ slot'[Sink] = 2 /\ InOwnSlot(Sink)'
    BY <1>1, <1>2, <2>1, <2>2, <2>4 DEF AirInv
  <2>. QED
    BY <2>3, <2>4 DEF AirInv
<1>11. DriftInv'
  <2>1. SUFFICES ASSUME NEW n \in Others \ syncing', synced'[n] \in {"good", "raced"}
                 PROVE  \E k \in {-1, 0, 1} : WithinDrift(n, k)'
    BY DEF DriftInv
  <2>2. PICK k \in {-1, 0, 1} : WithinDrift(n, k)
    BY <1>1, <1>2, <2>1 DEF DriftInv
  <2>3. alarm[n] # Off /\ n \in Node
    BY <1>1, <1>2, <2>1 DEF SyncedInv
  <2>4. /\ Position(n) \in Int /\ Position(Sink) \in Int
        /\ SinkFrames(n) \in Nat /\ RaceTicks(n) \in Nat
    BY <1>1, <2>3, Types, GuardTime
  <2>5. ASSUME NEW m \in Node, alarm[m] # Off, Position(m) \in Int
        PROVE  Position(m)' = Position(m) + 1
    <3>1. alarm[m] \in Int /\ alarm'[m] = alarm[m] - 1
      BY <1>4, <2>5, GuardTime
    <3>2. (slot[m] + 1) * SLOT_TICKS \in Int
      BY <1>1, Types, GuardTime
    <3>3. Position(m)' = (slot[m] + 1) * SLOT_TICKS - alarm'[m]
      BY <1>2 DEF Position
    <3>. QED
      BY <3>1, <3>2, <3>3 DEF Position
  <2>6. Position(n)' = Position(n) + 1 /\ Position(Sink)' = Position(Sink) + 1
    BY <1>1, <1>2, <2>3, <2>4, <2>5
  <2>7. /\ SinkFrames(n)' = SinkFrames(n) /\ RaceTicks(n)' = RaceTicks(n)
        /\ slot'[n] = slot[n]
    BY <1>2, <1>4, <2>3 DEF SinkFrames, RaceTicks
  <2>8. WithinDrift(n, k)'
    BY <2>2, <2>3, <2>4, <2>6, <2>7, SameDrift
  <2>. QED
    BY <2>8
<1>. QED
  BY <1>5, <1>6, <1>7, <1>8, <1>9, <1>10, <1>11 DEF SlotsInv

-----------------------------------------------------------------------------
(* A slot interrupt of a node other than the sink.                         *)

LEMMA PositionRange ==
  ASSUME TypeOK, ClockInv, NEW n \in Node, alarm[n] # Off, slot[n] < SLOTS_IN_FRAME
  PROVE  /\ Position(n) \in -MAX_LATE .. FrameTicks
         /\ Position(n) <= (slot[n] + 1) * SLOT_TICKS
         /\ slot[n] # 0 => Position(n) >= slot[n] * SLOT_TICKS
         /\ slot[n] # 0 => Position(n) >= SLOT_TICKS
         /\ slot[n] <= 1 => Position(n) <= 2 * SLOT_TICKS
<1> DEFINE s == slot[n]
           a == alarm[n]
<1>1. /\ s \in Nat /\ a \in Nat /\ s < SLOTS_IN_FRAME
      /\ a <= SLOT_TICKS + (IF s = 0 THEN MAX_LATE ELSE 0)
      /\ SLOT_TICKS \in Nat /\ MAX_LATE \in Nat /\ SLOTS_IN_FRAME \in Nat
  BY Types, GuardTime, FrameLength DEF ClockInv
<1>2. Position(n) = (s + 1) * SLOT_TICKS - a
  BY DEF Position
<1>. HIDE DEF s, a
<1>3. (s + 1) * SLOT_TICKS = s * SLOT_TICKS + SLOT_TICKS /\ s * SLOT_TICKS \in Nat
  BY <1>1
<1>4. (s + 1) * SLOT_TICKS <= FrameTicks
  BY <1>1, ProductsGrow, FrameLength
<1>5. s # 0 => s * SLOT_TICKS >= SLOT_TICKS
  BY <1>1, MultipleIsFar
<1>6. s <= 1 => (s + 1) * SLOT_TICKS <= 2 * SLOT_TICKS
  BY <1>1, ProductsGrow
<1>7. Position(n) \in Int /\ FrameTicks \in Nat
  BY <1>1, <1>2, <1>3, FrameLength
<1>8. Position(n) <= (s + 1) * SLOT_TICKS /\ (s # 0 => Position(n) >= s * SLOT_TICKS)
  BY <1>1, <1>2, <1>3
<1>9. s = 0 => Position(n) >= -MAX_LATE
  BY <1>1, <1>2, <1>3
<1>. QED
  BY <1>1, <1>3, <1>4, <1>5, <1>6, <1>7, <1>8, <1>9 DEF s

\* When a node has sent its last slot in step with the sink, the sink has
\* either begun the next frame already or is near the end of this one.
LEMMA NodeWraps ==
  ASSUME SlotsInv, regular, NEW n \in Others, NEW k \in {-1, 0, 1}, WithinDrift(n, k),
         Position(n) = FrameTicks, Position(Sink)' = Position(Sink),
         Position(n)' \in Int, -Position(n)' \in 0 .. MAX_LATE,
         SinkFrames(n)' = SinkFrames(n), RaceTicks(n)' = RaceTicks(n)
  PROVE  \E j \in {-1, 0, 1} : WithinDrift(n, j)'
<1>1. /\ TypeOK /\ SinkInv /\ ClockInv /\ NoticeInv /\ n \in Node
      /\ Sink \in Node /\ Others = Node \ {Sink}
  BY SlotsAssumption DEF SlotsInv, Sink, Others
<1>2. Running
  BY <1>1 DEF SinkInv, NotStarted, Starting
<1> DEFINE ws == SinkFrames(n)
           ps == Position(Sink)
           off == Offset(n, k)
           r == RaceTicks(n)
<1>3. ps \in Int /\ ps <= FrameTicks /\ (slot[Sink] <= 1 => ps <= 2 * SLOT_TICKS)
  BY <1>1, <1>2, PositionRange, GuardTime, FrameLength DEF Running
<1>4. ws \in 0 .. MAX_MISSED + 1 /\ r \in {0, SLOT_TICKS} /\ slot[Sink] \in Nat
  BY <1>1, Types DEF RaceTicks
<1>5. /\ ws + k \in 0 .. MAX_MISSED + 1
      /\ off <= Lateness(ws) /\ off >= -(MAX_LATENCY + Lateness(ws + k))
      /\ off = FrameTicks - ps + k * FrameTicks - r
  BY DEF WithinDrift, Offset
<1>6. /\ Lateness(ws) \in 0 .. Drift /\ Lateness(ws + k) \in 0 .. Drift
  BY <1>4, <1>5, LatenessBounds
<1>7. slot[Sink] > 1 => ws <= MAX_MISSED
  BY <1>1, <1>4, Types DEF SinkFrames, NoticeInv, NoticeAge
<1>. HIDE DEF ws, ps, off, r
<1>8. k # 1
  BY <1>3, <1>4, <1>5, <1>6, GuardTime, FrameLength
<1>9. ws + k <= MAX_MISSED
  <2>1. CASE k = -1
    BY <1>4, <2>1, GuardTime
  <2>2. CASE k = 0
    <3>1. off = FrameTicks - ps - r
      BY <1>3, <1>4, <1>5, <2>2, FrameLength, GuardTime
    <3>2. ps > 2 * SLOT_TICKS
      BY <1>3, <1>4, <1>5, <1>6, <3>1, GuardTime, FrameLength
    <3>3. slot[Sink] > 1
      BY <1>3, <1>4, <3>2, GuardTime
    <3>. QED
      BY <1>4, <1>7, <2>2, <3>3, GuardTime
  <2>. QED
    BY <1>8, <2>1, <2>2
<1>10. PICK j \in {-1, 0, 1} : j = k + 1
  BY <1>8
<1>11. ws + k \in 0 .. MAX_MISSED /\ ws + j \in 0 .. MAX_MISSED + 1
  BY <1>4, <1>5, <1>9, <1>10, GuardTime
<1>12. Lateness(ws + j) = Lateness(ws + k) + MAX_LATE
  <2>1. ws + j = ws + k + 1
    BY <1>4, <1>10
  <2>. QED
    BY <1>11, <2>1, LatenessBounds
<1>13. j * FrameTicks = k * FrameTicks + FrameTicks /\ k * FrameTicks \in Int
  BY <1>10, FrameLength
<1>14. Offset(n, j)' = off + Position(n)'
  <2>1. Offset(n, j)' = Position(n)' - ps + j * FrameTicks - r
    BY DEF Offset, ps, r
  <2>. QED
    BY <1>3, <1>4, <1>5, <1>13, <2>1, FrameLength, GuardTime
<1>15. off \in Int /\ Position(n)' \in Int /\ MAX_LATE \in Nat /\ MAX_LATENCY \in Nat
  BY <1>3, <1>4, <1>5, <1>13, FrameLength, GuardTime
<1>16. WithinDrift(n, j)'
  <2>1. /\ SinkFrames(n)' = ws
        /\ Lateness(SinkFrames(n))' = Lateness(ws)
        /\ Lateness(SinkFrames(n) + j)' = Lateness(ws + j)
    BY DEF ws, Lateness
  <2>2. (SinkFrames(n) + j \in 0 .. MAX_MISSED + 1)'
    BY <1>11, <2>1
  <2>3. (Offset(n, j) <= Lateness(SinkFrames(n)))'
    BY <1>5, <1>6, <1>14, <1>15, <2>1
  <2>4. (Offset(n, j) >= -(MAX_LATENCY + Lateness(SinkFrames(n) + j)))'
    BY <1>5, <1>6, <1>12, <1>14, <1>15, <2>1
  <2>5. (slot[n] = 0 => Position(n) >= Offset(n, j) - Lateness(SinkFrames(n)))'
    BY <1>5, <1>6, <1>14, <1>15, <2>1
  <2>. QED
    BY <2>2, <2>3, <2>4, <2>5 DEF WithinDrift
<1>. QED
  BY <1>16

LEMMA NodeAlarmKeeps ==
  ASSUME SlotsInv, NEW n \in Others, AlarmFires(n)
  PROVE  SlotsInv'
<1>1. /\ TypeOK /\ SinkInv /\ ClockInv /\ SyncedInv /\ NoticeInv /\ AirInv /\ DriftInv
      /\ Sink \in Node /\ Others = Node \ {Sink} /\ n \in Node /\ n # Sink
      /\ SLOT_TICKS \in Nat /\ MAX_LATE \in Nat /\ 0 < SLOT_TICKS
      /\ AIR_TICKS \in Nat /\ AIR_TICKS <= SLOT_TICKS
  <2>1. Sink \in Node /\ Others = Node \ {Sink}
    BY SlotsAssumption DEF Sink, Others
  <2>2. /\ SLOT_TICKS \in Nat /\ MAX_LATE \in Nat /\ 0 < SLOT_TICKS
        /\ AIR_TICKS \in Nat /\ AIR_TICKS <= SLOT_TICKS
    BY GuardTime
  <2>3. n \in Node /\ n # Sink
    BY <2>1
  <2>. QED
    BY <2>1, <2>2, <2>3 DEF SlotsInv
<1>2. /\ alarm[n] = 0 /\ alarm[n] # Off /\ Fired(n)
      /\ UNCHANGED <<slotLength, frameLength, syncing, synced, regular>>
  <2>1. regular' = (regular \/ (n = SINK_NODE_ID /\ slot'[n] = 1))
    BY DEF AlarmFires
  <2>2. regular \in BOOLEAN /\ (n = SINK_NODE_ID) = FALSE
    BY <1>1 DEF TypeOK, Sink
  <2>3. regular' = regular
    BY <2>1, <2>2
  <2>4. 0 # Off
    BY DEF Off
  <2>. QED
    BY <2>3, <2>4 DEF AlarmFires
<1>3. /\ slotLength[n] = SLOT_TICKS /\ frameLength[n] = SLOTS_IN_FRAME
      /\ slot[n] < SLOTS_IN_FRAME /\ slot[n] \in Nat /\ synced[n] # "never"
  BY <1>1, <1>2, Types DEF ClockInv, SyncedInv
<1>4. /\ \/ /\ slot[n] < SLOTS_IN_FRAME - 1
            /\ slot'[n] = slot[n] + 1 /\ alarm'[n] = SLOT_TICKS
         \/ /\ slot[n] = SLOTS_IN_FRAME - 1
            /\ slot'[n] = 0 /\ alarm'[n] \in SLOT_TICKS .. SLOT_TICKS + MAX_LATE
      /\ slot' \in [Node -> 0 .. BOOT_FRAME - 1]
      /\ alarm' \in [Node -> {Off} \union 0 .. SLOT_TICKS + MAX_LATE]
      /\ \A m \in Node \ {n} : slot'[m] = slot[m] /\ alarm'[m] = alarm[m]
      /\ SlotEvent(n, slot'[n])
  BY <1>1, <1>2, <1>3, FiredClock
<1>5. /\ UNCHANGED <<notice, missed>>
      /\ onAir' \in [Node -> 0 .. AIR_TICKS]
      /\ \A m \in Node \ {n} : onAir'[m] = onAir[m]
      /\ \/ onAir'[n] = onAir[n]
         \/ /\ slot'[n] = TxSlot(n) /\ slot'[n] # 1 /\ notice[n] = None
            /\ onAir'[n] \in {0, AIR_TICKS}
  BY <1>1, <1>4, OwnSlotEvent
<1>6. TypeOK'
  BY <1>1, <1>2, <1>4, <1>5 DEF TypeOK
<1>7. slot'[Sink] = slot[Sink] /\ alarm'[Sink] = alarm[Sink] /\ onAir'[Sink] = onAir[Sink]
  BY <1>1, <1>4, <1>5
<1>8. SinkInv'
  <2>1. NotStarted => NotStarted'
    BY <1>2, <1>5, <1>7 DEF NotStarted
  <2>2. (Starting => Starting') /\ (Running => Running')
    BY <1>2, <1>7 DEF Starting, Running
  <2>. QED
    BY <1>1, <1>5, <2>1, <2>2 DEF SinkInv
<1>9. ClockInv'
  <2>1. slot'[n] < SLOTS_IN_FRAME
    BY <1>3, <1>4, FrameLength
  <2>2. alarm'[n] <= SLOT_TICKS + (IF slot'[n] = 0 THEN MAX_LATE ELSE 0)
    BY <1>1, <1>3, <1>4
  <2>. QED
    BY <1>1, <1>2, <1>4, <2>1, <2>2 DEF ClockInv
<1>10. SyncedInv'
  <2>1. alarm'[n] # Off
    BY <1>1, <1>4 DEF Off
  <2>. QED
    BY <1>1, <1>2, <1>3, <1>4, <1>5, <2>1 DEF SyncedInv
<1>11. NoticeInv'
  <2>1. ASSUME NEW m \in Others
        PROVE  /\ NoticeAge(m)' <=> NoticeAge(m)
               /\ ServedInTime(m)' <=> ServedInTime(m)
    BY <1>2, <1>5, <1>7 DEF NoticeAge, ServedInTime
  <2>2. ASSUME NEW m \in Others, notice'[m] # None
        PROVE  onAir'[m] = 0
    BY <1>1, <1>5, <2>2 DEF NoticeInv
  <2>3. ASSUME NEW m \in Others, m \in syncing'
        PROVE  /\ notice'[m] = None /\ onAir'[m] = 0 /\ missed'[m] = 0
               /\ slot'[m] = 0 \/ (slot'[m] = 1 /\ alarm'[m] = SLOT_TICKS)
    <3>1. /\ notice[m] = None /\ onAir[m] = 0 /\ missed[m] = 0
          /\ slot[m] = 0 \/ (slot[m] = 1 /\ alarm[m] = SLOT_TICKS)
      BY <1>1, <1>2, <2>3 DEF NoticeInv
    <3>2. CASE m # n
      BY <1>1, <1>4, <1>5, <3>1, <3>2
    <3>3. CASE m = n
      <4>1. slot[n] = 0
        BY <1>1, <1>2, <3>1, <3>3
      <4>2. slot'[n] = 1 /\ alarm'[n] = SLOT_TICKS
        BY <1>4, <4>1, FrameLength
      <4>. QED
        BY <1>5, <3>1, <3>3, <4>2
    <3>. QED
      BY <3>2, <3>3
  <2>. QED
    BY <1>1, <1>2, <1>5, <2>1, <2>2, <2>3 DEF NoticeInv
<1>12. AirInv'
  <2>1. ASSUME NEW m \in Others, onAir'[m] > 0
        PROVE  slot'[m] = TxSlot(m) /\ InOwnSlot(m)'
    <3>1. CASE m # n
      BY <1>1, <1>4, <1>5, <2>1, <3>1 DEF AirInv, InOwnSlot
    <3>2. CASE m = n
      <4>1. onAir[n] \in 0 .. AIR_TICKS
        BY <1>1, Types
      <4>2. onAir'[n] # onAir[n]
        BY <1>1, <1>2, <2>1, <3>2, <4>1 DEF AirInv, InOwnSlot
      <4>3. slot'[n] = TxSlot(n) /\ onAir'[n] = AIR_TICKS
        BY <1>5, <2>1, <3>2, <4>2
      <4>4. alarm'[n] \in Int /\ alarm'[n] >= SLOT_TICKS
        BY <1>1, <1>4
      <4>. QED
        BY <1>1, <3>2, <4>3, <4>4 DEF InOwnSlot
    <3>. QED
      BY <3>1, <3>2
  <2>2. onAir'[Sink] > 0 => \/ slot'[Sink] = 1 /\ (regular' => InOwnSlot(Sink)')
                            \/ slot'[Sink] = 2 /\ InOwnSlot(Sink)'
    BY <1>1, <1>2, <1>7 DEF AirInv, InOwnSlot
  <2>. QED
    BY <2>1, <2>2 DEF AirInv
<1>13. DriftInv'
  <2>1. SUFFICES ASSUME NEW m \in Others \ syncing', synced'[m] \in {"good", "raced"}
                 PROVE  \E k \in {-1, 0, 1} : WithinDrift(m, k)'
    BY DEF DriftInv
  <2>2. PICK k \in {-1, 0, 1} : WithinDrift(m, k)
    BY <1>1, <1>2, <2>1 DEF DriftInv
  <2>3. /\ m \in Node /\ Position(m) \in Int /\ Position(Sink) \in Int
        /\ SinkFrames(m) \in Nat /\ RaceTicks(m) \in Nat /\ regular
    BY <1>1, <1>2, <2>1, Types, GuardTime DEF SyncedInv
  <2>4. SinkFrames(m)' = SinkFrames(m) /\ RaceTicks(m)' = RaceTicks(m)
    BY <1>2, <1>5, <1>7 DEF SinkFrames, RaceTicks
  <2>5. /\ Position(n)' \in Int
        /\ \/ slot'[n] = slot[n] + 1 /\ Position(n)' = Position(n)
           \/ /\ slot'[n] = 0 /\ Position(n) = FrameTicks
              /\ -Position(n)' \in 0 .. MAX_LATE
        /\ \A i \in Node \ {n} : Position(i)' = Position(i)
    BY <1>1, <1>2, <1>3, FiredPosition
  <2>6. CASE Position(m)' = Position(m) /\ (slot'[m] = 0 => slot[m] = 0)
    <3>1. Position(Sink)' = Position(Sink)
      BY <1>1, <2>5
    <3>2. WithinDrift(m, k)'
      BY <2>2, <2>3, <2>4, <2>6, <3>1, SameDrift
    <3>. QED
      BY <3>2
  <2>7. CASE m = n /\ Position(n) = FrameTicks /\ -Position(n)' \in 0 .. MAX_LATE
    <3>1. Position(Sink)' = Position(Sink)
      BY <1>1, <2>5
    <3>. QED
      BY <2>2, <2>3, <2>4, <2>5, <2>7, <3>1, NodeWraps
  <2>8. slot'[n] = slot[n] + 1 => slot'[n] # 0
    BY <1>3
  <2>. QED
    BY <1>4, <2>3, <2>5, <2>6, <2>7, <2>8
<1>. QED
  BY <1>6, <1>8, <1>9, <1>10, <1>11, <1>12, <1>13 DEF SlotsInv

-----------------------------------------------------------------------------
(* A slot interrupt of the sink.                                           *)

\* When the sink begins a frame, a node in step has begun it already or is
\* near the end of the one before.
LEMMA SinkWraps ==
  ASSUME SlotsInv, regular, NEW n \in Others, NEW k \in {-1, 0, 1}, WithinDrift(n, k),
         alarm[n] # Off, Position(Sink) = FrameTicks,
         Position(Sink)' \in Int, -Position(Sink)' \in 0 .. MAX_LATE,
         Position(n)' = Position(n), slot'[n] = slot[n],
         SinkFrames(n)' = SinkFrames(n) + 1, SinkFrames(n) <= MAX_MISSED,
         RaceTicks(n)' = RaceTicks(n)
  PROVE  \E j \in {-1, 0, 1} : WithinDrift(n, j)'
<1>1. TypeOK /\ ClockInv /\ n \in Node
  BY DEF SlotsInv, Others
<1> DEFINE ws == SinkFrames(n)
           pn == Position(n)
           off == Offset(n, k)
           r == RaceTicks(n)
<1>2. pn \in Int /\ pn <= FrameTicks
  BY <1>1, PositionRange, GuardTime, FrameLength DEF ClockInv
<1>3. ws \in 0 .. MAX_MISSED /\ r \in {0, SLOT_TICKS}
  BY <1>1, Types, GuardTime DEF RaceTicks
<1>4. /\ ws + k \in 0 .. MAX_MISSED + 1
      /\ off <= Lateness(ws) /\ off >= -(MAX_LATENCY + Lateness(ws + k))
      /\ off = pn - FrameTicks + k * FrameTicks - r
      /\ slot[n] = 0 => pn >= off - Lateness(ws)
  BY DEF WithinDrift, Offset
<1>5. /\ Lateness(ws) \in 0 .. Drift /\ Lateness(ws + k) \in 0 .. Drift
      /\ Lateness(ws + 1) = Lateness(ws) + MAX_LATE
  BY <1>3, <1>4, LatenessBounds, GuardTime
<1>. HIDE DEF ws, pn, off, r
<1>6. k # -1
  <2>1. ASSUME k = -1 PROVE FALSE
    <3>1. off = pn - 2 * FrameTicks - r
      BY <1>2, <1>3, <1>4, <2>1, FrameLength, GuardTime
    <3>. QED
      BY <1>2, <1>3, <1>4, <1>5, <3>1, FrameLength, GuardTime
  <2>. QED
    BY <2>1
<1>7. PICK j \in {-1, 0, 1} : j = k - 1
  BY <1>6
<1>8. ws + 1 + j = ws + k /\ j \in Int
  BY <1>3, <1>7
<1>9. j * FrameTicks = k * FrameTicks - FrameTicks /\ k * FrameTicks \in Int
  BY <1>7, FrameLength
<1>10. Offset(n, j)' = off - Position(Sink)'
  <2>1. Offset(n, j)' = pn - Position(Sink)' + j * FrameTicks - r
    BY DEF Offset, pn, r
  <2>. QED
    BY <1>2, <1>3, <1>4, <1>9, <2>1, FrameLength, GuardTime
<1>11. off \in Int /\ MAX_LATE \in Nat /\ MAX_LATENCY \in Nat
  BY <1>2, <1>3, <1>4, <1>9, FrameLength, GuardTime
<1>12. /\ SinkFrames(n)' = ws + 1
       /\ Lateness(SinkFrames(n))' = Lateness(ws + 1)
       /\ SinkFrames(n)' + j = ws + k
       /\ Lateness(SinkFrames(n) + j)' = Lateness(ws + k)
  <2>1. SinkFrames(n)' = ws + 1
    BY DEF ws
  <2>. QED
    BY <1>8, <2>1 DEF Lateness
<1>13. (SinkFrames(n) + j \in 0 .. MAX_MISSED + 1)'
  BY <1>4, <1>12
<1>14. (Offset(n, j) <= Lateness(SinkFrames(n)))'
  BY <1>4, <1>5, <1>10, <1>11, <1>12
<1>15. (Offset(n, j) >= -(MAX_LATENCY + Lateness(SinkFrames(n) + j)))'
  BY <1>4, <1>5, <1>10, <1>11, <1>12
<1>16. (slot[n] = 0 => Position(n) >= Offset(n, j) - Lateness(SinkFrames(n)))'
  <2>1. SUFFICES ASSUME slot[n] = 0
                 PROVE  pn >= off - Position(Sink)' - Lateness(ws + 1)
    BY <1>10, <1>12 DEF pn
  <2>. QED
    BY <1>2, <1>4, <1>5, <1>11, <2>1
<1>17. WithinDrift(n, j)'
  BY <1>13, <1>14, <1>15, <1>16 DEF WithinDrift
<1>. QED
  BY <1>17

\* When the alarm of the sink is due, no notification of a full frame is on
\* its way or being served, and its own transmission is over.
LEMMA SinkAlarmDue ==
  ASSUME SlotsInv, alarm[Sink] = 0
  PROVE  /\ Running
         /\ regular => /\ onAir[Sink] = 0 /\ syncing = {}
                       /\ \A m \in Others : notice[m] = None
         /\ onAir[Sink] > 0 => slot[Sink] = 1
         /\ \A m \in Others : notice[m] # None =>
              slot[Sink] = 1 /\ notice[m] = BOOT_TICKS /\ synced[m] = "never"
         /\ \A m \in syncing : slot[Sink] = 1 /\ synced[m] = "never"
<1>1. /\ TypeOK /\ SinkInv /\ NoticeInv /\ AirInv /\ Sink \in Node
      /\ syncing \subseteq Others /\ Others \subseteq Node
      /\ regular \in BOOLEAN
  BY SlotsAssumption DEF SlotsInv, TypeOK, Sink, Others
<1>2. Running
  BY <1>1, GuardTime DEF SinkInv, NotStarted, Starting, Off
<1>3. onAir[Sink] \in 0 .. AIR_TICKS /\ ~ (onAir[Sink] > 0 /\ InOwnSlot(Sink))
  BY <1>1, Types, GuardTime DEF InOwnSlot
<1>4. /\ onAir[Sink] > 0 => slot[Sink] = 1
      /\ regular => onAir[Sink] = 0
  BY <1>1, <1>3, GuardTime DEF AirInv
<1>5. ASSUME NEW m \in Others, notice[m] # None
      PROVE  /\ ~ regular /\ slot[Sink] = 1
             /\ notice[m] = BOOT_TICKS /\ synced[m] = "never"
  <2>1. NoticeAge(m) /\ notice[m] \in 0 .. MAX_LATENCY
    BY <1>1, <1>5, Types DEF NoticeInv
  <2>. QED
    BY <1>1, <2>1, GuardTime DEF NoticeAge
<1>6. ASSUME NEW m \in syncing
      PROVE  ~ regular /\ slot[Sink] = 1 /\ synced[m] = "never"
  <2>1. ServedInTime(m)
    BY <1>1, <1>6 DEF NoticeInv
  <2>. QED
    BY <1>1, <2>1, GuardTime DEF ServedInTime
<1>. QED
  BY <1>1, <1>2, <1>4, <1>5, <1>6

LEMMA SinkAlarmKeeps ==
  ASSUME SlotsInv, AlarmFires(Sink)
  PROVE  SlotsInv'
<1>1. /\ TypeOK /\ SinkInv /\ ClockInv /\ SyncedInv /\ NoticeInv /\ AirInv /\ DriftInv
      /\ Sink \in Node /\ Others = Node \ {Sink}
  BY SlotsAssumption DEF SlotsInv, Sink, Others
<1>2. /\ alarm[Sink] = 0 /\ Fired(Sink)
      /\ UNCHANGED <<slotLength, frameLength, syncing, synced>>
  BY DEF AlarmFires
<1>3. /\ Running
      /\ regular => /\ onAir[Sink] = 0 /\ syncing = {}
                    /\ \A m \in Others : notice[m] = None
      /\ onAir[Sink] > 0 => slot[Sink] = 1
      /\ \A m \in Others : notice[m] # None =>
           slot[Sink] = 1 /\ notice[m] = BOOT_TICKS /\ synced[m] = "never"
      /\ \A m \in syncing : slot[Sink] = 1 /\ synced[m] = "never"
  BY <1>2, SinkAlarmDue
<1>4. /\ slotLength[Sink] = SLOT_TICKS /\ frameLength[Sink] = SLOTS_IN_FRAME
      /\ slot[Sink] < SLOTS_IN_FRAME /\ slot[Sink] \in Nat /\ regular \in BOOLEAN
  BY <1>1, <1>3, Types DEF Running, TypeOK
<1>5. /\ \/ /\ slot[Sink] < SLOTS_IN_FRAME - 1
            /\ slot'[Sink] = slot[Sink] + 1 /\ alarm'[Sink] = SLOT_TICKS
         \/ /\ slot[Sink] = SLOTS_IN_FRAME - 1
            /\ slot'[Sink] = 0 /\ alarm'[Sink] \in SLOT_TICKS .. SLOT_TICKS + MAX_LATE
      /\ slot' \in [Node -> 0 .. BOOT_FRAME - 1]
      /\ alarm' \in [Node -> {Off} \union 0 .. SLOT_TICKS + MAX_LATE]
      /\ \A m \in Node \ {Sink} : slot'[m] = slot[m] /\ alarm'[m] = alarm[m]
      /\ SlotEvent(Sink, slot'[Sink])
  BY <1>1, <1>2, <1>4, FiredClock
<1>6. regular' = IF slot'[Sink] = 1 THEN TRUE ELSE regular
  <2>1. regular' = (regular \/ slot'[Sink] = 1)
    BY DEF AlarmFires, Sink
  <2>. QED
    BY <1>4, <2>1
<1>7. /\ slot'[Sink] < SLOTS_IN_FRAME /\ alarm'[Sink] \in Nat
      /\ alarm'[Sink] >= SLOT_TICKS /\ alarm'[Sink] # Off
      /\ slot'[Sink] # 0 => alarm'[Sink] = SLOT_TICKS
      /\ alarm'[Sink] <= SLOT_TICKS + (IF slot'[Sink] = 0 THEN MAX_LATE ELSE 0)
  BY <1>4, <1>5, FrameLength, GuardTime DEF Off
<1>8. ClockInv'
  BY <1>1, <1>2, <1>5, <1>7 DEF ClockInv
<1>9. /\ Position(Sink) \in Int /\ Position(Sink)' \in Int
      /\ \/ slot'[Sink] = slot[Sink] + 1 /\ Position(Sink)' = Position(Sink)
         \/ /\ slot'[Sink] = 0 /\ slot[Sink] = SLOTS_IN_FRAME - 1
            /\ Position(Sink) = FrameTicks
            /\ -Position(Sink)' \in 0 .. MAX_LATE
      /\ \A m \in Node \ {Sink} : Position(m)' = Position(m)
  BY <1>1, <1>2, <1>4, FiredPosition
\* The sink sends the notification.
<1>10. CASE slot'[Sink] = 1
  <2>1. slot[Sink] = 0 /\ onAir[Sink] = 0
    <3>1. slot[Sink] = 0
      BY <1>4, <1>5, <1>10, FrameLength
    <3>. QED
      BY <1>1, <1>3, <3>1, Types, GuardTime
  <2>2. /\ notice' \in [Node -> {None} \union 0 .. MAX_LATENCY]
        /\ onAir' \in [Node -> 0 .. AIR_TICKS]
        /\ missed' \in [Node -> 0 .. MAX_MISSED]
        /\ notice'[Sink] = notice[Sink] /\ onAir'[Sink] = AIR_TICKS
        /\ \A m \in Others :
             /\ onAir'[m] = onAir[m]
             /\ \/ notice'[m] = 0 /\ onAir[m] = 0 /\ missed'[m] = missed[m]
                \/ /\ notice'[m] = notice[m]
                   /\ m \in Counting => missed'[m] = missed[m] + 1
    BY <1>1, <1>5, <1>10, <2>1, NotifyEvent
  <2>3. syncing = {} /\ \A m \in Others : notice[m] = None
    BY <1>3, <2>1
  <2>4. regular' = TRUE /\ alarm'[Sink] = SLOT_TICKS
    BY <1>6, <1>7, <1>10
  <2>5. TypeOK'
    BY <1>1, <1>2, <1>5, <2>2, <2>4 DEF TypeOK
  <2>6. SinkInv'
    BY <1>1, <1>2, <1>3, <1>7, <2>2 DEF SinkInv, Running
  <2>7. SyncedInv'
    BY <1>1, <1>2, <1>5, <2>2, <2>4 DEF SyncedInv
  <2>8. NoticeInv'
    BY <1>1, <1>2, <1>10, <2>2, <2>3, <2>4, GuardTime DEF NoticeInv, NoticeAge
  <2>9. AirInv'
    <3>1. InOwnSlot(Sink)'
      BY <2>2, <2>4, GuardTime DEF InOwnSlot
    <3>2. ASSUME NEW m \in Others, onAir'[m] > 0
          PROVE  slot'[m] = TxSlot(m) /\ InOwnSlot(m)'
      BY <1>1, <1>5, <2>2, <3>2 DEF AirInv, InOwnSlot
    <3>. QED
      BY <1>10, <3>1, <3>2 DEF AirInv
  <2>10. DriftInv'
    <3>1. SUFFICES ASSUME NEW m \in Others \ syncing', synced'[m] \in {"good", "raced"}
                   PROVE  \E k \in {-1, 0, 1} : WithinDrift(m, k)'
      BY DEF DriftInv
    <3>2. PICK k \in {-1, 0, 1} : WithinDrift(m, k)
      BY <1>1, <1>2, <3>1 DEF DriftInv
    <3>3. /\ m \in Node /\ m # Sink /\ Position(m) \in Int /\ Position(Sink) \in Int
          /\ SinkFrames(m) \in Nat /\ RaceTicks(m) \in Nat
          /\ missed[m] \in Nat /\ m \in Counting
      BY <1>1, <1>2, <3>1, Types, GuardTime DEF Counting
    <3>4. SinkFrames(m)' = SinkFrames(m)
      <4>1. SinkFrames(m) = missed[m] + 1
        BY <2>1 DEF SinkFrames
      <4>2. CASE notice'[m] = 0 /\ missed'[m] = missed[m]
        BY <4>1, <4>2 DEF SinkFrames, None
      <4>3. CASE notice'[m] = None /\ missed'[m] = missed[m] + 1
        BY <1>10, <3>3, <4>1, <4>3 DEF SinkFrames
      <4>. QED
        BY <2>2, <2>3, <3>1, <3>3, <4>2, <4>3
    <3>5. RaceTicks(m)' = RaceTicks(m) /\ slot'[m] = slot[m]
      BY <1>2, <1>5, <3>3 DEF RaceTicks
    <3>6. Position(m)' = Position(m) /\ Position(Sink)' = Position(Sink)
      BY <1>9, <1>10, <3>3
    <3>7. WithinDrift(m, k)'
      BY <3>2, <3>3, <3>4, <3>5, <3>6, SameDrift
    <3>. QED
      BY <3>7
  <2>. QED
    BY <1>8, <2>5, <2>6, <2>7, <2>8, <2>9, <2>10 DEF SlotsInv
\* Any other slot.
<1>11. CASE slot'[Sink] # 1
  <2>1. /\ UNCHANGED <<notice, missed>>
        /\ onAir' \in [Node -> 0 .. AIR_TICKS]
        /\ \A m \in Node \ {Sink} : onAir'[m] = onAir[m]
        /\ \/ onAir'[Sink] = onAir[Sink]
           \/ slot'[Sink] = 2 /\ onAir'[Sink] \in {0, AIR_TICKS}
    <3>1. TxSlot(Sink) = 2
      BY NodeFacts, <1>1
    <3>. QED
      BY <1>1, <1>5, <1>11, <3>1, OwnSlotEvent
  <2>2. regular' = regular
    BY <1>6, <1>11
  <2>3. TypeOK'
    BY <1>1, <1>2, <1>5, <2>1, <2>2 DEF TypeOK
  <2>4. SinkInv'
    BY <1>1, <1>2, <1>3, <1>7, <2>1 DEF SinkInv, Running
  <2>5. SyncedInv'
    BY <1>1, <1>2, <1>5, <2>1, <2>2 DEF SyncedInv
  <2>6. slot[Sink] = 1 => slot'[Sink] = 2
    BY <1>5, FrameLength
  <2>7. NoticeInv'
    <3>1. ASSUME NEW m \in Others, notice'[m] # None
          PROVE  onAir'[m] = 0 /\ NoticeAge(m)'
      <4>1. /\ notice[m] = BOOT_TICKS /\ onAir[m] = 0 /\ ~ regular
            /\ slot'[Sink] = 2 /\ synced[m] = "never"
        BY <1>1, <1>3, <2>1, <2>6, <3>1 DEF NoticeInv
      <4>2. alarm'[Sink] = SLOT_TICKS + BOOT_TICKS - notice'[m]
        BY <1>7, <2>1, <4>1, GuardTime
      <4>. QED
        BY <1>1, <1>2, <2>1, <2>2, <4>1, <4>2 DEF NoticeAge
    <3>2. ASSUME NEW m \in Others, m \in syncing'
          PROVE  /\ notice'[m] = None /\ onAir'[m] = 0 /\ missed'[m] = 0
                 /\ slot'[m] = 0 \/ (slot'[m] = 1 /\ alarm'[m] = SLOT_TICKS)
                 /\ ServedInTime(m)'
      <4>1. slot'[Sink] = 2 /\ ~ regular /\ synced[m] = "never" /\ alarm'[Sink] > 0
        BY <1>2, <1>3, <1>7, <2>6, <3>2, GuardTime
      <4>. QED
        BY <1>1, <1>2, <1>5, <2>1, <2>2, <3>2, <4>1 DEF NoticeInv, ServedInTime
    <3>. QED
      BY <3>1, <3>2 DEF NoticeInv
  <2>8. AirInv'
    <3>1. ASSUME onAir'[Sink] > 0
          PROVE  slot'[Sink] = 2 /\ InOwnSlot(Sink)'
      <4>1. slot'[Sink] = 2 /\ onAir'[Sink] <= AIR_TICKS /\ onAir'[Sink] \in Nat
        BY <1>1, <1>3, <2>1, <2>6, <3>1, GuardTime
      <4>. QED
        BY <1>7, <4>1, GuardTime DEF InOwnSlot
    <3>2. ASSUME NEW m \in Others, onAir'[m] > 0
          PROVE  slot'[m] = TxSlot(m) /\ InOwnSlot(m)'
      BY <1>1, <1>5, <2>1, <3>2 DEF AirInv, InOwnSlot
    <3>. QED
      BY <3>1, <3>2 DEF AirInv
  <2>9. DriftInv'
    <3>1. SUFFICES ASSUME NEW m \in Others \ syncing', synced'[m] \in {"good", "raced"}
                   PROVE  \E k \in {-1, 0, 1} : WithinDrift(m, k)'
      BY DEF DriftInv
    <3>2. PICK k \in {-1, 0, 1} : WithinDrift(m, k)
      BY <1>1, <1>2, <3>1 DEF DriftInv
    <3>3. /\ m \in Node /\ m # Sink /\ Position(m) \in Int
          /\ SinkFrames(m) \in Nat /\ RaceTicks(m) \in Nat
          /\ missed[m] \in 0 .. MAX_MISSED /\ regular /\ alarm[m] # Off
      BY <1>1, <1>2, <3>1, Types, GuardTime DEF SyncedInv
    <3>4. notice[m] = None /\ notice'[m] = None /\ missed'[m] = missed[m]
      BY <1>3, <2>1, <3>1, <3>3
    <3>5. RaceTicks(m)' = RaceTicks(m) /\ slot'[m] = slot[m] /\ Position(m)' = Position(m)
      BY <1>2, <1>5, <1>9, <3>3 DEF RaceTicks
    <3>6. CASE slot'[Sink] = slot[Sink] + 1 /\ Position(Sink)' = Position(Sink)
      <4>1. slot[Sink] # 0 /\ slot'[Sink] # 0
        BY <1>4, <1>11, <3>6
      <4>2. SinkFrames(m)' = SinkFrames(m)
        BY <3>4, <4>1 DEF SinkFrames
      <4>3. WithinDrift(m, k)'
        BY <1>1, <1>9, <3>2, <3>3, <3>5, <3>6, <4>2, SameDrift
      <4>. QED
        BY <4>3
    <3>7. CASE /\ slot'[Sink] = 0 /\ slot[Sink] = SLOTS_IN_FRAME - 1
               /\ Position(Sink) = FrameTicks
               /\ -Position(Sink)' \in 0 .. MAX_LATE
      <4>1. SinkFrames(m) = missed[m] /\ SinkFrames(m)' = missed[m] + 1
        BY <3>3, <3>4, <3>7, FrameLength DEF SinkFrames
      <4>2. SinkFrames(m)' = SinkFrames(m) + 1 /\ SinkFrames(m) <= MAX_MISSED
        BY <3>3, <4>1, GuardTime
      <4>. QED
        BY <1>9, <3>1, <3>2, <3>3, <3>5, <3>7, <4>2, SinkWraps
    <3>. QED
      BY <1>9, <3>6, <3>7
  <2>. QED
    BY <1>8, <2>3, <2>4, <2>5, <2>7, <2>8, <2>9 DEF SlotsInv
<1>. QED
  BY <1>10, <1>11

-----------------------------------------------------------------------------
(* synchronize() at a node.                                                *)

LEMMA SyncBeginsKeeps ==
  ASSUME SlotsInv, NEW n \in Others, SyncBegins(n)
  PROVE  SlotsInv'
<1>1. /\ TypeOK /\ SinkInv /\ ClockInv /\ SyncedInv /\ NoticeInv /\ AirInv /\ DriftInv
      /\ Sink \in Node /\ Others = Node \ {Sink} /\ n \in Node /\ n # Sink
  <2>1. Sink \in Node /\ Others = Node \ {Sink}
    BY SlotsAssumption DEF Sink, Others
  <2>. QED
    BY <2>1 DEF SlotsInv
<1>2. /\ notice[n] # None /\ n \notin syncing
      /\ notice' = [notice EXCEPT ![n] = None]
      /\ slot' = [slot EXCEPT ![n] = 0]
      /\ syncing' = syncing \union {n}
      /\ missed' = [missed EXCEPT ![n] = 0]
      /\ UNCHANGED <<slotLength, frameLength, alarm, onAir, regular, synced>>
  BY DEF SyncBegins
<1>3. /\ notice'[n] = None /\ slot'[n] = 0 /\ missed'[n] = 0
      /\ \A m \in Node \ {n} : /\ notice'[m] = notice[m] /\ slot'[m] = slot[m]
                               /\ missed'[m] = missed[m]
  BY <1>1, <1>2 DEF TypeOK
<1>4. onAir[n] = 0 /\ NoticeAge(n) /\ notice[n] \in 0 .. MAX_LATENCY
  BY <1>1, <1>2, Types DEF NoticeInv
<1>5. ServedInTime(n)
  <2>1. alarm[Sink] \in Int
    BY <1>1, Types
  <2>. QED
    BY <1>4, <2>1, GuardTime DEF NoticeAge, ServedInTime
<1>6. TypeOK'
  <2>1. 0 \in 0 .. BOOT_FRAME - 1 /\ 0 \in 0 .. MAX_MISSED
    BY SlotsAssumption
  <2>2. /\ slot' \in [Node -> 0 .. BOOT_FRAME - 1]
        /\ missed' \in [Node -> 0 .. MAX_MISSED]
        /\ notice' \in [Node -> {None} \union 0 .. MAX_LATENCY]
    BY <1>1, <1>2, <2>1 DEF TypeOK
  <2>. QED
    BY <1>1, <1>2, <2>2 DEF TypeOK
<1>7. slot'[Sink] = slot[Sink] /\ notice'[Sink] = notice[Sink] /\ alarm' = alarm
  BY <1>1, <1>2, <1>3
<1>8. SinkInv'
  <2>1. ~ NotStarted
    BY <1>2 DEF NotStarted
  <2>2. (Starting => Starting') /\ (Running => Running')
    BY <1>2, <1>7 DEF Starting, Running
  <2>. QED
    BY <1>1, <1>7, <2>1, <2>2 DEF SinkInv
<1>9. ClockInv'
  <2>1. ASSUME NEW m \in Node
        PROVE  alarm'[m] <= SLOT_TICKS + (IF slot'[m] = 0 THEN MAX_LATE ELSE 0)
    <3>1. /\ alarm[m] <= SLOT_TICKS + (IF slot[m] = 0 THEN MAX_LATE ELSE 0)
          /\ alarm[m] \in Int /\ MAX_LATE \in Nat /\ SLOT_TICKS \in Nat
      BY <1>1, Types, GuardTime DEF ClockInv
    <3>2. CASE m = n
      BY <1>3, <1>7, <3>1, <3>2
    <3>3. CASE m # n
      BY <1>3, <1>7, <3>1, <3>3
    <3>. QED
      BY <3>2, <3>3
  <2>2. 0 < SLOTS_IN_FRAME
    BY FrameLength
  <2>. QED
    BY <1>1, <1>2, <1>3, <2>1, <2>2 DEF ClockInv
<1>10. SyncedInv'
  BY <1>1, <1>2, <1>3 DEF SyncedInv
<1>11. NoticeInv'
  <2>1. ASSUME NEW m \in Others, m # n
        PROVE  /\ NoticeAge(m)' <=> NoticeAge(m)
               /\ ServedInTime(m)' <=> ServedInTime(m)
    BY <1>1, <1>2, <1>3, <1>7, <2>1 DEF NoticeAge, ServedInTime
  <2>2. ServedInTime(n)'
    BY <1>2, <1>5, <1>7 DEF ServedInTime
  <2>. QED
    BY <1>1, <1>2, <1>3, <1>4, <2>1, <2>2 DEF NoticeInv
<1>12. AirInv'
  <2>1. ASSUME NEW m \in Others, onAir'[m] > 0
        PROVE  m # n /\ slot'[m] = TxSlot(m) /\ InOwnSlot(m)'
    <3>1. m # n
      BY <1>2, <1>4, <2>1, Types
    <3>. QED
      BY <1>1, <1>2, <1>3, <2>1, <3>1 DEF AirInv, InOwnSlot
  <2>2. onAir'[Sink] > 0 => \/ slot'[Sink] = 1 /\ (regular' => InOwnSlot(Sink)')
                            \/ slot'[Sink] = 2 /\ InOwnSlot(Sink)'
    BY <1>1, <1>2, <1>7 DEF AirInv, InOwnSlot
  <2>. QED
    BY <2>1, <2>2 DEF AirInv
<1>13. DriftInv'
  <2>1. SUFFICES ASSUME NEW m \in Others \ syncing', synced'[m] \in {"good", "raced"}
                 PROVE  \E k \in {-1, 0, 1} : WithinDrift(m, k)'
    BY DEF DriftInv
  <2>2. m # n /\ m \in Others \ syncing /\ synced[m] \in {"good", "raced"} /\ m \in Node
    BY <1>1, <1>2, <2>1
  <2>3. PICK k \in {-1, 0, 1} : WithinDrift(m, k)
    BY <1>1, <2>2 DEF DriftInv
  <2>4. /\ Position(m) \in Int /\ Position(Sink) \in Int
        /\ SinkFrames(m) \in Nat /\ RaceTicks(m) \in Nat
    BY <1>1, <2>2, Types
  <2>5. /\ Position(m)' = Position(m) /\ Position(Sink)' = Position(Sink)
        /\ SinkFrames(m)' = SinkFrames(m) /\ RaceTicks(m)' = RaceTicks(m)
        /\ slot'[m] = slot[m]
    BY <1>2, <1>3, <1>7, <2>2 DEF Position, SinkFrames, RaceTicks
  <2>6. WithinDrift(m, k)'
    BY <2>2, <2>3, <2>4, <2>5, SameDrift
  <2>. QED
    BY <2>6
<1>. QED
  BY <1>6, <1>8, <1>9, <1>10, <1>11, <1>12, <1>13 DEF SlotsInv

\* A node that is in step again is behind the sink by what the notification
\* took, or one slot ahead of that.
LEMMA SyncEndsInStep ==
  ASSUME SlotsInv, NEW n \in Others, n \in syncing, regular,
         slot'[n] = slot[n] + 1, alarm'[n] = SLOT_TICKS,
         slot'[Sink] = slot[Sink], alarm'[Sink] = alarm[Sink],
         UNCHANGED <<notice, missed, regular>>,
         synced'[n] = IF slot[n] # 0 THEN "raced" ELSE "good"
  PROVE  WithinDrift(n, 0)'
<1>1. TypeOK /\ NoticeInv /\ Sink \in Node /\ n \in Node
  BY SlotsAssumption DEF SlotsInv, Sink, Others
<1>2. /\ notice[n] = None /\ missed[n] = 0 /\ slot[n] \in {0, 1}
      /\ slot[Sink] = 1 /\ alarm[Sink] \in SLOT_TICKS - MAX_LATENCY .. SLOT_TICKS
  BY <1>1 DEF NoticeInv, ServedInTime
<1>3. SinkFrames(n)' = 0
  BY <1>2 DEF SinkFrames
<1>4. /\ SLOT_TICKS \in Nat /\ MAX_LATENCY \in Nat /\ MAX_MISSED \in Nat
      /\ 0 * FrameTicks = 0 /\ Lateness(0) = 0
  BY GuardTime, LatenessBounds, FrameLength
<1>5. Position(Sink)' = 2 * SLOT_TICKS - alarm[Sink]
  BY <1>2, <1>4 DEF Position
<1>6. Position(n)' = (slot[n] + 1) * SLOT_TICKS
  BY <1>2, <1>4 DEF Position
<1>7. RaceTicks(n)' = IF slot[n] = 0 THEN 0 ELSE SLOT_TICKS
  BY DEF RaceTicks
<1>8. Offset(n, 0)' = alarm[Sink] - SLOT_TICKS
  <2>1. Offset(n, 0)' = Position(n)' - Position(Sink)' + 0 * FrameTicks - RaceTicks(n)'
    BY DEF Offset
  <2>. QED
    BY <1>2, <1>4, <1>5, <1>6, <1>7, <2>1
<1>9. Lateness(SinkFrames(n))' = 0 /\ Lateness(SinkFrames(n) + 0)' = 0
  BY <1>3, <1>4 DEF Lateness
<1>10. (SinkFrames(n) + 0 \in 0 .. MAX_MISSED + 1)'
  BY <1>3, <1>4
<1>11. (Offset(n, 0) <= Lateness(SinkFrames(n)))'
  BY <1>2, <1>4, <1>8, <1>9
<1>12. (Offset(n, 0) >= -(MAX_LATENCY + Lateness(SinkFrames(n) + 0)))'
  BY <1>2, <1>4, <1>8, <1>9
<1>13. slot'[n] # 0
  BY <1>2
<1>. QED
  BY <1>10, <1>11, <1>12, <1>13 DEF WithinDrift

LEMMA SyncEndsKeeps ==
  ASSUME SlotsInv, NEW n \in Others, SyncEnds(n)
  PROVE  SlotsInv'
<1>1. /\ TypeOK /\ SinkInv /\ ClockInv /\ SyncedInv /\ NoticeInv /\ AirInv /\ DriftInv
      /\ Sink \in Node /\ Others = Node \ {Sink} /\ n \in Node /\ n # Sink
  <2>1. Sink \in Node /\ Others = Node \ {Sink}
    BY SlotsAssumption DEF Sink, Others
  <2>. QED
    BY <2>1 DEF SlotsInv
<1>2. /\ n \in syncing /\ syncing' = syncing \ {n} /\ Fired(n)
      /\ synced' = [synced EXCEPT ![n] = HowSynced(n)]
      /\ UNCHANGED <<slotLength, frameLength, regular>>
  BY DEF SyncEnds
<1>3. /\ notice[n] = None /\ onAir[n] = 0 /\ missed[n] = 0
      /\ slot[n] \in {0, 1} /\ ServedInTime(n)
      /\ slotLength[n] = SLOT_TICKS /\ frameLength[n] = SLOTS_IN_FRAME
  BY <1>1, <1>2 DEF NoticeInv, ClockInv
<1>4. SLOTS_IN_FRAME \in 6 .. 8
  BY FrameLength
<1>5. /\ slot'[n] = slot[n] + 1 /\ alarm'[n] = SLOT_TICKS
      /\ slot' \in [Node -> 0 .. BOOT_FRAME - 1]
      /\ alarm' \in [Node -> {Off} \union 0 .. SLOT_TICKS + MAX_LATE]
      /\ \A m \in Node \ {n} : slot'[m] = slot[m] /\ alarm'[m] = alarm[m]
      /\ SlotEvent(n, slot'[n])
  <2>1. slot[n] < SLOTS_IN_FRAME /\ slot[n] # SLOTS_IN_FRAME - 1
    BY <1>3, <1>4
  <2>. QED
    BY <1>1, <1>2, <1>3, <2>1, FiredClock
<1>6. /\ UNCHANGED <<notice, missed>>
      /\ onAir' \in [Node -> 0 .. AIR_TICKS]
      /\ \A m \in Node : onAir'[m] = onAir[m]
  <2>1. slot'[n] # TxSlot(n) \/ slot'[n] = 1
    <3>1. TxSlot(n) # 2
      BY <1>1, NodeFacts
    <3>2. slot'[n] \in {1, 2}
      BY <1>3, <1>5
    <3>. QED
      BY <3>1, <3>2
  <2>. QED
    BY <1>1, <1>5, <2>1, OwnSlotEvent
<1>7. /\ slot'[Sink] = slot[Sink] /\ alarm'[Sink] = alarm[Sink]
      /\ onAir'[Sink] = onAir[Sink] /\ synced'[Sink] = synced[Sink]
  BY <1>1, <1>2, <1>5, <1>6 DEF TypeOK
<1>8. /\ synced'[n] = HowSynced(n)
      /\ \A m \in Node \ {n} : synced'[m] = synced[m]
  BY <1>1, <1>2 DEF TypeOK
\* In the sink's first frame no node has been in step.
<1>9. HowSynced(n) = IF regular THEN (IF slot[n] # 0 THEN "raced" ELSE "good")
                                ELSE "early"
  <2>1. ~ regular => slot[n] = 0
    BY <1>1, <1>3 DEF ServedInTime, SyncedInv
  <2>. QED
    BY <2>1 DEF HowSynced
<1>10. TypeOK'
  <2>1. synced' \in [Node -> {"never", "early", "raced", "good"}]
    BY <1>1, <1>2, <1>9 DEF TypeOK
  <2>. QED
    BY <1>1, <1>2, <1>5, <1>6, <2>1 DEF TypeOK
<1>11. SinkInv'
  <2>1. ~ NotStarted
    BY <1>2 DEF NotStarted
  <2>2. (Starting => Starting') /\ (Running => Running')
    BY <1>2, <1>7 DEF Starting, Running
  <2>. QED
    BY <1>1, <1>6, <2>1, <2>2 DEF SinkInv
<1>12. ClockInv'
  <2>1. slot'[n] < SLOTS_IN_FRAME
    BY <1>3, <1>4, <1>5
  <2>2. alarm'[n] <= SLOT_TICKS + (IF slot'[n] = 0 THEN MAX_LATE ELSE 0)
    BY <1>5, GuardTime
  <2>. QED
    BY <1>1, <1>2, <1>5, <2>1, <2>2 DEF ClockInv
<1>13. SyncedInv'
  <2>1. alarm'[n] # Off
    BY <1>5, GuardTime DEF Off
  <2>2. /\ synced'[n] # "never"
        /\ synced'[n] \in {"good", "raced"} => regular
    BY <1>8, <1>9
  <2>. QED
    BY <1>1, <1>2, <1>5, <1>6, <1>8, <2>1, <2>2 DEF SyncedInv
<1>14. NoticeInv'
  <2>1. ASSUME NEW m \in Others, m # n
        PROVE  /\ NoticeAge(m)' <=> NoticeAge(m)
               /\ ServedInTime(m)' <=> ServedInTime(m)
    BY <1>1, <1>2, <1>6, <1>7, <1>8, <2>1 DEF NoticeAge, ServedInTime
  <2>. QED
    BY <1>1, <1>2, <1>3, <1>5, <1>6, <2>1 DEF NoticeInv
<1>15. AirInv'
  <2>1. ASSUME NEW m \in Others, onAir'[m] > 0
        PROVE  slot'[m] = TxSlot(m) /\ InOwnSlot(m)'
    <3>1. m # n /\ onAir[m] > 0
      BY <1>1, <1>3, <1>6, <2>1, Types
    <3>. QED
      BY <1>1, <1>5, <1>6, <2>1, <3>1 DEF AirInv, InOwnSlot
  <2>2. onAir'[Sink] > 0 => \/ slot'[Sink] = 1 /\ (regular' => InOwnSlot(Sink)')
                            \/ slot'[Sink] = 2 /\ InOwnSlot(Sink)'
    BY <1>1, <1>2, <1>7 DEF AirInv, InOwnSlot
  <2>. QED
    BY <2>1, <2>2 DEF AirInv
<1>16. DriftInv'
  <2>1. SUFFICES ASSUME NEW m \in Others \ syncing', synced'[m] \in {"good", "raced"}
                 PROVE  \E k \in {-1, 0, 1} : WithinDrift(m, k)'
    BY DEF DriftInv
  <2>2. CASE m # n
    <3>1. m \in Others \ syncing /\ synced[m] \in {"good", "raced"} /\ m \in Node
      BY <1>1, <1>2, <1>8, <2>1, <2>2
    <3>2. PICK k \in {-1, 0, 1} : WithinDrift(m, k)
      BY <1>1, <3>1 DEF DriftInv
    <3>3. /\ Position(m) \in Int /\ Position(Sink) \in Int
          /\ SinkFrames(m) \in Nat /\ RaceTicks(m) \in Nat
      BY <1>1, <3>1, Types
    <3>4. /\ Position(m)' = Position(m) /\ Position(Sink)' = Position(Sink)
          /\ SinkFrames(m)' = SinkFrames(m) /\ RaceTicks(m)' = RaceTicks(m)
          /\ slot'[m] = slot[m]
      BY <1>5, <1>6, <1>7, <1>8, <2>2, <3>1 DEF Position, SinkFrames, RaceTicks
    <3>5. WithinDrift(m, k)'
      BY <3>1, <3>2, <3>3, <3>4, SameDrift
    <3>. QED
      BY <3>5
  <2>3. CASE m = n
    <3>1. regular /\ synced'[n] = IF slot[n] # 0 THEN "raced" ELSE "good"
      BY <1>8, <1>9, <2>1, <2>3
    <3>2. WithinDrift(n, 0)'
      BY <1>2, <1>5, <1>6, <1>7, <3>1, SyncEndsInStep
    <3>. QED
      BY <2>3, <3>2
  <2>. QED
    BY <2>2, <2>3
<1>. QED
  BY <1>10, <1>11, <1>12, <1>13, <1>14, <1>15, <1>16 DEF SlotsInv

-----------------------------------------------------------------------------
(* The theorems.                                                           *)

\* The invariant holds whatever is sent, heard or missed and whenever alarms
\* fire inside synchronize() (GenericSlotterP.nc:64-119, TdmaMacP.nc:683-713).
THEOREM SlotsInvariant == Spec => []SlotsInv
<1>1. SlotsInv /\ [Next]_vars => SlotsInv'
  <2>. SUFFICES ASSUME SlotsInv, [Next]_vars PROVE SlotsInv'
    OBVIOUS
  <2>1. CASE SinkStarts
    BY <2>1, SinkStartsKeeps
  <2>2. CASE Configure
    BY <2>2, ConfigureKeeps
  <2>3. CASE Tick
    BY <2>3, TickKeeps
  <2>4. ASSUME NEW n \in Node, AlarmFires(n)
        PROVE  SlotsInv'
    <3>1. n = Sink \/ n \in Others
      BY DEF Sink, Others
    <3>. QED
      BY <2>4, <3>1, SinkAlarmKeeps, NodeAlarmKeeps
  <2>5. ASSUME NEW n \in Others, SyncBegins(n)
        PROVE  SlotsInv'
    BY <2>5, SyncBeginsKeeps
  <2>6. ASSUME NEW n \in Others, SyncEnds(n)
        PROVE  SlotsInv'
    BY <2>6, SyncEndsKeeps
  <2>7. CASE UNCHANGED vars
    BY <2>7 DEF SlotsInv, TypeOK, SinkInv, NotStarted, Starting, Running, ClockInv,
                SyncedInv, NoticeInv, NoticeAge, ServedInTime, AirInv, InOwnSlot,
                DriftInv, WithinDrift, Offset, Lateness, SinkFrames, RaceTicks,
                Position, vars, clockVars
  <2>. QED
    BY <2>1, <2>2, <2>3, <2>4, <2>5, <2>6, <2>7 DEF Next
<1>. QED
  BY <1>1, InitSlots, PTL DEF Spec

\* Every variable keeps its type; in particular no counter of missed
\* notifications, age or alarm leaves its bound.
THEOREM TypesHold == Spec => []TypeOK
<1>1. SlotsInv => TypeOK
  BY DEF SlotsInv
<1>. QED
  BY <1>1, SlotsInvariant, PTL

\* The index of mccSchedTable stays in the part that has been set up: the
\* default frame of seventeen slots is never walked through, since MCCP sets
\* the frame before the sink's first alarm (TdmaMacP.nc:148,171,303,676,
\* GenericSlotterP.nc:52-55).
THEOREM SlotStaysInTable == Spec => []SlotInTable
<1>1. SlotsInv => SlotInTable
  <2>. SUFFICES ASSUME SlotsInv, NEW n \in Node PROVE slot[n] \in 0 .. 7
    BY DEF SlotInTable
  <2>1. /\ SLOTS_IN_FRAME \in 6 .. 8 /\ slot[n] \in Nat
        /\ n = Sink \/ n \in Others
    BY FrameLength, Types DEF SlotsInv, Sink, Others
  <2>2. slot[n] \in {0, 1} \/ slot[n] < SLOTS_IN_FRAME
    BY <2>1 DEF SlotsInv, SinkInv, NotStarted, Starting, Running, ClockInv
  <2>. QED
    BY <2>1, <2>2
<1>. QED
  BY <1>1, SlotsInvariant, PTL

\* The offset of a node that is in step, around the frame.
LEMMA OffsetBounds ==
  ASSUME SlotsInv, NEW n \in Others \ syncing, synced[n] \in {"good", "raced"}
  PROVE  \E k \in {-1, 0, 1} :
           /\ WithinDrift(n, k)
           /\ Offset(n, k) \in -(MAX_LATENCY + Drift) .. Drift
           /\ Lateness(SinkFrames(n)) \in 0 .. Drift
<1>1. TypeOK /\ DriftInv /\ n \in Node /\ Sink \in Node
  BY SlotsAssumption DEF SlotsInv, Others, Sink
<1>2. PICK k \in {-1, 0, 1} : WithinDrift(n, k)
  BY <1>1 DEF DriftInv
<1>3. /\ SinkFrames(n) \in 0 .. MAX_MISSED + 1
      /\ SinkFrames(n) + k \in 0 .. MAX_MISSED + 1
  BY <1>1, <1>2, Types DEF WithinDrift
<1>4. /\ Lateness(SinkFrames(n)) \in 0 .. Drift
      /\ Lateness(SinkFrames(n) + k) \in 0 .. Drift
  BY <1>3, LatenessBounds
<1>5. Offset(n, k) \in Int
  <2>1. k * FrameTicks \in Int
    BY FrameLength
  <2>2. Position(n) \in Int /\ Position(Sink) \in Int /\ RaceTicks(n) \in Nat
    BY <1>1, Types
  <2>. QED
    BY <2>1, <2>2 DEF Offset
<1>6. Offset(n, k) \in -(MAX_LATENCY + Drift) .. Drift
  BY <1>2, <1>4, <1>5, GuardTime DEF WithinDrift
<1>. QED
  BY <1>2, <1>4, <1>6

\* A node that has synchronised is behind the sink by no more than the latency
\* of the notification and the drift, however many notifications it missed and
\* however often its alarm fired inside synchronize(), which puts it one slot
\* ahead and never two (GenericSlotterP.nc:73-79,112-118, TdmaMacP.nc:882).
THEOREM ClocksAgree == Spec => []SlotsAgree
<1>1. SlotsInv => SlotsAgree
  <2>1. ASSUME SlotsInv, NEW n \in Others \ syncing, NEW slots \in {0, 1},
               synced[n] \in {"good", "raced"},
               RaceTicks(n) = slots * SLOT_TICKS
        PROVE  InStep(n, slots)
    <3>1. PICK k \in {-1, 0, 1} : Offset(n, k) \in -(MAX_LATENCY + Drift) .. Drift
      BY <2>1, OffsetBounds
    <3> DEFINE off == Offset(n, k)
    <3>2. /\ Position(n) \in Int /\ Position(Sink) \in Int
          /\ slots * SLOT_TICKS \in Int /\ k * FrameTicks \in Int
          /\ FrameTicks \in Nat /\ 0 < FrameTicks
      <4>1. TypeOK /\ n \in Node /\ Sink \in Node
        BY <2>1, SlotsAssumption DEF SlotsInv, Others, Sink
      <4>. QED
        BY <4>1, Types, FrameLength, GuardTime
    <3>3. off \in Int
      BY <3>1, GuardTime
    <3>4. off = Position(n) - Position(Sink) + k * FrameTicks - slots * SLOT_TICKS
      BY <2>1 DEF Offset
    <3>. HIDE DEF off
    <3>5. /\ -k \in Int /\ (-k) * FrameTicks = -(k * FrameTicks)
      BY <3>2
    <3>6. Position(n) - Position(Sink) = slots * SLOT_TICKS + off + (-k) * FrameTicks
      BY <3>2, <3>3, <3>4, <3>5
    <3>7. /\ Position(n) - Position(Sink) \in Int
          /\ slots * SLOT_TICKS + off \in Int
      BY <3>2, <3>3
    <3>8. (Position(n) - Position(Sink)) % FrameTicks
            = (slots * SLOT_TICKS + off) % FrameTicks
      BY <3>2, <3>5, <3>6, <3>7, ModShift
    <3>9. off \in -(MAX_LATENCY + Drift) .. Drift
      BY <3>1 DEF off
    <3>. QED
      BY <3>8, <3>9 DEF InStep, Ahead, Sink
  <2>2. SLOT_TICKS \in Nat
    BY GuardTime
  <2>3. ASSUME SlotsInv, NEW n \in Others \ syncing, synced[n] = "good"
        PROVE  InStep(n, 0)
    <3>1. RaceTicks(n) = 0 * SLOT_TICKS
      BY <2>2, <2>3 DEF RaceTicks
    <3>. QED
      BY <2>1, <2>3, <3>1
  <2>4. ASSUME SlotsInv, NEW n \in Others \ syncing, synced[n] = "raced"
        PROVE  InStep(n, 1)
    <3>1. RaceTicks(n) = 1 * SLOT_TICKS
      BY <2>2, <2>4 DEF RaceTicks
    <3>. QED
      BY <2>1, <2>4, <3>1
  <2>. QED
    BY <2>3, <2>4 DEF SlotsAgree
<1>. QED
  BY <1>1, SlotsInvariant, PTL

-----------------------------------------------------------------------------
(* One sender at a time.                                                   *)

\* Where the sink may be in its frame, or in the k-th from it, while a node
\* transmits in slot s.
SinkInWindow(s, k) ==
  /\ Position(Sink) - k * FrameTicks >= s * SLOT_TICKS - Drift
  /\ Position(Sink) - k * FrameTicks
       <= s * SLOT_TICKS + AIR_TICKS - 1 + MAX_LATENCY + Drift

\* The guard time keeps the windows of two slots apart, around the frame.
LEMMA WindowsApart ==
  ASSUME Position(Sink) \in Int, NEW s \in 0 .. 5, NEW t \in 0 .. 5, s # t,
         NEW j \in {-1, 0, 1}, NEW k \in {-1, 0, 1},
         SinkInWindow(s, j), SinkInWindow(t, k)
  PROVE  FALSE
<1> DEFINE x == Position(Sink)
           a == s + j * SLOTS_IN_FRAME
           b == t + k * SLOTS_IN_FRAME
           width == AIR_TICKS - 1 + MAX_LATENCY + Drift
<1>1. /\ SLOTS_IN_FRAME \in 6 .. 8 /\ SLOT_TICKS \in Nat
      /\ FrameTicks = SLOTS_IN_FRAME * SLOT_TICKS
      /\ x \in Int /\ width \in Int /\ Drift \in Nat /\ width + Drift < SLOT_TICKS
  BY GuardTime, FrameLength
<1>2. a \in Int /\ b \in Int /\ a # b
  BY <1>1
<1>3. /\ a * SLOT_TICKS = s * SLOT_TICKS + j * FrameTicks
      /\ b * SLOT_TICKS = t * SLOT_TICKS + k * FrameTicks
      /\ j * FrameTicks \in Int /\ k * FrameTicks \in Int
      /\ s * SLOT_TICKS \in Int /\ t * SLOT_TICKS \in Int
  BY <1>1
<1>4. /\ x >= a * SLOT_TICKS - Drift /\ x <= a * SLOT_TICKS + width
      /\ x >= b * SLOT_TICKS - Drift /\ x <= b * SLOT_TICKS + width
  <2>1. /\ x - j * FrameTicks >= s * SLOT_TICKS - Drift
        /\ x - j * FrameTicks <= s * SLOT_TICKS + AIR_TICKS - 1 + MAX_LATENCY + Drift
        /\ x - k * FrameTicks >= t * SLOT_TICKS - Drift
        /\ x - k * FrameTicks <= t * SLOT_TICKS + AIR_TICKS - 1 + MAX_LATENCY + Drift
    BY DEF SinkInWindow
  <2>. QED
    BY <1>1, <1>3, <2>1, GuardTime
<1>. HIDE DEF x, a, b, width
<1>5. /\ a - b \in Int /\ (a - b) * SLOT_TICKS = a * SLOT_TICKS - b * SLOT_TICKS
      /\ a * SLOT_TICKS \in Int /\ b * SLOT_TICKS \in Int
  BY <1>1, <1>2
<1>6. (a - b >= 1 => (a - b) * SLOT_TICKS >= SLOT_TICKS)
      /\ (a - b <= -1 => (a - b) * SLOT_TICKS <= -SLOT_TICKS)
  BY <1>1, <1>5, MultipleIsFar
<1>7. a - b >= 1 \/ a - b <= -1
  BY <1>2
<1>. QED
  BY <1>1, <1>4, <1>5, <1>6, <1>7

LEMMA NodeInWindow ==
  ASSUME SlotsInv, NEW n \in Others \ syncing, synced[n] = "good", onAir[n] > 0
  PROVE  \E k \in {-1, 0, 1} : SinkInWindow(TxSlot(n), k)
<1>1. /\ TypeOK /\ ClockInv /\ SyncedInv /\ AirInv
      /\ n \in Node /\ Sink \in Node
  BY SlotsAssumption DEF SlotsInv, Others, Sink
<1>2. PICK k \in {-1, 0, 1} : /\ WithinDrift(n, k)
                              /\ Offset(n, k) \in -(MAX_LATENCY + Drift) .. Drift
                              /\ Lateness(SinkFrames(n)) \in 0 .. Drift
  BY OffsetBounds
<1> DEFINE s == TxSlot(n)
           pn == Position(n)
           ps == Position(Sink)
           off == Offset(n, k)
<1>3. slot[n] = s /\ InOwnSlot(n) /\ alarm[n] # Off /\ slot[n] < SLOTS_IN_FRAME
  BY <1>1 DEF AirInv, SyncedInv, ClockInv
<1>4. /\ pn \in Int /\ ps \in Int /\ alarm[n] \in Int /\ onAir[n] \in Int
      /\ s \in 0 .. 5
  BY <1>1, Types, NodeFacts, GuardTime
<1>5. s * SLOT_TICKS \in Int /\ k * FrameTicks \in Int
  BY <1>4, GuardTime, FrameLength
<1>6. off = pn - ps + k * FrameTicks
  <2>1. off = pn - ps + k * FrameTicks - 0
    BY DEF Offset, RaceTicks
  <2>. QED
    BY <1>4, <1>5, <2>1
<1>7. pn = s * SLOT_TICKS + SLOT_TICKS - alarm[n]
  BY <1>3, <1>4, GuardTime DEF Position
<1>8. pn <= s * SLOT_TICKS + AIR_TICKS - 1
  BY <1>3, <1>4, <1>5, <1>7, GuardTime DEF InOwnSlot
<1>9. /\ s # 0 => pn >= s * SLOT_TICKS
      /\ s = 0 => pn - off >= -Drift
  <2>1. s # 0 => pn >= s * SLOT_TICKS
    BY <1>1, <1>3, PositionRange
  <2>2. s = 0 => pn >= off - Lateness(SinkFrames(n))
    BY <1>2, <1>3 DEF WithinDrift
  <2>. QED
    BY <1>2, <1>4, <2>1, <2>2, GuardTime
<1>10. s = 0 => s * SLOT_TICKS = 0
  BY GuardTime
<1>11. off \in -(MAX_LATENCY + Drift) .. Drift
  BY <1>2
<1>. HIDE DEF s, pn, ps, off
<1>12. ps - k * FrameTicks = pn - off
  BY <1>4, <1>5, <1>6
<1>13. /\ pn - off >= s * SLOT_TICKS - Drift
       /\ pn - off <= s * SLOT_TICKS + AIR_TICKS - 1 + MAX_LATENCY + Drift
  BY <1>4, <1>5, <1>8, <1>9, <1>10, <1>11, GuardTime
<1>14. SinkInWindow(s, k)
  BY <1>12, <1>13 DEF SinkInWindow, ps
<1>. QED
  BY <1>14 DEF s

LEMMA OwnWindow ==
  ASSUME SlotsInv, regular, onAir[Sink] > 0
  PROVE  \E s \in {1, 2} : SinkInWindow(s, 0)
<1>1. TypeOK /\ SinkInv /\ ClockInv /\ AirInv /\ Sink \in Node
  BY SlotsAssumption DEF SlotsInv, Sink
<1>2. slot[Sink] \in {1, 2} /\ InOwnSlot(Sink) /\ Running
  BY <1>1 DEF AirInv, SinkInv, NotStarted, Starting
<1>3. PICK s \in {1, 2} : s = slot[Sink]
  BY <1>2
<1>4. /\ Position(Sink) \in Int /\ alarm[Sink] \in Int /\ onAir[Sink] \in Int
      /\ Position(Sink) >= s * SLOT_TICKS
      /\ Position(Sink) = s * SLOT_TICKS + SLOT_TICKS - alarm[Sink]
      /\ s * SLOT_TICKS \in Int /\ 0 * FrameTicks = 0
  <2>1. /\ Position(Sink) \in Int /\ alarm[Sink] \in Int /\ onAir[Sink] \in Int
        /\ s * SLOT_TICKS \in Int /\ 0 * FrameTicks = 0
    BY <1>1, Types, GuardTime, FrameLength
  <2>2. Position(Sink) >= s * SLOT_TICKS
    BY <1>1, <1>2, <1>3, PositionRange DEF Running
  <2>3. Position(Sink) = s * SLOT_TICKS + SLOT_TICKS - alarm[Sink]
    BY <1>3, <2>1, GuardTime DEF Position
  <2>. QED
    BY <2>1, <2>2, <2>3
<1>5. SinkInWindow(s, 0)
  BY <1>2, <1>4, GuardTime DEF SinkInWindow, InOwnSlot
<1>. QED
  BY <1>5

\* No two nodes transmit at the same time, the sink's notification included,
\* unless one of them has synchronised in a race or to the sink's first, short
\* slot: the guard time, AIR_TICKS + MAX_LATENCY + 2 * Drift <= SLOT_TICKS, is
\* enough in every frame (TdmaMacP.nc:297-319,683-713).
THEOREM OneSender == Spec => []OneSenderAtATime
<1>1. SlotsInv => OneSenderAtATime
  <2>. SUFFICES ASSUME SlotsInv, NEW n \in Node, NEW m \in Node, n # m,
                       onAir[n] > 0, onAir[m] > 0,
                       \A i \in {n, m} : ~ (synced[i] \in {"raced", "early"} \/ i \in syncing)
                PROVE  FALSE
    BY DEF OneSenderAtATime
  <2>1. /\ TypeOK /\ SyncedInv /\ Sink \in Node /\ Others = Node \ {Sink}
        /\ Position(Sink) \in Int
    <3>1. TypeOK /\ SyncedInv /\ Sink \in Node /\ Others = Node \ {Sink}
      BY SlotsAssumption DEF SlotsInv, Sink, Others
    <3>. QED
      BY <3>1, Types
  <2>2. ASSUME NEW i \in {n, m}, i # Sink
        PROVE  /\ i \in Others \ syncing /\ synced[i] = "good" /\ regular
               /\ TxSlot(i) \in {0, 3, 4, 5}
               /\ \E k \in {-1, 0, 1} : SinkInWindow(TxSlot(i), k)
    <3>1. i \in Others \ syncing /\ onAir[i] > 0
      BY <2>1, <2>2
    <3>2. synced[i] # "never"
      BY <2>1, <3>1 DEF SyncedInv
    <3>3. synced[i] = "good"
      BY <2>1, <2>2, <3>1, <3>2 DEF TypeOK
    <3>4. regular /\ TxSlot(i) \in {0, 3, 4, 5}
      BY <2>1, <3>1, <3>3, NodeFacts DEF SyncedInv
    <3>. QED
      BY <3>1, <3>3, <3>4, NodeInWindow
  <2>3. CASE n # Sink /\ m # Sink
    <3>1. PICK j \in {-1, 0, 1} : SinkInWindow(TxSlot(n), j)
      BY <2>2, <2>3
    <3>2. PICK k \in {-1, 0, 1} : SinkInWindow(TxSlot(m), k)
      BY <2>2, <2>3
    <3>3. TxSlot(n) \in 0 .. 5 /\ TxSlot(m) \in 0 .. 5 /\ TxSlot(n) # TxSlot(m)
      BY <2>2, <2>3, NodeFacts
    <3>. QED
      BY <2>1, <3>1, <3>2, <3>3, WindowsApart
  <2>4. ASSUME NEW i \in {n, m}, i # Sink, onAir[Sink] > 0
        PROVE  FALSE
    <3>1. PICK k \in {-1, 0, 1} : SinkInWindow(TxSlot(i), k)
      BY <2>2, <2>4
    <3>2. PICK s \in {1, 2} : SinkInWindow(s, 0)
      BY <2>2, <2>4, OwnWindow
    <3>3. TxSlot(i) \in 0 .. 5 /\ s \in 0 .. 5 /\ TxSlot(i) # s
      BY <2>2, <2>4
    <3>. QED
      BY <2>1, <3>1, <3>2, <3>3, WindowsApart
  <2>. QED
    BY <2>3, <2>4
<1>. QED
  BY <1>1, SlotsInvariant, PTL
=============================================================================
