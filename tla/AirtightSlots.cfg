SPECIFICATION Spec
CONSTANTS
  Node = {0, 3, 4}
  SINK_NODE_ID = 0
  SLOTS_IN_FRAME = 6
  BOOT_FRAME = 17
  SLOT_TICKS = 8
  BOOT_TICKS = 1
  AIR_TICKS = 3
  MAX_LATENCY = 1
  MAX_LATE = 1
  MAX_MISSED = 1
INVARIANTS
  TypeOK
  SlotsAgree
  OneSenderAtATime
  SlotInTable
PROPERTIES
  EveryNodeKeepsItsSlot
