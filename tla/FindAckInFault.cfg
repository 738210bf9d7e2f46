SPECIFICATION Spec
CONSTANTS
  QUEUE_SIZE = 2
  Elt <- Pointers
  NullElt = NullElt
  HiCrit = {2, 3}
  TOS_NODE_ID = 0
  SLOTS_IN_FRAME = 3
  flow5 = flow5
  flow6 = flow6
  flow7 = flow7
  flow8 = flow8
  flow9 = flow9
  flow10 = flow10
  fwd = fwd
  bad = bad
  Packet = {flow7}
  NoPacket = NoPacket
  PriorityOf <- FlowPriority
  CritOf <- FlowCrit
  COf <- FlowC
  Forwarded = {}
  SlotsFit = TRUE
  RadioMayRefuse = FALSE
  MaxDiscard = 0
PROPERTIES
  NoAckRequestInFault
