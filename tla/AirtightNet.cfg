SPECIFICATION FairSpec
CONSTANTS
  NoFrame = NoFrame
  relayed = relayed
  own = own
  Node = {0, 1, 3}
  Flow = {relayed, own}
  SrcOf <- FlowSrc
  DstOf <- FlowDst
  CritOf <- FlowCrit
  PriorityOf <- FlowPriority
  HiCritOf <- HiPriorities
  QUEUE_SIZE = 2
  RECEIVE_QUEUE_SIZE = 1
  MaxSeq <- FlowMaxSeq
  MaxCopies = 1
  FaultyNode = {0}
  RefusingNode = {0, 3}
INVARIANTS
  TypeOK
  NoSilentLoss
  CopiesHaveACause
PROPERTIES
  NetDrains
