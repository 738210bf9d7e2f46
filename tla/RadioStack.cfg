SPECIFICATION FairSpec
CONSTANTS
  Message = {selfDataPkt, selfNotificationPkt}
  Dsn = {d1, d2}
  NoDsn = NoDsn
  MAX_RETRIES = 2
  RECEIVE_QUEUE_SIZE = 2
INVARIANTS
  TypeOK
  LayersAgree
  AlarmHasOneOwner
  RetryIsWokenUp
  BuffersDistinct
PROPERTIES
  AckedFramesAreKept
  ImplementsFrameService
  EverySendIsAnswered
