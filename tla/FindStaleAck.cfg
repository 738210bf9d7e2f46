SPECIFICATION Spec
CONSTANTS
  Message = {selfDataPkt}
  Dsn = {d1}
  NoDsn = NoDsn
  MAX_RETRIES = 5
  RECEIVE_QUEUE_SIZE = 3
INVARIANTS
  AckFlagIsTrue
