\* One connection at every boundary of its outbox, with a client that reads.
SPECIFICATION Spec
CONSTANTS
  Cap = 4
  Reserve = 2
  SocketCap = 1
INVARIANTS
  TypeOK
  ReserveKept
  LostMeansEnding
PROPERTIES
  EndingsEnd
CHECK_DEADLOCK FALSE
