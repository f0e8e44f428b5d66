\* Two members, two rings: the server's promises, and what the clients show.
SPECIFICATION CallSpec
CONSTANTS
  MaxConnections = 2
  MaxRings = 2
  MaxRequests = 1
  MaxEvents = 1
CONSTRAINT MCBound
INVARIANTS
  TypeOK
  RingsSound
  ViewSound
PROPERTIES
  KeepsThePromise
  RingsEnd
CHECK_DEADLOCK FALSE
