CONSTANTS
  None = None
  MaxLinks = 2
  MaxTracks = 1
  MaxTold = 2
SPECIFICATION
  Spec
INVARIANTS
  Explained
PROPERTIES
  InitiatorHeard
CHECK_DEADLOCK FALSE
