CONSTANTS
  None = None
  MaxLinks = 1
  MaxTracks = 2
  MaxTold = 2
SPECIFICATION
  Spec
PROPERTIES
  BothHeard
CHECK_DEADLOCK FALSE
