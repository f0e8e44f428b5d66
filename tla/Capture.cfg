\* Two peers; the microphone and the video each with every interleaving.
SPECIFICATION Spec
CONSTANTS
  Peers = {p1, p2}
  Neighbour = p2
  Tracks = {1, 2, 3}
  Attempts = {1, 2}
  None = None
  Absent = Absent
CONSTRAINT MCBound
INVARIANTS
  MicSound
  VideoSound
PROPERTIES
  MicGoesIdle
CHECK_DEADLOCK FALSE
