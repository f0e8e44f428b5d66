\* Three connections, both spaces, every floor relation.
SPECIFICATION Spec
CONSTANTS
  lobby = lobby
  dev = dev
  offline = offline
  MaxConnections = 3
  SpaceIds <- MCSpaceIds
  Lobby <- lobby
  Offline <- offline
  Capacity <- MCCapacity
  Floor <- MCFloor
  Width <- MCWidth
  Height <- MCHeight
  Requests <- MCRequests
  Spawns <- MCSpawns
INVARIANTS
  TypeOK
  SpacesSound
  TickSettles
  LoopTellsTheChange
PROPERTIES
  LinksHeld
  LinksFollow
