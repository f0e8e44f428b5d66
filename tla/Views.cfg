\* Two people moving between two chats and a crash; a catalog of at most four
\* spaces and three crashes between any two statements; two clients of two
\* spaces; a video panel of two peers.
SPECIFICATION MCSpec
CONSTANTS
  alice = alice
  bob = bob
  lobby = lobby
  dev = dev
  red = red
  blue = blue
  green = green
  Lobby <- lobby
  LobbyBoard <- lobby
  LobbyId <- lobby
  DevId <- dev
  Names <- MCNames
  Nowhere = Nowhere
  Null = Null
  Persons <- MCPersons
  Accounts <- MCBob
  Admins <- MCBob
  Boards <- MCBoards
  SpaceIds <- MCBoards
  Offline = offline
  Capacity <- MCCapacity
  Floor <- MCFloor
  Width = 2
  Height = 0
  Requests <- MCRequests
  Spawns <- MCSpawns
  MaxConnections = 2
  MaxAsks = 1
  MaxNotes = 1
  MaxPosts = 3
  MaxCrashes = 1
  MaxLag = 1
  MaxSpaces = 4
  MaxCatalogCrashes = 3
  Peers <- MCPersons
  Local = Local
  Nobody = Nobody
CONSTRAINT MCBound
INVARIANTS
  StoreSound
  ViewConverges
  SeenMeansShownWhileUp
  Restorable
  CatalogSound
  NoGhostLinks
  ViewExact
  PanelSound
CHECK_DEADLOCK FALSE
