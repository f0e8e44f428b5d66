CONSTANTS
  Orgs = {home, away}
  home = home
  away = away
  None = None
  MaxAsked = 2
  Rows = {1}
  NoRow = NoRow
  MaxFlows = 2
  Width = 2
  SendEps = 1
  Steps = {1}
  Clicks = {0}
  Seats = {0}
  HitR = 1
  PeerPlaces = {0}
  NearRadius = 2
  Spaces = {lobby, team}
  Teams = {team}
  lobby = lobby
  team = team
  RoomPlaces = {1}
  BoardAt = 0
  OpenR = 0
  CloseR = 1
  Spawns = {2}
  Nil = Nil
  MaxInFlight = 2
  MaxAtOnce = 2
SPECIFICATION
  MCSpec
CONSTRAINT
  MCBound
INVARIANTS
  LockSound
  ChipTellsOrg
  PanelCurrent
  AsleepIsCurrent
  PeersSeeUs
  ChatAtBoard
PROPERTIES
  LockLifts
CHECK_DEADLOCK FALSE
