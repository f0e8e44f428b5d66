\* Every interleaving of the user, the network and the timers, ids used again.
SPECIFICATION Spec
CONSTANTS
  Ids = {1, 2}
  None = 0
  MaxReconnect = 2
  MissedLimit = 2
INVARIANTS
  OneStory
PROPERTIES
  StaleIsSilent
  SettlesInTheEnd
CHECK_DEADLOCK FALSE
