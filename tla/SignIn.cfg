CONSTANTS
  Ids = {1, 2}
  None = None
  Unknown = Unknown
  MaxAsked = 1
  MaxQueue = 2
SPECIFICATION
  Spec
INVARIANTS
  KeychainFollows
PROPERTIES
  RenewsOrGivesUp
CHECK_DEADLOCK FALSE
