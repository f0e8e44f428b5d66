CONSTANTS
  Orgs = {home, away}
  None = None
  MaxAsked = 2
SPECIFICATION
  Spec
INVARIANTS
  LockOfItsOrg
