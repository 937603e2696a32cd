SPECIFICATION Spec
CONSTANTS
  NoKey = NoKey  BadAdvert = BadAdvert
  UserNames <- Names
  PAIRS = 2
  Foreign <- Adverts
  MAX_NODES = 2
  CONTACTS = 1
  ADVERTS = 1
  HEARD = 4
INVARIANTS TypeOK ActsAsOneNode TablesFollowAdverts
PROPERTIES IdentityIsKept
CHECK_DEADLOCK FALSE
