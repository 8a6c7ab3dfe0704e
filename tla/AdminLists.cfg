SPECIFICATION FairSpec
CONSTANTS
  None = None
  Kind = {"users", "rooms", "servers", "matches"}
  Item = {1, 2}
  Some = {1, 2}
  Slot = {c1}
  PAGE_SIZE = 1
  CROSS_PAGE_SELECT_SIZE = 2
  Roles = {"viewer", "superadmin"}
  Filters = {"all"}
  MaxTurns = 0
 
PROPERTIES ConsentedOnly LoadingEnds
