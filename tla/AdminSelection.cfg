SPECIFICATION Spec
CONSTANTS
  None = None
  Kind = {"servers", "matches"}
  Item = {1, 2, 3}
  Some = {1, 3}
  Slot = {c1, c2}
  PAGE_SIZE = 2
  CROSS_PAGE_SELECT_SIZE = 1
  Roles = {"operator"}
  Filters = {"all", "some"}
  MaxTurns = 1
INVARIANTS TypeOK TicksAgree AddressKeepsPlace BusyForAReason
 
SYMMETRY SlotSymmetry
