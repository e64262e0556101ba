SPECIFICATION Spec
CONSTANTS
  Requests = {r1, r2}
  house = house
  annex = annex
  floor = floor
  room = room
  Properties <- MCProperties
  Floors <- MCFloors
  Rooms <- MCRooms
  PropertyOf <- MCPropertyOf
  FloorOf <- MCFloorOf
  Leases = {l1}
  MaxProperties = 1
  None = None
INVARIANT TypeOK
INVARIANT NothingIsHidden
PROPERTY ImplementsSoftDelete
PROPERTY ArchivedIsVacant
PROPERTY OnlyDepositsKeep
SYMMETRY Symmetric
CHECK_DEADLOCK FALSE
