SPECIFICATION Spec
CONSTANTS
  Requests = {r1}
  Leases = {l1, l2}
  room = room
  tenant = tenant
  None = None
  Rooms <- MCRooms
  Tenants <- MCTenants
  RoomOf <- MCRoomOf
  TenantOf <- MCTenantOf
  Capacity <- MCCapacity
  MaxTenants = 2
  Deposit = 2
  Rent = 2
  DaysInMonth = 2
  l1 = l1
  l2 = l2
  l3 = l3
  LeavingOption <- MCLeavingOption
  LeavingRule <- MCLeavingRule
  StartDay <- MCStartDay
  Totals <- MCTotals
PROPERTY LivesOneLife
PROPERTY OffsetMatchesPreview
