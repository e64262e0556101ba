SPECIFICATION Spec
CONSTANTS
  Requests = {r1, r2, r3}
  Leases = {l3}
  room = room
  tenant = tenant
  None = None
  Rooms <- MCRooms
  Tenants <- MCTenants
  RoomOf <- MCRoomOf
  TenantOf <- MCTenantOf
  Capacity <- MCCapacity
  MaxTenants = 1
  Deposit = 1
  Rent = 1
  DaysInMonth = 3
  l1 = l1
  l2 = l2
  l3 = l3
  LeavingOption <- MCLeavingOption
  LeavingRule <- MCLeavingRule
  StartDay <- MCStartDay
  Totals <- MCTotals
SYMMETRY Symmetric
INVARIANT TypeOK
INVARIANT TerminatedHasRefund
PROPERTY DepositIsSplitOnce
PROPERTY TerminationIsFinal
