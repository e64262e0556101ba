SPECIFICATION Spec
CONSTANTS
  Requests = {r1, r2}
  Users = {u1, u2, u3}
  Roles = {k1, k2}
  Landlords = {landlord}
  System = System
  MaxStaff = 1
  None = None
INVARIANT TypeOK
INVARIANT RolesAreTheBosses
INVARIANT StaffLimitBound
PROPERTY AloneLocksNobodyOut
SYMMETRY Symmetric
CHECK_DEADLOCK FALSE
