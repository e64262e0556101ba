SPECIFICATION Spec
CONSTANTS
  Requests = {r1, r2}
  Landlords = {l1}
  Plans = {p1, p2}
  Slips = {s1}
  Asks = {a1}
  NameOf <- MCNameOf
  Prices = {1, 2}
  Amounts = {2}
  Cycle = 2
  Window = 1
  MaxDay = 3
  MaxPapers = 1
  None = None
INVARIANT TypeOK
INVARIANT ApprovalsAreBacked
INVARIANT PastDueIsPast
PROPERTY SwitchAsShown
SYMMETRY Symmetric
CHECK_DEADLOCK FALSE
