\* One request at a time.
SPECIFICATION Spec
CONSTANTS
  Requests = {r1}
  Submissions = {s1, s2}
  NInvoices = 2
  InitialDue <- MCDue
  Amounts = {1, 2, 4}
  PoolSize = 2
  MaxLateAborts = 1
  None = None
SYMMETRY Symmetric
INVARIANTS MoneyIsConserved
PROPERTIES LockedRowIsFrozen
