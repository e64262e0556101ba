\* Two requests at a time, two invoices, two submissions.
SPECIFICATION Spec
CONSTANTS
  Requests = {r1, r2}
  Submissions = {s1, s2}
  NInvoices = 2
  InitialDue <- MCDue
  Amounts = {3}
  PoolSize = 4
  MaxLateAborts = 1
  None = None
SYMMETRY Symmetric
INVARIANTS TypeOK ReviewedRowIsStable NothingIsForgiven
PROPERTIES OldestFirst FreshAllocationIsFifo
