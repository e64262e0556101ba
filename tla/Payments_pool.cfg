\* Liveness and rollbacks: two requests, two connections.
SPECIFICATION FairSpec
CONSTANTS
  Requests = {r1, r2}
  Submissions = {s1}
  NInvoices = 1
  InitialDue <- MCDue
  Amounts = {1, 2}
  PoolSize = 2
  MaxLateAborts = 1
  None = None
INVARIANTS AppliedAccounting
PROPERTIES RequestsEnd
