SPECIFICATION Spec
CONSTANTS
  Requests = {r1, r2}
  Users = {u1, u2, u3}
  Leases = {l1}
  None = None
INVARIANT TypeOK
INVARIANT HalfMadeOnlyByStop
PROPERTY PapersOutliveAccounts
PROPERTY ImplementsSoftDelete
SYMMETRY Symmetric
CHECK_DEADLOCK FALSE
