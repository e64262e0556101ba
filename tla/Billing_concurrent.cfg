\* Two requests or job runs at a time, on one invoice.
SPECIFICATION FairSpec
CONSTANTS
  Requests = {r1, r2}
  Invoices = {i1}
  Amounts = {2}
  Discounts = {0, 3}
  Bills = {1}
  Receipts = {1, 3}
  Fee = 1
  MaxReceived = 1
  None = None
INVARIANTS TypeOK
PROPERTIES FreshWritesKeepTotals OnlyStaleFeeReopens OverdueIsCharged
