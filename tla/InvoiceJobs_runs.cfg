\* One worker, three days: the second month has begun when the calendar ends.
SPECIFICATION FairSpec
CONSTANTS
  Workers = {w1}
  a1 = a1
  a2 = a2
  a3 = a3
  Agreements <- MCAgreements
  CollectionDay <- MCCollectionDay
  MonthLength = 2
  MaxDay = 3
  MaxQueue = 2
  MaxPerPeriod = 2
  None = None
INVARIANTS TypeOK OneRentPerPeriod
PROPERTIES RunLeavesNoGap JobsEnd
