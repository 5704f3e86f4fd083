CONSTANTS
  Goroutines = {g1}
  Poison = {1, 2}
  Capacity = 1
  ReadCount = 2
  Scan = 2
  MaxEntries = 4
  MaxStops = 1
  MaxFaults = 1
SPECIFICATION FairSpec
INVARIANTS ClosedWithoutSenders
PROPERTIES ClaimSkipsNone ImplementsDelivery Stops Consumed
