CONSTANTS
  c1 = c1
  c2 = c2
  g1 = g1
  g2 = g2
  g3 = g3
  Executions = {x1}
  Consumers = {c1, c2}
  NoConsumer = none
  Goroutines = {g1, g2}
  Home <- OneEachHome
  Skew <- AheadSkew
  Idle = 2
  MaxRun = 1
  Batch = 1
  MaxCopies = 2
  MaxEntries = 2
  MaxHeld = 1
  MaxFaults = 0
SPECIFICATION FairSpec
INVARIANTS TypeOK SoleOwner
PROPERTIES EventuallyFinal Drained
