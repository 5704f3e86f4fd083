CONSTANTS
  c1 = c1
  c2 = c2
  g1 = g1
  g2 = g2
  g3 = g3
  Executions = {x1, x2}
  Consumers = {c1}
  NoConsumer = none
  Goroutines = {g1}
  Home <- SoloHome
  Skew <- SoloSkew
  Idle = 1
  MaxRun = 1
  Batch = 2
  MaxCopies = 1
  MaxEntries = 2
  MaxHeld = 1
  MaxFaults = 1
SPECIFICATION FairSpec
PROPERTIES EventuallyFinal
