CONSTANTS
  p1 = p1
  p2 = p2
  t1 = t1
  t2 = t2
  Schedulers = {p1, p2}
  Tasks = {t1, t2}
  Services = {s1}
  Intervals = {1, 2}
  Skew <- ApartClocks
  Batch = 1
  MaxNow = 2
SPECIFICATION FairSpec
INVARIANTS EachRunOnce NoCatchUp
PROPERTIES ImplementsSchedule DueIsScheduled
