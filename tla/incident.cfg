CONSTANTS
  a1 = a1
  a2 = a2
  e1 = e1
  e2 = e2
  u1 = u1
  r1 = r1
  r2 = r2
  Alerts = {a1, a2}
  Events = {e1, e2}
  Keys <- OwnOrShared
  Users = {u1}
  NoUser = none
  Requests = {r1, r2}
  MaxCount = 2
  MaxFaults = 1
SPECIFICATION FairSpec
INVARIANTS ToldIsResolved RestsOnAlerts AcceptedIsCounted
PROPERTIES EventuallyResolved ImplementsLifecycle
CHECK_DEADLOCK FALSE
