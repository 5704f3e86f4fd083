CONSTANTS
  Timeouts = {1, 6}
  Delays = {1, 3}
  MaxTimeout = 6
  MaxDelay = 3
  IdleTimeout = 180
SPECIFICATION Spec
INVARIANTS EndsWhileOwned AttemptsCounted
CHECK_DEADLOCK FALSE
