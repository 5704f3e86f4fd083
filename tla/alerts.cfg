CONSTANTS
  Workers = {w1}
  Services = {s1, s2}
  Types = {http, tcp}
  MaxRuns = 2
  For = 2
  MaxErrors = 2
  None = none
SPECIFICATION Spec
PROPERTIES ImplementsFailureAlert EndsForReason FailureFires SuccessResolves
