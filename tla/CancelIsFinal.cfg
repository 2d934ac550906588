SPECIFICATION Spec
CONSTANTS
  Jobs = {j1, j2}
  Workers = {w1, w2}
  Requests = {r1}
  NoJob = NoJob
  MaxAttempts = 2
  BackoffUnit = 1
  StaleAfter = 2
  MaxStops = 1
  MaxFaults = 0
  Suspends = FALSE
  Hanging = {}
PROPERTIES CancelIsFinal
