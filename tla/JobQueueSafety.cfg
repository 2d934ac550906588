SPECIFICATION Spec
CONSTANTS
  Jobs = {j1, j2}
  Workers = {w1, w2}
  Requests = {r1}
  NoJob = NoJob
  MaxAttempts = 2
  BackoffUnit = 1
  StaleAfter = 2
  MaxStops = 2
  MaxFaults = 1
  Suspends = FALSE
  Hanging = {}
SYMMETRY Symmetry
INVARIANTS TypeOK OneRunner RetryBudget AttemptsAccounted
PROPERTIES FinishedIsFinal CancelUndoneOnlyByLateNack ImplementsLifecycle
