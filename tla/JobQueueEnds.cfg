SPECIFICATION FairSpec
CONSTANTS
  Jobs = {j1, j2}
  Workers = {w1, w2}
  Requests = {r1}
  NoJob = NoJob
  MaxAttempts = 1
  BackoffUnit = 1
  StaleAfter = 2
  MaxStops = 1
  MaxFaults = 1
  Suspends = FALSE
  Hanging = {j2}
PROPERTIES EverySubmittedJobSettles CancelFreesWorker DrainEnds
