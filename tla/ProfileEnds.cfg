SPECIFICATION FairSpec
CONSTANTS
  LoginJobs = {j1, j2}
  SolverJobs = {s1}
  Verifiers = {v1}
  NoJob = NoJob
  MaxPages = 1
  MaxLogins = 0
CHECK_DEADLOCK FALSE
INVARIANTS NothingLeaks
PROPERTIES EveryJobEnds
