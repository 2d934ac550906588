SPECIFICATION Spec
CONSTANTS
  LoginJobs = {j1, j2}
  SolverJobs = {}
  Verifiers = {v1}
  NoJob = NoJob
  MaxPages = 2
  MaxLogins = 2
SYMMETRY Symmetry
CHECK_DEADLOCK FALSE
INVARIANTS TypeOK LeaseInv ReopensVerified
PROPERTIES OneBrowserAtATime
