SPECIFICATION FairSpec
CONSTANTS
  Publishers = {p1, p2}
  Clients = {c1}
  Keep = 3
  Capacity = 2
  MaxEvents = 5
  MaxEvictions = 1
INVARIANTS TypeOK WrittenOnce NoGap
PROPERTIES FinalReachesClient
CHECK_DEADLOCK FALSE
