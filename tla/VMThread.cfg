SPECIFICATION FairSpec
CONSTANTS
  c1 = c1
  c2 = c2
  PET = {0, 1, 2}
  Pid <- MCPid
  Spawned <- MCSpawned
  To <- Apart
  Rounds = 2
  ExitLast = FALSE
  MpiMultiple = FALSE
  Queued = TRUE
INVARIANTS
  TypeOK
  ExitAwaitsThreads
  CoresReturned
  CoresHeld
PROPERTIES
  AllDown
CHECK_DEADLOCK FALSE
