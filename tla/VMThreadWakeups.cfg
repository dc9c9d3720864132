SPECIFICATION WakeupSpec
CONSTANTS
  c1 = c1
  c2 = c2
  PET = {0}
  Pid <- MCPid
  Spawned <- MCSpawnedOne
  To <- Nobody
  Rounds = 1
  ExitLast = TRUE
  MpiMultiple = FALSE
  Queued = TRUE
INVARIANTS
  ExitAwaitsThreads
CHECK_DEADLOCK FALSE
