SPECIFICATION FairSpec
CONSTANTS
  c1 = c1
  c2 = c2
  PET = {0, 1, 2}
  Pid <- MCPid
  Spawned <- MCSpawnedOne
  To <- Together
  Rounds = 2
  ExitLast = FALSE
  MpiMultiple = TRUE
  Queued = FALSE
PROPERTIES
  AllDown
CHECK_DEADLOCK FALSE
