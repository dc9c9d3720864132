SPECIFICATION FairSpec
CONSTANTS
  PET = {0, 1, 2, 3, 4}
  Pid <- MCPid
  Master = {0, 2}
  Calls <- MCCalls
INVARIANTS
  TypeOK
  GroupBarrier
  FullBarrier
PROPERTIES
  AllLeave
CHECK_DEADLOCK FALSE
