SPECIFICATION FairSpec
CONSTANTS
  direct = direct
  x1 = x1
  x2 = x2
  N = 13
  Route <- MCRoute
  Buffer = {0, 1}
  Direct = direct
  Slot = {x1, x2}
INVARIANTS
  TypeOK
  ReceivedIntact
  ExclusiveBuffer
  Rendezvous
PROPERTIES
  AllReceived
CHECK_DEADLOCK FALSE
