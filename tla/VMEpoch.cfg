SPECIFICATION FairSpec
CONSTANTS
  PET = {0, 1, 2}
  Count <- MCCount
INVARIANTS
  TypeOK
  InOrder
  OneTransfer
  OneOutstanding
PROPERTIES
  AllFinal
CHECK_DEADLOCK FALSE
