SPECIFICATION Spec
CONSTANTS
  h1 = h1
  h2 = h2
  h3 = h3
  h4 = h4
  v1 = v1
  v2 = v2
  v3 = v3
  Handle = {h1, h2, h3, h4}
  Null = Null
  Var = {v1, v2, v3}
SYMMETRY Symmetry
INVARIANTS
  TypeOK
  ListOK
  HandlesSound
  WaitAllClears
CHECK_DEADLOCK FALSE
