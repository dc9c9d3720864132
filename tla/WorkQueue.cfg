SPECIFICATION FairSpec
CONSTANTS
  p1 = p1
  p2 = p2
  p3 = p3
  d1 = d1
  d2 = d2
  NoPet = NoPet
  PET = {p1, p2, p3}
  DE = {d1, d2}
  Vas <- TwoVas
  DePet <- MCDePet
  PinToPet = FALSE
  MaxOffers = 3
  MaxHeld = 2
INVARIANTS
  TypeOK
  OneGrantPerRound
  RoundsAreContiguous
  AnsweredRoundIsGranted
  FlagIsOwnership
PROPERTIES
  ImplementsWindow
  OfferReturns
CHECK_DEADLOCK FALSE
