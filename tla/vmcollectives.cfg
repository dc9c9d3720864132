SPECIFICATION FairSpec
CONSTANT NPets = 4
CONSTANT BoostSize = 2
CONSTANT Scenarios <- MCScenarios
INVARIANTS TypeOK Delivered HandlesWaited
PROPERTY AllReturn
