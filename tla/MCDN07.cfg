CONSTANTS
  Threshold = 2
  NParties = 5
  P = 7
  Capacity = 2
  None = None
  Circuit <- TwoLayers
  Scenarios <- FewScenarios
SPECIFICATION Spec
INVARIANTS ReceivesItsOwn WiresAreShared
PROPERTIES ComputesTheCircuit
