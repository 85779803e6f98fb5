CONSTANTS
  Threshold = 1
  NParties = 4
  P = 5
  Capacity = 2
  None = None
  Circuit <- TwoLayers
  Scenarios <- FewScenarios
SPECIFICATION Spec
INVARIANTS OutputsRight
