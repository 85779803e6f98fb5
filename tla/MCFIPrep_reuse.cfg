CONSTANTS
  BatchSize = 2
  Threshold = 1
  NParties = 4
  P = 7
  Capacity = 6
  NIndShrs = 3
  NMultBatches = 2
  NInOutBatches = 1
  Scenarios <- FewScenarios
SPECIFICATION Spec
INVARIANTS ZeroSharesUsedOnce
