CONSTANTS
  BatchSize = 3
  Pad = Pad
  None = None
  P = 11
  NParties = 5
  Capacity = 2
  Circuit <- HandMade
  Scenarios <- FewScenarios
SPECIFICATION Spec
INVARIANTS ReceivesItsOwn MuIsMaskedValue
PROPERTIES LearnsOnce ComputesTheCircuit
