CONSTANTS
  BatchSize = 2
  Pad = Pad
  None = None
  P = 7
  NParties = 4
  Capacity = 4
  Circuit <- TwoLayers
  Scenarios <- FewScenarios
SPECIFICATION Spec
INVARIANTS ReceivesItsOwn PrepIsSharing OwnersLearnMasks RoomDecides
CHECK_DEADLOCK FALSE
