CONSTANTS
  BatchSize = 3
  Pad = Pad
  Clients <- TwoClients
  Disciplined = TRUE
  MaxGates = 40
  MaxLayers = 10
  FewGates = 4
  FewLayers = 3
  Configs <- SmallConfigs
SPECIFICATION CallersSpec
INVARIANTS TypeOK ViewsAgree EveryGateBatchedOnce UndefinedOnlyWhenEmpty BuildsSynthetic
PROPERTIES Returns
CHECK_DEADLOCK FALSE
