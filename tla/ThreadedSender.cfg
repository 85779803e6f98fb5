\* Buffers of one and three bytes on a socket with room for two, closed up to twice.
CONSTANTS
  Sizes = {1, 3}
  Room = 2
  MaxBytes = 5
  MaxCloses = 2
  StopSignal = 0
SPECIFICATION SenderSpec
INVARIANTS NothingLostWhileOpen
PROPERTIES PeerReadsStream CloseReturns
CHECK_DEADLOCK FALSE
