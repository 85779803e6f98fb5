\* Buffers of none to three bytes, received in pieces that end inside, at and
\* beyond the ends of the buffers.
CONSTANTS
  SendSizes = {0, 1, 3}
  RecvSizes = {0, 1, 2, 4}
  MaxBytes = 5
  MaxItems = 3
SPECIFICATION MemSpec
INVARIANTS NothingLost
PROPERTIES CallsReturn StreamOrder
CHECK_DEADLOCK FALSE
