CONSTANTS
  P = 7
  Jobs <- HashJobs
  BlockBytes = 2
  ElementBytes = 1
  WordBytes = 3
  Rate = 2
  Base = 4
  MaxReadSize = 5
  Order = 7
  Pad = Pad
SPECIFICATION Spec
INVARIANTS AbsorbsTheStream
