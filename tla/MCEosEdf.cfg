SPECIFICATION Spec
CONSTANTS
  L = 2
  N = 1
  Burst = 2
  Offset = 1
  OpSize = 4
  MaxDl = 3
  MaxPkt = 2
INVARIANTS Wakeups DeadlineAsserts OpsBounded
PROPERTY Delivered
