SPECIFICATION CopySpec
CONSTANTS
  N = 2
  W = 4
  MaxPub = 5
CHECK_DEADLOCK FALSE
INVARIANT OneLap
