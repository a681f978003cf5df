SPECIFICATION Spec
CONSTANTS
  L = 3
  N = 1
  K = 2
  Burst = 2
  Servers = {2}
  Mbufs = {m1, m2}
  NoBuf = NoBuf
  LowWater = 0
  MaxPkt = 2
SYMMETRY MbufSymmetry
INVARIANT PktCnt
PROPERTIES FifoSpec
