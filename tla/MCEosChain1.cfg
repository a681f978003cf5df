SPECIFICATION Spec
CONSTANTS
  L = 1
  N = 2
  K = 1
  Burst = 1
  Servers = {1}
  Mbufs = {m1, m2, m3, m4}
  NoBuf = NoBuf
  LowWater = 3
  MaxPkt = 4
SYMMETRY MbufSymmetry
INVARIANTS RingDiscipline PacketsInPlace AssertsHold RxOwnership PoolAccount PktCnt FlushSucceeds
PROPERTIES FifoSpec
