SPECIFICATION Spec
CONSTANTS
  N = 2
  K = 1
  Ports = {p1}
  B = 2
  Pool = 2
  MaxNode = 2
INVARIANT MetaIsOfPkt
