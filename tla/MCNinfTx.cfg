SPECIFICATION Spec
CONSTANTS
  N = 2
  K = 2
  Ports = {p1, p2}
  B = 2
  Pool = 4
  MaxNode = 3
INVARIANTS References Pointers PoolEnough
PROPERTIES HandedBack
