SPECIFICATION HeapSpec
CONSTANTS
  d = d
  f = f
  g = g
  h = h
  Entry = {a, b, c, d, f, g, h}
  Null = Null
  MaxKey = 2
  MaxSz = 6
SYMMETRY Symmetry
INVARIANT HeapSound
PROPERTY QueueSpec
