CONSTANTS
  NCpu = 2
  Pte = {p1, p2}
  RefBits = 4
  MaxRef = 2
  MaxLost = 1
SPECIFICATION Spec
INVARIANTS WordsAgree FreeUnmapped AskedFlushed
PROPERTY Unlocked
