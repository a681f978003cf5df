CONSTANTS
  NCore = 2
  PerCore = 2
  ChainTypes = 8
  NfTypes = 8
  MaxChainLen = 1
  ChainLen = 3
  ConnMax = 20
  FirstTid = 0
  Cid = {0, 17}
SPECIFICATION Spec
INVARIANTS OneOwner Asserts Addressed
PROPERTY Served
