CONSTANT NConn = 3
SPECIFICATION Spec
INVARIANTS ListsSound Kept
PROPERTY Collected
