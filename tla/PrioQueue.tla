----------------------------- MODULE PrioQueue -----------------------------
(***************************************************************************)
(* What heap.h promises: a bounded set of entries with keys, from which one *)
(* of the least key is taken.                                               *)
(***************************************************************************)
EXTENDS Integers, FiniteSets

CONSTANTS Entry, None, Capacity

VARIABLES
  key,  \* key[x], for x in the queue: what the comparison looks at
  ret   \* what the last operation returned: an entry, None, or -1 if it refused

vars == <<key, ret>>

q == DOMAIN key

Init == key = <<>> /\ ret = None

\* The queue becomes S, and only the key of x may be another one.
Becomes(S, x) == DOMAIN key' = S /\ \A y \in S \ {x} : key'[y] = key[y]

Add(x) ==
  /\ x \notin q
  /\ \/ Cardinality(q) < Capacity /\ Becomes(q \cup {x}, x) /\ ret' = None
     \/ Cardinality(q) = Capacity /\ ret' = -1 /\ UNCHANGED key

Adjust(x) == x \in q /\ Becomes(q, x) /\ ret' = None

Remove(x) == x \in q /\ Becomes(q \ {x}, x) /\ ret' = None

Peek == IF q = {} THEN {None} ELSE {x \in q : \A y \in q : key[x] <= key[y]}

Highest == ret' \in Peek /\ Becomes(q \ {ret'}, ret')

Look == ret' \in Peek /\ UNCHANGED key

Next == (\E x \in Entry : Add(x) \/ Adjust(x) \/ Remove(x)) \/ Highest \/ Look

Spec == Init /\ [][Next]_vars
=============================================================================
