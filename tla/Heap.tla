-------------------------------- MODULE Heap --------------------------------
(***************************************************************************)
(* The binary heap of heap.c, as sl uses it for the run queue of a core     *)
(* (sl_mod_edf.c) and for its timeouts (sl_sched.c).  Its callers hold the  *)
(* critical section, so an operation is a step.  Each entry remembers its   *)
(* index, and is removed or moved by it.                                    *)
(***************************************************************************)
EXTENDS Integers, Sequences, SequencesExt

CONSTANTS
  Entry,   \* what is kept in the heap
  Null,    \* NULL
  MaxKey,  \* bound: the greatest key
  MaxSz    \* max_sz of heap_init, and entries of the array behind the heap

Params == MaxKey \in Nat /\ MaxSz \in Nat \ {0} /\ Null \notin Entry
ASSUME HeapAssumption == Params

VARIABLES
  data,  \* the entries in use, from index 1; Len(data) + 1 is e
  key,   \* key[x]: deadline, timeout_cycs; 0 if x is not in the heap
  pos,   \* pos[x]: prio_idx, timeout_idx
  ret    \* what the last operation returned: an entry, Null, or -1 if it refused

heapVars == <<data, key, pos, ret>>

Key == 0 .. MaxKey
Size == Len(data)

\* __compare_min, __sl_timeout_compare_min
Cmp(x, y, k) == k[x] <= k[y]

\* heap_init, and threads that are in no heap
heap_init ==
  /\ data = <<>>
  /\ key = [x \in Entry |-> 0]
  /\ pos = [x \in Entry |-> -1]
  /\ ret = Null

-----------------------------------------------------------------------------
(* A heap within an operation: h.d the entries, h.p the indices.            *)

\* A store to the array, which may be at its end, and the update of the index.
Put(h, i, x) == [d |-> IF i > Len(h.d) THEN Append(h.d, x) ELSE [h.d EXCEPT ![i] = x],
                 p |-> [h.p EXCEPT ![x] = i]]

swap_entries(h, a, b) == Put(Put(h, a, h.d[b]), b, h.d[a])

\* Mutant: the worse child.
MutantChild(h, c, k) ==
  IF 2 * c + 1 > Len(h.d) \/ Cmp(h.d[2 * c + 1], h.d[2 * c], k) THEN 2 * c ELSE 2 * c + 1

Child(h, c, k) ==
  IF 2 * c + 1 > Len(h.d) \/ Cmp(h.d[2 * c], h.d[2 * c + 1], k) THEN 2 * c ELSE 2 * c + 1

\* The loops: s.h is the heap, s.c the index that moves.  A round of a loop that is
\* over changes nothing, and neither loop can make more rounds than it is given here.
DownOver(s, k) == s.c > Len(s.h.d) \div 2 \/ Cmp(s.h.d[s.c], s.h.d[Child(s.h, s.c, k)], k)
DownRound(s, k) ==
  IF DownOver(s, k) THEN s
  ELSE [h |-> swap_entries(s.h, Child(s.h, s.c, k), s.c), c |-> Child(s.h, s.c, k)]
swap_down(h, c, k) ==
  LET s[n \in 0 .. Len(h.d)] == IF n = 0 THEN [h |-> h, c |-> c] ELSE DownRound(s[n - 1], k)
  IN  s[Len(h.d)]

UpOver(s, k) == s.c <= 1 \/ Cmp(s.h.d[s.c \div 2], s.h.d[s.c], k)
UpRound(s, k) ==
  IF UpOver(s, k) THEN s
  ELSE [h |-> swap_entries(s.h, s.c \div 2, s.c), c |-> s.c \div 2]
swap_up(h, c, k) ==
  LET s[n \in 0 .. c] == IF n = 0 THEN [h |-> h, c |-> c] ELSE UpRound(s[n - 1], k)
  IN  s[c]

heapify(h, c, k) == LET u == swap_up(h, c, k) IN swap_down(u.h, u.c, k).h

Now == [d |-> data, p |-> pos]
Becomes(h) == data' = h.d /\ pos' = h.p

\* h->e--, and the callers set the index of an entry that left to -1.
Shorter(h) == [h EXCEPT !.d = Front(@)]
Gone(h, x) == [h EXCEPT !.p[x] = -1]

-----------------------------------------------------------------------------
(* Operations.                                                              *)

\* sl_mod_wakeup and sl_timeout_block: a new key, then heap_add.
heap_add(x) ==
  /\ pos[x] = -1
  /\ IF Size = MaxSz
     THEN ret' = -1 /\ UNCHANGED <<data, key, pos>>
     ELSE /\ \E k \in Key : key' = [key EXCEPT ![x] = k]
          /\ Becomes(heapify(Put(Now, Size + 1, x), Size + 1, key'))
          /\ ret' = Null

\* SL_XCPU_THD_WAKEUP_WITH_DL of a thread that is runnable.
heap_adjust(x) ==
  /\ pos[x] > 0
  /\ \E k \in Key : key' = [key EXCEPT ![x] = k]
  /\ Becomes(heapify(Now, pos[x], key'))
  /\ ret' = Null

\* Mutant: the entry that takes the place only moves down.
MutantRemove(x) ==
  /\ pos[x] > 0
  /\ ret' = Null
  /\ key' = [key EXCEPT ![x] = 0]
  /\ Becomes(Gone(IF pos[x] = Size THEN Shorter(Now)
                  ELSE swap_down(Shorter(Put(Now, pos[x], data[Size])), pos[x], key).h, x))

\* sl_mod_block, sl_timeout_remove; both ignore what it returns.
heap_remove(x) ==
  /\ pos[x] > 0
  /\ ret' = Null
  /\ key' = [key EXCEPT ![x] = 0]
  /\ Becomes(Gone(IF pos[x] = Size THEN Shorter(Now)
                  ELSE heapify(Shorter(Put(Now, pos[x], data[Size])), pos[x], key), x))

heap_peek == IF Size = 0 THEN Null ELSE data[1]

\* sl_timeout_wakeup_expired
heap_highest ==
  /\ ret' = heap_peek
  /\ IF Size = 0 THEN UNCHANGED <<data, key, pos>>
     ELSE /\ Becomes(Gone(swap_down(Shorter(Put(Now, 1, data[Size])), 1, key).h, data[1]))
          /\ key' = [key EXCEPT ![data[1]] = 0]

sl_mod_schedule == ret' = heap_peek /\ UNCHANGED <<data, key, pos>>

HeapNext ==
  \/ \E x \in Entry : heap_add(x) \/ heap_adjust(x) \/ heap_remove(x)
  \/ heap_highest \/ sl_mod_schedule

HeapSpec == heap_init /\ [][HeapNext]_heapVars

-----------------------------------------------------------------------------
HeapTypes ==
  /\ data \in Seq(Entry) /\ Size <= MaxSz
  /\ key \in [Entry -> Key]
  /\ pos \in [Entry -> {-1} \cup 1 .. MaxSz]
  /\ ret \in Entry \cup {Null, -1}

\* After any sequence of operations no entry is better than its parent, so that the
\* thread that sl_mod_schedule sees at the root is one of the earliest deadline.
HeapOrder == \A i \in 2 .. Size : Cmp(data[i \div 2], data[i], key)

\* The index that an entry remembers is where it is: every swap keeps both up to
\* date, or else sl_mod_block would take another thread off the run queue.
Positions ==
  /\ \A x \in Entry : pos[x] > 0 => pos[x] <= Size /\ data[pos[x]] = x
  /\ \A i \in 1 .. Size : pos[data[i]] = i

\* The array is a heap whose entries know where they are.
HeapSound == HeapTypes /\ HeapOrder /\ Positions

\* The heap is a bounded priority queue: what is added is in it until it is taken or
\* removed by its index, what is taken or peeked has the least key, and an entry is
\* refused only when as many are in it as heap_init was told.
Queue == INSTANCE PrioQueue WITH
           None <- Null,
           key <- [x \in {y \in Entry : pos[y] > 0} |-> key[x]],
           Capacity <- MaxSz
QueueSpec == Queue!Spec

\* Does not hold (README 3.3).
\* The comment of struct heap calls max_sz the "max allocated size": the highest
\* index in use would be one of the array, which has the indices 0 .. MaxSz - 1.
InArray == Size < MaxSz
=============================================================================
