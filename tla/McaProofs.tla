----------------------------- MODULE McaProofs -----------------------------
(***************************************************************************)
(* Proofs about what the MCA works on.  NodeCopy, for rings and nodes of    *)
(* any size and words stored and loaded in any order: a side copies the     *)
(* batch of its node, or words of it that are a ring old where the producer *)
(* is not done.  McaConn, for any number of connections: each is in one     *)
(* place, what the scan processes is set up, and a connection that somebody *)
(* holds is scanned unless a removal at the head cut it off.                *)
(***************************************************************************)
EXTENDS NodeCopy, McaConn, WellFoundedInduction, TLAPS

(***************************************************************************)
(* The nodes of a ring.                                                     *)
(***************************************************************************)
\* The producer has stored the word i of the node at tail.
Stored(i) == prod[1] = "write" /\ i \notin prod[2]

\* Batches whose state can be seen: one more than tail while other words are not stored.
Pub == IF Stored(StateWord) THEN tail + 1 ELSE tail

Types ==
  /\ word \in [Nodes -> [Words -> Nat]] /\ state \in [Nodes -> {"EMPTY", "READY", "DONE"}]
  /\ prod \in {"look", "write", "read", "empty"} \X SUBSET Words
  /\ cons \in {"look", "read", "done"} \X SUBSET Words
  /\ tail \in Nat /\ head \in Nat /\ taken \in Nat
  /\ local \in [{"prod", "cons"} -> [Words -> Nat]]

\* The cursors: the producer collects behind the consumer, which follows the producer by at
\* most a ring.
Cursors ==
  /\ head <= taken /\ head <= tail /\ taken <= Pub /\ Pub <= head + N /\ Pub <= MaxPub
  /\ prod[1] = "write" => tail < head + N /\ tail < MaxPub
  /\ prod[1] \in {"read", "empty"} => head < taken
  /\ cons[1] \in {"read", "done"} => taken < Pub

\* The state of a node says which cursors have passed it.
StateOf(k) == IF k < taken THEN "DONE" ELSE IF k < Pub THEN "READY" ELSE "EMPTY"
States == \A k \in head .. head + N - 1 : state[Node(k)] = StateOf(k)

\* A word of a node is that of its batch once the producer has stored it, and that of the
\* batch a ring before until then.
WordOf(k, i) == IF k < tail \/ (k = tail /\ Stored(i)) THEN k + 1 ELSE LapBefore(k + 1)
Batches == \A k \in head .. head + N - 1 : \A i \in Words : word[Node(k)][i] = WordOf(k, i)

\* The copies that each side has made so far
Copied ==
  /\ prod[1] \in {"read", "empty"} => \A i \in Words \ prod[2] : local["prod"][i] = head + 1
  /\ cons[1] \in {"read", "done"} =>
       \A i \in Words \ cons[2] :
         /\ local["cons"][i] \in {taken + 1, LapBefore(taken + 1)}
         /\ i = StateWord => local["cons"][i] = taken + 1

CopyInv == Types /\ Cursors /\ States /\ Batches /\ Copied

-----------------------------------------------------------------------------
(* Indices and places.                                                      *)

\* Masking an index yields a node of the ring.
LEMMA NodeType ==
  ASSUME NEW k \in Int
  PROVE  Node(k) \in Nodes
  BY NodeAssumption DEF Node, Nodes

\* Two indices less than a ring apart are different nodes.
LEMMA NodeInj ==
  ASSUME NEW j \in Int, NEW k \in Int, j < k, k < j + N
  PROVE  Node(j) # Node(k)
<1> SUFFICES ASSUME j % N = k % N PROVE FALSE
  BY DEF Node
<1> DEFINE d == j \div N
           q == k \div N
<1>1. /\ N \in Nat /\ N > 0 /\ d \in Int /\ q \in Int
      /\ j = N * d + (j % N) /\ k = N * q + (k % N)
  BY NodeAssumption
<1>2. k - j = N * (q - d)
  BY <1>1
<1>3. q - d < 1 /\ q - d > 0
  BY <1>1, <1>2
<1> QED BY <1>1, <1>3

\* An index one ring further is the same node.
LEMMA NodeWrap ==
  ASSUME NEW k \in Int
  PROVE  Node(k + N) = Node(k)
<1>1. Node(k) \in Nodes /\ Node(k + N) \in Nodes
  BY NodeType, NodeAssumption
<1> DEFINE d == k \div N
           q == (k + N) \div N
<1>2. /\ N \in Nat /\ N > 0 /\ d \in Int /\ q \in Int
      /\ k = N * d + Node(k) /\ k + N = N * q + Node(k + N)
  BY NodeAssumption DEF Node
<1>3. Node(k + N) - Node(k) = N * (d + 1 - q)
  BY <1>1, <1>2 DEF Nodes
<1>4. d + 1 - q < 1 /\ d + 1 - q > -1
  BY <1>1, <1>2, <1>3 DEF Nodes
<1>5. d + 1 - q = 0
  BY <1>2, <1>4
<1>6. Node(k + N) - Node(k) = 0
  BY <1>2, <1>3, <1>5
<1> QED BY <1>1, <1>6 DEF Nodes

\* Where the two sides are, and the sizes.
LEMMA WordPlaces ==
  ASSUME Types
  PROVE  /\ prod[1] \in {"look", "empty", "write", "read"} /\ prod[2] \in SUBSET Words
         /\ cons[1] \in {"look", "done", "read"} /\ cons[2] \in SUBSET Words
         /\ Pub \in {tail, tail + 1} /\ (prod[1] # "write" => Pub = tail)
         /\ Pub \in Nat /\ tail \in Nat /\ head \in Nat /\ taken \in Nat
         /\ N \in Nat /\ N > 0 /\ StateWord \in Words /\ MaxPub \in Nat /\ Words \subseteq Nat
<1>1. N \in Nat /\ N > 0 /\ MaxPub \in Nat /\ StateWord \in Words /\ Words \subseteq Nat
  BY NodeAssumption DEF Words, StateWord
<1>2. /\ prod[1] \in {"look", "empty", "write", "read"} /\ prod[2] \in SUBSET Words
      /\ cons[1] \in {"look", "done", "read"} /\ cons[2] \in SUBSET Words
  BY DEF Types
<1>3. tail \in Nat /\ head \in Nat /\ taken \in Nat
  BY DEF Types
<1> QED BY <1>1, <1>2, <1>3 DEF Pub, Stored

\* Nodes that are less than a ring apart are different.
LEMMA Others ==
  ASSUME Types, NEW j \in Nat, NEW k \in Nat, j # k, j < k + N, k < j + N
  PROVE  Node(j) # Node(k) /\ Node(j) \in Nodes /\ Node(k) \in Nodes
<1>1. CASE j < k
  BY <1>1, NodeInj, NodeType
<1>2. CASE k < j
  BY <1>2, NodeInj, NodeType
<1> QED BY <1>1, <1>2

-----------------------------------------------------------------------------
(* The invariant is inductive.                                              *)

\* The producer starts to write the node at tail only if it is free: the ring is not full.
LEMMA FlushKeeps ==
  ASSUME CopyInv, flush
  PROVE  CopyInv'
<1> USE WordPlaces DEF CopyInv
<1>1. /\ prod[1] = "look" /\ state[Node(tail)] = "EMPTY" /\ tail < MaxPub
      /\ prod' = <<"write", Words>> /\ prod'[1] = "write" /\ prod'[2] = Words
      /\ UNCHANGED <<word, state, cons, tail, head, taken, local>>
  BY DEF flush, AtStep, Copying
<1>2. Types'
  BY <1>1 DEF Types
<1>3. /\ Pub = tail /\ Pub' = tail /\ \A i \in Words : ~Stored(i) /\ ~Stored(i)'
  BY <1>1 DEF Pub, Stored
<1>4. tail < head + N
  <2> SUFFICES ASSUME tail = head + N PROVE FALSE
    BY <1>3 DEF Cursors
  <2>1. Node(tail) = Node(head)
    BY NodeWrap
  <2>2. state[Node(head)] \in {"DONE", "READY"}
    BY <1>3 DEF States, StateOf
  <2> QED BY <1>1, <2>1, <2>2
<1>5. Cursors'
  BY <1>1, <1>3, <1>4 DEF Cursors
<1>6. States' /\ Copied'
  BY <1>1, <1>3 DEF States, StateOf, Copied
<1>7. Batches'
  BY <1>1, <1>3 DEF Batches, WordOf
<1> QED BY <1>2, <1>5, <1>6, <1>7

\* A word of the producer's copy changes that word of the node at tail, and the state of the
\* node if it is the one with the state.
LEMMA WriteKeeps ==
  ASSUME CopyInv, write
  PROVE  CopyInv'
<1> DEFINE n == Node(tail)
<1> USE WordPlaces DEF CopyInv
<1>1. PICK i \in prod[2] :
        /\ prod' = Moved(prod, i, "look")
        /\ word' = [word EXCEPT ![n][i] = tail + 1]
        /\ state' = IF i = StateWord THEN [state EXCEPT ![n] = "READY"] ELSE state
        /\ tail' = IF prod[2] = {i} THEN tail + 1 ELSE tail
  BY DEF write
<1>2. prod[1] = "write" /\ UNCHANGED <<cons, head, taken, local>> /\ i \in Words
  BY DEF write
<1>3. tail < head + N /\ tail < MaxPub /\ head <= tail /\ n \in Nodes /\ tail \in head .. head + N - 1
  BY <1>2, NodeType DEF Cursors
<1>4. /\ word' \in [Nodes -> [Words -> Nat]]
      /\ \A m \in Nodes : m # n => word'[m] = word[m]
      /\ \A j \in Words : word'[n][j] = IF j = i THEN tail + 1 ELSE word[n][j]
  BY <1>1, <1>2, <1>3 DEF Types
<1>5. /\ prod' \in {"look", "write", "read", "empty"} \X SUBSET Words
      /\ prod'[2] = prod[2] \ {i} /\ prod'[1] = IF prod[2] = {i} THEN "look" ELSE "write"
  <2>1. CASE prod[2] = {i}
    BY <1>1, <1>2, <2>1 DEF Moved, AtStep
  <2>2. CASE prod[2] # {i}
    BY <1>1, <1>2, <2>2 DEF Moved
  <2> QED BY <2>1, <2>2
<1>6. Types'
  <2>1. state' \in [Nodes -> {"EMPTY", "READY", "DONE"}]
    BY <1>1, <1>3 DEF Types
  <2> QED BY <1>1, <1>2, <1>4, <1>5, <2>1 DEF Types
<1>7. \A j \in Words, k \in head .. head + N - 1 :
        (k < tail' \/ (k = tail' /\ Stored(j)')) <=>
          (k < tail \/ (k = tail /\ (Stored(j) \/ j = i)))
  <2>1. CASE prod[2] = {i}
    <3>1. tail' = tail + 1 /\ prod'[1] = "look"
      BY <1>1, <1>5, <2>1
    <3>2. \A j \in Words : Stored(j) \/ j = i
      BY <1>2, <2>1 DEF Stored
    <3>3. \A j \in Words : ~Stored(j)'
      BY <3>1 DEF Stored
    <3> QED BY <3>1, <3>2, <3>3
  <2>2. CASE prod[2] # {i}
    <3>1. tail' = tail /\ prod'[1] = "write" /\ prod'[2] = prod[2] \ {i}
      BY <1>1, <1>5, <2>2
    <3>2. \A j \in Words : Stored(j)' <=> Stored(j) \/ j = i
      BY <1>2, <3>1 DEF Stored
    <3> QED BY <3>1, <3>2
  <2> QED BY <2>1, <2>2
<1>8. /\ Pub = IF Stored(StateWord) THEN tail + 1 ELSE tail
      /\ Pub' = IF Stored(StateWord) \/ StateWord = i THEN tail + 1 ELSE tail
      /\ (StateWord = i => ~Stored(StateWord))
  <2>1. CASE prod[2] = {i}
    <3>1. tail' = tail + 1 /\ prod'[1] = "look" /\ (Stored(StateWord) \/ StateWord = i)
      BY <1>1, <1>2, <1>5, <2>1 DEF Stored
    <3>2. Pub' = tail + 1
      BY <3>1 DEF Pub, Stored
    <3> QED BY <1>1, <3>1, <3>2 DEF Pub, Stored
  <2>2. CASE prod[2] # {i}
    <3>1. tail' = tail /\ prod'[1] = "write" /\ prod'[2] = prod[2] \ {i}
      BY <1>1, <1>5, <2>2
    <3>2. Stored(StateWord)' <=> Stored(StateWord) \/ StateWord = i
      BY <1>2, <3>1 DEF Stored
    <3> QED BY <1>1, <3>1, <3>2 DEF Pub, Stored
  <2> QED BY <2>1, <2>2
<1>9. Cursors'
  <2>1. Pub' \in {Pub, tail + 1} /\ Pub <= Pub'
    BY <1>8
  <2>2. tail' \in {tail, tail + 1} /\ (prod'[1] = "write" => tail' = tail)
    BY <1>1, <1>5
  <2>3. prod'[1] \in {"look", "write"}
    BY <1>5
  <2> QED BY <1>2, <1>3, <2>1, <2>2, <2>3 DEF Cursors
<1>10. \A k \in head .. head + N - 1 : k # tail => Node(k) # n /\ Node(k) \in Nodes
  BY <1>3, Others
<1>11. States'
  <2>1. ASSUME NEW k \in head .. head + N - 1 PROVE state'[Node(k)] = StateOf(k)'
    <3>0. state[Node(k)] = StateOf(k) /\ (StateOf(k))' = IF k < taken THEN "DONE" ELSE IF k < Pub' THEN "READY" ELSE "EMPTY"
      BY <1>2 DEF States, StateOf
    <3>1. CASE k # tail
      <4>1. state'[Node(k)] = state[Node(k)]
        BY <1>1, <1>10, <3>1 DEF Types
      <4>2. k < Pub' <=> k < Pub
        BY <1>8, <3>1
      <4> QED BY <3>0, <4>1, <4>2 DEF StateOf
    <3>2. CASE k = tail
      <4>1. CASE i = StateWord
        <5>1. state'[n] = "READY" /\ Pub = tail /\ Pub' = tail + 1
          BY <1>1, <1>3, <1>8, <4>1 DEF Types
        <5>2. ~(tail < taken)
          BY <5>1 DEF Cursors
        <5> QED BY <3>0, <3>2, <5>1, <5>2
      <4>2. CASE i # StateWord
        <5>1. state' = state /\ Pub' = Pub
          BY <1>1, <1>8, <4>2
        <5> QED BY <3>0, <5>1 DEF StateOf
      <4> QED BY <4>1, <4>2
    <3> QED BY <3>1, <3>2
  <2> QED BY <1>2, <2>1 DEF States
<1>12. Batches'
  <2>1. ASSUME NEW k \in head .. head + N - 1, NEW j \in Words PROVE word'[Node(k)][j] = WordOf(k, j)'
    <3>0. word[Node(k)][j] = WordOf(k, j)
      BY DEF Batches
    <3>1. CASE k # tail
      <4>1. word'[Node(k)][j] = word[Node(k)][j]
        BY <1>4, <1>10, <3>1
      <4>2. WordOf(k, j)' = WordOf(k, j)
        BY <1>7, <3>1 DEF WordOf
      <4> QED BY <3>0, <4>1, <4>2
    <3>2. CASE k = tail
      <4>1. word'[n][j] = IF j = i THEN tail + 1 ELSE word[n][j]
        BY <1>4
      <4>2. WordOf(k, j)' = IF j = i THEN tail + 1 ELSE WordOf(k, j)
        BY <1>7, <3>2 DEF WordOf
      <4> QED BY <3>0, <3>2, <4>1, <4>2
    <3> QED BY <3>1, <3>2
  <2> QED BY <1>2, <2>1 DEF Batches
<1>13. Copied'
  BY <1>2, <1>5 DEF Copied
<1> QED BY <1>6, <1>9, <1>11, <1>12, <1>13

\* The producer reads the node at head only if the consumer has handed it back.
LEMMA CollectKeeps ==
  ASSUME CopyInv, collect
  PROVE  CopyInv'
<1> USE WordPlaces DEF CopyInv
<1>1. /\ prod[1] = "look" /\ state[Node(head)] = "DONE"
      /\ prod' = <<"read", Words>> /\ prod'[1] = "read" /\ prod'[2] = Words
      /\ UNCHANGED <<word, state, cons, tail, head, taken, local>>
  BY DEF collect, AtStep, Copying
<1>2. Types'
  BY <1>1 DEF Types
<1>3. Pub = tail /\ Pub' = tail /\ \A i \in Words : ~Stored(i) /\ ~Stored(i)'
  BY <1>1 DEF Pub, Stored
<1>4. head < taken
  BY <1>1 DEF States, StateOf
<1>5. Cursors'
  BY <1>1, <1>3, <1>4 DEF Cursors
<1>6. States' /\ Copied'
  BY <1>1, <1>3 DEF States, StateOf, Copied
<1>7. Batches'
  BY <1>1, <1>3 DEF Batches, WordOf
<1> QED BY <1>2, <1>5, <1>6, <1>7

\* What the producer copies back is the batch it published.
LEMMA CollectCopyKeeps ==
  ASSUME CopyInv, collect_copy
  PROVE  CopyInv'
<1> DEFINE n == Node(head)
<1> USE WordPlaces DEF CopyInv
<1>1. PICK i \in prod[2] :
        /\ prod' = Moved(prod, i, "empty")
        /\ local' = [local EXCEPT !["prod"][i] = word[n][i]]
  BY DEF collect_copy
<1>2. prod[1] = "read" /\ UNCHANGED <<word, state, cons, tail, head, taken>> /\ i \in Words /\ n \in Nodes
  BY NodeType DEF collect_copy
<1>3. /\ prod' \in {"look", "write", "read", "empty"} \X SUBSET Words
      /\ prod'[2] = prod[2] \ {i} /\ prod'[1] \in {"empty", "read"}
  <2>1. CASE prod[2] = {i}
    BY <1>1, <1>2, <2>1 DEF Moved, AtStep
  <2>2. CASE prod[2] # {i}
    BY <1>1, <1>2, <2>2 DEF Moved
  <2> QED BY <2>1, <2>2
<1>4. /\ local' \in [{"prod", "cons"} -> [Words -> Nat]] /\ local'["cons"] = local["cons"]
      /\ \A j \in Words : local'["prod"][j] = IF j = i THEN word[n][i] ELSE local["prod"][j]
  BY <1>1, <1>2 DEF Types
<1>5. Types'
  BY <1>2, <1>3, <1>4 DEF Types
<1>6. Pub = tail /\ Pub' = tail /\ \A j \in Words : ~Stored(j) /\ ~Stored(j)'
  BY <1>2, <1>3 DEF Pub, Stored
<1>7. Cursors' /\ head < tail
  BY <1>2, <1>3, <1>6 DEF Cursors
<1>8. States'
  BY <1>2, <1>6 DEF States, StateOf
<1>9. Batches'
  BY <1>2, <1>6 DEF Batches, WordOf
<1>10. Copied'
  <2>1. word[n][i] = head + 1
    BY <1>2, <1>7 DEF Batches, WordOf
  <2>2. \A j \in Words \ prod[2] : local["prod"][j] = head + 1
    BY <1>2 DEF Copied
  <2>3. \A j \in Words \ prod'[2] : local'["prod"][j] = head + 1
    BY <1>3, <1>4, <2>1, <2>2
  <2> QED BY <1>2, <1>4, <2>3 DEF Copied
<1> QED BY <1>5, <1>7, <1>8, <1>9, <1>10

\* A collected node is free for the batch one ring later.
LEMMA CollectDoneKeeps ==
  ASSUME CopyInv, collect_done
  PROVE  CopyInv'
<1> DEFINE n == Node(head)
<1> USE WordPlaces DEF CopyInv
<1>1. /\ prod[1] = "empty" /\ prod' = <<"look", {}>> /\ prod'[1] = "look" /\ prod'[2] = {}
      /\ state' = [state EXCEPT ![n] = "EMPTY"] /\ head' = head + 1 /\ n \in Nodes
      /\ UNCHANGED <<word, cons, tail, taken, local>>
  BY NodeType DEF collect_done, AtStep
<1>2. Types'
  BY <1>1 DEF Types
<1>3. Pub = tail /\ Pub' = tail /\ \A i \in Words : ~Stored(i) /\ ~Stored(i)'
  BY <1>1 DEF Pub, Stored
<1>4. head < taken /\ taken <= tail /\ tail <= head + N
  BY <1>1, <1>3 DEF Cursors
<1>5. Cursors'
  BY <1>1, <1>3, <1>4 DEF Cursors
<1>6. ASSUME NEW k \in head + 1 .. head + N
      PROVE  state'[Node(k)] = StateOf(k)' /\ \A i \in Words : word'[Node(k)][i] = WordOf(k, i)'
  <2>0. (StateOf(k))' = StateOf(k) /\ \A i \in Words : WordOf(k, i)' = WordOf(k, i)
    BY <1>1, <1>3 DEF StateOf, WordOf
  <2>1. CASE k = head + N
    <3>1. Node(k) = n
      BY <2>1, NodeWrap
    <3>2. StateOf(k) = "EMPTY"
      BY <1>3, <1>4, <2>1 DEF StateOf
    <3>3. \A i \in Words : WordOf(k, i) = head + 1 /\ word[n][i] = head + 1
      <4>1. \A i \in Words : word[n][i] = WordOf(head, i)
        BY DEF Batches
      <4>2. \A i \in Words : WordOf(head, i) = head + 1
        BY <1>4 DEF WordOf
      <4>3. \A i \in Words : WordOf(k, i) = LapBefore(head + N + 1)
        BY <1>3, <1>4, <2>1 DEF WordOf
      <4> QED BY <4>1, <4>2, <4>3 DEF LapBefore
    <3> QED BY <1>1, <2>0, <3>1, <3>2, <3>3 DEF Types
  <2>2. CASE k # head + N
    <3>1. k \in head .. head + N - 1 /\ Node(k) # n /\ Node(k) \in Nodes
      BY <2>2, Others
    <3>2. state[Node(k)] = StateOf(k)
      BY <3>1 DEF States
    <3>3. \A i \in Words : word[Node(k)][i] = WordOf(k, i)
      BY <3>1 DEF Batches
    <3>4. state'[Node(k)] = state[Node(k)]
      BY <1>1, <3>1 DEF Types
    <3> QED BY <1>1, <2>0, <3>2, <3>3, <3>4
  <2> QED BY <2>1, <2>2
<1>7. States' /\ Batches'
  BY <1>1, <1>6 DEF States, Batches
<1>8. Copied'
  BY <1>1 DEF Copied
<1> QED BY <1>2, <1>5, <1>7, <1>8

\* The consumer reads a node only after the word with its state was stored.
LEMMA LookKeeps ==
  ASSUME CopyInv, look
  PROVE  CopyInv'
<1> USE WordPlaces DEF CopyInv
<1>1. /\ state[Node(taken)] = "READY"
      /\ cons' = <<"read", Words>> /\ cons'[1] = "read" /\ cons'[2] = Words
      /\ UNCHANGED <<word, state, prod, tail, head, taken, local>>
  BY DEF look, Copying
<1>2. Types' /\ Pub' = Pub
  BY <1>1 DEF Types, Pub, Stored
<1>3. taken < Pub
  <2> SUFFICES ASSUME taken = Pub PROVE FALSE
    BY DEF Cursors
  <2>1. CASE taken < head + N
    BY <1>1, <2>1 DEF States, StateOf, Cursors
  <2>2. CASE taken = head + N
    <3>1. Node(taken) = Node(head) /\ head < taken
      BY <2>2, NodeWrap
    <3> QED BY <1>1, <3>1 DEF States, StateOf
  <2> QED BY <2>1, <2>2 DEF Cursors
<1>4. Cursors'
  BY <1>1, <1>2, <1>3 DEF Cursors
<1>5. States' /\ Copied'
  BY <1>1, <1>2 DEF States, StateOf, Copied
<1>6. Batches'
  BY <1>1 DEF Batches, WordOf, Stored
<1> QED BY <1>2, <1>4, <1>5, <1>6

\* A word that it copies is that of the batch, or of the batch a ring before.
LEMMA CopyKeeps ==
  ASSUME CopyInv, copy
  PROVE  CopyInv'
<1> DEFINE n == Node(taken)
<1> USE WordPlaces DEF CopyInv
<1>1. PICK i \in cons[2] :
        /\ cons' = Moved(cons, i, "done")
        /\ local' = [local EXCEPT !["cons"][i] = word[n][i]]
  BY DEF copy
<1>2. cons[1] = "read" /\ UNCHANGED <<word, state, prod, tail, head, taken>> /\ i \in Words /\ n \in Nodes
  BY NodeType DEF copy
<1>3. /\ cons' \in {"look", "read", "done"} \X SUBSET Words
      /\ cons'[2] = cons[2] \ {i} /\ cons'[1] \in {"done", "read"}
  <2>1. CASE cons[2] = {i}
    BY <1>1, <1>2, <2>1 DEF Moved, AtStep
  <2>2. CASE cons[2] # {i}
    BY <1>1, <1>2, <2>2 DEF Moved
  <2> QED BY <2>1, <2>2
<1>4. /\ local' \in [{"prod", "cons"} -> [Words -> Nat]] /\ local'["prod"] = local["prod"]
      /\ \A j \in Words : local'["cons"][j] = IF j = i THEN word[n][i] ELSE local["cons"][j]
  BY <1>1, <1>2 DEF Types
<1>5. Types' /\ Pub' = Pub
  BY <1>2, <1>3, <1>4 DEF Types, Pub, Stored
<1>7. Cursors' /\ taken < Pub /\ head <= taken /\ Pub <= head + N
  BY <1>2, <1>3, <1>5 DEF Cursors
<1>8. States'
  BY <1>2, <1>5 DEF States, StateOf
<1>9. Batches'
  BY <1>2 DEF Batches, WordOf, Stored
<1>10. Copied'
  <2>0. word[n][i] = WordOf(taken, i)
    BY <1>2, <1>7 DEF Batches
  <2>1. word[n][i] \in {taken + 1, LapBefore(taken + 1)}
    BY <2>0 DEF WordOf
  <2>2. i = StateWord => word[n][i] = taken + 1
    BY <1>7, <2>0 DEF WordOf, Pub
  <2>3. \A j \in Words \ cons[2] :
          /\ local["cons"][j] \in {taken + 1, LapBefore(taken + 1)}
          /\ j = StateWord => local["cons"][j] = taken + 1
    BY <1>2 DEF Copied
  <2>4. \A j \in Words \ cons'[2] :
          /\ local'["cons"][j] \in {taken + 1, LapBefore(taken + 1)}
          /\ j = StateWord => local'["cons"][j] = taken + 1
    BY <1>3, <1>4, <2>1, <2>2, <2>3
  <2> QED BY <1>2, <1>4, <2>4 DEF Copied
<1> QED BY <1>5, <1>7, <1>8, <1>9, <1>10

\* It hands the node back by the state alone.
LEMMA DoneKeeps ==
  ASSUME CopyInv, done
  PROVE  CopyInv'
<1> DEFINE n == Node(taken)
<1> USE WordPlaces DEF CopyInv
<1>1. /\ cons[1] = "done" /\ cons' = <<"look", {}>> /\ cons'[1] = "look"
      /\ state' = [state EXCEPT ![n] = "DONE"] /\ taken' = taken + 1 /\ n \in Nodes
      /\ UNCHANGED <<word, prod, tail, head, local>>
  BY NodeType DEF done, AtStep
<1>2. Types' /\ Pub' = Pub
  BY <1>1 DEF Types, Pub, Stored
<1>3. taken < Pub /\ head <= taken /\ Pub <= head + N
  BY <1>1 DEF Cursors
<1>4. Cursors'
  BY <1>1, <1>2, <1>3 DEF Cursors
<1>5. ASSUME NEW k \in head .. head + N - 1 PROVE state'[Node(k)] = StateOf(k)'
  <2>1. CASE k = taken
    BY <1>1, <2>1 DEF StateOf, Types
  <2>2. CASE k # taken
    <3>1. Node(k) # n /\ Node(k) \in Nodes
      BY <1>3, <2>2, Others
    <3>2. state[Node(k)] = StateOf(k) /\ (StateOf(k))' = StateOf(k)
      BY <1>1, <1>2, <2>2 DEF States, StateOf
    <3> QED BY <1>1, <3>1, <3>2 DEF Types
  <2> QED BY <2>1, <2>2
<1>6. States'
  BY <1>1, <1>5 DEF States
<1>7. Batches' /\ Copied'
  BY <1>1 DEF Batches, WordOf, Stored, Copied
<1> QED BY <1>2, <1>4, <1>6, <1>7

\* The invariant is inductive, and holds in every behaviour, whatever the order in which the
\* words of a copy are stored and loaded.
THEOREM CopyInvariance == CopySpec => []CopyInv
<1>1. CopyInit => CopyInv
  <2> SUFFICES ASSUME CopyInit PROVE CopyInv
    OBVIOUS
  <2>0. /\ prod = <<"look", {}>> /\ cons = <<"look", {}>> /\ prod[1] = "look" /\ cons[1] = "look"
        /\ tail = 0 /\ head = 0 /\ taken = 0
    BY DEF CopyInit, AtStep
  <2>1. Types
    BY <2>0, NodeAssumption DEF CopyInit, Types
  <2>2. Pub = 0 /\ \A i \in Words : ~Stored(i)
    BY <2>0 DEF Pub, Stored
  <2>3. States
    BY <2>0, <2>2, NodeType, NodeAssumption DEF CopyInit, States, StateOf
  <2>4. Batches
    BY <2>0, <2>2, NodeType, NodeAssumption DEF CopyInit, Batches, WordOf, LapBefore
  <2> QED BY <2>0, <2>1, <2>2, <2>3, <2>4, NodeAssumption DEF CopyInv, Cursors, Copied
<1>2. CopyInv /\ [CopyNext]_copyVars => CopyInv'
  <2>1. ASSUME CopyInv, UNCHANGED copyVars PROVE CopyInv'
    BY <2>1 DEF copyVars, CopyInv, Types, Cursors, States, StateOf, Batches, WordOf, Copied, Pub, Stored
  <2> QED BY <2>1, FlushKeeps, WriteKeeps, CollectKeeps, CollectCopyKeeps, CollectDoneKeeps,
             LookKeeps, CopyKeeps, DoneKeeps DEF CopyNext, Producer, Consumer
<1> QED BY <1>1, <1>2, PTL DEF CopySpec

\* A copy that a side is done with: the producer's is its own batch, whole, and the consumer's
\* has no word of a later batch, for any order of stores and loads.
THEOREM CopiesOneLap == CopySpec => []OneLap
<1>1. CopyInv => OneLap
  <2> SUFFICES ASSUME CopyInv PROVE OneLap
    OBVIOUS
  <2>1. ASSUME prod = AtStep("empty") PROVE \A i \in Words : local["prod"][i] = head + 1
    <3>1. prod[1] = "empty" /\ prod[2] = {}
      BY <2>1 DEF AtStep
    <3> QED BY <3>1 DEF CopyInv, Copied
  <2>2. ASSUME cons = AtStep("done")
        PROVE  \A i \in Words : /\ local["cons"][i] \in {taken + 1, LapBefore(taken + 1)}
                                /\ i = StateWord => local["cons"][i] = taken + 1
    <3>1. cons[1] = "done" /\ cons[2] = {}
      BY <2>2 DEF AtStep
    <3> QED BY <3>1 DEF CopyInv, Copied
  <2>3. StateWord \in Words
    BY NodeAssumption DEF StateWord, Words
  <2> QED BY <2>1, <2>2, <2>3 DEF OneLap
<1> QED BY <1>1, CopyInvariance, PTL

(***************************************************************************)
(* The connections.                                                         *)
(***************************************************************************)
\* A list is one: nobody points to its head, and no two of it to the same connection.
Chain(nx, h) ==
  /\ \A x \in Between(nx, h, 0) : nx[x] # h
  /\ \A x, y \in Between(nx, h, 0) : nx[x] = nx[y] /\ nx[x] # 0 => x = y

\* What is on the two lists
Live == Walk(lh)
Unused == Walk(fl)
Lists == Chain(next, lh) /\ Chain(next, fl)

\* Where a connection is: the places exclude each other, and there are no others.
Made == {"fill", "use", "push", "push_next", "push_cas"}
Freed == {"push", "push_cas"}
Places ==
  /\ Unused \cap Live = {}
  /\ cpc \in Made => conn \in Connection /\ conn \notin Unused /\ conn \notin Live
  /\ spc \in Freed => c \in Connection /\ c \notin Unused /\ c \notin Live
  /\ cpc \in Made /\ spc \in Freed => conn # c
  /\ \A x \in dropped : /\ x \notin Unused /\ x \notin Live
                        /\ (cpc \in Made => x # conn) /\ (spc \in Freed => x # c)
  /\ \A x \in Connection : \/ x \in Unused \/ x \in Live \/ x \in dropped
                           \/ (cpc \in Made /\ x = conn) \/ (spc \in Freed /\ x = c)

\* What the creator knows.  No other thread takes from the free list: what it has read of its
\* head is true as long as that is the head.
Creator ==
  /\ cpc \in {"alloc_next", "alloc_cas"} => conn \in Unused
  /\ cpc \in {"alloc_cas", "push_cas"} => t = next[conn]
  /\ cpc \in {"use", "push", "push_next", "push_cas"} => filled[conn]
  /\ cpc \in {"push", "push_next", "push_cas"} => used[conn]

\* What the scan knows: its place is live, and its connection is the next, or, at the head,
\* one that may have got others before it.
Scan ==
  /\ p # 0 /\ spc # "head" => p \in Live
  /\ spc \in {"test", "unlink"} => c \in Live /\ (p # 0 => next[p] = c)
  /\ spc = "unlink" => ~used[c]
  /\ spc = "push_cas" => u = next[c]

\* What is on the live list is set up; what is held is in use, and there or cut off.
Fields ==
  /\ \A x \in Live : filled[x]
  /\ \A x \in held : used[x] /\ (x \in Live \/ x \in dropped)

ConnInv == TypeOK /\ Lists /\ Places /\ Creator /\ Scan /\ Fields

-----------------------------------------------------------------------------
(* Lists.                                                                   *)

Links == [Connection -> Pointer]

\* 0 is no connection.
LEMMA Pointers ==
  ASSUME NEW q
  PROVE  /\ q \in Pointer <=> q \in Connection \/ q = 0
         /\ 0 \notin Connection
  BY ConnAssumption DEF Pointer, Connection

\* The walk from h to s has its beginning and its successors.
LEMMA Closed ==
  ASSUME NEW nx \in Links, NEW h \in Pointer, NEW s \in Pointer
  PROVE  /\ Between(nx, h, s) \subseteq Connection
         /\ h \in Between(nx, h, s) \cup {0, s}
         /\ \A x \in Between(nx, h, s) : nx[x] \in Between(nx, h, s) \cup {0, s}
<1> DEFINE Good(S) == {h} \cup {nx[y] : y \in S} \subseteq S \cup {0, s}
<1>1. \A x : x \in Between(nx, h, s) <=> x \in Connection /\ \A S \in SUBSET Connection : Good(S) => x \in S
  BY DEF Between
<1>2. h \in Between(nx, h, s) \cup {0, s}
  <2> SUFFICES ASSUME h \notin {0, s} PROVE h \in Between(nx, h, s)
    OBVIOUS
  <2>1. h \in Connection
    BY Pointers
  <2> QED BY <1>1, <2>1
<1>3. ASSUME NEW x \in Between(nx, h, s) PROVE nx[x] \in Between(nx, h, s) \cup {0, s}
  <2> SUFFICES ASSUME nx[x] \notin {0, s} PROVE nx[x] \in Between(nx, h, s)
    OBVIOUS
  <2>1. x \in Connection /\ \A S \in SUBSET Connection : Good(S) => x \in S
    BY <1>1
  <2>2. nx[x] \in Connection
    BY <2>1, Pointers DEF Links
  <2>3. ASSUME NEW S \in SUBSET Connection, Good(S) PROVE nx[x] \in S
    BY <2>1, <2>3
  <2> QED BY <1>1, <2>2, <2>3
<1> QED BY <1>1, <1>2, <1>3

\* It is the least set that does.
LEMMA Least ==
  ASSUME NEW nx \in Links, NEW h \in Pointer, NEW s \in Pointer, NEW S, S \subseteq Connection,
         h \in S \cup {0, s}, \A y \in S : nx[y] \in S \cup {0, s}
  PROVE  Between(nx, h, s) \subseteq S
<1>1. {h} \cup {nx[y] : y \in S} \subseteq S \cup {0, s}
  OBVIOUS
<1> QED BY <1>1 DEF Between

\* A walk depends only on the links on its way.
LEMMA Agree ==
  ASSUME NEW nx \in Links, NEW my \in Links, NEW h \in Pointer,
         \A x \in Between(nx, h, 0) : my[x] = nx[x]
  PROVE  Between(my, h, 0) = Between(nx, h, 0) /\ (Chain(nx, h) => Chain(my, h))
<1> DEFINE L == Between(nx, h, 0)
           M == Between(my, h, 0)
<1>0. 0 \in Pointer
  BY Pointers
<1>1. L \subseteq Connection /\ h \in L \cup {0} /\ \A x \in L : nx[x] \in L \cup {0}
  BY <1>0, Closed
<1>2. M \subseteq Connection /\ h \in M \cup {0} /\ \A x \in M : my[x] \in M \cup {0}
  BY <1>0, Closed
<1> HIDE DEF L, M
<1>3. M \subseteq L
  <2>1. \A y \in L : my[y] \in L \cup {0, 0}
    BY <1>1 DEF L
  <2>2. h \in L \cup {0, 0}
    BY <1>1
  <2> QED BY <1>0, <1>1, <2>1, <2>2, Least DEF M
<1>4. L \subseteq M
  <2>1. \A y \in M : nx[y] \in M \cup {0, 0}
    BY <1>2, <1>3 DEF L
  <2>2. h \in M \cup {0, 0}
    BY <1>2
  <2> QED BY <1>0, <1>2, <2>1, <2>2, Least DEF L
<1>5. M = L
  BY <1>3, <1>4
<1> QED BY <1>5 DEF L, M, Chain

\* The first one, and what follows it
LEMMA FirstOne ==
  ASSUME NEW nx \in Links, NEW h \in Connection
  PROVE  Between(nx, h, 0) = {h} \cup Between(nx, nx[h], 0) /\ nx[h] \in Pointer
<1> DEFINE L == Between(nx, h, 0)
           R == Between(nx, nx[h], 0)
<1>0. 0 \in Pointer /\ h \in Pointer /\ h # 0 /\ nx[h] \in Pointer
  BY Pointers DEF Links
<1>1. L \subseteq Connection /\ h \in L \cup {0} /\ \A x \in L : nx[x] \in L \cup {0}
  BY <1>0, Closed
<1>2. R \subseteq Connection /\ nx[h] \in R \cup {0} /\ \A x \in R : nx[x] \in R \cup {0}
  BY <1>0, Closed
<1> HIDE DEF L, R
<1>3. L \subseteq {h} \cup R
  <2>1. \A y \in {h} \cup R : nx[y] \in ({h} \cup R) \cup {0, 0}
    BY <1>2
  <2>2. {h} \cup R \subseteq Connection /\ h \in ({h} \cup R) \cup {0, 0}
    BY <1>2
  <2> QED BY <1>0, <2>1, <2>2, Least DEF L
<1>4. h \in L
  BY <1>0, <1>1
<1>5. R \subseteq L
  <2>1. \A y \in L : nx[y] \in L \cup {0, 0}
    BY <1>1
  <2>2. nx[h] \in L \cup {0, 0}
    BY <1>1, <1>4
  <2> QED BY <1>0, <1>1, <2>1, <2>2, Least DEF R
<1> QED BY <1>0, <1>3, <1>4, <1>5 DEF L, R

\* An empty list
LEMMA Nothing ==
  ASSUME NEW nx \in Links
  PROVE  Between(nx, 0, 0) = {} /\ Chain(nx, 0)
<1>1. 0 \in Pointer
  BY Pointers
<1>2. PICK S : S = {}
  OBVIOUS
<1>3. S \subseteq Connection /\ 0 \in S \cup {0, 0} /\ \A y \in S : nx[y] \in S \cup {0, 0}
  BY <1>2
<1>4. Between(nx, 0, 0) \subseteq S
  BY <1>1, <1>3, Least
<1> QED BY <1>2, <1>4 DEF Chain

\* Whoever is on the way but at its beginning has one before it there.
LEMMA Preceded ==
  ASSUME NEW nx \in Links, NEW h \in Pointer, NEW x \in Between(nx, h, 0)
  PROVE  x = h \/ \E y \in Between(nx, h, 0) : nx[y] = x
<1> DEFINE A == Between(nx, h, 0)
           S == {z \in A : z = h \/ \E y \in A : nx[y] = z}
<1>0. 0 \in Pointer
  BY Pointers
<1>1. A \subseteq Connection /\ h \in A \cup {0} /\ \A y \in A : nx[y] \in A \cup {0}
  BY <1>0, Closed
<1>a. x \in A
  OBVIOUS
<1> HIDE DEF A
<1>2. S \subseteq Connection /\ h \in S \cup {0, 0}
  BY <1>1
<1>3. ASSUME NEW y \in S PROVE nx[y] \in S \cup {0, 0}
  BY <1>1
<1>4. A \subseteq S
  <2> HIDE DEF S
  <2> QED BY <1>0, <1>2, <1>3, Least DEF A
<1>5. x \in S
  BY <1>a, <1>4
<1> QED BY <1>5 DEF A

\* A list does not come back to one of its members, and the rest after one is a list.
LEMMA Acyclic ==
  ASSUME NEW nx \in Links, NEW h \in Pointer, Chain(nx, h), NEW e \in Between(nx, h, 0)
  PROVE  /\ e \notin Between(nx, nx[e], 0) /\ Between(nx, nx[e], 0) \subseteq Between(nx, h, 0)
         /\ Chain(nx, nx[e]) /\ e \in Connection /\ nx[e] \in Pointer
<1> DEFINE L == Between(nx, h, 0)
           A == Between(nx, nx[e], 0)
<1>0. 0 \in Pointer
  BY Pointers
<1>1. L \subseteq Connection /\ h \in L \cup {0} /\ \A x \in L : nx[x] \in L \cup {0}
  BY <1>0, Closed
<1>a. e \in Connection /\ nx[e] \in Pointer
  BY <1>1 DEF Links
<1>2. A \subseteq Connection /\ nx[e] \in A \cup {0} /\ \A x \in A : nx[x] \in A \cup {0}
  BY <1>0, <1>a, Closed
<1>b. /\ \A x \in L : nx[x] # h
      /\ \A x, y \in L : nx[x] = nx[y] /\ nx[x] # 0 => x = y
  BY DEF Chain
<1>c. e \in L
  OBVIOUS
<1> HIDE DEF L, A
<1>3. A \subseteq L
  <2>1. \A y \in L : nx[y] \in L \cup {0, 0}
    BY <1>1
  <2>2. nx[e] \in L \cup {0, 0}
    BY <1>1, <1>c
  <2> QED BY <1>0, <1>1, <1>a, <2>1, <2>2, Least DEF A
<1>4. \A x \in A : x = nx[e] \/ \E y \in A : nx[y] = x
  BY <1>a, Preceded DEF A
<1>5. e \notin A
  <2> SUFFICES ASSUME e \in A PROVE FALSE
    OBVIOUS
  <2>1. \A x \in A : \E y \in A : nx[y] = x
    BY <1>4
  <2>2. h \notin A
    BY <1>3, <1>b, <2>1
  <2> DEFINE S == L \ A
  <2>3. ASSUME NEW y \in S PROVE nx[y] \in S \cup {0, 0}
    <3> SUFFICES ASSUME nx[y] \in A PROVE nx[y] = 0
      BY <1>1
    <3>1. PICK z \in A : nx[z] = nx[y]
      BY <2>1
    <3> QED BY <1>3, <1>b, <3>1
  <2>4. S \subseteq Connection /\ h \in S \cup {0, 0}
    BY <1>1, <2>2
  <2>5. L \subseteq S
    <3> HIDE DEF S
    <3> QED BY <1>0, <2>3, <2>4, Least DEF L
  <2> QED BY <1>c, <2>5
<1>6. Chain(nx, nx[e])
  <2>1. \A x, y \in A : nx[x] = nx[y] /\ nx[x] # 0 => x = y
    BY <1>3, <1>b
  <2>2. ASSUME NEW x \in A, nx[x] = nx[e] PROVE FALSE
    <3>1. CASE nx[e] = 0
      <4>1. A = {}
        BY <3>1, Nothing DEF A
      <4> QED BY <4>1
    <3>2. CASE nx[e] # 0
      <4>1. x = e
        BY <1>3, <1>b, <1>c, <2>2, <3>2
      <4> QED BY <1>5, <4>1
    <3> QED BY <3>1, <3>2
  <2> QED BY <2>1, <2>2 DEF Chain, A
<1> QED BY <1>3, <1>5, <1>6, <1>a DEF L, A

\* A connection put before the head
LEMMA Pushed ==
  ASSUME NEW nx \in Links, NEW h \in Pointer, Chain(nx, h), NEW e \in Connection,
         e \notin Between(nx, h, 0), nx[e] = h
  PROVE  Between(nx, e, 0) = {e} \cup Between(nx, h, 0) /\ Chain(nx, e)
<1> DEFINE L == Between(nx, h, 0)
           M == Between(nx, e, 0)
<1>0. 0 \in Pointer /\ e # 0
  BY Pointers
<1>1. M = {e} \cup L
  BY FirstOne
<1>2. L \subseteq Connection /\ h \in L \cup {0} /\ \A x \in L : nx[x] \in L \cup {0}
  BY <1>0, Closed
<1>3. /\ \A x \in L : nx[x] # h
      /\ \A x, y \in L : nx[x] = nx[y] /\ nx[x] # 0 => x = y
  BY DEF Chain
<1>4. e \notin L
  OBVIOUS
<1> HIDE DEF L, M
<1>5. \A x \in M : nx[x] # e
  BY <1>0, <1>1, <1>2, <1>4
<1>6. \A x, y \in M : nx[x] = nx[y] /\ nx[x] # 0 => x = y
  BY <1>1, <1>3
<1> QED BY <1>1, <1>5, <1>6 DEF Chain, L, M

\* The link of a connection that is on no way may change.
LEMMA Elsewhere ==
  ASSUME NEW nx \in Links, NEW h \in Pointer, NEW e \in Connection, NEW q \in Pointer,
         e \notin Between(nx, h, 0)
  PROVE  /\ [nx EXCEPT ![e] = q] \in Links
         /\ Between([nx EXCEPT ![e] = q], h, 0) = Between(nx, h, 0)
         /\ Chain(nx, h) => Chain([nx EXCEPT ![e] = q], h)
<1> DEFINE my == [nx EXCEPT ![e] = q]
<1>1. my \in Links /\ \A x \in Connection : x # e => my[x] = nx[x]
  BY DEF Links
<1>2. Between(nx, h, 0) \subseteq Connection
  BY Pointers, Closed
<1>3. \A x \in Between(nx, h, 0) : my[x] = nx[x]
  BY <1>1, <1>2
<1> HIDE DEF my
<1>4. Between(my, h, 0) = Between(nx, h, 0) /\ (Chain(nx, h) => Chain(my, h))
  BY <1>1, <1>3, Agree
<1> QED BY <1>1, <1>4 DEF my

\* A connection taken out of the middle
LEMMA Unlinked ==
  ASSUME NEW nx \in Links, NEW h \in Pointer, Chain(nx, h),
         NEW q \in Between(nx, h, 0), NEW e \in Between(nx, h, 0), nx[q] = e,
         NEW my \in Links, my[q] = nx[e], \A x \in Connection : x # q => my[x] = nx[x]
  PROVE  Between(my, h, 0) = Between(nx, h, 0) \ {e} /\ Chain(my, h)
<1> DEFINE L == Between(nx, h, 0)
           M == Between(my, h, 0)
<1>0. 0 \in Pointer
  BY Pointers
<1>1. L \subseteq Connection /\ h \in L \cup {0} /\ \A x \in L : nx[x] \in L \cup {0}
  BY <1>0, Closed
<1>2. /\ \A x \in L : nx[x] # h
      /\ \A x, y \in L : nx[x] = nx[y] /\ nx[x] # 0 => x = y
  BY DEF Chain
<1>3. q \in L /\ e \in L /\ q \in Connection /\ e \in Connection /\ e # 0
  BY <1>1, Pointers
<1>4. nx[e] # e
  <2>1. e \notin Between(nx, nx[e], 0) /\ nx[e] \in Pointer
    BY Acyclic
  <2>2. nx[e] \in Between(nx, nx[e], 0) \cup {0, 0}
    BY <1>0, <2>1, Closed
  <2> QED BY <1>3, <2>1, <2>2
<1>5. my \in Links /\ my[q] = nx[e] /\ \A x \in Connection : x # q => my[x] = nx[x]
  OBVIOUS
<1>6. M \subseteq Connection /\ h \in M \cup {0} /\ \A x \in M : my[x] \in M \cup {0}
  BY <1>0, Closed
<1>7. h # e /\ q # e
  BY <1>2, <1>3, <1>4
<1> HIDE DEF L, M
<1>8. M \subseteq L \ {e}
  <2> DEFINE S == L \ {e}
  <2>1. ASSUME NEW y \in S PROVE my[y] \in S \cup {0, 0}
    <3>1. CASE y = q
      BY <1>1, <1>3, <1>4, <1>5, <3>1
    <3>2. CASE y # q
      <4>1. my[y] = nx[y] /\ nx[y] \in L \cup {0}
        BY <1>1, <1>5, <3>2
      <4>2. nx[y] # e
        BY <1>2, <1>3, <3>2
      <4> QED BY <4>1, <4>2
    <3> QED BY <3>1, <3>2
  <2>2. S \subseteq Connection /\ h \in S \cup {0, 0}
    BY <1>1, <1>7
  <2>3. M \subseteq S
    <3> HIDE DEF S
    <3> QED BY <1>0, <1>5, <2>1, <2>2, Least DEF M
  <2> QED BY <2>3
<1>9. L \subseteq M \cup {e}
  <2> DEFINE S == M \cup {e}
  <2>1. ASSUME NEW y \in S PROVE nx[y] \in S \cup {0, 0}
    <3>0. CASE y = q
      BY <1>3, <3>0
    <3>1. CASE y = e
      <4>1. CASE q \in M
        BY <1>5, <1>6, <3>1, <4>1
      <4>2. CASE q \notin M
        <5>1. \A z \in M : nx[z] \in M \cup {0, 0}
          BY <1>5, <1>6, <4>2
        <5>2. h \in M \cup {0, 0}
          BY <1>6
        <5>3. L \subseteq M
          BY <1>0, <1>6, <5>1, <5>2, Least DEF L
        <5> QED BY <1>3, <4>2, <5>3
      <4> QED BY <4>1, <4>2
    <3>2. CASE y \in M /\ y # q
      BY <1>5, <1>6, <3>2
    <3> QED BY <3>0, <3>1, <3>2
  <2>2. S \subseteq Connection /\ h \in S \cup {0, 0}
    BY <1>3, <1>6
  <2>3. L \subseteq S
    <3> HIDE DEF S
    <3> QED BY <1>0, <2>1, <2>2, Least DEF L
  <2> QED BY <2>3
<1>10. M = L \ {e}
  BY <1>8, <1>9
<1>11. \A x \in M : my[x] # h
  BY <1>2, <1>3, <1>5, <1>6, <1>10
<1>12. \A x, y \in M : my[x] = my[y] /\ my[x] # 0 => x = y
  BY <1>2, <1>3, <1>5, <1>6, <1>10
<1> QED BY <1>5, <1>10, <1>11, <1>12 DEF Chain, L, M

\* Every member of a list is before e, or e, or after it.
LEMMA Split ==
  ASSUME NEW nx \in Links, NEW h \in Pointer, NEW e \in Connection
  PROVE  Between(nx, h, 0) \subseteq Between(nx, h, e) \cup {e} \cup Between(nx, nx[e], 0)
<1> DEFINE B == Between(nx, h, e)
           R == Between(nx, nx[e], 0)
           S == B \cup {e} \cup R
<1>0. 0 \in Pointer /\ e \in Pointer /\ nx[e] \in Pointer
  BY Pointers DEF Links
<1>1. B \subseteq Connection /\ h \in B \cup {0, e} /\ \A x \in B : nx[x] \in B \cup {0, e}
  BY <1>0, Closed
<1>2. R \subseteq Connection /\ nx[e] \in R \cup {0} /\ \A x \in R : nx[x] \in R \cup {0}
  BY <1>0, Closed
<1> HIDE DEF B, R
<1>3. S \subseteq Connection /\ h \in S \cup {0, 0} /\ \A y \in S : nx[y] \in S \cup {0, 0}
  BY <1>1, <1>2
<1> HIDE DEF S
<1>4. Between(nx, h, 0) \subseteq S
  BY <1>0, <1>3, Least
<1> QED BY <1>4 DEF S, B, R

\* They are one of these only.
LEMMA Apart ==
  ASSUME NEW nx \in Links, NEW h \in Pointer, Chain(nx, h), NEW e \in Between(nx, h, 0)
  PROVE  /\ Between(nx, h, e) \subseteq Between(nx, h, 0)
         /\ e \notin Between(nx, h, e)
         /\ Between(nx, h, e) \cap Between(nx, nx[e], 0) = {}
<1> DEFINE L == Between(nx, h, 0)
           B == Between(nx, h, e)
           R == Between(nx, nx[e], 0)
           S == {y \in L : y # e /\ y \notin R}
<1>0. 0 \in Pointer
  BY Pointers
<1>1. L \subseteq Connection /\ h \in L \cup {0} /\ \A x \in L : nx[x] \in L \cup {0}
  BY <1>0, Closed
<1>2. e \in L /\ e \in Connection /\ e \in Pointer /\ nx[e] \in Pointer
  BY <1>1, Pointers DEF Links
<1>3. /\ \A x \in L : nx[x] # h
      /\ \A x, y \in L : nx[x] = nx[y] /\ nx[x] # 0 => x = y
  BY DEF Chain
<1>4. R \subseteq Connection /\ nx[e] \in R \cup {0} /\ \A x \in R : nx[x] \in R \cup {0}
  BY <1>0, <1>2, Closed
<1>5. e \notin R /\ R \subseteq L
  BY Acyclic
<1>6. ASSUME NEW x \in R PROVE x # 0 /\ (x = nx[e] \/ \E y \in R : nx[y] = x)
  <2>1. x # 0
    BY <1>4, Pointers
  <2>2. x = nx[e] \/ \E y \in R : nx[y] = x
    BY <1>2, Preceded
  <2> QED BY <2>1, <2>2
<1> HIDE DEF L, B, R
<1>7. h \notin R
  BY <1>2, <1>3, <1>5, <1>6
<1>8. ASSUME NEW y \in S PROVE nx[y] \in S \cup {0, e}
  <2>1. y \in L /\ y # e /\ y \notin R /\ nx[y] \in L \cup {0}
    BY <1>1
  <2>2. nx[y] \notin R
    <3> SUFFICES ASSUME nx[y] \in R PROVE FALSE
      OBVIOUS
    <3>1. nx[y] # 0 /\ (nx[y] = nx[e] \/ \E z \in R : nx[z] = nx[y])
      BY <1>6
    <3> QED BY <1>2, <1>3, <1>5, <2>1, <3>1
  <2> QED BY <2>1, <2>2
<1>9. S \subseteq Connection /\ h \in S \cup {0, e}
  BY <1>1, <1>7
<1>10. B \subseteq S
  <2> HIDE DEF S
  <2> QED BY <1>2, <1>8, <1>9, Least DEF B
<1> QED BY <1>10 DEF B, L, R

-----------------------------------------------------------------------------
(* Steps.                                                                   *)

Pcs == {"idle", "alloc", "alloc_next", "alloc_cas", "fill", "use", "push", "push_next", "push_cas"}
Spcs == {"head", "test", "unlink", "push", "push_cas", "next"}

\* The types, one by one.
Sorted ==
  /\ lh \in Pointer /\ fl \in Pointer /\ conn \in Pointer /\ t \in Pointer
  /\ p \in Pointer /\ c \in Pointer /\ u \in Pointer
  /\ next \in Links /\ used \in [Connection -> BOOLEAN] /\ filled \in [Connection -> BOOLEAN]
  /\ held \subseteq Connection /\ dropped \subseteq Connection /\ cpc \in Pcs /\ spc \in Spcs
LEMMA Sorts ==
  TypeOK <=> Sorted
  BY DEF TypeOK, Sorted, Pcs, Spcs, Links

\* What is on the lists are connections, with those that follow them.
LEMMA Members ==
  ASSUME ConnInv
  PROVE  /\ Sorted /\ Lists /\ Places /\ Creator /\ Scan /\ Fields
         /\ Live \subseteq Connection /\ Unused \subseteq Connection
         /\ lh \in Live \cup {0} /\ fl \in Unused \cup {0}
         /\ \A x \in Live : next[x] \in Live \cup {0}
         /\ \A x \in Unused : next[x] \in Unused \cup {0}
         /\ 0 \notin Connection /\ 0 \in Pointer /\ Connection \subseteq Pointer
<1>1. Sorted /\ Lists /\ Places /\ Creator /\ Scan /\ Fields
  BY Sorts DEF ConnInv
<1>2. next \in Links /\ lh \in Pointer /\ fl \in Pointer /\ 0 \in Pointer
  BY <1>1, Pointers DEF Sorted
<1>3. Live = Between(next, lh, 0) /\ Unused = Between(next, fl, 0)
  BY DEF Live, Unused, Walk
<1>4. Live \subseteq Connection /\ lh \in Live \cup {0, 0} /\ \A x \in Live : next[x] \in Live \cup {0, 0}
  BY <1>2, <1>3, Closed
<1>5. Unused \subseteq Connection /\ fl \in Unused \cup {0, 0} /\ \A x \in Unused : next[x] \in Unused \cup {0, 0}
  BY <1>2, <1>3, Closed
<1> QED BY <1>1, <1>2, <1>4, <1>5, Pointers

\* Lists that no step touches
LEMMA SameLists ==
  ASSUME Lists, UNCHANGED <<next, lh, fl>>
  PROVE  Live' = Live /\ Unused' = Unused /\ Lists'
  BY DEF Lists, Live, Unused, Walk

\* The pieces make the invariant.
LEMMA Pieces ==
  ASSUME Sorted', Lists', Places', Creator', Scan', Fields'
  PROVE  ConnInv'
  BY DEF ConnInv, Sorted, TypeOK, Pcs, Spcs, Links

\* mca_conn_alloc reads the head of the free list,
LEMMA AllocLoad ==
  ASSUME ConnInv, alloc_load
  PROVE  ConnInv'
<1>1. /\ cpc \in {"idle", "alloc"} /\ fl # 0 /\ conn' = fl /\ cpc' = "alloc_next"
      /\ UNCHANGED <<lh, fl, next, used, filled, held, t, spc, p, c, u, dropped>>
  BY DEF alloc_load, scan
<1>2. /\ Sorted /\ Lists /\ Places /\ Creator /\ Scan /\ Fields /\ fl \in Unused
  BY <1>1, Members
<1>3. Live' = Live /\ Unused' = Unused /\ Lists'
  BY <1>1, <1>2, SameLists
<1>4. Sorted'
  BY <1>1, <1>2 DEF Sorted, Pcs
<1>5. Places' /\ Fields'
  BY <1>1, <1>2, <1>3 DEF Places, Fields, Made
<1>6. Creator' /\ Scan'
  BY <1>1, <1>2, <1>3 DEF Creator, Scan
<1> QED BY <1>3, <1>4, <1>5, <1>6, Pieces

\* its link,
LEMMA AllocNext ==
  ASSUME ConnInv, alloc_next
  PROVE  ConnInv'
<1>1. /\ cpc = "alloc_next" /\ t' = next[conn] /\ cpc' = "alloc_cas"
      /\ UNCHANGED <<lh, fl, next, used, filled, held, conn, spc, p, c, u, dropped>>
  BY DEF alloc_next, scan
<1>2. Sorted /\ Lists /\ Places /\ Creator /\ Scan /\ Fields /\ conn \in Unused /\ Unused \subseteq Connection
  BY <1>1, Members DEF Creator
<1>3. Live' = Live /\ Unused' = Unused /\ Lists'
  BY <1>1, <1>2, SameLists
<1>4. Sorted'
  BY <1>1, <1>2 DEF Sorted, Pcs, Links
<1>5. Places' /\ Fields'
  BY <1>1, <1>2, <1>3 DEF Places, Fields, Made
<1>6. Creator' /\ Scan'
  BY <1>1, <1>2, <1>3 DEF Creator, Scan
<1> QED BY <1>3, <1>4, <1>5, <1>6, Pieces

\* and takes it, if it still is the head: then its link is still what was read.
LEMMA AllocCas ==
  ASSUME ConnInv, alloc_cas
  PROVE  ConnInv'
<1>1. cpc = "alloc_cas" /\ UNCHANGED <<lh, next, used, held, conn, t, spc, p, c, u, dropped>>
  BY DEF alloc_cas, scan
<1>2. /\ Sorted /\ Lists /\ Places /\ Creator /\ Scan /\ Fields
      /\ conn \in Unused /\ t = next[conn] /\ Unused \subseteq Connection /\ Live \subseteq Connection
  BY <1>1, Members DEF Creator
<1>3. CASE fl = conn
  <2>1. fl' = t /\ cpc' = "fill" /\ filled' = [filled EXCEPT ![conn] = FALSE]
    BY <1>3 DEF alloc_cas
  <2>2. next \in Links /\ fl \in Pointer /\ fl \in Connection /\ conn \in Between(next, fl, 0) /\ Chain(next, fl)
    BY <1>2, <1>3 DEF Sorted, Unused, Walk, Lists
  <2>3. conn \notin Between(next, next[conn], 0) /\ Chain(next, next[conn]) /\ next[conn] \in Pointer
    BY <2>2, Acyclic
  <2>4. Between(next, fl, 0) = {fl} \cup Between(next, next[fl], 0)
    BY <2>2, FirstOne
  <2>5. Unused' = Between(next, next[conn], 0) /\ Live' = Live /\ Lists'
    BY <1>1, <1>2, <2>1, <2>3 DEF Unused, Live, Walk, Lists
  <2>6. Unused' = Unused \ {conn} /\ conn \in Connection
    BY <1>2, <1>3, <2>3, <2>4, <2>5 DEF Unused, Walk
  <2>7. filled' \in [Connection -> BOOLEAN] /\ \A x \in Connection : x # conn => filled'[x] = filled[x]
    BY <1>2, <2>1, <2>6 DEF Sorted
  <2>8. Sorted'
    BY <1>1, <1>2, <2>1, <2>3, <2>7 DEF Sorted, Pcs
  <2>9. conn \notin Live
    BY <1>2 DEF Places
  <2>10. Places'
    BY <1>1, <1>2, <2>1, <2>5, <2>6, <2>9 DEF Places, Made, Scan, Freed
  <2>11. Fields'
    BY <1>1, <1>2, <2>5, <2>7, <2>9 DEF Fields
  <2>12. Creator' /\ Scan'
    BY <1>1, <1>2, <2>1, <2>5 DEF Creator, Scan
  <2> QED BY <2>5, <2>8, <2>10, <2>11, <2>12, Pieces
<1>4. CASE fl # conn
  <2>1. cpc' = "alloc" /\ fl' = fl /\ filled' = filled
    BY <1>4 DEF alloc_cas
  <2>2. Live' = Live /\ Unused' = Unused /\ Lists'
    BY <1>1, <1>2, <2>1, SameLists
  <2>3. Sorted'
    BY <1>1, <1>2, <2>1 DEF Sorted, Pcs
  <2>4. Places' /\ Fields'
    BY <1>1, <1>2, <2>1, <2>2 DEF Places, Fields, Made
  <2>5. Creator' /\ Scan'
    BY <1>1, <1>2, <2>1, <2>2 DEF Creator, Scan
  <2> QED BY <2>2, <2>3, <2>4, <2>5, Pieces
<1> QED BY <1>3, <1>4

\* The creator sets up what it has taken,
LEMMA Fill ==
  ASSUME ConnInv, fill
  PROVE  ConnInv'
<1>1. /\ cpc = "fill" /\ filled' = [filled EXCEPT ![conn] = TRUE] /\ cpc' = "use"
      /\ UNCHANGED <<lh, fl, next, used, held, conn, t, spc, p, c, u, dropped>>
  BY DEF fill, scan
<1>2. Sorted /\ Lists /\ Places /\ Creator /\ Scan /\ Fields /\ Live \subseteq Connection
  BY Members
<1>3. conn \in Connection
  BY <1>1, <1>2 DEF Places, Made
<1>4. Live' = Live /\ Unused' = Unused /\ Lists'
  BY <1>1, <1>2, SameLists
<1>5. /\ filled' \in [Connection -> BOOLEAN] /\ filled'[conn]
      /\ \A x \in Connection : filled[x] => filled'[x]
  BY <1>1, <1>2, <1>3 DEF Sorted
<1>6. Sorted'
  BY <1>1, <1>2, <1>5 DEF Sorted, Pcs
<1>7. Places' /\ Fields'
  BY <1>1, <1>2, <1>4, <1>5 DEF Places, Fields, Made
<1>8. Creator' /\ Scan'
  BY <1>1, <1>2, <1>4, <1>5 DEF Creator, Scan
<1> QED BY <1>4, <1>6, <1>7, <1>8, Pieces

\* marks it,
LEMMA Use ==
  ASSUME ConnInv, use
  PROVE  ConnInv'
<1>1. /\ cpc = "use" /\ used' = [used EXCEPT ![conn] = TRUE] /\ cpc' = "push"
      /\ UNCHANGED <<lh, fl, next, filled, held, conn, t, spc, p, c, u, dropped>>
  BY DEF use, scan
<1>2. Sorted /\ Lists /\ Places /\ Creator /\ Scan /\ Fields /\ Live \subseteq Connection
  BY Members
<1>3. conn \in Connection /\ conn \notin Live
  BY <1>1, <1>2 DEF Places, Made
<1>4. Live' = Live /\ Unused' = Unused /\ Lists'
  BY <1>1, <1>2, SameLists
<1>5. /\ used' \in [Connection -> BOOLEAN] /\ used'[conn] /\ \A x \in Connection : used[x] => used'[x]
      /\ \A x \in Live : used'[x] = used[x]
  BY <1>1, <1>2, <1>3 DEF Sorted
<1>6. Sorted' /\ held \subseteq Connection
  BY <1>1, <1>2, <1>5 DEF Sorted, Pcs
<1>7. Places' /\ Fields'
  BY <1>1, <1>2, <1>4, <1>5, <1>6 DEF Places, Fields, Made
<1>8. Creator' /\ Scan'
  BY <1>1, <1>2, <1>4, <1>5 DEF Creator, Scan
<1> QED BY <1>4, <1>6, <1>7, <1>8, Pieces

\* reads the head of the live list,
LEMMA PushLoad ==
  ASSUME ConnInv, push_load
  PROVE  ConnInv'
<1>1. /\ cpc = "push" /\ t' = lh /\ cpc' = "push_next"
      /\ UNCHANGED <<lh, fl, next, used, filled, held, conn, spc, p, c, u, dropped>>
  BY DEF push_load, scan
<1>2. Sorted /\ Lists /\ Places /\ Creator /\ Scan /\ Fields
  BY Members
<1>3. Live' = Live /\ Unused' = Unused /\ Lists'
  BY <1>1, <1>2, SameLists
<1>4. Sorted'
  BY <1>1, <1>2 DEF Sorted, Pcs
<1>5. Places' /\ Fields'
  BY <1>1, <1>2, <1>3 DEF Places, Fields, Made
<1>6. Creator' /\ Scan'
  BY <1>1, <1>2, <1>3 DEF Creator, Scan
<1> QED BY <1>3, <1>4, <1>5, <1>6, Pieces

\* links its connection to it,
LEMMA PushNext ==
  ASSUME ConnInv, push_next
  PROVE  ConnInv'
<1>1. /\ cpc = "push_next" /\ next' = [next EXCEPT ![conn] = t] /\ cpc' = "push_cas"
      /\ UNCHANGED <<lh, fl, used, filled, held, conn, t, spc, p, c, u, dropped>>
  BY DEF push_next, scan
<1>2. /\ Sorted /\ Lists /\ Places /\ Creator /\ Scan /\ Fields
      /\ Live \subseteq Connection /\ Unused \subseteq Connection
  BY Members
<1>3. conn \in Connection /\ conn \notin Live /\ conn \notin Unused
  BY <1>1, <1>2 DEF Places, Made
<1>4. next \in Links /\ lh \in Pointer /\ fl \in Pointer /\ t \in Pointer
  BY <1>2 DEF Sorted
<1>5. /\ next' \in Links /\ Between(next', lh, 0) = Between(next, lh, 0)
      /\ Chain(next, lh) => Chain(next', lh)
  BY <1>1, <1>3, <1>4, Elsewhere DEF Live, Walk
<1>6. /\ Between(next', fl, 0) = Between(next, fl, 0)
      /\ Chain(next, fl) => Chain(next', fl)
  BY <1>1, <1>3, <1>4, Elsewhere DEF Unused, Walk
<1>7. Live' = Live /\ Unused' = Unused /\ Lists'
  BY <1>1, <1>2, <1>5, <1>6 DEF Live, Unused, Walk, Lists
<1>8. next'[conn] = t /\ \A x \in Connection : x # conn => next'[x] = next[x]
  BY <1>1, <1>3, <1>4 DEF Links
<1>9. Sorted'
  BY <1>1, <1>2, <1>5 DEF Sorted, Pcs
<1>10. Places' /\ Fields'
  BY <1>1, <1>2, <1>7 DEF Places, Fields, Made
<1>11. Creator'
  BY <1>1, <1>2, <1>7, <1>8 DEF Creator
<1>12. Scan'
  <2>1. p \in Live => next'[p] = next[p]
    BY <1>2, <1>3, <1>8
  <2>2. spc = "push_cas" => next'[c] = next[c]
    BY <1>1, <1>2, <1>8 DEF Places, Made, Freed
  <2>3. spc \in {"test", "unlink"} => spc # "head"
    OBVIOUS
  <2> QED BY <1>1, <1>2, <1>7, <2>1, <2>2, <2>3 DEF Scan
<1> QED BY <1>7, <1>9, <1>10, <1>11, <1>12, Pieces

\* and makes it the head, if the link is still right.
LEMMA PushCas ==
  ASSUME ConnInv, push_cas
  PROVE  ConnInv'
<1>1. cpc = "push_cas" /\ UNCHANGED <<fl, next, used, filled, conn, t, spc, p, c, u, dropped>>
  BY DEF push_cas, scan
<1>2. /\ Sorted /\ Lists /\ Places /\ Creator /\ Scan /\ Fields
      /\ Live \subseteq Connection /\ Unused \subseteq Connection
  BY Members
<1>3. conn \in Connection /\ conn \notin Live /\ conn \notin Unused /\ t = next[conn] /\ filled[conn] /\ used[conn]
  BY <1>1, <1>2 DEF Places, Made, Creator
<1>4. CASE lh = t
  <2>1. lh' = conn /\ held' = held \cup {conn} /\ cpc' = "idle"
    BY <1>4 DEF push_cas
  <2>2. next \in Links /\ lh \in Pointer /\ next[conn] = lh /\ Chain(next, lh) /\ conn \notin Between(next, lh, 0)
    BY <1>2, <1>3, <1>4 DEF Sorted, Lists, Live, Walk
  <2>3. Between(next, conn, 0) = {conn} \cup Between(next, lh, 0) /\ Chain(next, conn)
    BY <1>3, <2>2, Pushed
  <2>4. Live' = {conn} \cup Live /\ Unused' = Unused /\ Lists'
    BY <1>1, <1>2, <2>1, <2>3 DEF Live, Unused, Walk, Lists
  <2>5. conn \in Pointer
    BY <1>2 DEF Sorted
  <2>6. Sorted'
    BY <1>1, <1>2, <1>3, <2>1, <2>5 DEF Sorted, Pcs
  <2>7. Places'
    BY <1>1, <1>2, <1>3, <2>1, <2>4 DEF Places, Made
  <2>8. Fields'
    BY <1>1, <1>2, <1>3, <2>1, <2>4 DEF Fields
  <2>9. Creator' /\ Scan'
    BY <1>1, <1>2, <2>1, <2>4 DEF Creator, Scan
  <2> QED BY <2>4, <2>6, <2>7, <2>8, <2>9, Pieces
<1>5. CASE lh # t
  <2>1. cpc' = "push" /\ lh' = lh /\ held' = held
    BY <1>5 DEF push_cas
  <2>2. Live' = Live /\ Unused' = Unused /\ Lists'
    BY <1>1, <1>2, <2>1, SameLists
  <2>3. Sorted'
    BY <1>1, <1>2, <2>1 DEF Sorted, Pcs
  <2>4. Places' /\ Fields'
    BY <1>1, <1>2, <2>1, <2>2 DEF Places, Fields, Made
  <2>5. Creator' /\ Scan'
    BY <1>1, <1>2, <2>1, <2>2 DEF Creator, Scan
  <2> QED BY <2>2, <2>3, <2>4, <2>5, Pieces
<1> QED BY <1>4, <1>5

\* Whoever holds a connection gives it up by its flag alone.
LEMMA ConnFree ==
  ASSUME ConnInv, NEW x \in Connection, mca_conn_free(x)
  PROVE  ConnInv'
<1>1. /\ x \in held /\ used' = [used EXCEPT ![x] = FALSE] /\ held' = held \ {x}
      /\ UNCHANGED <<lh, fl, next, filled, cpc, conn, t, spc, p, c, u, dropped>>
  BY DEF mca_conn_free, creator, scan
<1>2. Sorted /\ Lists /\ Places /\ Creator /\ Scan /\ Fields /\ Live \subseteq Connection
  BY Members
<1>3. Live' = Live /\ Unused' = Unused /\ Lists'
  BY <1>1, <1>2, SameLists
<1>4. /\ used' \in [Connection -> BOOLEAN] /\ ~used'[x]
      /\ \A y \in Connection : y # x => used'[y] = used[y]
  BY <1>1, <1>2 DEF Sorted
<1>5. Sorted' /\ held \subseteq Connection
  BY <1>1, <1>2, <1>4 DEF Sorted
<1>6. cpc \in Made => conn # x /\ conn \in Connection
  BY <1>1, <1>2 DEF Places, Fields
<1>7. Places' /\ Fields'
  BY <1>1, <1>2, <1>3, <1>4, <1>5 DEF Places, Fields
<1>8. Creator'
  BY <1>1, <1>2, <1>3, <1>4, <1>6 DEF Creator, Made
<1>9. Scan'
  <2>1. spc = "unlink" => ~used'[c]
    BY <1>1, <1>2, <1>4 DEF Scan
  <2> QED BY <1>1, <1>2, <1>3, <2>1 DEF Scan
<1> QED BY <1>3, <1>5, <1>7, <1>8, <1>9, Pieces

\* A scan begins at the head,
LEMMA ScanHead ==
  ASSUME ConnInv, scan_head
  PROVE  ConnInv'
<1>1. /\ spc = "head" /\ p' = 0 /\ c' = lh /\ spc' = IF lh = 0 THEN "head" ELSE "test"
      /\ UNCHANGED <<lh, fl, next, used, filled, held, cpc, conn, t, u, dropped>>
  BY DEF scan_head, creator
<1>2. Sorted /\ Lists /\ Places /\ Creator /\ Scan /\ Fields /\ lh \in Live \cup {0} /\ 0 \in Pointer
  BY Members
<1>3. Live' = Live /\ Unused' = Unused /\ Lists'
  BY <1>1, <1>2, SameLists
<1>4. Sorted'
  BY <1>1, <1>2 DEF Sorted, Spcs
<1>5. Places' /\ Fields'
  BY <1>1, <1>2, <1>3 DEF Places, Fields, Freed
<1>6. Creator' /\ Scan'
  BY <1>1, <1>2, <1>3 DEF Creator, Scan
<1> QED BY <1>3, <1>4, <1>5, <1>6, Pieces

\* tests the flag of its connection,
LEMMA ScanTest ==
  ASSUME ConnInv, scan_test
  PROVE  ConnInv'
<1>1. /\ spc = "test" /\ UNCHANGED <<lh, fl, next, used, filled, held, cpc, conn, t, c, u, dropped>>
      /\ \/ used[c] /\ p' = c /\ spc' = "next"
         \/ ~used[c] /\ p' = p /\ spc' = "unlink"
  BY DEF scan_test, creator
<1>2. Sorted /\ Lists /\ Places /\ Creator /\ Scan /\ Fields
  BY Members
<1>3. Live' = Live /\ Unused' = Unused /\ Lists'
  BY <1>1, <1>2, SameLists
<1>4. Sorted'
  BY <1>1, <1>2 DEF Sorted, Spcs
<1>5. Places' /\ Fields'
  BY <1>1, <1>2, <1>3 DEF Places, Fields, Freed
<1>6. Creator'
  BY <1>1, <1>2, <1>3 DEF Creator
<1>7. Scan'
  BY <1>1, <1>2, <1>3 DEF Scan
<1> QED BY <1>3, <1>4, <1>5, <1>6, <1>7, Pieces

\* goes on to the next,
LEMMA ScanNext ==
  ASSUME ConnInv, scan_next
  PROVE  ConnInv'
<1>1. /\ spc = "next" /\ c' = At(p) /\ spc' = IF At(p) = 0 THEN "head" ELSE "test"
      /\ UNCHANGED <<lh, fl, next, used, filled, held, cpc, conn, t, p, u, dropped>>
  BY DEF scan_next, creator
<1>2. /\ Sorted /\ Lists /\ Places /\ Creator /\ Scan /\ Fields
      /\ lh \in Live \cup {0} /\ 0 \in Pointer /\ Live \subseteq Connection /\ Connection \subseteq Pointer
      /\ \A x \in Live : next[x] \in Live \cup {0}
  BY Members
<1>3. Live' = Live /\ Unused' = Unused /\ Lists'
  BY <1>1, <1>2, SameLists
<1>4. At(p) \in Live \cup {0} /\ (p # 0 => next[p] = At(p))
  BY <1>1, <1>2 DEF At, Scan
<1>5. Sorted'
  BY <1>1, <1>2, <1>4 DEF Sorted, Spcs
<1>6. Places' /\ Fields'
  BY <1>1, <1>2, <1>3 DEF Places, Fields, Freed
<1>7. Creator'
  BY <1>1, <1>2, <1>3 DEF Creator
<1>8. Scan'
  BY <1>1, <1>2, <1>3, <1>4 DEF Scan
<1> QED BY <1>3, <1>5, <1>6, <1>7, <1>8, Pieces

\* or takes out one that was given up: at the head it cuts off those that came before it.
LEMMA ScanUnlink ==
  ASSUME ConnInv, scan_unlink
  PROVE  ConnInv'
<1>1. spc = "unlink" /\ spc' = "push" /\ UNCHANGED <<fl, used, filled, held, cpc, conn, t, p, c, u>>
  BY DEF scan_unlink, creator
<1>2. /\ Sorted /\ Lists /\ Places /\ Creator /\ Scan /\ Fields /\ Live \subseteq Connection /\ Unused \subseteq Connection
      /\ 0 \notin Connection
  BY Members
<1>3. c \in Live /\ c \in Connection /\ ~used[c] /\ (p # 0 => p \in Live /\ next[p] = c) /\ c \notin Unused
  BY <1>1, <1>2 DEF Scan, Places
<1>4. next \in Links /\ lh \in Pointer /\ fl \in Pointer /\ Chain(next, lh) /\ c \in Between(next, lh, 0)
  BY <1>2, <1>3 DEF Sorted, Lists, Live, Walk
<1>5. c \notin held /\ (cpc \in Made => conn # c)
  BY <1>2, <1>3 DEF Fields, Places
<1>6. CASE p = 0
  <2>1. lh' = next[c] /\ next' = next /\ dropped' = dropped \cup Before(lh, c)
    BY <1>6 DEF scan_unlink
  <2>2. /\ c \notin Between(next, next[c], 0) /\ Between(next, next[c], 0) \subseteq Between(next, lh, 0)
        /\ Chain(next, next[c]) /\ next[c] \in Pointer
    BY <1>4, Acyclic
  <2>3. Live' = Between(next, next[c], 0) /\ Unused' = Unused /\ Lists'
    BY <1>1, <1>2, <2>1, <2>2 DEF Live, Unused, Walk, Lists
  <2>4. c \notin Live' /\ Live' \subseteq Live
    BY <2>2, <2>3 DEF Live, Walk
  <2>5. PICK B : B = Between(next, lh, c)
    OBVIOUS
  <2>6. B \subseteq Live /\ c \notin B /\ B \cap Live' = {}
    BY <1>4, <2>3, <2>5, Apart DEF Live, Walk
  <2>7. Live \subseteq B \cup {c} \cup Live'
    BY <1>3, <1>4, <2>3, <2>5, Split DEF Live, Walk
  <2>8. dropped' = dropped \cup B
    BY <2>1, <2>5 DEF Before
  <2>9. Sorted'
    BY <1>1, <1>2, <2>1, <2>2, <2>6, <2>8 DEF Sorted, Spcs
  <2>10. Places'
    <3>1. \A x \in dropped' : /\ x \notin Unused' /\ x \notin Live'
                              /\ (cpc \in Made => x # conn) /\ x # c
      BY <1>2, <1>3, <2>3, <2>4, <2>6, <2>8 DEF Places
    <3>2. \A x \in Connection : \/ x \in Unused \/ x \in Live' \/ x \in dropped'
                                \/ (cpc \in Made /\ x = conn) \/ x = c
      BY <1>1, <1>2, <2>7, <2>8 DEF Places, Freed
    <3>3. Unused \cap Live' = {} /\ (cpc \in Made => conn \in Connection /\ conn \notin Unused /\ conn \notin Live')
      BY <1>2, <2>4 DEF Places
    <3> QED BY <1>1, <1>3, <1>5, <2>3, <2>4, <3>1, <3>2, <3>3 DEF Places, Freed
  <2>11. Fields'
    BY <1>1, <1>2, <1>5, <2>4, <2>7, <2>8 DEF Fields
  <2>12. Creator' /\ Scan'
    BY <1>1, <1>2, <1>6, <2>1, <2>3 DEF Creator, Scan
  <2> QED BY <2>3, <2>9, <2>10, <2>11, <2>12, Pieces
<1>7. CASE p # 0
  <2>1. lh' = lh /\ next' = [next EXCEPT ![p] = next[c]] /\ dropped' = dropped
    BY <1>7 DEF scan_unlink
  <2>2. p \in Between(next, lh, 0) /\ next[p] = c /\ p \in Connection /\ p \in Live
    BY <1>2, <1>3, <1>7 DEF Live, Walk
  <2>3. next' \in Links /\ Between(next', lh, 0) = Between(next, lh, 0) \ {c} /\ Chain(next', lh)
    <3>1. next' \in Links /\ next'[p] = next[c] /\ \A x \in Connection : x # p => next'[x] = next[x]
      BY <1>3, <1>4, <2>1, <2>2 DEF Links
    <3> QED BY <1>4, <2>2, <3>1, Unlinked
  <2>4. p \notin Unused /\ p \notin Between(next, fl, 0) /\ next[c] \in Pointer
    BY <1>2, <1>3, <1>4, <2>2 DEF Places, Unused, Walk, Links
  <2>5. Between(next', fl, 0) = Between(next, fl, 0) /\ (Chain(next, fl) => Chain(next', fl))
    BY <1>4, <2>1, <2>2, <2>4, Elsewhere
  <2>6. Live' = Live \ {c} /\ Unused' = Unused /\ Lists'
    BY <1>1, <1>2, <2>1, <2>3, <2>5 DEF Live, Unused, Walk, Lists
  <2>7. \A x \in Connection : x # p => next'[x] = next[x]
    BY <1>4, <2>1, <2>2 DEF Links
  <2>8. Sorted'
    BY <1>1, <1>2, <2>1, <2>3 DEF Sorted, Spcs
  <2>9. Places'
    BY <1>1, <1>2, <1>3, <1>5, <2>1, <2>6 DEF Places, Freed
  <2>10. Fields'
    BY <1>1, <1>2, <1>5, <2>1, <2>6 DEF Fields
  <2>11. Creator'
    <3>1. cpc \in {"alloc_cas", "push_cas"} => conn # p /\ conn \in Connection
      BY <1>2, <2>2, <2>4 DEF Creator, Places, Made
    <3> QED BY <1>1, <1>2, <2>6, <2>7, <3>1 DEF Creator
  <2>12. Scan'
    <3>1. p # c
      <4>1. c \notin Between(next, next[c], 0)
        BY <1>4, Acyclic
      <4>2. next[c] \in Between(next, next[c], 0) \cup {0, 0}
        BY <1>4, <2>4, Pointers, Closed
      <4> QED BY <1>2, <1>3, <2>2, <4>1, <4>2
    <3> QED BY <1>1, <1>7, <2>2, <2>6, <3>1 DEF Scan
  <2> QED BY <2>6, <2>8, <2>9, <2>10, <2>11, <2>12, Pieces
<1> QED BY <1>6, <1>7

\* It links what it has taken out to the head of the free list,
LEMMA CollectLoad ==
  ASSUME ConnInv, collect_load
  PROVE  ConnInv'
<1>1. /\ spc = "push" /\ u' = fl /\ next' = [next EXCEPT ![c] = fl] /\ spc' = "push_cas"
      /\ UNCHANGED <<lh, fl, used, filled, held, cpc, conn, t, p, c, dropped>>
  BY DEF collect_load, creator
<1>2. /\ Sorted /\ Lists /\ Places /\ Creator /\ Scan /\ Fields
      /\ Live \subseteq Connection /\ Unused \subseteq Connection
  BY Members
<1>3. c \in Connection /\ c \notin Live /\ c \notin Unused /\ (cpc \in Made => conn # c)
  BY <1>1, <1>2 DEF Places, Freed
<1>4. next \in Links /\ lh \in Pointer /\ fl \in Pointer
  BY <1>2 DEF Sorted
<1>5. /\ next' \in Links /\ Between(next', lh, 0) = Between(next, lh, 0)
      /\ Chain(next, lh) => Chain(next', lh)
  BY <1>1, <1>3, <1>4, Elsewhere DEF Live, Walk
<1>6. /\ Between(next', fl, 0) = Between(next, fl, 0)
      /\ Chain(next, fl) => Chain(next', fl)
  BY <1>1, <1>3, <1>4, Elsewhere DEF Unused, Walk
<1>7. Live' = Live /\ Unused' = Unused /\ Lists'
  BY <1>1, <1>2, <1>5, <1>6 DEF Live, Unused, Walk, Lists
<1>8. next'[c] = fl /\ \A x \in Connection : x # c => next'[x] = next[x]
  BY <1>1, <1>3, <1>4 DEF Links
<1>9. Sorted'
  BY <1>1, <1>2, <1>5 DEF Sorted, Spcs
<1>10. Places' /\ Fields'
  BY <1>1, <1>2, <1>7 DEF Places, Fields, Freed
<1>11. Creator'
  <2>1. cpc \in {"alloc_cas", "push_cas"} => conn # c /\ conn \in Connection
    BY <1>2, <1>3 DEF Creator, Places, Made
  <2> QED BY <1>1, <1>2, <1>7, <1>8, <2>1 DEF Creator
<1>12. Scan'
  BY <1>1, <1>2, <1>7, <1>8 DEF Scan
<1> QED BY <1>7, <1>9, <1>10, <1>11, <1>12, Pieces

\* and makes it the head, if the link is still right.
LEMMA CollectCas ==
  ASSUME ConnInv, collect_cas
  PROVE  ConnInv'
<1>1. spc = "push_cas" /\ UNCHANGED <<lh, next, used, filled, held, cpc, conn, t, p, c, u, dropped>>
  BY DEF collect_cas, creator
<1>2. /\ Sorted /\ Lists /\ Places /\ Creator /\ Scan /\ Fields
      /\ Live \subseteq Connection /\ Unused \subseteq Connection
  BY Members
<1>3. c \in Connection /\ c \notin Live /\ c \notin Unused /\ u = next[c]
  BY <1>1, <1>2 DEF Places, Freed, Scan
<1>4. CASE fl = u
  <2>1. fl' = c /\ spc' = "next"
    BY <1>4 DEF collect_cas
  <2>2. next \in Links /\ fl \in Pointer /\ next[c] = fl /\ Chain(next, fl) /\ c \notin Between(next, fl, 0)
    BY <1>2, <1>3, <1>4 DEF Sorted, Lists, Unused, Walk
  <2>3. Between(next, c, 0) = {c} \cup Between(next, fl, 0) /\ Chain(next, c)
    BY <1>3, <2>2, Pushed
  <2>4. Unused' = {c} \cup Unused /\ Live' = Live /\ Lists'
    BY <1>1, <1>2, <2>1, <2>3 DEF Live, Unused, Walk, Lists
  <2>5. Sorted'
    BY <1>1, <1>2, <2>1 DEF Sorted, Spcs
  <2>6. Places' /\ Fields'
    BY <1>1, <1>2, <1>3, <2>1, <2>4 DEF Places, Freed, Fields
  <2>7. Creator' /\ Scan'
    BY <1>1, <1>2, <2>1, <2>4 DEF Creator, Scan
  <2> QED BY <2>4, <2>5, <2>6, <2>7, Pieces
<1>5. CASE fl # u
  <2>1. spc' = "push" /\ fl' = fl
    BY <1>5 DEF collect_cas
  <2>2. Live' = Live /\ Unused' = Unused /\ Lists'
    BY <1>1, <1>2, <2>1, SameLists
  <2>3. Sorted'
    BY <1>1, <1>2, <2>1 DEF Sorted, Spcs
  <2>4. Places' /\ Fields'
    BY <1>1, <1>2, <2>1, <2>2 DEF Places, Fields, Freed
  <2>5. Creator' /\ Scan'
    BY <1>1, <1>2, <2>1, <2>2 DEF Creator, Scan
  <2> QED BY <2>2, <2>3, <2>4, <2>5, Pieces
<1> QED BY <1>4, <1>5

-----------------------------------------------------------------------------
(* The invariant, and what follows from it.                                 *)

\* The least member of a set of numbers
LEMMA Minimum ==
  ASSUME NEW S, S \subseteq Nat, S # {}
  PROVE  \E x \in S : \A y \in S : x <= y
<1>1. \E x \in S : \A y \in S : ~ (<<y, x>> \in OpToRel(<, Nat))
  BY NatLessThanWellFounded, WFMin
<1>2. PICK x \in S : \A y \in S : ~ (<<y, x>> \in OpToRel(<, Nat))
  BY <1>1
<1>3. ASSUME NEW y \in S PROVE x <= y
  <2>1. ~(y < x)
    BY <1>2 DEF OpToRel
  <2> QED BY <2>1
<1> QED BY <1>3

\* mca_init links all connections.
LEMMA AllLinked ==
  /\ Linked \in Links /\ Between(Linked, 1, 0) = Connection /\ Chain(Linked, 1)
<1>0. NConn \in Nat /\ NConn > 0 /\ 1 \in Pointer /\ 0 \in Pointer
  BY ConnAssumption DEF Pointer
<1>1. Linked \in Links /\ \A n \in Connection : Linked[n] = IF n = NConn THEN 0 ELSE n + 1
  BY <1>0 DEF Linked, Links, Connection, Pointer
<1>2. PICK L : L = Between(Linked, 1, 0)
  OBVIOUS
<1>3. L \subseteq Connection /\ 1 \in L \cup {0, 0} /\ \A x \in L : Linked[x] \in L \cup {0, 0}
  BY <1>0, <1>1, <1>2, Closed
<1>4. Connection \subseteq L
  <2> DEFINE Bad == Connection \ L
  <2> SUFFICES ASSUME Bad # {} PROVE FALSE
    OBVIOUS
  <2>1. Bad \subseteq Nat
    BY DEF Connection
  <2> HIDE DEF Bad
  <2>2. PICK n \in Bad : \A m \in Bad : n <= m
    BY <2>1, Minimum
  <2> USE DEF Bad
  <2>3. n \in Nat /\ n # 1 /\ n >= 1 /\ n <= NConn
    BY <1>0, <1>3, <2>2 DEF Connection
  <2>4. n - 1 \in Connection /\ n - 1 # NConn
    BY <1>0, <2>3 DEF Connection
  <2>5. n - 1 \in L
    BY <2>2, <2>3, <2>4
  <2>6. Linked[n - 1] = n
    BY <1>1, <2>3, <2>4
  <2>7. n \in L \cup {0, 0}
    BY <1>3, <2>5, <2>6
  <2> QED BY <2>2, <2>3, <2>7
<1>5. L = Connection
  BY <1>3, <1>4
<1>6. \A x \in Connection : Linked[x] # 1
  BY <1>0, <1>1 DEF Connection
<1>7. \A x, y \in Connection : Linked[x] = Linked[y] /\ Linked[x] # 0 => x = y
  BY <1>0, <1>1 DEF Connection
<1> QED BY <1>1, <1>2, <1>5, <1>6, <1>7 DEF Chain

\* All connections are free at first.
LEMMA Initially ==
  ASSUME Init
  PROVE  ConnInv
<1>1. /\ lh = 0 /\ fl = 1 /\ next = Linked /\ held = {} /\ dropped = {}
      /\ cpc = "idle" /\ conn = 0 /\ t = 0 /\ spc = "head" /\ p = 0 /\ c = 0 /\ u = 0
      /\ used = [i \in Connection |-> FALSE] /\ filled = [i \in Connection |-> FALSE]
  BY DEF Init
<1>2. next \in Links /\ Between(next, 1, 0) = Connection /\ Chain(next, 1)
  BY <1>1, AllLinked
<1>3. Between(next, 0, 0) = {} /\ Chain(next, 0)
  BY <1>2, Nothing
<1>4. Live = {} /\ Unused = Connection /\ Lists
  BY <1>1, <1>2, <1>3 DEF Live, Unused, Walk, Lists
<1>5. used \in [Connection -> BOOLEAN] /\ filled \in [Connection -> BOOLEAN]
  BY <1>1
<1>6. TypeOK
  <2>1. 0 \in Pointer /\ 1 \in Pointer
    BY ConnAssumption DEF Pointer
  <2> QED BY <1>1, <1>2, <1>5, <2>1 DEF TypeOK, Links
<1>7. Places /\ Creator /\ Scan /\ Fields
  BY <1>1, <1>4 DEF Places, Creator, Scan, Fields, Made, Freed
<1> QED BY <1>4, <1>6, <1>7 DEF ConnInv

\* No step of the creator, of the scan or of a holder breaks the invariant.
LEMMA ConnInductive ==
  ASSUME ConnInv, [Next]_vars
  PROVE  ConnInv'
<1>1. CASE mca_conn_create
  BY <1>1, AllocLoad, AllocNext, AllocCas, Fill, Use, PushLoad, PushNext, PushCas DEF mca_conn_create
<1>2. CASE mca_scan
  BY <1>2, ScanHead, ScanTest, ScanUnlink, CollectLoad, CollectCas, ScanNext DEF mca_scan
<1>3. ASSUME NEW x \in Connection, mca_conn_free(x) PROVE ConnInv'
  BY <1>3, ConnFree
<1>4. CASE UNCHANGED vars
  <2>1. UNCHANGED <<lh, fl, next, used, filled, held, cpc, conn, t, spc, p, c, u, dropped>>
    BY <1>4 DEF vars, creator, scan
  <2>2. Sorted /\ Lists /\ Places /\ Creator /\ Scan /\ Fields
    BY Members
  <2>3. Live' = Live /\ Unused' = Unused /\ Lists'
    BY <2>1, <2>2, SameLists
  <2>4. Sorted'
    BY <2>1, <2>2 DEF Sorted
  <2>5. Places' /\ Creator' /\ Scan' /\ Fields'
    BY <2>1, <2>2, <2>3 DEF Places, Creator, Scan, Fields
  <2> QED BY <2>3, <2>4, <2>5, Pieces
<1> QED BY <1>1, <1>2, <1>3, <1>4 DEF Next

\* The invariant of the lists holds in every reachable state.
THEOREM ConnInvariance == Spec => []ConnInv
<1>1. Init => ConnInv
  BY Initially
<1>2. ConnInv /\ [Next]_vars => ConnInv'
  BY ConnInductive
<1> QED BY <1>1, <1>2, PTL DEF Spec

\* However mca_conn_create, mca_conn_free and mca_scan interleave, a connection is in one place,
\* and the scan processes only what was set up for its present use.
THEOREM ListsAreSound == Spec => []ListsSound
<1>1. ConnInv => ListsSound
  <2> SUFFICES ASSUME ConnInv PROVE ListsSound
    OBVIOUS
  <2>1. /\ Sorted /\ Lists /\ Places /\ Creator /\ Scan /\ Fields /\ TypeOK
        /\ Live \subseteq Connection /\ Unused \subseteq Connection
    BY Members DEF ConnInv
  <2>2. dropped \subseteq Connection
    BY <2>1 DEF Sorted
  <2>3. OnePlace
    BY <2>1, <2>2 DEF OnePlace, Places, Live, Unused, Creating, Collecting, Made, Freed
  <2>4. Complete
    BY <2>1 DEF Complete, Scan, Fields
  <2> QED BY <2>1, <2>3, <2>4 DEF ListsSound
<1> QED BY <1>1, ConnInvariance, PTL

\* A connection that somebody holds is on the list that mca_scan goes through, unless a removal
\* at the head cut it off.
THEOREM HeldAreKept == Spec => []Kept
<1>1. ConnInv => Kept
  BY DEF ConnInv, Kept, Fields, Live
<1> QED BY <1>1, ConnInvariance, PTL
=============================================================================
