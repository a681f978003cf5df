---------------------------- MODULE NinfTxProofs ----------------------------
(***************************************************************************)
(* Proofs about NinfTx, for any number of ports and any ring, node, batch  *)
(* and pool: the count of a node is the number of its packets that are     *)
(* still to be sent.                                                       *)
(***************************************************************************)
EXTENDS NinfTx, FiniteSetTheorems, TLAPS

\* An entry of a batch, and a call of ninf_tx_nf_send_burst.
Ent    == [rn : Slots, meta : Entries, phys : Pkts]
Bursts == [port : Ports, left : Seq(Mbufs), back : {"add", "flush", "scan"}]

\* A node of the ring.
Recs == [st : States, cnt : 0..K, port : [Entries -> Ports]]

\* Where the thread holds the local copy of a node, the middle of a burst included.
InNode == pc = "add" \/ (pc \in {"burst", "abort"} /\ burst.back = "add")

\* The node and packet of an entry or an mbuf, and those of the NIC, of the rest of a burst
\* and of a batch; a batch that is being sent counts by what is left of it.
Ref(e)   == <<e.rn, e.phys>>
NicRefs  == {Ref(b) : b \in nic}
LeftRefs == {Ref(burst.left[n]) : n \in 1..Len(burst.left)}
Held(p)  == {Ref(batch[p][n]) : n \in 1..Len(batch[p])}
Idle     == {p \in Ports : pc # "burst" \/ p # burst.port}
All      == NicRefs \cup LeftRefs \cup UNION {Held(p) : p \in Idle}
Of(s)    == {q \in All : q[1] = s}

-----------------------------------------------------------------------------
(* The inductive invariant.                                                *)

Types ==
  /\ node \in [Slots -> Recs]
  /\ head \in Nat /\ tail \in Nat /\ mcaHead \in Nat
  /\ pc \in {"scan", "add", "burst", "flush", "idle", "abort"}
  /\ scache \in [num : Nat, cnt : 0..K, port : [Entries -> Ports]]
  /\ i \in 0..K
  /\ batch \in [Ports -> Seq(Ent)] /\ \A p \in Ports : Len(batch[p]) <= B
  /\ burst \in Bursts
  /\ nic \subseteq Mbufs /\ IsFiniteSet(nic)

\* The thread follows the function, and the function collects behind the thread.
Cursors ==
  /\ head <= mcaHead /\ mcaHead <= tail /\ tail <= head + N /\ tail <= MaxNode
  /\ scache.num = 0 \/ scache.num < MaxNode
  /\ InNode => mcaHead < tail /\ scache.num = mcaHead /\ i <= scache.cnt

\* What each place of the thread knows of its batches and of the burst.
Frame ==
  /\ pc \in {"burst", "abort"} /\ burst.back = "add" => i < scache.cnt
  /\ pc = "burst" => burst.back # "scan"
  /\ pc \notin {"burst", "abort"} => burst.left = <<>>
  /\ FrameLive

\* The packet that completes a node is still in a batch: a batch is sent only to make
\* room for the next packet.
LastIn ==
  pc = "add" /\ i = scache.cnt /\ i > 0 =>
    \E p \in Ports : <<Slot(mcaHead), <<mcaHead, i - 1>>>> \in Held(p)

\* Packets still to be sent are of nodes that the thread has taken and the function
\* has not collected, and, of the node in hand, of entries that were added.
Where ==
  \A q \in All :
    /\ q[1] = Slot(q[2][1])
    /\ head <= q[2][1]
    /\ q[2][1] < mcaHead \/ (InNode /\ q[2][1] = mcaHead /\ q[2][2] < i)

\* No packet is held twice.
NicOnce   == \A b, c \in nic : b.phys = c.phys => b = c
LeftOnce  == \A m, n \in 1..Len(burst.left) :
               burst.left[m].phys = burst.left[n].phys => m = n
BatchOnce == \A p, r \in Ports : \A m \in 1..Len(batch[p]), n \in 1..Len(batch[r]) :
               batch[p][m].phys = batch[r][n].phys => p = r /\ m = n
NicLeft   == NicRefs \cap LeftRefs = {}
NicBatch  == \A p \in Idle : NicRefs \cap Held(p) = {}
LeftBatch == pc = "burst" => \A p \in Idle : LeftRefs \cap Held(p) = {}
Once == NicOnce /\ LeftOnce /\ BatchOnce /\ NicLeft /\ NicBatch /\ LeftBatch

\* Taken nodes count what is still to be sent; the node in hand also what is still to be
\* added; the others wait, and no other slot is in use.
Taken(k) ==
  LET n == node[Slot(k)]
  IN \/ n.st = "TXING" /\ n.cnt = Cardinality(Of(Slot(k))) /\ n.cnt > 0
     \/ n.st = "SENT_DONE" /\ Of(Slot(k)) = {}
InHand ==
  InNode => node[Slot(mcaHead)].cnt = Cardinality(Of(Slot(mcaHead))) + (scache.cnt - i)
Counts ==
  /\ \A k \in head..(mcaHead - 1) : Taken(k)
  /\ \A k \in mcaHead..(tail - 1) : node[Slot(k)].st = "SENT_READY"
  /\ InHand
  /\ \A k \in tail..(head + N - 1) : node[Slot(k)].st = "EMPTY"

TxInv == Types /\ Cursors /\ Frame /\ LastIn /\ Where /\ Once /\ Counts /\ PoolEnough
-----------------------------------------------------------------------------
(* Ring indices.                                                           *)

\* Masking an index yields a slot of the ring.
LEMMA SlotType ==
  ASSUME NEW k \in Int
  PROVE  Slot(k) \in Slots
  BY TxAssumption DEF Slot, Slots

\* Two indices less than a ring apart share no slot.
LEMMA SlotInj ==
  ASSUME NEW j \in Int, NEW k \in Int, j < k, k < j + N
  PROVE  Slot(j) # Slot(k)
<1> SUFFICES ASSUME j % N = k % N PROVE FALSE
  BY DEF Slot
<1> DEFINE p == j \div N
           q == k \div N
<1>1. /\ N \in Nat /\ N > 0 /\ p \in Int /\ q \in Int
      /\ j = N * p + (j % N) /\ k = N * q + (k % N)
  BY TxAssumption
<1>2. k - j = N * (q - p)
  BY <1>1
<1>3. q - p < 1 /\ q - p > 0
  BY <1>1, <1>2
<1> QED BY <1>1, <1>3

\* An index one ring further is in the same slot.
LEMMA SlotWrap ==
  ASSUME NEW k \in Int
  PROVE  Slot(k + N) = Slot(k)
<1>1. Slot(k) \in Slots /\ Slot(k + N) \in Slots
  BY SlotType, TxAssumption
<1> DEFINE p == k \div N
           q == (k + N) \div N
<1>2. /\ N \in Nat /\ N > 0 /\ p \in Int /\ q \in Int
      /\ k = N * p + Slot(k) /\ k + N = N * q + Slot(k + N)
  BY TxAssumption DEF Slot
<1>3. Slot(k + N) - Slot(k) = N * (p + 1 - q)
  BY <1>1, <1>2 DEF Slots
<1>4. p + 1 - q < 1 /\ p + 1 - q > -1
  BY <1>1, <1>2, <1>3 DEF Slots
<1>5. p + 1 - q = 0
  BY <1>2, <1>4
<1>6. Slot(k + N) - Slot(k) = 0
  BY <1>2, <1>3, <1>5
<1> QED BY <1>1, <1>6 DEF Slots

\* A slot of the window stands for one index of it.
LEMMA SlotOne ==
  ASSUME Types, NEW j \in head..(head + N - 1), NEW k \in head..(head + N - 1), Slot(j) = Slot(k)
  PROVE  j = k
<1>1. j \in Int /\ k \in Int /\ j < k + N /\ k < j + N /\ N \in Nat
  BY TxAssumption DEF Types
<1>2. ~(j < k) /\ ~(k < j)
  BY <1>1, SlotInj
<1> QED BY <1>1, <1>2

-----------------------------------------------------------------------------
(* Packets.                                                                *)

\* What is held: node and packet of entries.
LEMMA RefTypes ==
  ASSUME Types
  PROVE  /\ All \subseteq Slots \X Pkts
         /\ \A p \in Ports : Held(p) \subseteq Slots \X Pkts
<1>1. \A b \in nic : Ref(b) \in Slots \X Pkts
  BY DEF Types, Mbufs, Ref
<1>2. \A n \in 1..Len(burst.left) : Ref(burst.left[n]) \in Slots \X Pkts
  <2>1. burst.left \in Seq(Mbufs)
    BY DEF Types, Bursts
  <2>2. \A n \in 1..Len(burst.left) : burst.left[n] \in Mbufs
    BY <2>1
  <2> QED BY <2>2 DEF Mbufs, Ref
<1>3. ASSUME NEW p \in Ports, NEW n \in 1..Len(batch[p])
      PROVE  Ref(batch[p][n]) \in Slots \X Pkts
  <2>1. batch[p] \in Seq(Ent)
    BY DEF Types
  <2>2. batch[p][n] \in Ent
    BY <2>1
  <2> QED BY <2>2 DEF Ent, Ref
<1>4. \A p \in Ports : Held(p) \subseteq Slots \X Pkts
  BY <1>3 DEF Held
<1> QED BY <1>1, <1>2, <1>4 DEF All, NicRefs, LeftRefs, Idle

\* There are finitely many packets.
LEMMA Finite ==
  ASSUME Types
  PROVE  /\ IsFiniteSet(All)
         /\ \A s : IsFiniteSet(Of(s)) /\ Cardinality(Of(s)) \in Nat
<1>1. IsFiniteSet(Slots) /\ IsFiniteSet(Entries) /\ IsFiniteSet(0..(MaxNode - 1))
  BY FS_Interval, TxAssumption DEF Slots, Entries
<1>2. IsFiniteSet(Pkts)
  BY <1>1, FS_Product DEF Pkts
<1>3. IsFiniteSet(Slots \X Pkts)
  BY <1>1, <1>2, FS_Product
<1>4. IsFiniteSet(All)
  BY <1>3, RefTypes, FS_Subset
<1>5. ASSUME NEW s PROVE IsFiniteSet(Of(s)) /\ Cardinality(Of(s)) \in Nat
  <2>1. Of(s) \subseteq All
    BY DEF Of
  <2> QED BY <2>1, <1>4, FS_Subset, FS_CardinalityType
<1> QED BY <1>4, <1>5

\* Every packet that is held is of a node of the window.
LEMMA HeldWindow ==
  ASSUME TxInv, NEW q \in All
  PROVE  /\ q[2][1] \in Nat /\ q[2][2] \in Nat /\ q = <<Slot(q[2][1]), q[2]>>
         /\ q[2][1] \in head..(head + N - 1) /\ q[2][1] <= mcaHead
<1>1. q \in Slots \X Pkts
  BY RefTypes DEF TxInv
<1>2. q[2][1] \in Nat /\ q[2][2] \in Nat /\ q = <<q[1], q[2]>>
  BY <1>1, TxAssumption DEF Pkts, Entries
<1>3. /\ q[1] = Slot(q[2][1]) /\ head <= q[2][1]
      /\ q[2][1] < mcaHead \/ (InNode /\ q[2][1] = mcaHead /\ q[2][2] < i)
  BY DEF TxInv, Where
<1>4. head \in Nat /\ mcaHead \in Nat /\ tail \in Nat /\ N \in Nat
  BY TxAssumption DEF TxInv, Types
<1>5. mcaHead <= tail /\ tail <= head + N /\ (InNode => mcaHead < tail)
  BY DEF TxInv, Cursors
<1> QED BY <1>2, <1>3, <1>4, <1>5

\* So the packets of a slot are those of the one node of the window that is in it.
LEMMA OfNode ==
  ASSUME TxInv, NEW k \in head..(head + N - 1)
  PROVE  Of(Slot(k)) = {q \in All : q[2][1] = k}
<1>1. ASSUME NEW q \in All PROVE q[1] = Slot(k) <=> q[2][1] = k
  <2>1. q[1] = Slot(q[2][1]) /\ q[2][1] \in head..(head + N - 1)
    BY HeldWindow
  <2> QED BY <2>1, SlotOne DEF TxInv
<1> QED BY <1>1 DEF Of

-----------------------------------------------------------------------------
(* Steps that move no packet.                                              *)

\* What is held stays, and so does that nothing is held twice.
LEMMA RefsKept ==
  ASSUME UNCHANGED <<batch, burst, nic>>, pc' = "burst" <=> pc = "burst"
  PROVE  /\ NicRefs' = NicRefs /\ LeftRefs' = LeftRefs /\ Idle' = Idle /\ All' = All
         /\ \A p \in Ports : Held(p)' = Held(p)
         /\ \A s : Of(s)' = Of(s)
         /\ Once => Once'
<1>1. /\ NicRefs' = NicRefs /\ LeftRefs' = LeftRefs /\ Idle' = Idle
      /\ \A p : Held(p)' = Held(p)
  BY DEF NicRefs, LeftRefs, Idle, Held
<1>2. All' = All
  BY <1>1 DEF All
<1>3. NicOnce => NicOnce'
  BY DEF NicOnce
<1>4. LeftOnce => LeftOnce'
  BY DEF LeftOnce
<1>5. BatchOnce => BatchOnce'
  BY DEF BatchOnce
<1>6. /\ NicLeft => NicLeft' /\ (NicBatch => NicBatch')
      /\ LeftBatch => LeftBatch'
  BY <1>1 DEF NicLeft, NicBatch, LeftBatch
<1> QED BY <1>1, <1>2, <1>3, <1>4, <1>5, <1>6 DEF Of, Once

\* The types of the numbers, and where the cursors are.
LEMMA Numbers ==
  ASSUME TxInv
  PROVE  /\ head \in Nat /\ tail \in Nat /\ mcaHead \in Nat /\ i \in Nat /\ MaxNode \in Nat
         /\ N \in Nat /\ N > 0 /\ K \in Nat /\ K > 0 /\ B \in Nat /\ B > 0
         /\ i <= K /\ scache.cnt \in Nat /\ scache.cnt <= K /\ scache.num \in Nat
         /\ head <= mcaHead /\ mcaHead <= tail /\ tail <= head + N /\ tail <= MaxNode
         /\ \A s \in Slots : /\ node[s] \in Recs
                             /\ node[s].cnt \in Nat
  BY TxAssumption DEF TxInv, Types, Cursors, Recs

\* Writing the state of a node leaves its count and ports.
LEMMA SetState ==
  ASSUME Types, NEW s \in Slots, NEW x \in States, node' = [node EXCEPT ![s].st = x]
  PROVE  /\ node' \in [Slots -> Recs]
         /\ node'[s] = [st |-> x, cnt |-> node[s].cnt, port |-> node[s].port]
         /\ \A r \in Slots : r # s => node'[r] = node[r]
<1>1. node \in [Slots -> Recs] /\ node[s] \in Recs
  BY DEF Types
<1>2. PICK w : w = [node[s] EXCEPT !.st = x]
  OBVIOUS
<1>3. w = [st |-> x, cnt |-> node[s].cnt, port |-> node[s].port] /\ w \in Recs
  BY <1>1, <1>2 DEF Recs
<1>4. node' = [node EXCEPT ![s] = w]
  BY <1>2
<1> QED BY <1>1, <1>3, <1>4

\* An index of the window is in a slot, and its state says where the cursors are.
LEMMA StateSays ==
  ASSUME TxInv, NEW k \in head..(head + N)
  PROVE  /\ Slot(k) \in Slots
         /\ node[Slot(k)].st = "EMPTY" /\ k = tail => k < head + N
         /\ node[Slot(k)].st = "SENT_DONE" /\ k = head => k < mcaHead /\ Of(Slot(k)) = {}
         /\ node[Slot(k)].st = "SENT_READY" /\ k = mcaHead => k < tail
<1>1. /\ head \in Nat /\ tail \in Nat /\ mcaHead \in Nat /\ N \in Nat /\ N > 0
      /\ head <= mcaHead /\ mcaHead <= tail /\ tail <= head + N
  BY Numbers
<1>2. Slot(k) \in Slots /\ (k = head + N => Slot(k) = Slot(head))
  BY <1>1, SlotType, SlotWrap
<1>3. /\ \A j \in head..(mcaHead - 1) :
           \/ node[Slot(j)].st = "TXING"
           \/ node[Slot(j)].st = "SENT_DONE" /\ Of(Slot(j)) = {}
      /\ \A j \in mcaHead..(tail - 1) : node[Slot(j)].st = "SENT_READY"
      /\ \A j \in tail..(head + N - 1) : node[Slot(j)].st = "EMPTY"
  BY DEF TxInv, Counts, Taken
<1>4. node[Slot(k)].st = "EMPTY" /\ k = tail => k < head + N
  <2> SUFFICES ASSUME node[Slot(k)].st = "EMPTY", k = tail, k = head + N PROVE FALSE
    BY <1>1
  <2>1. head \in head..(mcaHead - 1) \/ head \in mcaHead..(tail - 1)
    BY <1>1
  <2> QED BY <2>1, <1>2, <1>3
<1>5. node[Slot(k)].st = "SENT_DONE" /\ k = head => k < mcaHead /\ Of(Slot(k)) = {}
  <2>1. k = head => \/ head \in head..(mcaHead - 1)
                    \/ head \in mcaHead..(tail - 1)
                    \/ head \in tail..(head + N - 1)
    BY <1>1
  <2> QED BY <2>1, <1>1, <1>3
<1>6. node[Slot(k)].st = "SENT_READY" /\ k = mcaHead => k < tail
  <2> SUFFICES ASSUME node[Slot(k)].st = "SENT_READY", k = mcaHead, k = tail PROVE FALSE
    BY <1>1
  <2>1. k \in tail..(head + N - 1) \/ (k = head + N /\ head \in head..(mcaHead - 1))
    BY <1>1
  <2> QED BY <2>1, <1>2, <1>3
<1> QED BY <1>2, <1>4, <1>5, <1>6

\* The function fills the slot after its last node.
LEMMA FlushStep ==
  ASSUME TxInv, eos_pkt_send_flush
  PROVE  TxInv'
<1> USE DEF eos_pkt_send_flush
<1>1. PICK c \in 0..K, port \in [Entries -> Ports] :
        node' = [node EXCEPT ![Slot(tail)] = [st |-> "SENT_READY", cnt |-> c, port |-> port]]
  OBVIOUS
<1>2. /\ tail' = tail + 1 /\ tail < MaxNode /\ node[Slot(tail)].st = "EMPTY"
      /\ UNCHANGED <<head, mcaHead, pc, scache, i, batch, burst, nic>>
  OBVIOUS
<1> HIDE DEF eos_pkt_send_flush
<1>n. /\ head \in Nat /\ tail \in Nat /\ mcaHead \in Nat /\ N \in Nat /\ N > 0 /\ MaxNode \in Nat
      /\ head <= mcaHead /\ mcaHead <= tail /\ tail <= head + N
  BY Numbers
<1>s. Slot(tail) \in Slots /\ tail < head + N
  BY <1>2, <1>n, StateSays
<1>r. /\ All' = All /\ (\A p \in Ports : Held(p)' = Held(p)) /\ (\A s : Of(s)' = Of(s))
      /\ Once'
  BY <1>2, RefsKept DEF TxInv
<1>t. Types'
  <2>1. node' \in [Slots -> Recs]
    BY <1>1, <1>s DEF TxInv, Types, States, Recs
  <2> QED BY <2>1, <1>2, <1>n DEF TxInv, Types
<1>m. InNode' <=> InNode
  BY <1>2 DEF InNode
<1>c. Cursors'
  BY <1>2, <1>n, <1>s, <1>m DEF TxInv, Cursors
<1>f. Frame' /\ PoolEnough' /\ LastIn'
  BY <1>2, <1>r DEF TxInv, Frame, FrameLive, PoolEnough, LastIn
<1>w. Where'
  BY <1>2, <1>r, <1>m DEF TxInv, Where
<1>o. \A k \in head..(head + N - 1) : k # tail => node'[Slot(k)] = node[Slot(k)]
  <2> TAKE k \in head..(head + N - 1)
  <2>1. k # tail => Slot(k) # Slot(tail)
    BY <1>n, <1>s, SlotOne DEF TxInv
  <2>2. Slot(k) \in Slots
    BY <1>n, SlotType
  <2> QED BY <2>1, <2>2, <1>1, <1>s DEF TxInv, Types
<1>e. node'[Slot(tail)].st = "SENT_READY"
  BY <1>1, <1>s DEF TxInv, Types
<1>k. Counts'
  <2>1. \A k \in head'..(mcaHead' - 1) : Taken(k)'
    BY <1>2, <1>n, <1>o, <1>r DEF TxInv, Counts, Taken
  <2>2. \A k \in mcaHead'..(tail' - 1) : node'[Slot(k)].st = "SENT_READY"
    BY <1>2, <1>n, <1>o, <1>e, <1>s DEF TxInv, Counts
  <2>3. InHand'
    <3>1. InNode => mcaHead < tail
      BY DEF TxInv, Cursors
    <3> QED BY <3>1, <1>2, <1>n, <1>o, <1>r, <1>m, <1>s DEF TxInv, Counts, InHand
  <2>4. \A k \in tail'..(head' + N - 1) : node'[Slot(k)].st = "EMPTY"
    BY <1>2, <1>n, <1>o DEF TxInv, Counts
  <2> QED BY <2>1, <2>2, <2>3, <2>4 DEF Counts
<1> QED BY <1>r, <1>t, <1>c, <1>f, <1>w, <1>k DEF TxInv

\* It collects a node none of whose packets is still to be sent.
LEMMA CollectStep ==
  ASSUME TxInv, eos_pkt_collect
  PROVE  TxInv'
<1>1. node' = [node EXCEPT ![Slot(head)].st = "EMPTY"]
  BY DEF eos_pkt_collect
<1>2. /\ node[Slot(head)].st = "SENT_DONE" /\ head' = head + 1
      /\ UNCHANGED <<tail, mcaHead, pc, scache, i, batch, burst, nic>>
  BY DEF eos_pkt_collect
<1>n. /\ head \in Nat /\ tail \in Nat /\ mcaHead \in Nat /\ N \in Nat /\ N > 0
      /\ head <= mcaHead /\ mcaHead <= tail /\ tail <= head + N
  BY Numbers
<1>s. Slot(head) \in Slots /\ head < mcaHead /\ Of(Slot(head)) = {}
  BY <1>2, <1>n, StateSays
<1>r. /\ All' = All /\ (\A p \in Ports : Held(p)' = Held(p)) /\ (\A s : Of(s)' = Of(s))
      /\ Once'
  BY <1>2, RefsKept DEF TxInv
<1>x. /\ node' \in [Slots -> Recs] /\ node'[Slot(head)].st = "EMPTY"
      /\ \A r \in Slots : r # Slot(head) => node'[r] = node[r]
  BY <1>1, <1>s, SetState, ZenonT(60) DEF TxInv, States
<1>t. Types'
  BY <1>x, <1>2, <1>n DEF TxInv, Types
<1>m. InNode' <=> InNode
  BY <1>2 DEF InNode
<1>c. Cursors'
  BY <1>2, <1>n, <1>s, <1>m DEF TxInv, Cursors
<1>f. Frame' /\ PoolEnough' /\ LastIn'
  BY <1>2, <1>r DEF TxInv, Frame, FrameLive, PoolEnough, LastIn
<1>w. Where'
  <2> SUFFICES ASSUME NEW q \in All
               PROVE  /\ q[1] = Slot(q[2][1]) /\ head + 1 <= q[2][1]
                      /\ q[2][1] < mcaHead \/ (InNode /\ q[2][1] = mcaHead /\ q[2][2] < i)
    BY <1>r, <1>2, <1>m DEF Where
  <2>1. q \notin Of(Slot(head)) /\ q[1] = Slot(q[2][1]) /\ q[2][1] \in Nat
    BY <1>s, HeldWindow DEF TxInv, Where
  <2>2. q[2][1] # head
    BY <2>1 DEF Of
  <2> QED BY <2>1, <2>2, <1>n DEF TxInv, Where
<1>o. \A k \in head..(head + N - 1) : k # head => node'[Slot(k)] = node[Slot(k)]
  <2> TAKE k \in head..(head + N - 1)
  <2>1. k # head => Slot(k) # Slot(head)
    BY <1>n, <1>s, SlotOne DEF TxInv
  <2>2. Slot(k) \in Slots
    BY <1>n, SlotType
  <2> QED BY <2>1, <2>2, <1>x
<1>e. node'[Slot(head + N)].st = "EMPTY"
  BY <1>x, <1>n, SlotWrap
<1>k. Counts'
  <2>1. \A k \in head'..(mcaHead' - 1) : Taken(k)'
    BY <1>2, <1>n, <1>o, <1>r DEF TxInv, Counts, Taken
  <2>2. \A k \in mcaHead'..(tail' - 1) : node'[Slot(k)].st = "SENT_READY"
    BY <1>2, <1>n, <1>o, <1>s DEF TxInv, Counts
  <2>3. InHand'
    <3>1. InNode => mcaHead < tail
      BY DEF TxInv, Cursors
    <3> QED BY <3>1, <1>2, <1>n, <1>o, <1>r, <1>m, <1>s DEF TxInv, Counts, InHand
  <2>4. \A k \in tail'..(head' + N - 1) : node'[Slot(k)].st = "EMPTY"
    BY <1>2, <1>n, <1>o, <1>e, <1>s DEF TxInv, Counts
  <2> QED BY <2>1, <2>2, <2>3, <2>4 DEF Counts
<1> QED BY <1>r, <1>t, <1>c, <1>f, <1>w, <1>k DEF TxInv

\* Before and between bursts nothing is left of one, and every batch is counted.
LEMMA Outside ==
  ASSUME TxInv, pc \notin {"burst", "abort"}
  PROVE  /\ burst.left = <<>> /\ LeftRefs = {} /\ Idle = Ports
         /\ All = NicRefs \cup UNION {Held(p) : p \in Ports}
<1>1. burst.left = <<>> /\ Idle = Ports
  BY DEF TxInv, Frame, Idle
<1>2. LeftRefs = {}
  BY <1>1 DEF LeftRefs
<1> QED BY <1>1, <1>2 DEF All

\* Of the node in hand all packets that are held have been added; when the last one has,
\* it is held.
LEMMA InHandHeld ==
  ASSUME TxInv, InNode
  PROVE  /\ mcaHead \in head..(head + N - 1)
         /\ scache.cnt = 0 => Of(Slot(mcaHead)) = {}
         /\ pc = "add" /\ i = scache.cnt /\ i > 0 =>
              \E p \in Ports : /\ <<Slot(mcaHead), <<mcaHead, i - 1>>>> \in Held(p)
                               /\ <<Slot(mcaHead), <<mcaHead, i - 1>>>> \in Of(Slot(mcaHead))
         /\ \A q \in Of(Slot(mcaHead)) : q[2][1] = mcaHead /\ q[2][2] < i
<1>1. /\ mcaHead \in Nat /\ head \in Nat /\ tail \in Nat /\ N \in Nat /\ i \in Nat
      /\ head <= mcaHead /\ mcaHead <= tail /\ tail <= head + N
  BY Numbers
<1>2. mcaHead < tail /\ i <= scache.cnt
  BY DEF TxInv, Cursors
<1>3. mcaHead \in head..(head + N - 1)
  BY <1>1, <1>2
<1>4. \A q \in Of(Slot(mcaHead)) : q[2][1] = mcaHead /\ q[2][2] < i /\ q[2][2] \in Nat
  <2>1. \A q \in Of(Slot(mcaHead)) : q \in All /\ q[2][1] = mcaHead
    BY <1>3, OfNode
  <2>2. \A q \in All : q[2][1] \in Nat /\ q[2][2] \in Nat
    BY HeldWindow
  <2>3. \A q \in All : q[2][1] < mcaHead \/ (q[2][1] = mcaHead /\ q[2][2] < i)
    BY DEF TxInv, Where
  <2> QED BY <2>1, <2>2, <2>3, <1>1
<1>5. ASSUME pc = "add", i = scache.cnt, i > 0
      PROVE  \E p \in Ports : /\ <<Slot(mcaHead), <<mcaHead, i - 1>>>> \in Held(p)
                              /\ <<Slot(mcaHead), <<mcaHead, i - 1>>>> \in Of(Slot(mcaHead))
  <2>1. PICK p \in Ports : <<Slot(mcaHead), <<mcaHead, i - 1>>>> \in Held(p)
    BY <1>5 DEF TxInv, LastIn
  <2>2. <<Slot(mcaHead), <<mcaHead, i - 1>>>> \in All
    BY <2>1, <1>5, Outside
  <2> QED BY <2>1, <2>2 DEF Of
<1>6. scache.cnt = 0 => Of(Slot(mcaHead)) = {}
  BY <1>1, <1>2, <1>4
<1> QED BY <1>3, <1>4, <1>5, <1>6

\* The thread takes a node none of whose packets has been added yet, or goes on to flush.
LEMMA LookStep ==
  ASSUME TxInv, tx_look
  PROVE  TxInv'
<1>1. pc = "scan" /\ UNCHANGED <<node, head, tail, mcaHead, batch, burst, nic>>
  BY DEF tx_look, nfVars
<1>n. /\ head \in Nat /\ tail \in Nat /\ mcaHead \in Nat /\ N \in Nat /\ N > 0 /\ MaxNode \in Nat
      /\ head <= mcaHead /\ mcaHead <= tail /\ tail <= head + N /\ tail <= MaxNode
      /\ \A s \in Slots : node[s] \in Recs
  BY Numbers
<1>m. ~InNode
  BY <1>1 DEF InNode
<1>2. CASE node[Slot(mcaHead)].st # "SENT_READY"
  <2>1. pc' = "flush" /\ UNCHANGED <<scache, i>>
    BY <1>2 DEF tx_look
  <2>r. /\ All' = All /\ (\A p \in Ports : Held(p)' = Held(p)) /\ (\A s : Of(s)' = Of(s))
        /\ Once'
    BY <1>1, <2>1, RefsKept DEF TxInv
  <2>m. ~InNode'
    BY <2>1 DEF InNode
  <2>t. Types' /\ Cursors'
    BY <1>1, <2>1, <2>m DEF TxInv, Types, Cursors
  <2>f. Frame' /\ PoolEnough' /\ LastIn'
    BY <1>1, <2>1 DEF TxInv, Frame, FrameLive, PoolEnough, LastIn
  <2>w. Where'
    BY <1>1, <2>r, <1>m DEF TxInv, Where
  <2>k. Counts'
    <3>1. \A k \in head'..(mcaHead' - 1) : Taken(k)'
      BY <1>1, <2>r DEF TxInv, Counts, Taken
    <3> QED BY <3>1, <1>1, <2>m DEF TxInv, Counts, InHand
  <2> QED BY <2>r, <2>t, <2>f, <2>w, <2>k DEF TxInv
<1>3. CASE node[Slot(mcaHead)].st = "SENT_READY"
  <2>1. /\ pc' = "add" /\ i' = 0
        /\ scache' = [num |-> mcaHead, cnt |-> node[Slot(mcaHead)].cnt,
                      port |-> node[Slot(mcaHead)].port]
    BY <1>3 DEF tx_look
  <2>2. Slot(mcaHead) \in Slots /\ mcaHead < tail
    BY <1>3, <1>n, StateSays
  <2>3. node[Slot(mcaHead)] \in Recs
    BY <2>2, <1>n
  <2>r. /\ All' = All /\ (\A p \in Ports : Held(p)' = Held(p)) /\ (\A s : Of(s)' = Of(s))
        /\ Once'
    BY <1>1, <2>1, RefsKept DEF TxInv
  <2>s. /\ scache' \in [num : Nat, cnt : 0..K, port : [Entries -> Ports]]
        /\ scache'.num = mcaHead /\ scache'.cnt = node[Slot(mcaHead)].cnt
        /\ scache'.cnt \in Nat
    BY <2>1, <2>3, <1>n, TxAssumption DEF Recs
  <2>t. Types'
    BY <1>1, <2>1, <2>s, TxAssumption DEF TxInv, Types
  <2>c. Cursors'
    BY <1>1, <2>1, <2>2, <2>s, <1>n DEF TxInv, Cursors
  <2>f. Frame' /\ PoolEnough' /\ LastIn'
    BY <1>1, <2>1 DEF TxInv, Frame, FrameLive, PoolEnough, LastIn
  <2>w. Where'
    BY <1>1, <2>r, <1>m DEF TxInv, Where
  <2>k. Counts'
    <3>1. \A k \in head'..(mcaHead' - 1) : Taken(k)'
      BY <1>1, <2>r DEF TxInv, Counts, Taken
    <3>2. Of(Slot(mcaHead)) = {}
      <4>1. mcaHead \in head..(head + N - 1)
        BY <1>n, <2>2
      <4>2. \A q \in All : q[2][1] < mcaHead /\ q[2][1] \in Nat
        BY <1>m, HeldWindow DEF TxInv, Where
      <4> QED BY <4>1, <4>2, <1>n, OfNode
    <3>3. Of(Slot(mcaHead))' = {} /\ Cardinality(Of(Slot(mcaHead)))' = 0
      BY <3>2, <2>r, <1>1, FS_EmptySet
    <3>4. InHand'
      BY <3>3, <1>1, <2>1, <2>s DEF InHand
    <3> QED BY <3>1, <3>4, <1>1 DEF TxInv, Counts
  <2> QED BY <2>r, <2>t, <2>c, <2>f, <2>w, <2>k DEF TxInv
<1> QED BY <1>2, <1>3

\* It is done with a node: the packets still to be sent are the node's count.
LEMMA MarkStep ==
  ASSUME TxInv, tx_mark
  PROVE  TxInv'
<1> DEFINE x == IF scache.cnt # 0 THEN "TXING" ELSE "SENT_DONE"
           s == Slot(mcaHead)
<1>1. node' = [node EXCEPT ![s].st = x]
  BY DEF tx_mark
<1>2. /\ pc = "add" /\ i = scache.cnt /\ mcaHead' = mcaHead + 1 /\ pc' = "scan"
      /\ UNCHANGED <<head, tail, scache, i, batch, burst, nic>>
  BY DEF tx_mark, nfVars
<1>n. /\ head \in Nat /\ tail \in Nat /\ mcaHead \in Nat /\ N \in Nat /\ N > 0
      /\ head <= mcaHead /\ mcaHead <= tail /\ tail <= head + N /\ scache.cnt \in Nat
      /\ i \in Nat
      /\ \A r \in Slots : node[r] \in Recs /\ node[r].cnt \in Nat
  BY Numbers
<1>m. InNode /\ ~InNode'
  BY <1>2 DEF InNode
<1>3. mcaHead < tail /\ mcaHead \in head..(head + N - 1)
  BY <1>m, InHandHeld DEF TxInv, Cursors
<1>s. s \in Slots
  BY <1>n, SlotType
<1>x. /\ node' \in [Slots -> Recs] /\ node'[s].st = x /\ node'[s].cnt = node[s].cnt
      /\ \A r \in Slots : r # s => node'[r] = node[r]
  <2>1. x \in States
    BY DEF States
  <2> HIDE DEF x, s
  <2>2. PICK y \in States, t \in Slots : y = x /\ t = s
    BY <2>1, <1>s
  <2>3. node' = [node EXCEPT ![t].st = y]
    BY <2>2, <1>1
  <2>4. /\ node' \in [Slots -> Recs]
        /\ node'[t] = [st |-> y, cnt |-> node[t].cnt, port |-> node[t].port]
        /\ \A r \in Slots : r # t => node'[r] = node[r]
    BY <2>3, SetState DEF TxInv
  <2> QED BY <2>2, <2>4
<1> HIDE DEF x, s
<1>r. /\ All' = All /\ (\A p \in Ports : Held(p)' = Held(p)) /\ (\A t : Of(t)' = Of(t))
      /\ Once'
  BY <1>2, RefsKept DEF TxInv
<1>t. Types'
  BY <1>x, <1>2, <1>n DEF TxInv, Types
<1>c. Cursors'
  BY <1>2, <1>n, <1>m, <1>3 DEF TxInv, Cursors
<1>f. Frame' /\ PoolEnough' /\ LastIn'
  BY <1>2 DEF TxInv, Frame, FrameLive, PoolEnough, LastIn
<1>w. Where'
  <2>1. \A q \in All : q[2][1] \in Nat /\ q[2][1] <= mcaHead
    BY HeldWindow
  <2> QED BY <2>1, <1>2, <1>r, <1>n DEF TxInv, Where
<1>o. \A k \in head..(head + N - 1) : k # mcaHead => node'[Slot(k)] = node[Slot(k)]
  <2> TAKE k \in head..(head + N - 1)
  <2>1. k # mcaHead => Slot(k) # s
    BY <1>3, SlotOne DEF TxInv, s
  <2>2. Slot(k) \in Slots
    BY <1>n, SlotType
  <2> QED BY <2>1, <2>2, <1>x
<1>e. /\ node[s].cnt = Cardinality(Of(s))
      /\ scache.cnt = 0 => Of(s) = {} /\ x = "SENT_DONE"
      /\ scache.cnt # 0 => node[s].cnt > 0 /\ x = "TXING"
  <2>1. node[s].cnt = Cardinality(Of(s)) + (scache.cnt - i)
    BY <1>m DEF TxInv, Counts, InHand, s
  <2>2. Cardinality(Of(s)) \in Nat /\ IsFiniteSet(Of(s))
    BY Finite DEF TxInv
  <2>3. node[s].cnt = Cardinality(Of(s))
    BY <2>1, <2>2, <1>2, <1>n
  <2>4. scache.cnt = 0 => Of(s) = {}
    BY <1>m, InHandHeld DEF s
  <2>5. scache.cnt # 0 => Of(s) # {}
    BY <1>m, <1>2, <1>n, InHandHeld DEF s
  <2>6. scache.cnt # 0 => Cardinality(Of(s)) # 0
    BY <2>2, <2>5, FS_EmptySet
  <2> QED BY <2>2, <2>3, <2>4, <2>6 DEF x
<1>k. Counts'
  <2>j. PICK j \in Nat : j = mcaHead
    BY <1>n
  <2>1. Taken(j)'
    BY <2>j, <1>e, <1>x, <1>r, <1>n DEF Taken, s
  <2>2. ASSUME NEW k \in head..(mcaHead - 1) PROVE Taken(k)'
    <3>1. node'[Slot(k)] = node[Slot(k)]
      BY <1>n, <1>o
    <3>2. Taken(k)
      BY DEF TxInv, Counts
    <3> QED BY <3>1, <3>2, <1>r DEF Taken
  <2>3. \A k \in head'..(mcaHead' - 1) : Taken(k)'
    <3>1. \A k \in head'..(mcaHead' - 1) : k \in head..(mcaHead - 1) \/ k = mcaHead
      BY <1>2, <1>n
    <3> QED BY <3>1, <2>j, <2>1, <2>2
  <2>4. \A k \in mcaHead'..(tail' - 1) : node'[Slot(k)].st = "SENT_READY"
    BY <1>2, <1>n, <1>o DEF TxInv, Counts
  <2>5. \A k \in tail'..(head' + N - 1) : node'[Slot(k)].st = "EMPTY"
    BY <1>2, <1>n, <1>o, <1>3 DEF TxInv, Counts
  <2> QED BY <2>3, <2>4, <2>5, <1>m DEF Counts, InHand
<1> QED BY <1>r, <1>t, <1>c, <1>f, <1>w, <1>k DEF TxInv

\* ninf_tx_process returns with empty batches, or is called again.
LEMMA RestStep ==
  ASSUME TxInv, UNCHANGED <<node, head, tail, mcaHead, scache, i, batch, burst, nic>>,
         \/ pc = "idle" /\ pc' = "scan"
         \/ pc = "flush" /\ pc' = "idle" /\ (\A p \in Ports : batch[p] = <<>>)
  PROVE  TxInv'
<1>1. pc \in {"idle", "flush"} /\ pc' \in {"scan", "idle"}
  OBVIOUS
<1>r. /\ All' = All /\ (\A p \in Ports : Held(p)' = Held(p)) /\ (\A s : Of(s)' = Of(s))
      /\ Once'
  BY <1>1, RefsKept DEF TxInv
<1>m. ~InNode /\ ~InNode'
  BY <1>1 DEF InNode
<1>t. Types' /\ Cursors'
  BY <1>1, <1>m DEF TxInv, Types, Cursors
<1>f. Frame' /\ PoolEnough' /\ LastIn'
  BY <1>1 DEF TxInv, Frame, FrameLive, PoolEnough, LastIn
<1>w. Where'
  BY <1>r, <1>m DEF TxInv, Where
<1>k. Counts'
  <2>1. \A k \in head'..(mcaHead' - 1) : Taken(k)'
    BY <1>r DEF TxInv, Counts, Taken
  <2> QED BY <2>1, <1>m DEF TxInv, Counts, InHand
<1> QED BY <1>r, <1>t, <1>f, <1>w, <1>k DEF TxInv

-----------------------------------------------------------------------------
(* The buffers of the pool.                                                *)

\* A ring holds no more packets than its nodes have entries.
LEMMA RingHolds ==
  ASSUME TxInv
  PROVE  IsFiniteSet(All) /\ Cardinality(All) \in Nat /\ Cardinality(All) <= N * K
<1> DEFINE f == [q \in All |-> <<q[1], q[2][2]>>]
<1>n. N \in Nat /\ N > 0 /\ K \in Nat /\ K > 0
  BY TxAssumption
<1>1. \A q \in All : <<q[1], q[2][2]>> \in Slots \X Entries
  BY RefTypes DEF TxInv, Pkts
<1>2. ASSUME NEW q \in All, NEW r \in All, q[1] = r[1], q[2][2] = r[2][2]
      PROVE  q = r
  <2>1. q \in Slots \X Pkts /\ r \in Slots \X Pkts
    BY RefTypes DEF TxInv
  <2>2. Slot(q[2][1]) = Slot(r[2][1])
    BY <1>2 DEF TxInv, Where
  <2>3. q[2][1] = r[2][1]
    BY <2>2, HeldWindow, SlotOne DEF TxInv
  <2> QED BY <2>1, <2>3, <1>2 DEF Pkts
<1>3. f \in Injection(All, Slots \X Entries)
  BY <1>1, <1>2 DEF Injection, IsInjective
<1>4. /\ IsFiniteSet(Slots) /\ IsFiniteSet(Entries)
      /\ Cardinality(Slots) = N /\ Cardinality(Entries) = K
  <2>1. /\ IsFiniteSet(0..(N - 1)) /\ Cardinality(0..(N - 1)) = N
    BY <1>n, FS_Interval
  <2>2. /\ IsFiniteSet(0..(K - 1)) /\ Cardinality(0..(K - 1)) = K
    BY <1>n, FS_Interval
  <2> QED BY <2>1, <2>2 DEF Slots, Entries
<1>5. IsFiniteSet(Slots \X Entries) /\ Cardinality(Slots \X Entries) = N * K
  BY <1>4, FS_Product
<1> HIDE DEF f
<1>6. IsFiniteSet(All) /\ Cardinality(All) <= N * K
  BY <1>3, <1>5, FS_Injection
<1> QED BY <1>6, FS_CardinalityType

\* So a pool of that size has an mbuf for every entry of a batch.
LEMMA PoolHolds ==
  ASSUME TxInv, pc \notin {"burst", "abort"}, NEW p \in Ports
  PROVE  Cardinality(nic) + Len(batch[p]) <= N * K
<1> DEFINE f == [b \in nic |-> Ref(b)]
           L == Len(batch[p])
           g == [n \in 1..L |-> Ref(batch[p][n])]
<1>1. L \in Nat /\ IsFiniteSet(nic)
  BY DEF TxInv, Types
<1>2. NicRefs \cap Held(p) = {} /\ NicRefs \cup Held(p) \subseteq All
  BY Outside DEF TxInv, Once, NicBatch
<1>3. IsFiniteSet(All) /\ Cardinality(All) \in Nat /\ Cardinality(All) <= N * K
  BY RingHolds
<1>4. /\ IsFiniteSet(NicRefs) /\ IsFiniteSet(Held(p))
      /\ Cardinality(NicRefs) \in Nat /\ Cardinality(Held(p)) \in Nat
  BY <1>2, <1>3, FS_Subset, FS_CardinalityType
<1>5. Cardinality(NicRefs) + Cardinality(Held(p)) <= Cardinality(All)
  <2>1. Cardinality(NicRefs \cup Held(p)) <= Cardinality(All)
    BY <1>2, <1>3, FS_Subset
  <2>2. Cardinality(NicRefs \cup Held(p))
          = Cardinality(NicRefs) + Cardinality(Held(p)) - Cardinality(NicRefs \cap Held(p))
    BY <1>4, FS_Union
  <2>3. Cardinality(NicRefs \cap Held(p)) = 0
    BY <1>2, FS_EmptySet
  <2> QED BY <2>1, <2>2, <2>3, <1>4
<1>6. f \in Injection(nic, NicRefs)
  <2>1. \A b, c \in nic : Ref(b) = Ref(c) => b = c
    BY DEF TxInv, Once, NicOnce, Ref
  <2> QED BY <2>1 DEF Injection, IsInjective, NicRefs
<1>7. g \in Injection(1..L, Held(p))
  <2>1. \A m, n \in 1..L : Ref(batch[p][m]) = Ref(batch[p][n]) => m = n
    BY DEF TxInv, Once, BatchOnce, Ref
  <2> QED BY <2>1 DEF Injection, IsInjective, Held
<1> HIDE DEF f, g
<1>8. Cardinality(nic) <= Cardinality(NicRefs) /\ Cardinality(nic) \in Nat
  BY <1>1, <1>4, <1>6, FS_Injection, FS_CardinalityType
<1>9. L <= Cardinality(Held(p))
  <2>1. Cardinality(1..L) <= Cardinality(Held(p))
    BY <1>4, <1>7, FS_Injection
  <2>2. Cardinality(1..L) = L
    <3> HIDE DEF L
    <3>1. Cardinality(1..L) = IF 1 > L THEN 0 ELSE L - 1 + 1
      BY <1>1, FS_Interval
    <3> QED BY <3>1, <1>1
  <2> QED BY <2>1, <2>2
<1> QED BY <1>1, <1>3, <1>4, <1>5, <1>8, <1>9, TxAssumption

-----------------------------------------------------------------------------
(* Steps that move packets.                                                *)

\* The counts depend on the packets that are held, not on who holds them.
LEMMA CountsKept ==
  ASSUME Counts, UNCHANGED <<node, head, tail, mcaHead, scache, i>>,
         All' = All, InNode' <=> InNode
  PROVE  Counts'
<1>1. \A s : Of(s)' = Of(s)
  BY DEF Of
<1>2. \A k : Taken(k) => Taken(k)'
  BY <1>1 DEF Taken
<1>3. InHand'
  BY <1>1 DEF Counts, InHand
<1> QED BY <1>2, <1>3 DEF Counts

\* A function on 1..l is a sequence of length l.
LEMMA SeqOf ==
  ASSUME NEW S, NEW l \in Nat, NEW f \in [1..l -> S]
  PROVE  f \in Seq(S) /\ Len(f) = l
  OBVIOUS

\* A batch becomes the mbufs of a burst.
LEMMA SendStep ==
  ASSUME TxInv, NEW p \in Ports, NEW back \in {"add", "flush"}, pc = back,
         back = "add" => i < scache.cnt, SendBurst(p, back),
         UNCHANGED <<node, head, tail, mcaHead, scache, i, batch, nic>>
  PROVE  TxInv'
<1> DEFINE e    == batch[p]
           left == [n \in 1..Len(e) |->
                      Mbuf(e[n].rn, <<scache.num, e[n].meta>>, e[n].phys)]
<1>1. /\ pc' = IF Cardinality(nic) + Len(e) <= Pool THEN "burst" ELSE "abort"
      /\ burst' = [port |-> p, back |-> back, left |-> left]
  BY DEF SendBurst
<1>p. pc' \in {"burst", "abort"} /\ pc \notin {"burst", "abort"}
  BY <1>1
<1>b. burst'.port = p /\ burst'.back = back /\ burst'.left = left
  BY <1>1
<1>2. /\ e \in Seq(Ent) /\ Len(e) \in Nat
      /\ \A n \in 1..Len(e) : e[n] \in Ent
  BY DEF TxInv, Types
<1>3. /\ left \in Seq(Mbufs) /\ Len(left) = Len(e)
      /\ \A n \in 1..Len(e) : left[n].rn = e[n].rn /\ left[n].phys = e[n].phys
  <2>1. ASSUME NEW n \in 1..Len(e)
        PROVE  Mbuf(e[n].rn, <<scache.num, e[n].meta>>, e[n].phys) \in Mbufs
    <3>1. e[n].rn \in Slots /\ e[n].meta \in Entries /\ e[n].phys \in Pkts
      BY <1>2 DEF Ent
    <3>2. MaxNode > 0
      BY <3>1, TxAssumption DEF Pkts
    <3>3. scache.num \in Nat /\ MaxNode \in Nat
      BY Numbers
    <3>4. scache.num \in 0..(MaxNode - 1)
      BY <3>2, <3>3 DEF TxInv, Cursors
    <3> QED BY <3>1, <3>4 DEF Mbuf, Mbufs, Pkts
  <2>2. left \in [1..Len(e) -> Mbufs]
    BY <2>1
  <2>3. left \in Seq(Mbufs) /\ Len(left) = Len(e)
    <3> HIDE DEF left
    <3> QED BY <2>2, <1>2, SeqOf
  <2> QED BY <2>3 DEF Mbuf
<1> HIDE DEF left
<1>r. /\ NicRefs' = NicRefs /\ LeftRefs' = Held(p) /\ \A r : Held(r)' = Held(r)
  BY <1>b, <1>3 DEF NicRefs, LeftRefs, Held, Ref
<1>i. Idle' = IF pc' = "burst" THEN Ports \ {p} ELSE Ports
  BY <1>b, <1>p DEF Idle
<1>o. Idle = Ports /\ All = NicRefs \cup UNION {Held(r) : r \in Ports}
  BY <1>p, Outside
<1>a. All' = All
  <2>1. All' = NicRefs \cup Held(p) \cup UNION {Held(r) : r \in Idle'}
    BY <1>r DEF All
  <2> QED BY <2>1, <1>o, <1>i
<1>m. InNode' <=> InNode
  BY <1>p, <1>b DEF InNode
<1>t. Types'
  <2>1. burst' \in Bursts
    BY <1>1, <1>3 DEF Bursts
  <2> QED BY <2>1, <1>p DEF TxInv, Types
<1>c. Cursors'
  BY <1>m DEF TxInv, Cursors
<1>f. Frame' /\ LastIn'
  BY <1>p, <1>b DEF Frame, FrameLive, LastIn
<1>l. PoolEnough'
  <2>1. Cardinality(nic) + Len(e) <= N * K
    BY <1>p, PoolHolds
  <2>2. Cardinality(nic) \in Nat /\ N * K \in Nat /\ Pool \in Nat
    BY FS_CardinalityType, TxAssumption DEF TxInv, Types
  <2> QED BY <2>1, <2>2, <1>1, <1>2 DEF PoolEnough
<1>w. Where'
  BY <1>a, <1>m DEF TxInv, Where
<1>y. Once'
  <2>1. NicOnce' /\ BatchOnce'
    BY DEF TxInv, Once, NicOnce, BatchOnce
  <2>2. LeftOnce'
    <3>1. \A m, n \in 1..Len(e) : e[m].phys = e[n].phys => m = n
      BY DEF TxInv, Once, BatchOnce
    <3> QED BY <3>1, <1>b, <1>3 DEF LeftOnce
  <2>3. NicLeft' /\ NicBatch'
    BY <1>r, <1>i, <1>o DEF TxInv, Once, NicBatch, NicLeft
  <2>4. LeftBatch'
    <3>1. ASSUME NEW r \in Ports, r # p PROVE Held(p) \cap Held(r) = {}
      <4>1. \A m \in 1..Len(batch[p]), n \in 1..Len(batch[r]) : batch[p][m].phys # batch[r][n].phys
        BY <3>1 DEF TxInv, Once, BatchOnce
      <4> QED BY <4>1 DEF Held, Ref
    <3> QED BY <3>1, <1>r, <1>i DEF LeftBatch
  <2> QED BY <2>1, <2>2, <2>3, <2>4 DEF Once
<1>k. Counts'
  BY <1>a, <1>m, CountsKept DEF TxInv
<1> QED BY <1>t, <1>c, <1>f, <1>l, <1>w, <1>y, <1>k DEF TxInv

\* The NIC takes the first mbufs of a burst.
LEMMA BurstStep ==
  ASSUME TxInv, rte_eth_tx_burst
  PROVE  TxInv'
<1> DEFINE left == burst.left
           L    == Len(left)
<1>0. PICK P \in Ports : P = burst.port
  BY DEF TxInv, Types, Bursts
<1>1. PICK n \in 1..L :
        /\ nic' = nic \cup {left[m] : m \in 1..n}
        /\ burst' = [burst EXCEPT !.left = SubSeq(@, n + 1, Len(@))]
        /\ IF n = L THEN pc' = burst.back /\ batch' = [batch EXCEPT ![P] = <<>>]
                    ELSE UNCHANGED <<pc, batch>>
  BY <1>0 DEF rte_eth_tx_burst
<1>2. pc = "burst" /\ UNCHANGED <<node, head, tail, mcaHead, scache, i>>
  BY DEF rte_eth_tx_burst, nfVars
<1>3. /\ left \in Seq(Mbufs) /\ L \in Nat /\ P \in Ports /\ burst.back \in {"add", "flush"}
      /\ burst \in Bursts /\ n \in Nat /\ n <= L /\ n > 0
      /\ batch \in [Ports -> Seq(Ent)]
      /\ \A m \in 1..L : left[m] \in Mbufs
  <2>1. burst \in Bursts /\ burst.back # "scan" /\ batch \in [Ports -> Seq(Ent)]
    BY <1>2 DEF TxInv, Types, Frame
  <2>2. left \in Seq(Mbufs) /\ P \in Ports /\ burst.back \in {"add", "flush", "scan"}
    BY <2>1 DEF Bursts
  <2> QED BY <2>1, <2>2
<1>b. /\ burst'.port = P /\ burst'.back = burst.back /\ burst' \in Bursts
      /\ burst'.left = SubSeq(left, n + 1, L)
      /\ Len(burst'.left) = L - n
      /\ \A m \in 1..(L - n) : burst'.left[m] = left[m + n]
  <2>1. PICK w : w = SubSeq(left, n + 1, L)
    OBVIOUS
  <2>2. burst' = [burst EXCEPT !.left = w]
    BY <2>1, <1>1
  <2>3. w \in Seq(Mbufs) /\ Len(w) = L - n /\ \A m \in 1..(L - n) : w[m] = left[m + n]
    BY <2>1, <1>3
  <2>4. burst' = [port |-> P, left |-> w, back |-> burst.back]
    BY <2>2, <1>0, <1>3 DEF Bursts
  <2> QED BY <2>1, <2>3, <2>4, <1>3 DEF Bursts
<1>p. /\ n = L => /\ pc' = burst.back /\ pc' \in {"add", "flush"} /\ batch'[P] = <<>>
      /\ n # L => pc' = "burst" /\ batch' = batch
      /\ \A p \in Ports \ {P} : batch'[p] = batch[p]
      /\ batch' \in [Ports -> Seq(Ent)] /\ \A p \in Ports : Len(batch'[p]) <= B
  <2>1. n = L => pc' = burst.back /\ batch' = [batch EXCEPT ![P] = <<>>]
    BY <1>1
  <2>2. n # L => pc' = pc /\ batch' = batch
    BY <1>1
  <2>3. B \in Nat /\ Len(<<>>) = 0 /\ <<>> \in Seq(Ent) /\ \A p \in Ports : Len(batch[p]) <= B
    BY TxAssumption DEF TxInv, Types
  <2>4. CASE n = L
    <3>1. batch'[P] = <<>> /\ \A p \in Ports \ {P} : batch'[p] = batch[p]
      BY <2>1, <2>4, <1>3
    <3>2. batch' \in [Ports -> Seq(Ent)]
      BY <2>1, <2>3, <2>4, <1>3
    <3>3. \A p \in Ports : Len(batch'[p]) <= B
      BY <3>1, <2>3
    <3> QED BY <3>1, <3>2, <3>3, <2>1, <2>4, <1>3
  <2>5. CASE n # L
    BY <2>2, <2>3, <2>5, <1>2, <1>3
  <2> QED BY <2>4, <2>5
<1>h. \A p \in Ports \ {P} : Held(p)' = Held(p)
  BY <1>p DEF Held
<1> DEFINE taken == {Ref(left[m]) : m \in 1..n}
<1>r. /\ NicRefs' = NicRefs \cup taken
      /\ LeftRefs' = {Ref(left[m]) : m \in (n + 1)..L}
      /\ LeftRefs = taken \cup LeftRefs' /\ taken \cap LeftRefs' = {}
  <2>1. NicRefs' = NicRefs \cup taken
    BY <1>1 DEF NicRefs
  <2>2. LeftRefs' = {Ref(left[m]) : m \in (n + 1)..L}
    <3>1. LeftRefs' = {Ref(burst'.left[m]) : m \in 1..(L - n)}
      BY <1>b DEF LeftRefs
    <3>2. \A m \in 1..(L - n) : m + n \in (n + 1)..L /\ burst'.left[m] = left[m + n]
      BY <1>b, <1>3
    <3>3. \A m \in (n + 1)..L : m - n \in 1..(L - n) /\ burst'.left[m - n] = left[m]
      BY <1>b, <1>3
    <3> QED BY <3>1, <3>2, <3>3
  <2>3. LeftRefs = taken \cup {Ref(left[m]) : m \in (n + 1)..L}
    BY <1>3 DEF LeftRefs
  <2>4. taken \cap {Ref(left[m]) : m \in (n + 1)..L} = {}
    <3>1. \A l \in 1..n, m \in (n + 1)..L : l \in 1..L /\ m \in 1..L /\ l # m
      BY <1>3
    <3>2. \A l \in 1..n, m \in (n + 1)..L : left[l].phys # left[m].phys
      BY <3>1 DEF TxInv, Once, LeftOnce
    <3> QED BY <3>2 DEF Ref
  <2> QED BY <2>1, <2>2, <2>3, <2>4
<1> HIDE DEF taken
<1>i. /\ Idle = Ports \ {P}
      /\ n # L => Idle' = Ports \ {P}
      /\ n = L => Idle' = Ports /\ Held(P)' = {} /\ LeftRefs' = {}
  <2>1. Idle = Ports \ {P}
    BY <1>0, <1>2 DEF Idle
  <2>2. n # L => Idle' = Ports \ {P}
    BY <1>p, <1>b DEF Idle
  <2>3. n = L => Idle' = Ports
    BY <1>p, <1>b DEF Idle
  <2>4. n = L => Held(P)' = {}
    BY <1>p, <1>b DEF Held
  <2>5. n = L => LeftRefs' = {}
    BY <1>b, <1>3 DEF LeftRefs
  <2> QED BY <2>1, <2>2, <2>3, <2>4, <2>5
<1>a. All' = All
  <2>1. All = NicRefs \cup LeftRefs \cup UNION {Held(p) : p \in Ports \ {P}}
    BY <1>i DEF All
  <2>2. All' = NicRefs' \cup LeftRefs' \cup UNION {Held(p)' : p \in Ports \ {P}}
    <3>1. CASE n # L
      BY <3>1, <1>i DEF All
    <3>2. CASE n = L
      <4>1. All' = NicRefs' \cup LeftRefs' \cup UNION {Held(p)' : p \in Ports}
        BY <3>2, <1>i DEF All
      <4>2. UNION {Held(p)' : p \in Ports} = UNION {Held(p)' : p \in Ports \ {P}}
        BY <3>2, <1>i, <1>3
      <4> QED BY <4>1, <4>2
    <3> QED BY <3>1, <3>2
  <2>3. UNION {Held(p)' : p \in Ports \ {P}} = UNION {Held(p) : p \in Ports \ {P}}
    BY <1>h
  <2> QED BY <2>1, <2>2, <2>3, <1>r
<1>m. InNode' <=> InNode
  BY <1>2, <1>p, <1>b, <1>3 DEF InNode
<1>t. Types'
  <2>1. nic' \subseteq Mbufs
    BY <1>1, <1>3 DEF TxInv, Types
  <2>2. IsFiniteSet(nic')
    <3>1. IsFiniteSet(1..n)
      BY <1>3, FS_Interval
    <3> DEFINE T == {left[m] : m \in 1..n}
               f == [m \in 1..n |-> left[m]]
    <3>2. f \in Surjection(1..n, T)
      BY DEF Surjection
    <3> HIDE DEF f
    <3>3. IsFiniteSet(T)
      BY <3>1, <3>2, FS_Surjection
    <3>4. IsFiniteSet(nic) /\ nic' = nic \cup T
      BY <1>1 DEF TxInv, Types
    <3> HIDE DEF T
    <3> QED BY <3>3, <3>4, FS_Union
  <2> QED BY <2>1, <2>2, <1>b, <1>p, <1>2, <1>3 DEF TxInv, Types
<1>c. Cursors'
  BY <1>m, <1>2 DEF TxInv, Cursors
<1>f. Frame' /\ LastIn' /\ PoolEnough'
  <2>1. burst.back = "add" => i < scache.cnt
    BY <1>2 DEF TxInv, Frame
  <2>2. n = L => burst'.left = <<>>
    BY <1>b, <1>3
  <2>3. i \in Nat /\ scache.cnt \in Nat
    BY Numbers
  <2>4. pc' \in {"burst", "add", "flush"} /\ (pc' # "burst" => n = L /\ pc' = burst.back)
    BY <1>p
  <2>5. Frame'
    BY <2>1, <2>2, <2>4, <1>2, <1>b, <1>3 DEF Frame, FrameLive
  <2>6. LastIn'
    BY <2>1, <2>3, <2>4, <1>2 DEF LastIn
  <2> QED BY <2>4, <2>5, <2>6 DEF PoolEnough
<1>w. Where'
  BY <1>a, <1>m, <1>2 DEF TxInv, Where
<1>k. Counts'
  BY <1>a, <1>m, <1>2, CountsKept DEF TxInv
<1>y. Once'
  <2>1. BatchOnce'
    <3>1. \A p \in Ports : batch'[p] = batch[p] \/ Len(batch'[p]) = 0
      BY <1>p
    <3> QED BY <3>1, <1>p DEF TxInv, Once, BatchOnce
  <2>2. LeftOnce'
    <3>1. \A l, m \in 1..L : left[l].phys = left[m].phys => l = m
      BY DEF TxInv, Once, LeftOnce
    <3>2. \A m \in 1..(L - n) : m + n \in 1..L
      BY <1>3
    <3>3. ASSUME NEW l \in 1..(L - n), NEW m \in 1..(L - n),
                 burst'.left[l].phys = burst'.left[m].phys
          PROVE  l = m
      <4>1. left[l + n].phys = left[m + n].phys
        BY <3>3, <1>b
      <4>2. l + n = m + n
        BY <4>1, <3>1, <3>2
      <4> QED BY <4>2, <1>3
    <3> QED BY <3>3, <1>b DEF LeftOnce
  <2>3. NicOnce'
    <3>1. \A b \in nic, m \in 1..L : b.phys = left[m].phys => FALSE
      <4> SUFFICES ASSUME NEW b \in nic, NEW m \in 1..L, b.phys = left[m].phys PROVE FALSE
        OBVIOUS
      <4>1. Ref(b) \in All /\ Ref(left[m]) \in All /\ Ref(b) \in NicRefs /\ Ref(left[m]) \in LeftRefs
        BY DEF All, NicRefs, LeftRefs
      <4>2. b.rn = Slot(b.phys[1]) /\ left[m].rn = Slot(left[m].phys[1])
        BY <4>1 DEF TxInv, Where, Ref
      <4>3. Ref(b) = Ref(left[m])
        BY <4>2 DEF Ref
      <4> QED BY <4>1, <4>3 DEF TxInv, Once, NicLeft
    <3>2. \A l, m \in 1..L : left[l].phys = left[m].phys => l = m
      BY DEF TxInv, Once, LeftOnce
    <3>3. \A b, c \in nic : b.phys = c.phys => b = c
      BY DEF TxInv, Once, NicOnce
    <3>4. \A b \in nic' : b \in nic \/ \E m \in 1..L : b = left[m]
      BY <1>1, <1>3
    <3> QED BY <3>1, <3>2, <3>3, <3>4 DEF NicOnce
  <2>4. NicLeft'
    BY <1>r DEF TxInv, Once, NicLeft
  <2>5. /\ \A p \in Ports \ {P} : NicRefs' \cap Held(p)' = {} /\ LeftRefs' \cap Held(p)' = {}
    BY <1>r, <1>h, <1>i, <1>2 DEF TxInv, Once, NicBatch, LeftBatch
  <2>6. NicBatch'
    BY <2>5, <1>i, <1>3 DEF NicBatch
  <2>7. LeftBatch'
    BY <2>5, <1>i, <1>p, <1>3 DEF LeftBatch
  <2> QED BY <2>1, <2>2, <2>3, <2>4, <2>6, <2>7 DEF Once
<1> QED BY <1>t, <1>c, <1>f, <1>w, <1>k, <1>y DEF TxInv

\* A packet is known by its physical address.
LEMMA RefByPhys ==
  ASSUME TxInv
  PROVE  /\ \A q, r \in All : q[2] = r[2] => q = r
         /\ \A b \in nic : Ref(b) \in All /\ Ref(b)[1] = b.rn /\ Ref(b)[2] = b.phys
<1>1. \A q, r \in All : q[2] = r[2] => q = r
  <2>1. \A q \in All : q = <<Slot(q[2][1]), q[2]>>
    BY HeldWindow
  <2> QED BY <2>1
<1> QED BY <1>1 DEF All, NicRefs, Ref

\* A packet of the node in hand is added to the batch of its port.
LEMMA AddStep ==
  ASSUME TxInv, ninf_tx_add_pkt
  PROVE  TxInv'
<1>1. /\ pc = "add" /\ i < scache.cnt /\ UNCHANGED <<node, head, tail, mcaHead, scache, nic>>
  BY DEF ninf_tx_add_pkt, nfVars
<1>n. /\ head \in Nat /\ tail \in Nat /\ mcaHead \in Nat /\ N \in Nat /\ N > 0 /\ K \in Nat
      /\ i \in Nat /\ scache.cnt \in Nat /\ scache.cnt <= K /\ B \in Nat
      /\ head <= mcaHead /\ mcaHead <= tail /\ tail <= head + N /\ tail <= MaxNode
      /\ MaxNode \in Nat
  BY Numbers
<1>m. InNode /\ mcaHead < tail /\ scache.num = mcaHead
  BY <1>1 DEF TxInv, InNode, Cursors
<1>2. i \in Entries /\ <<mcaHead, i>> \in Pkts /\ Slot(mcaHead) \in Slots
  BY <1>1, <1>n, <1>m, SlotType DEF Entries, Pkts
<1>3. PICK p \in Ports : p = scache.port[i]
  BY <1>2 DEF TxInv, Types
<1>4. CASE BatchFull(p)
  <2>1. SendBurst(p, "add") /\ UNCHANGED <<i, batch>>
    BY <1>3, <1>4 DEF ninf_tx_add_pkt
  <2> QED BY <2>1, <1>1, SendStep
<1>5. CASE ~BatchFull(p)
  <2> DEFINE e   == [rn |-> Slot(mcaHead), meta |-> i, phys |-> <<mcaHead, i>>]
             New == <<Slot(mcaHead), <<mcaHead, i>>>>
  <2>1. batch' = [batch EXCEPT ![p] = Append(@, e)] /\ i' = i + 1 /\ UNCHANGED <<pc, burst>>
    BY <1>3, <1>5, <1>m DEF ninf_tx_add_pkt
  <2>2. PICK a : a = e
    OBVIOUS
  <2>3. PICK x : x = New
    OBVIOUS
  <2>4. a \in Ent /\ Ref(a) = x /\ a.phys = x[2] /\ x[1] = Slot(mcaHead) /\ x[2][1] = mcaHead
        /\ x[2][2] = i /\ x[2] = <<mcaHead, i>>
    BY <2>2, <2>3, <1>2 DEF Ent, Ref
  <2> HIDE DEF e, New
  <2>5. /\ batch' = [batch EXCEPT ![p] = Append(batch[p], a)]
        /\ batch \in [Ports -> Seq(Ent)] /\ \A r \in Ports : batch[r] \in Seq(Ent) /\ Len(batch[r]) \in Nat
    BY <2>1, <2>2 DEF TxInv, Types
  <2>6. Len(batch[p]) < B
    BY <1>5, <1>n, <2>5 DEF BatchFull, TxInv, Types
  <2>b. /\ batch' \in [Ports -> Seq(Ent)]
        /\ \A r \in Ports \ {p} : batch'[r] = batch[r]
        /\ Len(batch'[p]) = Len(batch[p]) + 1
        /\ \A m \in 1..Len(batch[p]) : batch'[p][m] = batch[p][m]
        /\ batch'[p][Len(batch[p]) + 1] = a
    <3>1. PICK w : w = Append(batch[p], a)
      OBVIOUS
    <3>2. /\ w \in Seq(Ent) /\ Len(w) = Len(batch[p]) + 1 /\ w[Len(batch[p]) + 1] = a
          /\ \A m \in 1..Len(batch[p]) : w[m] = batch[p][m]
      BY <3>1, <2>4, <2>5
    <3>3. batch' = [batch EXCEPT ![p] = w]
      BY <3>1, <2>5
    <3> QED BY <3>2, <3>3, <2>5
  <2>h. /\ Held(p)' = Held(p) \cup {x} /\ \A r \in Ports \ {p} : Held(r)' = Held(r)
    <3> DEFINE l == Len(batch[p])
    <3>1. Held(p)' = {Ref(batch'[p][m]) : m \in 1..(l + 1)}
      BY <2>b DEF Held
    <3>2. {Ref(batch'[p][m]) : m \in 1..(l + 1)}
            = {Ref(batch'[p][m]) : m \in 1..l} \cup {Ref(batch'[p][l + 1])}
      <4>1. l \in Nat
        BY <2>5
      <4> HIDE DEF l
      <4> QED BY <4>1
    <3>3. {Ref(batch'[p][m]) : m \in 1..l} = Held(p)
      BY <2>b DEF Held
    <3>4. Held(p)' = Held(p) \cup {x}
      <4>1. Ref(batch'[p][l + 1]) = x
        BY <2>b, <2>4
      <4> HIDE DEF l
      <4> QED BY <3>1, <3>2, <3>3, <4>1
    <3>5. \A r \in Ports \ {p} : Held(r)' = Held(r)
      BY <2>b DEF Held
    <3> QED BY <3>4, <3>5
  <2>o. /\ Idle = Ports /\ LeftRefs = {} /\ All = NicRefs \cup UNION {Held(r) : r \in Ports}
        /\ burst.left = <<>>
    BY <1>1, Outside
  <2>r. NicRefs' = NicRefs /\ LeftRefs' = {} /\ Idle' = Ports
    BY <1>1, <2>1, <2>o DEF NicRefs, LeftRefs, Idle
  <2>a. All' = All \cup {x}
    <3>1. \A q : q \in All' <=> q \in NicRefs \/ \E r \in Ports : q \in Held(r)'
      BY <2>r DEF All
    <3>2. \A q : q \in All <=> q \in NicRefs \/ \E r \in Ports : q \in Held(r)
      BY <2>o
    <3>3. \A q : (\E r \in Ports : q \in Held(r)') <=> q = x \/ \E r \in Ports : q \in Held(r)
      <4>1. \A r \in Ports : Held(r)' = IF r = p THEN Held(r) \cup {x} ELSE Held(r)
        BY <2>h
      <4> QED BY <4>1
    <3> QED BY <3>1, <3>2, <3>3
  <2>x. x \notin All
    BY <2>4, <1>n DEF TxInv, Where
  <2>m. InNode'
    BY <1>1, <2>1 DEF InNode
  <2>t. Types'
    <3>1. i' \in 0..K
      BY <1>1, <1>n, <2>1
    <3>2. \A r \in Ports : Len(batch'[r]) <= B
      <4>1. Len(batch'[p]) <= B
        BY <2>b, <2>6, <2>5, <1>n
      <4> QED BY <4>1, <2>b DEF TxInv, Types
    <3> QED BY <3>1, <3>2, <2>b, <2>1, <1>1 DEF TxInv, Types
  <2>c. Cursors'
    BY <1>1, <1>n, <1>m, <2>1 DEF TxInv, Cursors
  <2>f. Frame' /\ PoolEnough'
    BY <1>1, <2>1, <2>o DEF TxInv, Frame, FrameLive, PoolEnough
  <2>g. LastIn'
    <3>1. i' - 1 = i
      BY <2>1, <1>n
    <3>2. x = <<Slot(mcaHead'), <<mcaHead', i' - 1>>>> /\ x \in Held(p)'
      BY <3>1, <2>3, <2>h, <1>1 DEF New
    <3> QED BY <3>2 DEF LastIn
  <2>w. Where'
    <3> SUFFICES ASSUME NEW q \in All'
                 PROVE  /\ q[1] = Slot(q[2][1]) /\ head <= q[2][1]
                        /\ q[2][1] < mcaHead \/ (q[2][1] = mcaHead /\ q[2][2] < i + 1)
      BY <1>1, <2>1, <2>m DEF Where
    <3>1. CASE q = x
      BY <3>1, <2>4, <1>n
    <3>2. CASE q \in All
      <4>1. q[2][2] \in Nat
        BY <3>2, HeldWindow
      <4> QED BY <3>2, <4>1, <1>n DEF TxInv, Where
    <3> QED BY <3>1, <3>2, <2>a
  <2>y. Once'
    <3>1. NicOnce' /\ LeftOnce' /\ NicLeft' /\ LeftBatch'
      BY <1>1, <2>1, <2>r, <2>o DEF TxInv, Once, NicOnce, LeftOnce, NicLeft, LeftBatch
    <3>2. NicBatch'
      <4>1. x \notin NicRefs
        BY <2>x, <2>o
      <4>2. \A r \in Ports : NicRefs \cap Held(r) = {}
        BY <2>o DEF TxInv, Once, NicBatch
      <4> QED BY <4>1, <4>2, <2>h, <2>r DEF NicBatch
    <3>3. BatchOnce'
      <4>1. \A r \in Ports : \A m \in 1..Len(batch[r]) : batch[r][m].phys # a.phys
        <5> SUFFICES ASSUME NEW r \in Ports, NEW m \in 1..Len(batch[r]), batch[r][m].phys = a.phys
                     PROVE  FALSE
          OBVIOUS
        <5>1. Ref(batch[r][m]) \in All
          BY <2>o DEF Held
        <5>2. batch[r][m].rn = Slot(batch[r][m].phys[1])
          BY <5>1 DEF TxInv, Where, Ref
        <5>3. Ref(batch[r][m]) = x
          BY <5>2, <2>4 DEF Ref
        <5> QED BY <5>1, <5>3, <2>x
      <4>2. \A r, s \in Ports : \A m \in 1..Len(batch[r]), n \in 1..Len(batch[s]) :
              batch[r][m].phys = batch[s][n].phys => r = s /\ m = n
        BY DEF TxInv, Once, BatchOnce
      <4>3. \A r \in Ports : \A m \in 1..Len(batch'[r]) :
              \/ m \in 1..Len(batch[r]) /\ batch'[r][m] = batch[r][m]
              \/ r = p /\ m = Len(batch[p]) + 1 /\ batch'[r][m] = a
        <5> TAKE r \in Ports
        <5>1. CASE r # p
          BY <5>1, <2>b
        <5>2. CASE r = p
          <6>1. \A m \in 1..(Len(batch[p]) + 1) : m \in 1..Len(batch[p]) \/ m = Len(batch[p]) + 1
            BY <2>5
          <6> QED BY <5>2, <6>1, <2>b
        <5> QED BY <5>1, <5>2
      <4>4. ASSUME NEW r \in Ports, NEW s \in Ports, NEW m \in 1..Len(batch'[r]),
                   NEW n \in 1..Len(batch'[s]), batch'[r][m].phys = batch'[s][n].phys
            PROVE  r = s /\ m = n
        <5>1. CASE m \in 1..Len(batch[r]) /\ batch'[r][m] = batch[r][m]
          <6>1. batch'[s][n] # a
            BY <5>1, <4>1, <4>4
          <6>2. n \in 1..Len(batch[s]) /\ batch'[s][n] = batch[s][n]
            BY <6>1, <4>3
          <6> QED BY <5>1, <6>2, <4>2, <4>4
        <5>2. CASE r = p /\ m = Len(batch[p]) + 1 /\ batch'[r][m] = a
          <6>1. ~(n \in 1..Len(batch[s]) /\ batch'[s][n] = batch[s][n])
            BY <5>2, <4>1, <4>4
          <6>2. s = p /\ n = Len(batch[p]) + 1
            BY <6>1, <4>3
          <6> QED BY <5>2, <6>2
        <5> QED BY <5>1, <5>2, <4>3
      <4> QED BY <4>4 DEF BatchOnce
    <3> QED BY <3>1, <3>2, <3>3 DEF Once
  <2>k. Counts'
    <3>1. \A s : s # Slot(mcaHead) => Of(s)' = Of(s)
      BY <2>a, <2>4 DEF Of
    <3>2. Of(Slot(mcaHead))' = Of(Slot(mcaHead)) \cup {x} /\ x \notin Of(Slot(mcaHead))
      BY <2>a, <2>x, <2>4, <1>1 DEF Of
    <3>3. Cardinality(Of(Slot(mcaHead)))' = Cardinality(Of(Slot(mcaHead))) + 1
      <4>1. IsFiniteSet(Of(Slot(mcaHead)))
        BY Finite DEF TxInv
      <4> QED BY <3>2, <4>1, FS_AddElement
    <3>4. Cardinality(Of(Slot(mcaHead))) \in Nat
      BY Finite DEF TxInv
    <3>5. InHand'
      <4>1. node[Slot(mcaHead)].cnt = Cardinality(Of(Slot(mcaHead))) + (scache.cnt - i)
        BY <1>m DEF TxInv, Counts, InHand
      <4> QED BY <4>1, <3>3, <3>4, <1>1, <1>n, <2>1 DEF InHand
    <3>6. ASSUME NEW k \in head..(mcaHead - 1) PROVE Taken(k)'
      <4>1. Slot(k) # Slot(mcaHead)
        <5>1. k \in head..(head + N - 1) /\ mcaHead \in head..(head + N - 1) /\ k # mcaHead
          BY <1>n, <1>m
        <5> QED BY <5>1, SlotOne DEF TxInv
      <4>2. Of(Slot(k))' = Of(Slot(k)) /\ Taken(k)
        BY <4>1, <3>1 DEF TxInv, Counts
      <4> QED BY <4>2, <1>1 DEF Taken
    <3> QED BY <3>5, <3>6, <1>1 DEF TxInv, Counts
  <2> QED BY <2>t, <2>c, <2>f, <2>g, <2>w, <2>y, <2>k DEF TxInv
<1> QED BY <1>4, <1>5

\* Writing the count and the state of a node leaves its ports.
LEMMA SetCount ==
  ASSUME Types, NEW s \in Slots, NEW x \in States, NEW c \in 0..K,
         node' = [node EXCEPT ![s].cnt = c, ![s].st = x]
  PROVE  /\ node' \in [Slots -> Recs]
         /\ node'[s].st = x /\ node'[s].cnt = c
         /\ \A r \in Slots : r # s => node'[r] = node[r]
<1>1. node \in [Slots -> Recs] /\ node[s] \in Recs
  BY DEF Types
<1>2. PICK w : w = [node[s] EXCEPT !.cnt = c]
  OBVIOUS
<1>3. w = [st |-> node[s].st, cnt |-> c, port |-> node[s].port] /\ w \in Recs
  BY <1>1, <1>2 DEF Recs
<1>4. PICK v : v = [node EXCEPT ![s] = w]
  OBVIOUS
<1>5. v \in [Slots -> Recs] /\ v[s] = w /\ \A r \in Slots : r # s => v[r] = node[r]
  BY <1>1, <1>3, <1>4
<1>6. node' = [v EXCEPT ![s].st = x]
  BY <1>2, <1>4
<1>7. PICK u : u = [v[s] EXCEPT !.st = x]
  OBVIOUS
<1>8. u = [st |-> x, cnt |-> c, port |-> node[s].port] /\ u \in Recs
  BY <1>1, <1>3, <1>5, <1>7 DEF Recs
<1>9. node' = [v EXCEPT ![s] = u]
  BY <1>6, <1>7
<1> QED BY <1>5, <1>8, <1>9, ZenonT(60)

\* The packet that the NIC has sent is one of its node's count, and the last one of the
\* count only when the thread has marked the node.
LEMMA Counted ==
  ASSUME TxInv, NEW b \in nic, NEW k, k = b.phys[1]
  PROVE  /\ k \in Nat /\ k \in head..mcaHead /\ k < tail /\ k \in head..(head + N - 1)
         /\ b.rn = Slot(k) /\ Ref(b) \in Of(Slot(k))
         /\ node[Slot(k)].cnt >= 1
         /\ k < mcaHead => node[Slot(k)].st = "TXING" /\ node[Slot(k)].cnt = Cardinality(Of(Slot(k)))
         /\ k = mcaHead => InNode /\ node[Slot(k)].st = "SENT_READY" /\ node[Slot(k)].cnt > 1
<1>n. /\ head \in Nat /\ tail \in Nat /\ mcaHead \in Nat /\ N \in Nat /\ i \in Nat
      /\ scache.cnt \in Nat /\ head <= mcaHead /\ mcaHead <= tail /\ tail <= head + N
  BY Numbers
<1>1. Ref(b) \in All /\ Ref(b)[1] = b.rn /\ Ref(b)[2] = b.phys
  BY RefByPhys
<1>2. /\ k \in Nat /\ k \in head..(head + N - 1) /\ k <= mcaHead /\ b.rn = Slot(k)
      /\ Ref(b)[2][2] \in Nat
  BY <1>1, HeldWindow DEF TxInv, Where
<1>3. Ref(b) \in Of(Slot(k))
  BY <1>1, <1>2 DEF Of
<1>4. IsFiniteSet(Of(Slot(k))) /\ Cardinality(Of(Slot(k))) \in Nat /\ Cardinality(Of(Slot(k))) >= 1
  <2>1. IsFiniteSet(Of(Slot(k))) /\ Cardinality(Of(Slot(k))) \in Nat
    BY Finite DEF TxInv
  <2>2. Cardinality(Of(Slot(k))) # 0
    BY <2>1, <1>3, FS_EmptySet
  <2> QED BY <2>1, <2>2
<1>5. CASE k < mcaHead
  <2>1. Taken(k)
    BY <1>5, <1>2, <1>n DEF TxInv, Counts
  <2> QED BY <2>1, <1>5, <1>2, <1>3, <1>4, <1>n DEF Taken
<1>6. CASE k = mcaHead
  <2>1. InNode /\ Ref(b)[2][2] < i
    <3>1. PICK q \in All : q = Ref(b)
      BY <1>1
    <3>2. q[2][1] = mcaHead
      BY <3>1, <1>1, <1>6
    <3>3. q[2][1] < mcaHead \/ (InNode /\ q[2][1] = mcaHead /\ q[2][2] < i)
      BY DEF TxInv, Where
    <3>4. ~(q[2][1] < mcaHead)
      BY <3>2, <1>n
    <3> QED BY <3>1, <3>3, <3>4
  <2>2. mcaHead < tail /\ i <= scache.cnt
    BY <2>1 DEF TxInv, Cursors
  <2>3. node[Slot(k)].st = "SENT_READY"
    BY <2>2, <1>6, <1>n DEF TxInv, Counts
  <2>4. node[Slot(k)].cnt = Cardinality(Of(Slot(k))) + (scache.cnt - i)
    BY <2>1, <1>6 DEF TxInv, Counts, InHand
  <2>5. node[Slot(k)].cnt > 1
    <3>1. CASE i < scache.cnt
      BY <3>1, <2>4, <1>4, <1>n
    <3>2. CASE i = scache.cnt
      <4>1. pc = "add" /\ i > 0
        BY <3>2, <2>1, <1>2, <1>n DEF TxInv, Frame, InNode
      <4>2. PICK p \in Ports : /\ <<Slot(mcaHead), <<mcaHead, i - 1>>>> \in Held(p)
                               /\ <<Slot(mcaHead), <<mcaHead, i - 1>>>> \in Of(Slot(mcaHead))
        BY <4>1, <3>2, <2>1, InHandHeld
      <4>3. PICK y : y = <<Slot(mcaHead), <<mcaHead, i - 1>>>>
        OBVIOUS
      <4>4. y # Ref(b)
        <5>1. Idle = Ports
          BY <4>1, Outside
        <5> QED BY <4>2, <4>3, <5>1 DEF TxInv, Once, NicBatch, NicRefs
      <4>5. y \in Of(Slot(k)) \ {Ref(b)}
        BY <4>2, <4>3, <4>4, <1>6
      <4> DEFINE S == Of(Slot(k))
                 r == Ref(b)
      <4>6. /\ IsFiniteSet(S \ {r}) /\ Cardinality(S \ {r}) = Cardinality(S) - 1
        <5> HIDE DEF S, r
        <5> QED BY <1>3, <1>4, FS_RemoveElement DEF S, r
      <4>7. Cardinality(S \ {r}) # 0
        BY <4>5, <4>6, FS_EmptySet
      <4> QED BY <4>6, <4>7, <3>2, <2>4, <1>4, <1>n
    <3> QED BY <3>1, <3>2, <2>2, <1>n
  <2>6. node[Slot(k)].cnt \in Int
    BY <2>4, <1>4, <1>n
  <2> QED BY <2>1, <2>2, <2>3, <2>5, <2>6, <1>6, <1>2, <1>3, <1>n
<1> QED BY <1>5, <1>6, <1>2, <1>n

\* The NIC has sent a packet: it is held no more, and its node counts one less.
LEMMA CbStep ==
  ASSUME TxInv, NEW b \in nic, cos_tx_cb(b)
  PROVE  TxInv'
<1> DEFINE s == b.rn
           r == Ref(b)
<1>1. PICK k \in Nat : k = b.phys[1]
  BY Counted
<1>2. /\ k \in head..mcaHead /\ k < tail /\ k \in head..(head + N - 1)
      /\ s = Slot(k) /\ r \in Of(s) /\ node[s].cnt >= 1
      /\ k < mcaHead => node[s].st = "TXING" /\ node[s].cnt = Cardinality(Of(s))
      /\ k = mcaHead => InNode /\ node[s].st = "SENT_READY" /\ node[s].cnt > 1
  BY <1>1, Counted
<1>3. /\ nic' = nic \ {b} /\ UNCHANGED <<head, tail, mcaHead, pc, scache, i, batch, burst>>
  BY DEF cos_tx_cb, nfVars
<1>n. /\ head \in Nat /\ tail \in Nat /\ mcaHead \in Nat /\ N \in Nat /\ N > 0 /\ K \in Nat
      /\ head <= mcaHead /\ mcaHead <= tail /\ tail <= head + N
      /\ \A t \in Slots : node[t] \in Recs
  BY Numbers
<1>s. s \in Slots
  BY <1>2, <1>n, SlotType
<1>d. node[s] \in Recs /\ node[s].cnt \in 0..K /\ node[s].st \in States
  BY <1>s, <1>n DEF Recs
<1>x. /\ node' \in [Slots -> Recs] /\ node'[s].cnt = node[s].cnt - 1
      /\ node'[s].st = IF node[s].cnt = 1 THEN "SENT_DONE" ELSE node[s].st
      /\ \A t \in Slots : t # s => node'[t] = node[t]
  <2>1. PICK t \in Slots : t = s
    BY <1>s
  <2>2. PICK c \in 0..K : c = node[s].cnt - 1
    BY <1>d, <1>2, <1>n
  <2>3. PICK x \in States : x = IF node[s].cnt = 1 THEN "SENT_DONE" ELSE node[s].st
    BY <1>d DEF States
  <2>4. node' = [node EXCEPT ![t].cnt = c, ![t].st = x]
    BY <2>1, <2>2, <2>3 DEF cos_tx_cb
  <2>5. /\ node' \in [Slots -> Recs]
        /\ node'[t].st = x /\ node'[t].cnt = c
        /\ \A y \in Slots : y # t => node'[y] = node[y]
    BY <2>4, SetCount DEF TxInv
  <2> QED BY <2>1, <2>2, <2>3, <2>5
<1>i. Idle' = Idle /\ LeftRefs' = LeftRefs /\ \A p : Held(p)' = Held(p)
  BY <1>3 DEF Idle, LeftRefs, Held
<1>r. NicRefs' = NicRefs \ {r} /\ r \in NicRefs
  <2>1. \A c \in nic : Ref(c) = Ref(b) => c = b
    BY DEF TxInv, Once, NicOnce, Ref
  <2> QED BY <2>1, <1>3 DEF NicRefs
<1> HIDE DEF s, r
<1>a. All' = All \ {r}
  <2>1. r \notin LeftRefs /\ \A p \in Idle : r \notin Held(p)
    BY <1>r DEF TxInv, Once, NicLeft, NicBatch
  <2> QED BY <2>1, <1>i, <1>r DEF All
<1>m. InNode' <=> InNode
  BY <1>3 DEF InNode
<1>t. Types'
  <2>1. IsFiniteSet(nic') /\ nic' \subseteq Mbufs
    BY <1>3, FS_RemoveElement DEF TxInv, Types
  <2> QED BY <2>1, <1>x, <1>3 DEF TxInv, Types
<1>c. Cursors'
  BY <1>3, <1>m DEF TxInv, Cursors
<1>f. Frame' /\ LastIn' /\ PoolEnough'
  BY <1>3, <1>i DEF TxInv, Frame, FrameLive, LastIn, PoolEnough
<1>w. Where'
  BY <1>a, <1>3, <1>m DEF TxInv, Where
<1>y. Once'
  <2>1. NicOnce' /\ LeftOnce' /\ BatchOnce'
    BY <1>3 DEF TxInv, Once, NicOnce, LeftOnce, BatchOnce
  <2>2. NicLeft' /\ NicBatch' /\ LeftBatch'
    BY <1>3, <1>i, <1>r DEF TxInv, Once, NicLeft, NicBatch, LeftBatch
  <2> QED BY <2>1, <2>2 DEF Once
<1>o. /\ \A t : t # s => Of(t)' = Of(t)
      /\ \A j \in head..(head + N - 1) :
           j # k => node'[Slot(j)] = node[Slot(j)] /\ Of(Slot(j))' = Of(Slot(j))
  <2>1. r[1] = s
    BY <1>2 DEF Of
  <2>2. \A t : t # s => Of(t)' = Of(t)
    BY <2>1, <1>a DEF Of
  <2>3. ASSUME NEW j \in head..(head + N - 1), j # k PROVE Slot(j) # s /\ Slot(j) \in Slots
    BY <2>3, <1>2, <1>n, SlotOne, SlotType DEF TxInv
  <2> QED BY <2>2, <2>3, <1>x
<1>e. /\ Of(Slot(k))' = Of(Slot(k)) \ {r}
      /\ Cardinality(Of(Slot(k))) \in Nat
      /\ Cardinality(Of(Slot(k)))' = Cardinality(Of(Slot(k))) - 1
      /\ Cardinality(Of(Slot(k)))' = 0 => Of(Slot(k))' = {}
  <2>1. Of(Slot(k))' = Of(Slot(k)) \ {r}
    BY <1>a DEF Of
  <2>2. IsFiniteSet(Of(Slot(k))) /\ Cardinality(Of(Slot(k))) \in Nat
    BY Finite DEF TxInv
  <2>3. PICK S : S = Of(Slot(k))
    OBVIOUS
  <2>4. /\ IsFiniteSet(S \ {r}) /\ Cardinality(S \ {r}) = Cardinality(S) - 1
    BY <2>2, <2>3, <1>2, FS_RemoveElement
  <2>5. Cardinality(S \ {r}) = 0 => S \ {r} = {}
    BY <2>4, FS_EmptySet
  <2> QED BY <2>1, <2>2, <2>3, <2>4, <2>5
<1>k. Counts'
  <2>1. ASSUME NEW j \in head..(mcaHead - 1) PROVE Taken(j)'
    <3>0. Taken(j)
      BY DEF TxInv, Counts
    <3>1. CASE j = k
      <4>1. /\ node[s].st = "TXING" /\ node[s].cnt = Cardinality(Of(s)) /\ s = Slot(j)
        BY <3>1, <1>2, <1>n
      <4>2. CASE node[s].cnt = 1
        <5>1. node'[Slot(j)].st = "SENT_DONE" /\ Of(Slot(j))' = {}
          BY <4>1, <4>2, <3>1, <1>x, <1>e
        <5> QED BY <5>1 DEF Taken
      <4>3. CASE node[s].cnt # 1
        <5>1. /\ node'[Slot(j)].st = "TXING" /\ node'[Slot(j)].cnt > 0
              /\ node'[Slot(j)].cnt = Cardinality(Of(Slot(j)))'
          BY <4>1, <4>3, <3>1, <1>x, <1>e, <1>2
        <5> QED BY <5>1 DEF Taken
      <4> QED BY <4>2, <4>3
    <3>2. CASE j # k
      <4>1. node'[Slot(j)] = node[Slot(j)] /\ Of(Slot(j))' = Of(Slot(j))
        BY <3>2, <1>o, <1>n
      <4> QED BY <3>0, <4>1 DEF Taken
    <3> QED BY <3>1, <3>2
  <2>2. ASSUME NEW j \in mcaHead..(tail - 1) PROVE node'[Slot(j)].st = "SENT_READY"
    <3>1. node[Slot(j)].st = "SENT_READY" /\ j \in head..(head + N - 1)
      BY <1>n DEF TxInv, Counts
    <3>2. CASE j = k
      BY <3>2, <1>2, <1>x, <1>n
    <3> QED BY <3>1, <3>2, <1>o
  <2>3. \A j \in tail..(head + N - 1) : node'[Slot(j)].st = "EMPTY"
    BY <1>2, <1>o, <1>n DEF TxInv, Counts
  <2>4. InHand'
    <3> SUFFICES ASSUME InNode
                 PROVE  node'[Slot(mcaHead)].cnt
                          = Cardinality(Of(Slot(mcaHead)))' + (scache.cnt - i)
      BY <1>3, <1>m DEF InHand
    <3>1. /\ node[Slot(mcaHead)].cnt = Cardinality(Of(Slot(mcaHead))) + (scache.cnt - i)
          /\ scache.cnt \in Nat /\ i \in Nat
      BY Numbers DEF TxInv, Counts, InHand
    <3>2. CASE mcaHead = k
      <4>1. Cardinality(Of(Slot(mcaHead)))' = Cardinality(Of(Slot(k)))'
        BY <3>2, <1>3
      <4>2. node'[Slot(mcaHead)].cnt = node[Slot(mcaHead)].cnt - 1
        BY <3>2, <1>2, <1>x
      <4> QED BY <3>1, <3>2, <4>1, <4>2, <1>e
    <3>3. CASE mcaHead # k
      <4>1. mcaHead \in head..(head + N - 1)
        BY InHandHeld
      <4>2. PICK j \in head..(head + N - 1) : j = mcaHead
        BY <4>1
      <4>3. node'[Slot(j)] = node[Slot(j)] /\ Of(Slot(j))' = Of(Slot(j))
        BY <3>3, <4>2, <1>o
      <4>4. Of(Slot(mcaHead))' = Of(Slot(j))'
        BY <4>2, <1>3
      <4> QED BY <3>1, <4>2, <4>3, <4>4
    <3> QED BY <3>2, <3>3
  <2> QED BY <2>1, <2>2, <2>3, <2>4, <1>3 DEF Counts
<1> QED BY <1>t, <1>c, <1>f, <1>w, <1>y, <1>k DEF TxInv

-----------------------------------------------------------------------------
(* The invariant holds, and what follows.                                  *)

\* Nothing is held at first.
LEMMA TxInit ==
  ASSUME Init
  PROVE  TxInv
<1>1. PICK p \in Ports : node = [s \in Slots |-> [st |-> "EMPTY", cnt |-> 0,
                                                  port |-> [j \in Entries |-> p]]]
  BY DEF Init
<1>2. /\ head = 0 /\ tail = 0 /\ mcaHead = 0 /\ pc = "scan" /\ i = 0 /\ nic = {}
      /\ scache = [num |-> 0, cnt |-> 0, port |-> node[0].port]
      /\ batch = [r \in Ports |-> <<>>] /\ burst = NoBurst
  BY DEF Init
<1>n. N \in Nat /\ N > 0 /\ K \in Nat /\ B \in Nat /\ MaxNode \in Nat
  BY TxAssumption
<1>3. node \in [Slots -> Recs] /\ \A s \in Slots : node[s].st = "EMPTY"
  BY <1>1, <1>n DEF Recs, States
<1>4. scache \in [num : Nat, cnt : 0..K, port : [Entries -> Ports]] /\ scache.num = 0
  <2>1. 0 \in Slots
    BY <1>n DEF Slots
  <2>2. node[0].port = [j \in Entries |-> p]
    BY <2>1, <1>1
  <2> QED BY <2>2, <1>2, <1>n
<1>5. burst \in Bursts /\ burst.left = <<>>
  <2>1. (CHOOSE r \in Ports : TRUE) \in Ports
    OBVIOUS
  <2> QED BY <2>1, <1>2 DEF NoBurst, Bursts
<1>6. batch \in [Ports -> Seq(Ent)] /\ \A r \in Ports : batch[r] = <<>> /\ Len(batch[r]) = 0
  BY <1>2
<1>7. IsFiniteSet(nic)
  BY <1>2, FS_EmptySet
<1>t. Types
  BY <1>2, <1>3, <1>4, <1>5, <1>6, <1>7, <1>n DEF Types
<1>a. All = {} /\ NicRefs = {} /\ LeftRefs = {} /\ \A r \in Ports : Held(r) = {}
  <2>1. NicRefs = {} /\ LeftRefs = {} /\ \A r \in Ports : Held(r) = {}
    BY <1>2, <1>5, <1>6 DEF NicRefs, LeftRefs, Held
  <2> QED BY <2>1 DEF All, Idle
<1>c. Cursors /\ Frame /\ LastIn /\ Where /\ PoolEnough
  BY <1>2, <1>4, <1>5, <1>a, <1>n DEF Cursors, Frame, FrameLive, LastIn, Where, PoolEnough, InNode
<1>y. Once
  BY <1>2, <1>5, <1>6, <1>a
     DEF Once, NicOnce, LeftOnce, BatchOnce, NicLeft, NicBatch, LeftBatch
<1>k. Counts
  BY <1>2, <1>3, <1>n, SlotType DEF Counts, InHand, InNode
<1> QED BY <1>t, <1>c, <1>y, <1>k DEF TxInv

\* Every step keeps it.
LEMMA TxInductive ==
  ASSUME TxInv, [Next]_vars
  PROVE  TxInv'
<1>1. CASE eos_pkt_send_flush
  BY <1>1, FlushStep
<1>2. CASE eos_pkt_collect
  BY <1>2, CollectStep
<1>3. CASE rte_eth_tx_burst
  BY <1>3, BurstStep
<1>4. CASE tx_look
  BY <1>4, LookStep
<1>5. CASE ninf_tx_add_pkt
  BY <1>5, AddStep
<1>6. CASE tx_mark
  BY <1>6, MarkStep
<1>7. CASE ninf_tx_flush
  <2>1. pc = "flush" /\ UNCHANGED <<node, head, tail, mcaHead, scache, i, batch, nic>>
    BY <1>7 DEF ninf_tx_flush, nfVars
  <2>2. CASE \E p \in Ports : batch[p] # <<>> /\ SendBurst(p, "flush")
    BY <2>1, <2>2, SendStep
  <2>3. CASE (\A p \in Ports : batch[p] = <<>>) /\ pc' = "idle" /\ UNCHANGED burst
    BY <2>1, <2>3, RestStep
  <2> QED BY <1>7, <2>2, <2>3 DEF ninf_tx_flush
<1>8. CASE ninf_tx_scan
  BY <1>8, RestStep DEF ninf_tx_scan, nfVars
<1>9. ASSUME NEW b \in nic, cos_tx_cb(b) PROVE TxInv'
  BY <1>9, CbStep
<1>10. CASE UNCHANGED vars
  <2>1. UNCHANGED <<node, head, tail, mcaHead, pc, scache, i, batch, burst, nic>>
    BY <1>10 DEF vars, nfVars
  <2>r. /\ All' = All /\ (\A p \in Ports : Held(p)' = Held(p)) /\ Once'
    BY <2>1, RefsKept DEF TxInv
  <2>m. InNode' <=> InNode
    BY <2>1 DEF InNode
  <2>2. Types' /\ Cursors'
    BY <2>1, <2>m DEF TxInv, Types, Cursors
  <2>3. Frame' /\ PoolEnough' /\ LastIn'
    BY <2>1, <2>r DEF TxInv, Frame, FrameLive, PoolEnough, LastIn
  <2>4. Where'
    BY <2>1, <2>r, <2>m DEF TxInv, Where
  <2>5. Counts'
    BY <2>1, <2>r, <2>m, CountsKept DEF TxInv
  <2> QED BY <2>2, <2>3, <2>4, <2>5, <2>r DEF TxInv
<1> QED BY <1>1, <1>2, <1>3, <1>4, <1>5, <1>6, <1>7, <1>8, <1>9, <1>10 DEF Next, ninf_tx_loop

\* TxInv holds in every state of the transmit thread, the functions and the NIC.
THEOREM TxInvariance == Spec => []TxInv
<1>1. Init => TxInv
  BY TxInit
<1>2. TxInv /\ [Next]_vars => TxInv'
  BY TxInductive
<1> QED BY <1>1, <1>2, PTL DEF Spec

\* What References counts is what is held, and what is still to be added.
LEMMA UnsentIs ==
  ASSUME TxInv, NEW s
  PROVE  Unsent(s) = Cardinality(Of(s))
                       + IF Adding /\ s = Slot(mcaHead) THEN scache.cnt - i ELSE 0
<1>1. PhysOf(nic) = NicRefs
  BY DEF PhysOf, NicRefs, Ref
<1>2. PhysOf(Range(burst.left)) = LeftRefs
  <2>1. burst.left \in Seq(Mbufs)
    BY DEF TxInv, Types, Bursts
  <2>2. DOMAIN burst.left = 1..Len(burst.left)
    BY <2>1
  <2> QED BY <2>2 DEF PhysOf, Range, LeftRefs, Ref
<1>3. \A p \in Ports : PhysOf(Range(batch[p])) = Held(p)
  <2> TAKE p \in Ports
  <2>1. batch[p] \in Seq(Ent)
    BY DEF TxInv, Types
  <2>2. DOMAIN batch[p] = 1..Len(batch[p])
    BY <2>1
  <2> QED BY <2>2 DEF PhysOf, Range, Held, Ref
<1>4. PhysOf(nic) \cup PhysOf(Range(burst.left))
        \cup UNION {PhysOf(Range(batch[p])) : p \in {r \in Ports : pc # "burst" \/ r # burst.port}}
        = All
  BY <1>1, <1>2, <1>3 DEF All, Idle
<1> QED BY <1>4 DEF Unsent, Of

\* The count of a node that the thread has taken is the number of its packets that are still
\* to be sent.
LEMMA CountsAreReferences == TxInv => References
<1> SUFFICES ASSUME TxInv, NEW k \in head..(tail - 1)
             PROVE  LET n == node[Slot(k)]
                    IN /\ n.st = "TXING" => n.cnt = Unsent(Slot(k)) /\ n.cnt > 0
                       /\ n.st = "SENT_DONE" => Unsent(Slot(k)) = 0
                       /\ n.st = "SENT_READY" /\ Adding /\ k = mcaHead =>
                            n.cnt = Unsent(Slot(k)) /\ (scache.cnt > 0 => n.cnt > 0)
  BY DEF References
<1>n. /\ head \in Nat /\ tail \in Nat /\ mcaHead \in Nat /\ N \in Nat /\ i \in Nat
      /\ scache.cnt \in Nat /\ head <= mcaHead /\ mcaHead <= tail /\ tail <= head + N
  BY Numbers
<1>a. Adding => InNode
  BY DEF Adding, InNode
<1>f. Cardinality(Of(Slot(k))) \in Nat /\ IsFiniteSet(Of(Slot(k)))
  BY Finite DEF TxInv
<1>1. CASE k < mcaHead
  <2>1. Taken(k)
    BY <1>1, <1>n DEF TxInv, Counts
  <2>2. Adding => Slot(k) # Slot(mcaHead)
    <3>1. Adding => mcaHead \in head..(head + N - 1)
      BY <1>a, InHandHeld
    <3>2. k \in head..(head + N - 1) /\ k # mcaHead
      BY <1>1, <1>n
    <3> QED BY <3>1, <3>2, SlotOne DEF TxInv
  <2>3. Unsent(Slot(k)) = Cardinality(Of(Slot(k)))
    BY <2>2, <1>f, UnsentIs
  <2>4. Of(Slot(k)) = {} => Cardinality(Of(Slot(k))) = 0
    BY FS_EmptySet
  <2> QED BY <2>1, <2>3, <2>4, <1>1, <1>n DEF Taken
<1>2. CASE k >= mcaHead
  <2>1. node[Slot(k)].st = "SENT_READY"
    BY <1>2, <1>n DEF TxInv, Counts
  <2>2. ASSUME Adding, k = mcaHead
        PROVE  /\ node[Slot(k)].cnt = Unsent(Slot(k))
               /\ scache.cnt > 0 => node[Slot(k)].cnt > 0
    <3>1. node[Slot(k)].cnt = Cardinality(Of(Slot(k))) + (scache.cnt - i)
      BY <2>2, <1>a DEF TxInv, Counts, InHand
    <3>2. node[Slot(k)].cnt = Unsent(Slot(k))
      BY <3>1, <2>2, UnsentIs
    <3>3. i <= scache.cnt /\ (i = scache.cnt => pc = "add")
      BY <2>2, <1>a, <1>n DEF TxInv, Cursors, Frame, Adding
    <3>4. i = scache.cnt /\ i > 0 => Of(Slot(k)) # {}
      BY <2>2, <1>a, <3>3, InHandHeld
    <3>5. i = scache.cnt /\ i > 0 => Cardinality(Of(Slot(k))) # 0
      BY <3>4, <1>f, FS_EmptySet
    <3> QED BY <3>1, <3>2, <3>3, <3>5, <1>f, <1>n
  <2> QED BY <2>1, <2>2
<1> QED BY <1>1, <1>2, <1>n

\* The batches and the NIC point to packets that are there.
LEMMA HeldArePointers == TxInv => Pointers
<1> SUFFICES ASSUME TxInv PROVE Pointers
  OBVIOUS
<1>1. TypeOK
  <2>1. burst.left \in Seq(Mbufs)
    BY DEF TxInv, Types, Bursts
  <2>2. \A n \in 1..Len(burst.left) : burst.left[n] \in Mbufs
    BY <2>1
  <2>3. ASSUME NEW p \in Ports
        PROVE  Len(batch[p]) <= B /\ \A n \in 1..Len(batch[p]) : batch[p][n] \in Ent
    BY DEF TxInv, Types
  <2> QED BY <2>2, <2>3 DEF TxInv, Types, TypeOK, Recs, Ent
<1>2. NicReads
  <2>1. ASSUME NEW b \in nic
        PROVE  /\ b.rn = Slot(b.phys[1]) /\ b.phys[1] \in head..(tail - 1)
               /\ node[b.rn].st \in {"SENT_READY", "TXING"}
    <3>1. PICK k : k = b.phys[1]
      OBVIOUS
    <3>2. /\ k \in Nat /\ k \in head..mcaHead /\ k < tail /\ b.rn = Slot(k)
          /\ k < mcaHead => node[Slot(k)].st = "TXING"
          /\ k = mcaHead => node[Slot(k)].st = "SENT_READY"
      BY <3>1, Counted
    <3>3. head \in Nat /\ tail \in Nat /\ mcaHead \in Nat
      BY Numbers
    <3>4. k < mcaHead \/ k = mcaHead
      BY <3>2, <3>3
    <3> QED BY <3>1, <3>2, <3>3, <3>4
  <2> QED BY <2>1 DEF NicReads, TxInv, Once, NicOnce
<1> QED BY <1>1, <1>2 DEF Pointers, TxInv, Frame

\* cos_tx_cb hands a node back when, and only when, the last of its packets is sent: its
\* count is the number of packets that the NIC, a burst or a batch still has, and those that
\* ninf_tx_process has still to add.
THEOREM CountsUnsent == Spec => []References
  BY TxInvariance, CountsAreReferences, PTL

\* A batch never outgrows send_batch nor outlives ninf_tx_process, and what the NIC reads has
\* not been handed back.
THEOREM PointersLive == Spec => []Pointers
  BY TxInvariance, HeldArePointers, PTL

\* With a buffer for every entry of the ring, ninf_tx_nf_send_burst never finds the pool empty.
THEOREM PoolSuffices == Spec => []PoolEnough
<1>1. TxInv => PoolEnough
  BY DEF TxInv
<1> QED BY <1>1, TxInvariance, PTL
=============================================================================
