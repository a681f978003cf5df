--------------------------- MODULE EosChainProofs ---------------------------
(***************************************************************************)
(* Proofs about EosChain, for every chain length, ring size, burst and     *)
(* pool: the inductive invariant IInv and what follows from it.            *)
(***************************************************************************)
EXTENDS EosChain, FiniteSetTheorems, WellFoundedInduction, TLAPS

\* The history of the MCA has an entry for every node it has filled.
BroughtLen == \A i \in NFs : Len(brought[i]) = freeHead[i]

\* The inductive invariant: every part speaks of the others' cursors, so none is
\* inductive alone.
IInv ==
  /\ TypeOK /\ RingOrder /\ NodeStates /\ Buffers /\ Contents /\ Counts
  /\ Caches /\ Snapshots /\ RxBacklog /\ RxContents /\ MbufOwner /\ WireInOrder
  /\ BroughtLen

-----------------------------------------------------------------------------
(* Ring indices.                                                           *)

\* Masking an index yields a slot of the ring.
LEMMA SlotType ==
  ASSUME NEW k \in Int
  PROVE  Slot(k) \in Slots
  BY ChainAssumption DEF Slot, Slots

\* Two indices less than a ring apart share no slot.
LEMMA SlotInj ==
  ASSUME NEW j \in Int, NEW k \in Int, j < k, k < j + N
  PROVE  Slot(j) # Slot(k)
<1> SUFFICES ASSUME j % N = k % N PROVE FALSE
  BY DEF Slot
<1> DEFINE p == j \div N
           q == k \div N
<1>1. /\ N \in Nat /\ N > 0 /\ p \in Int /\ q \in Int
      /\ j = N * p + (j % N) /\ k = N * q + (k % N)
  BY ChainAssumption
<1>2. k - j = N * (q - p)
  BY <1>1
<1>3. q - p < 1 /\ q - p > 0
  BY <1>1, <1>2
<1> QED BY <1>1, <1>3

\* An index one ring further is in the same slot.
LEMMA SlotWrap ==
  ASSUME NEW k \in Int
  PROVE  Slot(k + N) = Slot(k)
<1>1. Slot(k) \in Slots /\ Slot(k + N) \in Slots
  BY SlotType, ChainAssumption
<1> DEFINE p == k \div N
           q == (k + N) \div N
<1>2. /\ N \in Nat /\ N > 0 /\ p \in Int /\ q \in Int
      /\ k = N * p + Slot(k) /\ k + N = N * q + Slot(k + N)
  BY ChainAssumption DEF Slot
<1>3. Slot(k + N) - Slot(k) = N * (p + 1 - q)
  BY <1>1, <1>2 DEF Slots
<1>4. p + 1 - q < 1 /\ p + 1 - q > -1
  BY <1>1, <1>2, <1>3 DEF Slots
<1>5. p + 1 - q = 0
  BY <1>2, <1>4
<1>6. Slot(k + N) - Slot(k) = 0
  BY <1>2, <1>3, <1>5
<1> QED BY <1>1, <1>6 DEF Slots

\* A slot is never greater than the index it stands for, and the first lap of a
\* ring uses its slots in order.
LEMMA SlotLow ==
  ASSUME NEW k \in Nat
  PROVE  Slot(k) <= k /\ (k < N => Slot(k) = k)
  BY ChainAssumption DEF Slot

-----------------------------------------------------------------------------
(* Numbers: the types of one segment's cursors, and their order.           *)

\* Every function has an output ring of its own, and one to take from.
LEMMA NFRings ==
  ASSUME NEW i \in NFs
  PROVE  i \in Rings /\ i - 1 \in Rings /\ i \in Int /\ i # 0 /\ i - 1 # L /\ i - 1 < L
  BY ChainAssumption DEF NFs, Rings

\* The types of the cursors and nodes of an output ring.
LEMMA OutNumbers ==
  ASSUME IInv, NEW i \in Rings
  PROVE  /\ outHead[i] \in Nat /\ outTail[i] \in Nat /\ mcaHead[i] \in Nat
         /\ Taken(i) \in Nat
         /\ mcaHead[i] <= Taken(i) /\ Taken(i) <= mcaHead[i] + 1
         /\ outHead[i] <= Taken(i)
         /\ Taken(i) <= outTail[i]
         /\ outTail[i] <= outHead[i] + N
<1>1. outHead[i] \in Nat /\ outTail[i] \in Nat /\ mcaHead[i] \in Nat
  BY DEF IInv, TypeOK, OutType
<1>2. OutOrder(i)
  BY DEF IInv, RingOrder
<1>3. Taken(i) \in Nat /\ mcaHead[i] <= Taken(i) /\ Taken(i) <= mcaHead[i] + 1
  BY <1>1 DEF Taken
<1> QED BY <1>1, <1>2, <1>3 DEF OutOrder

\* The types of the cursors and nodes of an input ring.
LEMMA InNumbers ==
  ASSUME IInv, NEW i \in NFs
  PROVE  /\ inHead[i] \in Nat /\ inTail[i] \in Nat /\ freeHead[i] \in Nat
         /\ inHead[i] = outHead[i]
         /\ outTail[i] <= inTail[i] /\ inTail[i] <= outTail[i] + 1
         /\ InHand(i) => inTail[i] = outTail[i] + 1
         /\ ~InHand(i) => inTail[i] = outTail[i]
         /\ inTail[i] <= freeHead[i]
         /\ freeHead[i] <= inHead[i] + N
         /\ freeHead[i] = mcaHead[i - 1]
         /\ outHead[i] \in Nat /\ outTail[i] \in Nat
         /\ outHead[i] <= outTail[i]
<1>1. inHead[i] \in Nat /\ inTail[i] \in Nat /\ freeHead[i] \in Nat
  BY DEF IInv, TypeOK, InType
<1>2. InOrder(i)
  BY DEF IInv, RingOrder
<1>3. outHead[i] \in Nat /\ outTail[i] \in Nat /\ outHead[i] <= outTail[i]
  BY NFRings, OutNumbers, ChainAssumption
<1> QED BY <1>1, <1>2, <1>3 DEF InOrder

\* The count of the node that the MCA holds is right as long as nobody writes the node.
LEMMA RecountFrame ==
  ASSUME Recount, UNCHANGED <<mca, freeHead>>, mcaHead'[Src] = mcaHead[Src],
         outNode'[Src][Slot(Held)].cnt = outNode[Src][Slot(Held)].cnt
  PROVE  Recount'
<1>1. Src' = Src /\ Dst' = Dst /\ Held' = Held
  BY DEF Src, Dst, Held
<1>2. OneEach(Dst)' <=> OneEach(Dst)
  BY <1>1 DEF OneEach
<1>3. Out(Src, Held)'.cnt = Out(Src, Held).cnt
  BY <1>1 DEF Out
<1> QED BY <1>1, <1>2, <1>3 DEF Recount

-----------------------------------------------------------------------------
(* Steps of a network function.                                            *)

\* Everything the invariant says of network function i alone.
SegmentOf(i) ==
  /\ InOrder(i) /\ OutOrder(i) /\ InStatesOf(i) /\ OutStatesOf(i) /\ BuffersOf(i)
  /\ ContentsOf(i) /\ InCountsOf(i) /\ OutCountsOf(i) /\ CacheOf(i)

\* What the invariant says of one segment, conjunct by conjunct.
LEMMA SegmentInv ==
  ASSUME IInv, NEW i \in NFs
  PROVE  SegmentOf(i)
  BY NFRings DEF IInv, RingOrder, NodeStates, Buffers, Contents, Counts, Caches, SegmentOf

\* A network function touches its own segment only.
LEMMA NfFrame ==
  ASSUME IInv, NEW i \in NFs, nf_run(i)
  PROVE  /\ \A j \in NFs : j # i =>
              /\ inNode'[j] = inNode[j] /\ inHead'[j] = inHead[j] /\ inTail'[j] = inTail[j]
              /\ mem'[j] = mem[j] /\ nfPc'[j] = nfPc[j] /\ inCache'[j] = inCache[j]
         /\ \A j \in Rings : j # i =>
              /\ outNode'[j] = outNode[j] /\ outHead'[j] = outHead[j]
              /\ outTail'[j] = outTail[j] /\ outCache'[j] = outCache[j]
         /\ UNCHANGED <<freeHead, mcaHead, mca, rxVars, txVars>>
<1>1. /\ inNode \in [NFs -> [Slots -> InNodes]]
      /\ inHead \in [NFs -> Nat] /\ inTail \in [NFs -> Nat]
      /\ mem \in [NFs -> [Slots -> Packet]] /\ nfPc \in [NFs -> NfPcs]
      /\ inCache \in [NFs -> [cnt : 0..K, idx : 0..K]]
      /\ outNode \in [Rings -> [Slots -> OutNodes]]
      /\ outHead \in [Rings -> Nat] /\ outTail \in [Rings -> Nat]
      /\ outCache \in [Rings -> [cnt : 0..(K + 1), idx : 0..K, buf : Buf]]
  BY DEF IInv, TypeOK, InType, OutType, NfType
<1>2. i \in Rings
  BY NFRings
<1>3. CASE eos_pkt_collect(i)
  BY <1>1, <1>2, <1>3 DEF eos_pkt_collect, Transmitted, Recycled
<1>4. CASE eos_pkt_recv(i)
  BY <1>1, <1>2, <1>4 DEF eos_pkt_recv, outVars
<1>5. CASE recv_faa(i)
  BY <1>1, <1>2, <1>5 DEF recv_faa, NfGoto, outVars
<1>6. CASE nf_hyp_block(i)
  BY <1>1, <1>2, <1>6 DEF nf_hyp_block, NfGoto, inVars, outVars
<1>7. CASE nf_process(i)
  BY <1>1, <1>2, <1>7 DEF nf_process, NfGoto, inVars, outVars
<1>8. CASE eos_pkt_send_flush(i)
  BY <1>1, <1>2, <1>8 DEF eos_pkt_send_flush, flush, inVars
<1>9. CASE flush_faa(i)
  BY <1>1, <1>2, <1>9 DEF flush_faa, NfGoto, inVars
<1> QED BY <1>3, <1>4, <1>5, <1>6, <1>7, <1>8, <1>9 DEF nf_run

\* So only its own part of the invariant, and the MCA's snapshots, are at stake.
LEMMA NfSuffices ==
  ASSUME IInv, NEW i \in NFs, nf_run(i), TypeOK', SegmentOf(i)', Snapshots'
  PROVE  IInv'
<1> DEFINE same(j) ==
      /\ inNode'[j] = inNode[j] /\ inHead'[j] = inHead[j] /\ inTail'[j] = inTail[j]
      /\ mem'[j] = mem[j] /\ nfPc'[j] = nfPc[j] /\ inCache'[j] = inCache[j]
    osame(j) ==
      /\ outNode'[j] = outNode[j] /\ outHead'[j] = outHead[j]
      /\ outTail'[j] = outTail[j] /\ outCache'[j] = outCache[j]
<1>1. /\ \A j \in NFs : j # i => same(j)
      /\ \A j \in Rings : j # i => osame(j)
      /\ UNCHANGED <<freeHead, mcaHead, mca, rxVars, txVars>>
  BY NfFrame
<1>2. ASSUME NEW j \in Rings, j # i
      PROVE  OutOrder(j)' /\ OutStatesOf(j)' /\ OutCountsOf(j)'
  <2>1. osame(j) /\ Taken(j)' = Taken(j)
    BY <1>1, <1>2 DEF Taken, Src
  <2> HIDE DEF osame
  <2>2. OutOrder(j) /\ OutStatesOf(j) /\ OutCountsOf(j)
    BY DEF IInv, RingOrder, NodeStates, Counts
  <2> QED BY <2>1, <2>2 DEF osame, OutOrder, OutStatesOf, OutCountsOf, Out
<1>3. ASSUME NEW j \in NFs, j # i
      PROVE  SegmentOf(j)'
  <2>1. /\ same(j) /\ osame(j) /\ freeHead' = freeHead /\ mcaHead' = mcaHead
        /\ InHand(j)' <=> InHand(j)
        /\ Processed(j)' <=> Processed(j)
        /\ Unread(j)' <=> Unread(j)
    BY <1>1, <1>3, NFRings DEF InHand, Processed, Unread
  <2>2. SegmentOf(j)
    BY SegmentInv
  <2>3. OutOrder(j)' /\ OutStatesOf(j)' /\ OutCountsOf(j)'
    BY <1>2, <1>3, NFRings
  <2>4. InOrder(j)' /\ InStatesOf(j)' /\ InCountsOf(j)'
    BY <2>1, <2>2 DEF SegmentOf, InOrder, InStatesOf, InCountsOf, In
  <2>5. BuffersOf(j)' /\ ContentsOf(j)'
    BY <2>1, <2>2 DEF SegmentOf, BuffersOf, ContentsOf, Out
  <2>6. HandOf(j)' <=> HandOf(j)
    BY <2>1 DEF HandOf, In
  <2>7. CacheOf(j)'
    BY <2>1, <2>2, <2>6 DEF SegmentOf, CacheOf
  <2> QED BY <2>3, <2>4, <2>5, <2>7 DEF SegmentOf
<1>4. RingOrder' /\ NodeStates' /\ Buffers' /\ Contents' /\ Counts' /\ Caches'
  BY <1>2, <1>3 DEF SegmentOf, RingOrder, NodeStates, Buffers, Contents, Counts, Caches
<1>5. osame(0) /\ Taken(0)' = Taken(0)
  BY <1>1, NFRings, ChainAssumption DEF Rings, NFs, Taken, Src
<1>6. RxBacklog' /\ RxContents' /\ MbufOwner'
  BY <1>1, <1>5 DEF IInv, RxBacklog, RxContents, MbufOwner, Pending, Out, rxVars
<1>7. WireInOrder' /\ BroughtLen'
  BY <1>1 DEF IInv, WireInOrder, BroughtLen, txVars
<1> QED BY <1>4, <1>6, <1>7 DEF IInv

\* A step that only moves the program counter, between places that are alike to
\* the invariant, and perhaps adds to pkt_cnt.
LEMMA NfMoves ==
  ASSUME IInv, NEW i \in NFs, nf_run(i), NEW p \in NfPcs,
         nfPc' = [nfPc EXCEPT ![i] = p],
         nfPc[i] \in {"faa_in", "work"} <=> p \in {"faa_in", "work"},
         p \notin {"flush", "faa_in"}, nfPc[i] = "flush" => Unread(i),
         p \in {"block", "faa_out"} => ~Unread(i),
         UNCHANGED <<inNode, inHead, inTail, outNode, outHead, outTail,
                     mem, inCache, outCache>>,
         inCnt' \in [NFs -> Int], outCnt' \in [Rings -> Int]
  PROVE  IInv'
<1>1. /\ UNCHANGED <<freeHead, mcaHead, mca, rxVars, txVars>>
  BY NfFrame
<1>2. nfPc \in [NFs -> NfPcs] /\ nfPc'[i] = p /\ nfPc' \in [NFs -> NfPcs]
  BY DEF IInv, TypeOK, NfType
<1>3. TypeOK'
  BY <1>1, <1>2 DEF IInv, TypeOK, InType, OutType, NfType, McaType, RxType, TxType,
                    rxVars, txVars
<1>4. /\ InHand(i)' <=> InHand(i)
      /\ Unread(i)' <=> Unread(i)
      /\ ~Processed(i) /\ ~Processed(i)'
  BY <1>2 DEF InHand, Unread, Processed
<1>5. SegmentOf(i)'
  <2>1. SegmentOf(i)
    BY SegmentInv
  <2>2. Taken(i)' = Taken(i)
    BY <1>1 DEF Taken, Src
  <2>3. InOrder(i)' /\ OutOrder(i)' /\ InStatesOf(i)' /\ OutStatesOf(i)'
        /\ InCountsOf(i)' /\ OutCountsOf(i)'
    BY <1>1, <1>4, <2>1, <2>2 DEF SegmentOf, InOrder, OutOrder, InStatesOf, OutStatesOf,
                                  InCountsOf, OutCountsOf, In, Out
  <2>4. BuffersOf(i)' /\ ContentsOf(i)'
    BY <1>1, <1>2, <1>4, <2>1 DEF SegmentOf, BuffersOf, ContentsOf, Out
  <2>5. HandOf(i) => HandOf(i)'
    BY <1>1, <1>2, <1>4 DEF HandOf, In
  <2>6. CacheOf(i)'
    BY <1>1, <1>2, <1>4, <2>1, <2>5 DEF SegmentOf, CacheOf
  <2> QED BY <2>3, <2>4, <2>6 DEF SegmentOf
<1>6. Snapshots'
  <2>1. Recount'
    BY <1>1, RecountFrame DEF IInv, Snapshots, Out
  <2> QED BY <1>1, <2>1 DEF IInv, Snapshots, Src, Dst, Out
<1> QED BY <1>3, <1>5, <1>6, NfSuffices

\* The add of pkt_cnt that ends eos_pkt_recv_slow preserves the invariant.
LEMMA RecvFaa ==
  ASSUME IInv, NEW i \in NFs, recv_faa(i)
  PROVE  IInv'
<1>1. nf_run(i) /\ "work" \in NfPcs
  BY DEF nf_run, NfPcs
<1>2. inNode \in [NFs -> [Slots -> InNodes]] /\ inCnt \in [NFs -> Int] /\ inTail[i] \in Nat
      /\ outCnt \in [Rings -> Int]
  BY DEF IInv, TypeOK, InType, OutType
<1>3. In(i, inTail[i] - 1).cnt \in Int
  BY <1>2, SlotType, ChainAssumption DEF In, InNodes
<1>4. inCnt' \in [NFs -> Int] /\ outCnt' \in [Rings -> Int]
  BY <1>2, <1>3 DEF recv_faa, outVars
<1> QED BY <1>1, <1>4, NfMoves DEF recv_faa, NfGoto, outVars

\* The return of nf_hyp_block preserves the invariant.
LEMMA NfHypBlock ==
  ASSUME IInv, NEW i \in NFs, nf_hyp_block(i)
  PROVE  IInv'
<1>1. nf_run(i) /\ "recv" \in NfPcs
  BY DEF nf_run, NfPcs
<1>2. inCnt' \in [NFs -> Int] /\ outCnt' \in [Rings -> Int]
  BY DEF IInv, TypeOK, InType, OutType, nf_hyp_block, inVars, outVars
<1> QED BY <1>1, <1>2, NfMoves DEF nf_hyp_block, NfGoto, inVars, outVars

\* The add of pkt_cnt that ends a flush preserves the invariant.
LEMMA FlushFaa ==
  ASSUME IInv, NEW i \in NFs, flush_faa(i)
  PROVE  IInv'
<1>1. nf_run(i) /\ "collect" \in NfPcs
  BY DEF nf_run, NfPcs
<1>2. inCnt' \in [NFs -> Int] /\ outCnt' \in [Rings -> Int]
  BY NFRings DEF IInv, TypeOK, InType, OutType, flush_faa, inVars
<1> QED BY <1>1, <1>2, NfMoves DEF flush_faa, NfGoto, inVars

\* A round of eos_pkt_collect preserves the invariant: the node it frees is the
\* oldest of both rings, and no other thread owns it.
LEMMA EosPktCollect ==
  ASSUME IInv, NEW i \in NFs, eos_pkt_collect(i)
  PROVE  IInv'
<1> DEFINE h == inHead[i]
           sn == Out(i, outHead[i])
           done == In(i, h).st \in {"EMPTY", "RECV_DONE"} /\ sn.st = "SENT_DONE"
<1>1. nf_run(i) /\ nfPc[i] = "collect" /\ "recv" \in NfPcs /\ i \in Rings
  BY NFRings DEF nf_run, eos_pkt_collect, NfPcs
<1>2. CASE ~done
  <2>1. inCnt' \in [NFs -> Int] /\ outCnt' \in [Rings -> Int]
    BY DEF IInv, TypeOK, InType, OutType, eos_pkt_collect
  <2> QED BY <1>1, <1>2, <2>1, NfMoves DEF eos_pkt_collect, Transmitted, Recycled
<1>3. CASE done
  <2> DEFINE free == Node("FREE", 0, sn.buf)
  <2>1. /\ outNode' = [outNode EXCEPT ![i][Slot(h)].st = "EMPTY"]
        /\ inNode' = [inNode EXCEPT ![i][Slot(h)] = free]
        /\ inHead' = [inHead EXCEPT ![i] = h + 1]
        /\ outHead' = [outHead EXCEPT ![i] = h + 1]
        /\ UNCHANGED <<inTail, freeHead, inCnt, outTail, mcaHead, outCnt, nfPc,
                       mem, inCache, outCache, mca, rxVars, txVars>>
    BY <1>3, InNumbers DEF eos_pkt_collect, Transmitted, Recycled
  <2>2. SegmentOf(i)
    BY SegmentInv
  <2>3. /\ h \in Nat /\ h = outHead[i] /\ h < Taken(i) /\ h < outTail[i] /\ Taken(i) \in Nat
        /\ inTail[i] \in Nat /\ outTail[i] \in Nat /\ freeHead[i] \in Nat
        /\ outTail[i] <= inTail[i] /\ inTail[i] <= freeHead[i] /\ freeHead[i] <= h + N
        /\ Slot(h) \in Slots
    <3>1. h \in Nat /\ h = outHead[i] /\ N \in Nat \ {0}
      BY InNumbers, ChainAssumption
    <3>2. h < Taken(i)
      BY <1>1, <1>3, <2>2, <3>1, OutNumbers DEF SegmentOf, OutStatesOf
    <3> QED BY <1>1, <3>1, <3>2, InNumbers, OutNumbers, SlotType
  <2>4. sn.buf = Slot(h)
    BY <2>2, <2>3 DEF SegmentOf, BuffersOf
  <2>5. /\ inNode \in [NFs -> [Slots -> InNodes]] /\ inHead \in [NFs -> Nat]
        /\ outNode \in [Rings -> [Slots -> OutNodes]] /\ outHead \in [Rings -> Nat]
    BY DEF IInv, TypeOK, InType, OutType
  <2>6. free \in InNodes /\ free = [st |-> "FREE", cnt |-> 0, buf |-> Slot(h)]
    BY <2>3, <2>4, ChainAssumption DEF InNodes, Node, PktStates
  <2> HIDE DEF free
  <2>7. TypeOK'
    <3>1. InType'
      BY <2>1, <2>3, <2>5, <2>6 DEF IInv, TypeOK, InType
    <3>2. [outNode[i][Slot(h)] EXCEPT !.st = "EMPTY"] \in OutNodes
      <4>1. outNode[i][Slot(h)] \in OutNodes
        BY <1>1, <2>3, <2>5
      <4> QED BY <4>1 DEF OutNodes, PktStates
    <3>3. OutType'
      BY <1>1, <2>1, <2>3, <2>5, <3>2 DEF IInv, TypeOK, OutType
    <3> QED BY <2>1, <3>1, <3>3 DEF IInv, TypeOK, NfType, McaType, RxType, TxType,
                                    rxVars, txVars
  <2>8. ASSUME NEW k \in (h + 1)..(h + N - 1)
        PROVE  In(i, k)' = In(i, k) /\ Out(i, k)' = Out(i, k)
    <3>1. Slot(k) \in Slots /\ Slot(k) # Slot(h)
      BY <2>3, SlotType, SlotInj, ChainAssumption
    <3> QED BY <1>1, <2>1, <2>3, <2>5, <3>1 DEF In, Out
  <2>9. ASSUME NEW k \in Int, k = h + N
        PROVE  In(i, k)' = free /\ Out(i, k)'.st = "EMPTY"
    <3>1. Slot(k) = Slot(h)
      BY <2>3, <2>9, SlotWrap
    <3>2. outNode'[i][Slot(h)] = [outNode[i][Slot(h)] EXCEPT !.st = "EMPTY"]
          /\ inNode'[i][Slot(h)] = free
      BY <1>1, <2>1, <2>3, <2>5
    <3>3. outNode[i][Slot(h)] \in OutNodes
      BY <1>1, <2>3, <2>5
    <3>4. [outNode[i][Slot(h)] EXCEPT !.st = "EMPTY"].st = "EMPTY"
      BY <3>3 DEF OutNodes
    <3> QED BY <3>1, <3>2, <3>4 DEF In, Out
  <2>10. /\ Taken(i)' = Taken(i) /\ inHead'[i] = h + 1 /\ outHead'[i] = h + 1
         /\ InHand(i)' <=> InHand(i)
         /\ Unread(i)' <=> Unread(i)
         /\ Processed(i)' <=> Processed(i)
    BY <1>1, <2>1, <2>5 DEF Taken, Src, InHand, Unread, Processed
  <2>11. SegmentOf(i)'
    <3>1. InOrder(i)' /\ OutOrder(i)'
      BY <1>1, <2>1, <2>2, <2>3, <2>10, InNumbers, OutNumbers, ChainAssumption
         DEF SegmentOf, InOrder, OutOrder
    <3>2. InStatesOf(i)' /\ InCountsOf(i)'
      <4> SUFFICES ASSUME NEW k \in (h + 1)..(h + N)
                   PROVE  /\ In(i, k)'.st = IF k < inTail[i] THEN "RECV_DONE"
                                ELSE IF k < freeHead[i] THEN "RECV_READY" ELSE "FREE"
                          /\ In(i, k)'.cnt > 0 <=> k < freeHead[i]
                          /\ k < freeHead[i] /\ OneEach(i) => In(i, k)'.cnt = 1
        BY <2>1, <2>3, <2>10, ChainAssumption DEF InStatesOf, InCountsOf, OneEach
      <4>1. CASE k = h + N
        BY <2>3, <2>6, <2>9, <4>1
      <4>2. CASE k # h + N
        <5>1. k \in (h + 1)..(h + N - 1) /\ k \in h..(h + N - 1)
          BY <2>3, <4>2, ChainAssumption
        <5> QED BY <2>2, <2>3, <2>8, <5>1 DEF SegmentOf, InStatesOf, InCountsOf
      <4> QED BY <4>1, <4>2
    <3>3. OutStatesOf(i)'
      <4>1. ASSUME NEW k \in (h + 1)..(h + N), k # h + N
            PROVE  k \in (h + 1)..(h + N - 1) /\ k \in h..(h + N - 1)
        BY <2>3, <4>1, ChainAssumption
      <4>2. outTail[i] <= h + N
        BY <1>1, <2>3, OutNumbers
      <4>3. ASSUME NEW k \in (h + 1)..(h + N)
            PROVE  /\ k < Taken(i) => \/ Out(i, k)'.st = "SENT_DONE"
                                      \/ i = L /\ Out(i, k)'.st = "TXING"
                   /\ Taken(i) <= k /\ k < outTail[i] => Out(i, k)'.st = "SENT_READY"
                   /\ outTail[i] <= k => Out(i, k)'.st = "EMPTY"
        <5>1. CASE k = h + N
          BY <1>1, <2>3, <2>9, <4>2, <5>1, OutNumbers
        <5>2. CASE k # h + N
          BY <2>2, <2>3, <2>8, <4>1, <5>2 DEF SegmentOf, OutStatesOf
        <5> QED BY <5>1, <5>2
      <4> QED BY <2>1, <2>3, <2>10, <4>3, ChainAssumption DEF OutStatesOf
    <3>4. BuffersOf(i)' /\ ContentsOf(i)'
      <4>1. ASSUME NEW k \in (h + 1)..(outTail[i] - 1)
            PROVE  Out(i, k)' = Out(i, k) /\ k \in h..(outTail[i] - 1)
        BY <1>1, <2>3, <2>8, OutNumbers, ChainAssumption
      <4>2. \A s \in Slots : inNode'[i][s].buf = s
        BY <2>1, <2>2, <2>3, <2>5, <2>6 DEF SegmentOf, BuffersOf
      <4> QED BY <2>1, <2>2, <2>3, <2>10, <4>1, <4>2 DEF SegmentOf, BuffersOf, ContentsOf
    <3>5. OutCountsOf(i)'
      BY <1>1, <2>1, <2>2, <2>3, <2>5 DEF SegmentOf, OutCountsOf, OutNodes
    <3>6. CacheOf(i)'
      <4>1. InHand(i) => In(i, outTail[i])' = In(i, outTail[i])
        <5>1. InHand(i) => outTail[i] \in (h + 1)..(h + N - 1)
          BY <2>3, InNumbers, ChainAssumption
        <5> QED BY <2>1, <2>8, <5>1 DEF In
      <4>2. InHand(i) /\ HandOf(i) => HandOf(i)'
        BY <2>1, <2>10, <4>1 DEF HandOf
      <4> QED BY <2>1, <2>2, <2>10, <4>2 DEF SegmentOf, CacheOf
    <3> QED BY <3>1, <3>2, <3>3, <3>4, <3>5, <3>6 DEF SegmentOf
  <2>12. Snapshots'
    <3>1. \A k \in Int : Out(Src, k)'.buf = Out(Src, k).buf /\ Out(Src, k)'.cnt = Out(Src, k).cnt
      BY <1>1, <2>1, <2>3, <2>5, SlotType DEF Out, Src, OutNodes
    <3>3. Recount'
      <4>1. Held \in Int
        BY NFRings DEF IInv, TypeOK, OutType, McaType, Src, Held
      <4>2. outNode'[Src][Slot(Held)].cnt = outNode[Src][Slot(Held)].cnt
        BY <1>1, <2>1, <2>3, <2>5, <4>1, SlotType DEF Src, OutNodes
      <4> QED BY <2>1, <4>2, RecountFrame DEF IInv, Snapshots
    <3>2. inHead[Dst] <= inHead'[Dst] /\ inHead'[Dst] \in Nat /\ inHead[Dst] \in Nat
          /\ freeHead[Dst] \in Nat /\ mcaHead[Src] \in Nat
      BY <2>1, <2>3, <2>5, NFRings DEF IInv, TypeOK, InType, OutType, McaType, Dst, Src
    <3> QED BY <2>1, <3>1, <3>2, <3>3, ChainAssumption DEF IInv, Snapshots, Src, Dst
  <2> QED BY <1>1, <2>7, <2>11, <2>12, NfSuffices
<1> QED BY <1>2, <1>3

\* The while loop of eos_pkt_recv_slow does not run: no input node is EMPTY.
LEMMA RecvAtTail ==
  ASSUME IInv, NEW i \in NFs
  PROVE  /\ NextToRecv(i) = inTail[i]
         /\ In(i, inTail[i]).st = "RECV_READY" => inTail[i] < freeHead[i]
<1> DEFINE t == inTail[i]
<1>1. /\ t \in Nat /\ inHead[i] \in Nat /\ freeHead[i] \in Nat /\ N \in Nat \ {0}
      /\ inHead[i] <= t /\ t <= inHead[i] + N
      /\ t <= freeHead[i] /\ freeHead[i] <= inHead[i] + N
  BY InNumbers, ChainAssumption
<1>2. InStatesOf(i)
  BY SegmentInv DEF SegmentOf
<1>3. /\ In(i, t).st # "EMPTY"
      /\ In(i, t).st = "RECV_READY" => t < freeHead[i]
  <2>1. CASE t < inHead[i] + N
    BY <1>1, <1>2, <2>1 DEF InStatesOf
  <2>2. CASE t = inHead[i] + N
    <3>1. In(i, t) = In(i, inHead[i])
      BY <1>1, <2>2, SlotWrap DEF In
    <3> QED BY <1>1, <1>2, <2>2, <3>1 DEF InStatesOf
  <2> QED BY <1>1, <2>1, <2>2
<1> DEFINE P(k) == /\ In(i, k).st # "EMPTY"
                   /\ \A j \in t..(k - 1) : In(i, j).st = "EMPTY"
<1>4. t \in t..(t + N) /\ P(t)
  BY <1>1, <1>3
<1>5. ASSUME NEW k \in t..(t + N), P(k)
      PROVE  k = t
  BY <1>1, <1>3, <1>5
<1> HIDE DEF P, t
<1>6. (CHOOSE k \in t..(t + N) : P(k)) = t
  BY <1>4, <1>5
<1>7. NextToRecv(i) = t
  BY <1>6 DEF NextToRecv, P, t
<1> QED BY <1>3, <1>7 DEF t

\* eos_pkt_recv preserves the invariant: the node at tail is never EMPTY, so the
\* search of eos_pkt_recv_slow stops at once.
LEMMA EosPktRecv ==
  ASSUME IInv, NEW i \in NFs, eos_pkt_recv(i)
  PROVE  IInv'
<1> DEFINE t == inTail[i]
           rn == In(i, t)
<1>1. nf_run(i) /\ nfPc[i] = "recv" /\ NextToRecv(i) = t /\ i \in Rings
      /\ (InHand(i) <=> Unread(i)) /\ ~Processed(i)
  BY RecvAtTail, NFRings DEF nf_run, eos_pkt_recv, InHand, Processed
<1>2. /\ inNode \in [NFs -> [Slots -> InNodes]] /\ inTail \in [NFs -> Nat]
      /\ nfPc \in [NFs -> NfPcs]
      /\ inCache \in [NFs -> [cnt : 0..K, idx : 0..K]]
      /\ outCache \in [Rings -> [cnt : 0..(K + 1), idx : 0..K, buf : Buf]]
      /\ inCnt \in [NFs -> Int] /\ outCnt \in [Rings -> Int]
  BY DEF IInv, TypeOK, InType, OutType, NfType
<1>3. CASE ~Unread(i) /\ rn.st # "RECV_READY"
  <2>1. UNCHANGED <<inNode, inHead, inTail, outNode, outHead, outTail, mem, inCache,
                    outCache, inCnt, outCnt>>
    BY <1>1, <1>2, <1>3 DEF eos_pkt_recv, outVars
  <2>2. \E p \in {"collect", "block"} : nfPc' = [nfPc EXCEPT ![i] = p]
    BY <1>1, <1>3 DEF eos_pkt_recv
  <2> QED BY <1>1, <1>2, <1>3, <2>1, <2>2, NfMoves DEF NfPcs
<1>5. CASE Unread(i)
  <2>1. /\ inCache' = [inCache EXCEPT ![i].idx = @ + 1]
        /\ nfPc' = [nfPc EXCEPT ![i] = "work"]
        /\ UNCHANGED <<inNode, inTail, outCache>>
        /\ UNCHANGED <<inHead, freeHead, inCnt, outVars, mem, mca, rxVars, txVars>>
    BY <1>5 DEF eos_pkt_recv
  <2>2. SegmentOf(i) /\ InHand(i)
    BY <1>1, <1>5, SegmentInv
  <2> DEFINE c == inCache[i].cnt
             x == inCache[i].idx
  <2>3. /\ inCache[i] = [cnt |-> c, idx |-> x] /\ c \in 0..K /\ x \in 0..K
        /\ x < c /\ HandOf(i)
    <3>1. HandOf(i)
      BY <2>2 DEF SegmentOf, CacheOf
    <3>2. inCache[i] \in [cnt : 0..K, idx : 0..K]
      BY <1>2
    <3>3. inCache[i] = [cnt |-> c, idx |-> x] /\ c \in 0..K /\ x \in 0..K
      BY <3>2
    <3>4. x <= c /\ x # c
      BY <1>5, <3>1 DEF HandOf, Unread
    <3> QED BY <3>1, <3>3, <3>4, ChainAssumption
  <2>4. inCache'[i] = [cnt |-> c, idx |-> x + 1] /\ x + 1 \in 0..K
        /\ inCache' = [inCache EXCEPT ![i] = [cnt |-> c, idx |-> x + 1]]
    <3>1. [inCache[i] EXCEPT !.idx = x + 1] = [cnt |-> c, idx |-> x + 1]
      BY <2>3
    <3>2. inCache' = [inCache EXCEPT ![i] = [cnt |-> c, idx |-> x + 1]]
      BY <2>1, <3>1
    <3> QED BY <1>2, <2>3, <3>2, ChainAssumption
  <2> HIDE DEF c, x
  <2>5. nfPc'[i] = "work" /\ InHand(i)' /\ Taken(i)' = Taken(i) /\ ~Processed(i)'
    BY <1>2, <2>1 DEF InHand, Taken, Src, outVars, Processed
  <2>6. TypeOK'
    <3>1. NfType'
      BY <1>2, <2>1, <2>3, <2>4 DEF IInv, TypeOK, NfType, NfPcs
    <3> QED BY <2>1, <3>1 DEF IInv, TypeOK, InType, OutType, McaType, RxType, TxType,
                              outVars, rxVars, txVars
  <2>7. SegmentOf(i)'
    <3>1. InOrder(i)' /\ OutOrder(i)' /\ InStatesOf(i)' /\ InCountsOf(i)' /\ OutStatesOf(i)'
          /\ OutCountsOf(i)'
      BY <2>1, <2>2, <2>5 DEF SegmentOf, InOrder, OutOrder, InStatesOf, InCountsOf,
                              OutStatesOf, OutCountsOf, In, Out, outVars
    <3>2. BuffersOf(i)' /\ ContentsOf(i)'
      BY <1>1, <2>1, <2>2, <2>5 DEF SegmentOf, BuffersOf, ContentsOf, Out, outVars
    <3>3. HandOf(i)'
      BY <1>1, <1>2, <2>1, <2>3, <2>4, <2>5, ChainAssumption DEF HandOf, In, outVars, c, x
    <3>4. CacheOf(i)'
      BY <2>5, <3>3 DEF CacheOf
    <3> QED BY <3>1, <3>2, <3>4 DEF SegmentOf
  <2>8. Snapshots'
    <3>1. Recount'
      BY <2>1, RecountFrame DEF IInv, Snapshots, Out, outVars
    <3> QED BY <2>1, <3>1 DEF IInv, Snapshots, Src, Dst, Out, outVars
  <2> QED BY <1>1, <2>6, <2>7, <2>8, NfSuffices
<1>4. CASE ~Unread(i) /\ rn.st = "RECV_READY"
  <2> DEFINE c == rn.cnt
  <2>1. /\ inCache' = [inCache EXCEPT ![i] = [cnt |-> rn.cnt, idx |-> 1]]
        /\ outCache' = [outCache EXCEPT ![i].buf = rn.buf, ![i].cnt = rn.cnt]
        /\ inNode' = [inNode EXCEPT ![i][Slot(t)].st = "RECV_DONE"]
        /\ inTail' = [inTail EXCEPT ![i] = t + 1]
        /\ nfPc' = [nfPc EXCEPT ![i] = "faa_in"]
        /\ UNCHANGED <<inHead, freeHead, inCnt, outVars, mem, mca, rxVars, txVars>>
    BY <1>1, <1>4 DEF eos_pkt_recv
  <2>2. SegmentOf(i)
    BY SegmentInv
  <2>3. /\ t \in Nat /\ t = outTail[i] /\ t < freeHead[i] /\ Slot(t) \in Slots
        /\ inHead[i] \in Nat /\ freeHead[i] \in Nat
        /\ inHead[i] <= t /\ freeHead[i] <= inHead[i] + N
    BY <1>1, <1>4, InNumbers, RecvAtTail, SlotType
  <2>4. /\ c > 0 /\ rn.buf = Slot(t) /\ rn \in InNodes /\ c \in 0..K
        /\ OneEach(i) => c = 1
    <3>1. c > 0 /\ (OneEach(i) => c = 1)
      BY <2>2, <2>3, ChainAssumption DEF SegmentOf, InCountsOf
    <3>2. rn \in InNodes /\ rn.buf = Slot(t)
      BY <1>2, <2>2, <2>3 DEF SegmentOf, BuffersOf, In
    <3> QED BY <3>1, <3>2 DEF InNodes
  <2>40. rn.cnt = c
    OBVIOUS
  <2> HIDE DEF rn, c
  <2>5. /\ outCache[i] \in [cnt : 0..(K + 1), idx : 0..K, buf : Buf]
        /\ outCache[i].cnt = 0 /\ outCache[i].idx = 0
    BY <1>1, <1>2, <1>4, <2>2 DEF SegmentOf, CacheOf
  <2>6. outCache'[i] = [cnt |-> c, idx |-> 0, buf |-> Slot(t)]
    BY <1>1, <1>2, <2>1, <2>4, <2>40, <2>5
  <2>7. [rn EXCEPT !.st = "RECV_DONE"] \in InNodes
        /\ [rn EXCEPT !.st = "RECV_DONE"] = [st |-> "RECV_DONE", cnt |-> c, buf |-> Slot(t)]
    BY <2>4, <2>40 DEF InNodes, PktStates
  <2>8. inNode' = [inNode EXCEPT ![i][Slot(t)] = [st |-> "RECV_DONE", cnt |-> c, buf |-> Slot(t)]]
    BY <2>1, <2>7 DEF rn, In
  <2>9. TypeOK'
    <3>1. InType'
      BY <2>1, <2>3, <2>7, <2>8 DEF IInv, TypeOK, InType
    <3>2. outCache' \in [Rings -> [cnt : 0..(K + 1), idx : 0..K, buf : Buf]]
      <4>1. outCache'[i] \in [cnt : 0..(K + 1), idx : 0..K, buf : Buf]
        BY <2>3, <2>4, <2>6, ChainAssumption DEF Buf
      <4> QED BY <1>1, <1>2, <2>1, <4>1
    <3>3. [cnt |-> rn.cnt, idx |-> 1] \in [cnt : 0..K, idx : 0..K]
      BY <2>4, <2>40, ChainAssumption
    <3>4. NfType'
      BY <1>2, <2>1, <3>2, <3>3 DEF IInv, TypeOK, NfType, NfPcs
    <3> QED BY <2>1, <3>1, <3>4 DEF IInv, TypeOK, OutType, McaType, RxType, TxType,
                                    outVars, rxVars, txVars
  <2>10. ASSUME NEW k \in inHead[i]..(inHead[i] + N - 1)
         PROVE  /\ k = t => In(i, k)' = [st |-> "RECV_DONE", cnt |-> c, buf |-> Slot(t)]
                /\ k # t => In(i, k)' = In(i, k)
    <3>1. Slot(k) \in Slots /\ (k # t => Slot(k) # Slot(t))
      BY <2>3, SlotType, SlotInj, ChainAssumption
    <3> QED BY <1>2, <2>3, <2>8, <3>1 DEF In
  <2>11. /\ nfPc'[i] = "faa_in" /\ inTail'[i] = t + 1 /\ InHand(i)'
         /\ Taken(i)' = Taken(i) /\ inCache'[i] = [cnt |-> c, idx |-> 1] /\ ~Processed(i)'
    BY <1>2, <2>1, <2>40 DEF InHand, Taken, Src, outVars, Processed
  <2>12. SegmentOf(i)'
    <3>1. InOrder(i)' /\ OutOrder(i)'
      BY <2>1, <2>2, <2>3, <2>11 DEF SegmentOf, InOrder, OutOrder, outVars
    <3>2. InStatesOf(i)' /\ InCountsOf(i)'
      BY <2>1, <2>2, <2>3, <2>4, <2>10, <2>11 DEF SegmentOf, InStatesOf, InCountsOf, OneEach
    <3>3. OutStatesOf(i)' /\ OutCountsOf(i)'
      BY <2>1, <2>2, <2>11 DEF SegmentOf, OutStatesOf, OutCountsOf, Out, outVars
    <3>4. BuffersOf(i)'
      <4>1. \A s \in Slots : inNode'[i][s].buf = s
        BY <1>2, <2>2, <2>3, <2>8 DEF SegmentOf, BuffersOf
      <4>2. outCache'[i].buf = Slot(outTail[i])
        BY <2>3, <2>6
      <4> QED BY <2>1, <2>2, <4>1, <4>2 DEF SegmentOf, BuffersOf, Out, outVars
    <3>5. ContentsOf(i)'
      BY <2>1, <2>2, <2>3, <2>11 DEF SegmentOf, ContentsOf, Out, outVars
    <3>6. HandOf(i)'
      <4>1. In(i, outTail[i])'.cnt = c
        BY <2>1, <2>3, <2>10, ChainAssumption DEF outVars
      <4> QED BY <1>2, <2>4, <2>6, <2>11, <4>1 DEF HandOf
    <3>7. CacheOf(i)'
      BY <2>11, <3>6 DEF CacheOf
    <3> QED BY <3>1, <3>2, <3>3, <3>4, <3>5, <3>7 DEF SegmentOf
  <2>13. Snapshots'
    <3>1. Recount'
      BY <2>1, RecountFrame DEF IInv, Snapshots, Out, outVars
    <3> QED BY <2>1, <3>1 DEF IInv, Snapshots, Src, Dst, Out, outVars
  <2> QED BY <1>1, <2>9, <2>12, <2>13, NfSuffices
<1> QED BY <1>3, <1>4, <1>5

\* The work of a function preserves the invariant: it writes the buffer of the
\* node in hand and no other.
LEMMA NfProcess ==
  ASSUME IInv, NEW i \in NFs, nf_process(i)
  PROVE  IInv'
<1> DEFINE t == outTail[i]
<1>1. /\ nf_run(i) /\ nfPc[i] = "work" /\ i \in Rings /\ InHand(i)
      /\ nfPc' = [nfPc EXCEPT ![i] = "flush"]
      /\ UNCHANGED <<inVars, outVars, inCache, mca, rxVars, txVars>>
  BY NFRings DEF nf_run, nf_process, NfGoto, InHand
<1>2. /\ nfPc \in [NFs -> NfPcs] /\ mem \in [NFs -> [Slots -> Packet]]
      /\ inCache \in [NFs -> [cnt : 0..K, idx : 0..K]]
      /\ outCache \in [Rings -> [cnt : 0..(K + 1), idx : 0..K, buf : Buf]]
  BY DEF IInv, TypeOK, NfType
<1>3. SegmentOf(i)
  BY SegmentInv
<1>4. /\ t \in Nat /\ Slot(t) \in Slots /\ outHead[i] \in Nat /\ outHead[i] <= t
      /\ inTail[i] = t + 1 /\ freeHead[i] \in Nat /\ t < freeHead[i]
      /\ freeHead[i] <= outHead[i] + N
  BY <1>1, InNumbers, SlotType
<1> DEFINE x == inCache[i].idx
           hop == IF Unread(i) THEN i - 1 ELSE i
<1>5. /\ outCache[i].buf = Slot(t) /\ HandOf(i)
      /\ mem[i][Slot(t)] = [id |-> t, hop |-> i - 1]
  <2>1. outCache[i].buf = Slot(t) /\ HandOf(i)
    BY <1>1, <1>3 DEF SegmentOf, CacheOf, BuffersOf
  <2>2. ~Processed(i)
    BY <1>1 DEF Processed
  <2>3. mem[i][Slot(t)] = [id |-> t, hop |-> i - 1]
    BY <1>1, <1>3, <2>2 DEF SegmentOf, ContentsOf
  <2> QED BY <2>1, <2>3
<1>6. mem' = [mem EXCEPT ![i][Slot(t)] = [id |-> t, hop |-> hop]]
  <2>1. CASE Unread(i)
    <3>1. mem' = mem /\ hop = i - 1
      BY <2>1 DEF nf_process
    <3> QED BY <1>2, <1>4, <1>5, <3>1
  <2>2. CASE ~Unread(i)
    <3>1. [mem[i][Slot(t)] EXCEPT !.hop = i] = [id |-> t, hop |-> i]
      BY <1>5
    <3> QED BY <1>5, <2>2, <3>1 DEF nf_process
  <2> QED BY <2>1, <2>2
<1>7. PICK n \in Answers(i) :
        outCache' = [outCache EXCEPT ![i].idx = n,
                                     ![i].cnt = IF i \notin Servers THEN @
                                                ELSE IF Unread(i) THEN K + 1 ELSE n]
  BY DEF nf_process
<1> DEFINE c == IF i \notin Servers THEN inCache[i].cnt
                ELSE IF Unread(i) THEN K + 1 ELSE n
<1>71. /\ x \in 0..K /\ x > 0 /\ inCache[i].cnt \in 0..K /\ outCache[i].idx \in 0..K
       /\ outCache[i].idx <= x - 1
       /\ i \notin Servers => outCache[i].idx = x - 1 /\ outCache[i].cnt = inCache[i].cnt
  BY <1>1, <1>2, <1>5 DEF HandOf, Processed
<1>72. /\ n \in 0..K
       /\ i \notin Servers => n = x
       /\ i \in Servers /\ Unread(i) => n <= x
  <2>1. CASE i \in Servers
    BY <1>7, <1>71, <2>1, ChainAssumption DEF Answers
  <2>2. CASE i \notin Servers
    BY <1>7, <1>71, <2>2 DEF Answers
  <2> QED BY <2>1, <2>2
<1>73. c \in 0..(K + 1)
  BY <1>71, <1>72, ChainAssumption
<1>74. outCache' = [outCache EXCEPT ![i] = [cnt |-> c, idx |-> n, buf |-> Slot(t)]]
  <2> DEFINE d == IF i \notin Servers THEN outCache[i].cnt
                  ELSE IF Unread(i) THEN K + 1 ELSE n
  <2>1. d = c
    BY <1>71
  <2>2. outCache[i] = [cnt |-> outCache[i].cnt, idx |-> outCache[i].idx, buf |-> Slot(t)]
    BY <1>1, <1>2, <1>5
  <2>3. outCache' = [outCache EXCEPT ![i] = [[outCache[i] EXCEPT !.idx = n] EXCEPT !.cnt = d]]
    <3>1. [outCache[i] EXCEPT !.idx = n].cnt = outCache[i].cnt
      BY <2>2
    <3>2. CASE i \notin Servers
      <4>1. d = outCache[i].cnt
        BY <3>2
      <4>2. outCache' = [outCache EXCEPT ![i].idx = n, ![i].cnt = @]
        BY <1>7, <3>2
      <4> HIDE DEF d
      <4> QED BY <1>1, <1>2, <3>1, <4>1, <4>2
    <3>3. CASE i \in Servers /\ Unread(i)
      BY <1>1, <1>2, <1>7, <3>1, <3>3
    <3>4. CASE i \in Servers /\ ~Unread(i)
      BY <1>1, <1>2, <1>7, <3>1, <3>4
    <3> QED BY <3>2, <3>3, <3>4
  <2> HIDE DEF d, c
  <2>4. [outCache[i] EXCEPT !.idx = n] = [cnt |-> outCache[i].cnt, idx |-> n, buf |-> Slot(t)]
    BY <2>2
  <2>5. [[cnt |-> outCache[i].cnt, idx |-> n, buf |-> Slot(t)] EXCEPT !.cnt = d]
          = [cnt |-> d, idx |-> n, buf |-> Slot(t)]
    OBVIOUS
  <2> QED BY <2>1, <2>3, <2>4, <2>5
<1> HIDE DEF hop, c
<1>9. /\ outCache'[i] = [cnt |-> c, idx |-> n, buf |-> Slot(t)]
      /\ nfPc'[i] = "flush" /\ InHand(i)' /\ Taken(i)' = Taken(i)
      /\ mem'[i][Slot(t)] = [id |-> t, hop |-> hop]
      /\ \A s \in Slots : s # Slot(t) => mem'[i][s] = mem[i][s]
  BY <1>1, <1>2, <1>4, <1>6, <1>74 DEF InHand, Taken, Src, outVars
<1>91. (Unread(i)' <=> Unread(i)) /\ (Processed(i)' <=> ~Unread(i))
  BY <1>1, <1>9 DEF Unread, Processed
<1>10. TypeOK'
  <2>1. [id |-> t, hop |-> hop] \in Packet /\ [cnt |-> c, idx |-> n, buf |-> Slot(t)]
          \in [cnt : 0..(K + 1), idx : 0..K, buf : Buf]
    BY <1>1, <1>4, <1>72, <1>73, NFRings DEF Packet, Buf, hop
  <2>2. NfType'
    BY <1>1, <1>2, <1>4, <1>6, <1>74, <2>1 DEF IInv, TypeOK, NfType, NfPcs
  <2> QED BY <1>1, <2>2 DEF IInv, TypeOK, InType, OutType, McaType, RxType, TxType,
                            inVars, outVars, rxVars, txVars
<1>11. SegmentOf(i)'
  <2>1. InOrder(i)' /\ OutOrder(i)' /\ InStatesOf(i)' /\ InCountsOf(i)' /\ OutStatesOf(i)'
        /\ OutCountsOf(i)'
    BY <1>1, <1>3, <1>9 DEF SegmentOf, InOrder, OutOrder, InStatesOf, InCountsOf,
                            OutStatesOf, OutCountsOf, In, Out, inVars, outVars
  <2>2. BuffersOf(i)'
    <3>1. outCache'[i].buf = Slot(outTail[i])
      BY <1>9
    <3> QED BY <1>1, <1>3, <3>1 DEF SegmentOf, BuffersOf, Out, inVars, outVars
  <2>3. ContentsOf(i)'
    <3>1. ASSUME NEW k \in outHead[i]..(freeHead[i] - 1), k # t
          PROVE  mem'[i][Slot(k)] = mem[i][Slot(k)]
      <4>0. k \in Int /\ t \in Int /\ ((k < t /\ t < k + N) \/ (t < k /\ k < t + N))
        BY <1>4, <3>1, ChainAssumption
      <4>1. Slot(k) \in Slots /\ Slot(k) # Slot(t)
        BY ONLY <4>0, SlotType, SlotInj
      <4> QED BY <1>9, <4>1
    <3>2. \A k \in inTail[i]..(freeHead[i] - 1) : mem'[i][Slot(k)] = [id |-> k, hop |-> i - 1]
      BY <1>3, <1>4, <3>1 DEF SegmentOf, ContentsOf
    <3>3. \A k \in outHead[i]..(outTail[i] - 1) :
            Out(i, k).st \in {"SENT_READY", "TXING"} => mem'[i][Slot(k)] = [id |-> k, hop |-> i]
      BY <1>3, <1>4, <3>1 DEF SegmentOf, ContentsOf
    <3>4. hop = IF Processed(i)' THEN i ELSE i - 1
      BY <1>91 DEF hop
    <3> QED BY <1>1, <1>9, <3>2, <3>3, <3>4 DEF ContentsOf, Out, inVars, outVars
  <2>4. HandOf(i)'
    <3>1. In(i, outTail[i])' = In(i, outTail[i]) /\ inCache' = inCache
      BY <1>1 DEF In, inVars, outVars
    <3> QED BY <1>5, <1>71, <1>72, <1>9, <1>91, <3>1 DEF HandOf, c
  <2>5. CacheOf(i)'
    BY <1>9, <2>4 DEF CacheOf
  <2> QED BY <2>1, <2>2, <2>3, <2>5 DEF SegmentOf
<1>12. Snapshots'
  <2>1. ASSUME mca.pc = "publish"
        PROVE  mem'[Dst][mca.rbuf] = [id |-> freeHead[Dst], hop |-> Dst - 1]
    <3>1. /\ mem[Dst][mca.rbuf] = [id |-> freeHead[Dst], hop |-> Dst - 1]
          /\ mca.rbuf = Slot(freeHead[Dst]) /\ freeHead[Dst] < inHead[Dst] + N
      BY <2>1 DEF IInv, Snapshots
    <3>2. Dst \in NFs
      BY DEF IInv, TypeOK, McaType, Dst
    <3>3. CASE Dst = i
      <4>1. Slot(freeHead[i]) \in Slots /\ Slot(freeHead[i]) # Slot(t)
        BY <1>4, <3>1, <3>3, InNumbers, SlotType, SlotInj, ChainAssumption
      <4> QED BY <1>9, <3>1, <3>3, <4>1
    <3>4. CASE Dst # i
      BY <1>2, <1>6, <3>1, <3>2, <3>4
    <3> QED BY <3>3, <3>4
  <2>2. Recount'
    BY <1>1, RecountFrame DEF IInv, Snapshots, Out, inVars, outVars
  <2> QED BY <1>1, <2>1, <2>2 DEF IInv, Snapshots, Src, Dst, Out, inVars, outVars
<1> QED BY <1>1, <1>10, <1>11, <1>12, NfSuffices

\* A network function never finds its output ring full.
LEMMA FlushRoom ==
  ASSUME IInv, NEW i \in NFs, nfPc[i] = "flush"
  PROVE  CanFlush(i) /\ outTail[i] < outHead[i] + N
<1>1. InHand(i) /\ i \in Rings
  BY NFRings DEF InHand
<1>2. outTail[i] < outHead[i] + N
  BY <1>1, InNumbers, ChainAssumption
<1>3. OutStatesOf(i)
  BY SegmentInv DEF SegmentOf
<1>4. outHead[i] \in Nat /\ outTail[i] \in Nat /\ outHead[i] <= outTail[i] /\ N \in Nat
  BY InNumbers, ChainAssumption
<1> QED BY <1>2, <1>3, <1>4 DEF OutStatesOf, CanFlush

\* A flush preserves the invariant: it takes place at the index of the node in hand.
LEMMA EosPktSendFlush ==
  ASSUME IInv, NEW i \in NFs, eos_pkt_send_flush(i)
  PROVE  IInv'
<1> DEFINE t == outTail[i]
           n == outCache[i].cnt
<1>1. /\ nf_run(i) /\ nfPc[i] = "flush" /\ i \in Rings /\ InHand(i) /\ CanFlush(i)
  BY FlushRoom, NFRings DEF nf_run, eos_pkt_send_flush, InHand
<1>0. /\ inCache[i].idx \in 0..K /\ inCache[i].cnt \in 0..K
      /\ outCache[i].idx \in 0..K /\ outCache[i].cnt \in 0..(K + 1)
      /\ inCache[i].idx <= inCache[i].cnt
      /\ inCache[i].cnt = In(i, t).cnt
      /\ i \in Servers => IF Unread(i) THEN outCache[i].cnt = K + 1
                          ELSE outCache[i].cnt = outCache[i].idx
      /\ i \notin Servers => /\ outCache[i].cnt = inCache[i].cnt
                             /\ outCache[i].idx = inCache[i].idx
  <2>1. HandOf(i)
    BY <1>1, SegmentInv DEF SegmentOf, CacheOf
  <2>2. inCache[i] \in [cnt : 0..K, idx : 0..K]
        /\ outCache[i] \in [cnt : 0..(K + 1), idx : 0..K, buf : Buf]
    BY <1>1 DEF IInv, TypeOK, NfType
  <2>3. /\ inCache[i].idx \in 0..K /\ inCache[i].cnt \in 0..K
        /\ outCache[i].idx \in 0..K /\ outCache[i].cnt \in 0..(K + 1)
    BY <2>2
  <2> QED BY <1>1, <2>1, <2>3, ChainAssumption DEF HandOf, Processed
<1>00. SUFFICES ASSUME ~Unread(i) PROVE IInv'
  <2> SUFFICES ASSUME Unread(i) PROVE IInv'
    OBVIOUS
  <2>1. ~(outCache[i].idx >= outCache[i].cnt)
    BY <1>0, ChainAssumption DEF Unread
  <2>2. /\ nfPc' = [nfPc EXCEPT ![i] = "collect"]
        /\ UNCHANGED <<inNode, inHead, inTail, outNode, outHead, outTail, mem, inCache, outCache>>
        /\ inCnt' = inCnt /\ outCnt' = outCnt
    BY <2>1 DEF eos_pkt_send_flush, inVars
  <2>3. inCnt' \in [NFs -> Int] /\ outCnt' \in [Rings -> Int]
    BY <2>2 DEF IInv, TypeOK, InType, OutType
  <2> QED BY <1>1, <2>2, <2>3, NfMoves DEF NfPcs
<1>2. /\ nfPc \in [NFs -> NfPcs] /\ outNode \in [Rings -> [Slots -> OutNodes]]
      /\ outCache \in [Rings -> [cnt : 0..(K + 1), idx : 0..K, buf : Buf]]
      /\ outTail \in [Rings -> Nat]
  BY DEF IInv, TypeOK, OutType, NfType
<1>3. SegmentOf(i)
  BY SegmentInv
<1>4. /\ outCache[i] \in [cnt : 0..(K + 1), idx : 0..K, buf : Buf]
      /\ n \in 0..K /\ outCache[i].idx = n /\ outCache[i].buf = Slot(t)
      /\ i < L /\ OneEach(i + 1) => n = 1
      /\ i < L /\ i \notin Servers => n > 0
  <2>1. outCache[i].buf = Slot(t) /\ outCache[i] \in [cnt : 0..(K + 1), idx : 0..K, buf : Buf]
    BY <1>1, <1>2, <1>3 DEF SegmentOf, BuffersOf
  <2>2. outCache[i].idx = n /\ n \in 0..K
    BY <1>0, <1>00 DEF Unread
  <2>3. In(i, t).cnt > 0 /\ (OneEach(i) => In(i, t).cnt = 1)
    <3>1. t \in inHead[i]..(inHead[i] + N - 1) /\ t < freeHead[i]
      BY <1>1, InNumbers, ChainAssumption
    <3> QED BY <1>3, <3>1 DEF SegmentOf, InCountsOf
  <2>4. OneEach(i + 1) => OneEach(i) /\ i \notin Servers
    BY ChainAssumption DEF OneEach, NFs
  <2> QED BY <1>0, <2>1, <2>2, <2>3, <2>4
<1>5. /\ t \in Nat /\ Slot(t) \in Slots /\ outHead[i] \in Nat /\ outHead[i] <= t
      /\ t < outHead[i] + N /\ inTail[i] = t + 1
      /\ Taken(i) \in Nat /\ Taken(i) <= t
  BY <1>1, InNumbers, OutNumbers, FlushRoom, SlotType
<1> DEFINE node == [st |-> "SENT_READY", cnt |-> n, buf |-> Slot(t)]
<1>6. /\ outNode' = [outNode EXCEPT ![i][Slot(t)] = node]
      /\ outTail' = [outTail EXCEPT ![i] = t + 1]
      /\ outCache' = [outCache EXCEPT ![i].cnt = 0, ![i].idx = 0]
      /\ nfPc' = [nfPc EXCEPT ![i] = "faa_out"]
      /\ UNCHANGED <<inVars, outHead, mcaHead, outCnt, mem, inCache, mca, rxVars, txVars>>
  BY <1>1, <1>4 DEF eos_pkt_send_flush, flush, Node
<1>7. node \in OutNodes
  BY <1>4, <1>5 DEF OutNodes, PktStates, Buf
<1>8. /\ outCache' = [outCache EXCEPT ![i] = [cnt |-> 0, idx |-> 0, buf |-> Slot(t)]]
      /\ [cnt |-> 0, idx |-> 0, buf |-> Slot(t)] \in [cnt : 0..(K + 1), idx : 0..K, buf : Buf]
  <2>1. outCache[i] = [cnt |-> n, idx |-> n, buf |-> Slot(t)]
    BY <1>4
  <2>2. [outCache[i] EXCEPT !.cnt = 0] = [cnt |-> 0, idx |-> n, buf |-> Slot(t)]
    BY <2>1
  <2>3. [[cnt |-> 0, idx |-> n, buf |-> Slot(t)] EXCEPT !.idx = 0]
          = [cnt |-> 0, idx |-> 0, buf |-> Slot(t)]
    OBVIOUS
  <2>4. outCache' = [outCache EXCEPT ![i] = [cnt |-> 0, idx |-> 0, buf |-> Slot(t)]]
    BY <1>1, <1>2, <1>6, <2>2, <2>3
  <2> QED BY <1>5, <2>4, ChainAssumption DEF Buf
<1> HIDE DEF n
<1>9. /\ outNode'[i][Slot(t)] = node /\ outTail'[i] = t + 1
      /\ \A s \in Slots : s # Slot(t) => outNode'[i][s] = outNode[i][s]
      /\ outCache'[i].cnt = 0 /\ outCache'[i].idx = 0
      /\ nfPc'[i] = "faa_out" /\ ~InHand(i)' /\ Taken(i)' = Taken(i)
  <2> HIDE DEF node
  <2>1. /\ outNode'[i][Slot(t)] = node
        /\ \A s \in Slots : s # Slot(t) => outNode'[i][s] = outNode[i][s]
    BY <1>1, <1>2, <1>5, <1>6
  <2>2. outTail'[i] = t + 1 /\ nfPc'[i] = "faa_out" /\ ~InHand(i)'
    BY <1>00, <1>1, <1>2, <1>6 DEF InHand, Unread
  <2>3. outCache'[i].cnt = 0 /\ outCache'[i].idx = 0
    BY <1>1, <1>2, <1>8
  <2>4. Taken(i)' = Taken(i)
    BY <1>6 DEF Taken, Src
  <2> QED BY <2>1, <2>2, <2>3, <2>4
<1>10. TypeOK'
  <2> HIDE DEF node
  <2>1. OutType'
    BY <1>1, <1>2, <1>5, <1>6, <1>7 DEF IInv, TypeOK, OutType
  <2>2. outCache' \in [Rings -> [cnt : 0..(K + 1), idx : 0..K, buf : Buf]]
    BY <1>1, <1>2, <1>8
  <2>3. NfType'
    BY <1>2, <1>6, <2>2 DEF IInv, TypeOK, NfType, NfPcs
  <2> QED BY <1>6, <2>1, <2>3 DEF IInv, TypeOK, InType, McaType, RxType, TxType,
                                  inVars, rxVars, txVars
<1>11. ASSUME NEW k \in outHead[i]..(outHead[i] + N - 1)
       PROVE  /\ k = t => Out(i, k)' = node
              /\ k # t => Out(i, k)' = Out(i, k)
  <2>1. Slot(k) \in Slots /\ (k # t => Slot(k) # Slot(t))
    BY <1>5, SlotType, SlotInj, ChainAssumption
  <2> QED BY <1>9, <2>1 DEF Out
<1>12. SegmentOf(i)'
  <2>1. InOrder(i)' /\ OutOrder(i)' /\ InStatesOf(i)' /\ InCountsOf(i)'
    BY <1>3, <1>5, <1>6, <1>9, ChainAssumption
       DEF SegmentOf, InOrder, OutOrder, InStatesOf, InCountsOf, In, inVars
  <2>2. OutStatesOf(i)'
    BY <1>3, <1>5, <1>6, <1>9, <1>11 DEF SegmentOf, OutStatesOf
  <2>3. BuffersOf(i)'
    <3>1. \A k \in outHead[i]..(outTail'[i] - 1) : Out(i, k)'.buf = Slot(k)
      <4> SUFFICES ASSUME NEW k \in outHead[i]..t PROVE Out(i, k)'.buf = Slot(k)
        BY <1>5, <1>9
      <4>1. CASE k = t
        BY <1>5, <1>11, <4>1, ChainAssumption
      <4>2. CASE k # t
        BY <1>3, <1>5, <1>11, <4>2, ChainAssumption DEF SegmentOf, BuffersOf
      <4> QED BY <4>1, <4>2
    <3> QED BY <1>3, <1>6, <1>9, <3>1 DEF SegmentOf, BuffersOf, inVars
  <2>4. ContentsOf(i)'
    <3>1. mem[i][Slot(t)] = [id |-> t, hop |-> i]
      BY <1>00, <1>1, <1>3 DEF SegmentOf, ContentsOf, Processed
    <3>2. \A k \in outHead[i]..(outTail'[i] - 1) :
            Out(i, k)'.st \in {"SENT_READY", "TXING"} => mem[i][Slot(k)] = [id |-> k, hop |-> i]
      <4> SUFFICES ASSUME NEW k \in outHead[i]..t,
                          Out(i, k)'.st \in {"SENT_READY", "TXING"}
                   PROVE  mem[i][Slot(k)] = [id |-> k, hop |-> i]
        BY <1>5, <1>9
      <4>1. CASE k = t
        BY <3>1, <4>1
      <4>2. CASE k # t
        BY <1>3, <1>5, <1>11, <4>2, ChainAssumption DEF SegmentOf, ContentsOf
      <4> QED BY <4>1, <4>2
    <3> QED BY <1>3, <1>6, <1>9, <3>2 DEF SegmentOf, ContentsOf, inVars
  <2>5. OutCountsOf(i)'
    <3>1. ASSUME NEW s \in Slots, s < t + 1, s # Slot(t)
          PROVE  s < t
      BY <1>5, <3>1, SlotLow, ChainAssumption DEF Slots
    <3>2. \A s \in Slots : s = Slot(t) \/ outNode'[i][s] = outNode[i][s]
      BY <1>9
    <3>3. outNode'[i][Slot(t)].cnt = n /\ outNode'[i][Slot(t)].st = "SENT_READY"
      BY <1>9
    <3>4. OneEach(i + 1)' <=> OneEach(i + 1)
      BY DEF OneEach
    <3> QED BY <1>3, <1>4, <1>5, <1>9, <3>1, <3>2, <3>3, <3>4 DEF SegmentOf, OutCountsOf
  <2>6. CacheOf(i)'
    BY <1>00, <1>6, <1>9 DEF CacheOf, Unread
  <2> QED BY <2>1, <2>2, <2>3, <2>4, <2>5, <2>6 DEF SegmentOf
<1>13. Snapshots'
  <2>1. mca.conn \in NFs /\ Src \in Rings /\ Src \in Int
    BY NFRings DEF IInv, TypeOK, McaType, Src
  <2>2. ASSUME mca.pc = "copy"
        PROVE  mcaHead[Src] < outTail'[Src] /\ mca.sbuf = Out(Src, mcaHead[Src])'.buf
    <3>1. mcaHead[Src] < outTail[Src] /\ mca.sbuf = Out(Src, mcaHead[Src]).buf
      BY <2>2 DEF IInv, Snapshots
    <3>2. CASE Src = i
      <4>1. Taken(i) = mcaHead[i]
        BY <1>1, <2>2, OutNumbers DEF Taken
      <4>2. mcaHead[i] \in outHead[i]..(outHead[i] + N - 1) /\ mcaHead[i] # t
        BY <1>1, <1>5, <3>1, <3>2, <4>1, OutNumbers, ChainAssumption
      <4>3. Slot(mcaHead[i]) \in Slots /\ Slot(mcaHead[i]) # Slot(t)
        BY <1>5, <4>2, SlotType, SlotInj, ChainAssumption
      <4> QED BY <1>5, <1>6, <1>9, <3>1, <3>2, <4>2, <4>3 DEF Out, Src
    <3>3. CASE Src # i
      BY <1>2, <1>6, <2>1, <3>1, <3>3 DEF Out, Src
    <3> QED BY <3>2, <3>3
  <2>3. Recount'
    <3>1. CASE mca.pc \notin {"copy", "publish", "faa_src", "faa_dst"}
      BY <1>6, <3>1 DEF Recount
    <3>2. CASE mca.pc \in {"copy", "publish", "faa_src", "faa_dst"} /\ Src # i
      <4>1. outNode'[Src] = outNode[Src]
        BY <1>2, <1>6, <2>1, <3>2
      <4> QED BY <1>6, <4>1, RecountFrame DEF IInv, Snapshots, inVars
    <3>3. CASE mca.pc \in {"copy", "publish", "faa_src", "faa_dst"} /\ Src = i
      <4>1. Held \in Nat /\ freeHead[i] <= Held + N
        <5>1. mcaHead[i] \in Nat /\ Held >= 0 /\ i > 0 /\ freeHead[Src] <= Held + N
          BY <1>1, <3>3, OutNumbers, ChainAssumption DEF IInv, Snapshots, Recount, NFs
        <5> QED BY <3>3, <5>1 DEF Held
      <4>2. Held < t
        <5>1. mcaHead[i] \in Nat /\ mcaHead[i] <= t
          BY <1>1, <1>5, OutNumbers
        <5>2. mca.pc = "publish" => mcaHead[i] < t
          BY <1>1, <1>5, <3>3, OutNumbers DEF Taken
        <5>3. mca.pc = "copy" => mcaHead[i] < t
          BY <3>3 DEF IInv, Snapshots
        <5> QED BY <1>5, <3>3, <5>1, <5>2, <5>3 DEF Held
      <4>3. t < Held + N
        BY <1>1, <1>5, <4>1, InNumbers, ChainAssumption
      <4>4. Slot(Held) \in Slots /\ Slot(Held) # Slot(t)
        BY <1>5, <4>1, <4>2, <4>3, SlotType, SlotInj
      <4>5. outNode'[Src][Slot(Held)] = outNode[Src][Slot(Held)]
        BY <1>9, <3>3, <4>4
      <4> QED BY <1>6, <4>5, RecountFrame DEF IInv, Snapshots, inVars
    <3> QED BY <3>1, <3>2, <3>3
  <2> QED BY <1>6, <2>2, <2>3 DEF IInv, Snapshots, Src, Dst, inVars
<1> QED BY <1>1, <1>10, <1>12, <1>13, NfSuffices

\* Every step of a network function preserves the invariant.
LEMMA NfRun ==
  ASSUME IInv, NEW i \in NFs, nf_run(i)
  PROVE  IInv'
  BY EosPktCollect, EosPktRecv, RecvFaa, NfHypBlock, NfProcess, EosPktSendFlush, FlushFaa
     DEF nf_run

-----------------------------------------------------------------------------
(* Steps of the MCA.                                                       *)

\* The connection the MCA works on.
LEMMA ConnType ==
  ASSUME IInv
  PROVE  Dst \in NFs /\ Src \in Rings /\ Src = Dst - 1 /\ Src # L /\ Src < L /\ Dst \in Rings
         /\ mca.conn \in NFs /\ Src \in Int
  BY NFRings DEF IInv, TypeOK, McaType, Src, Dst

\* A function has the node in hand that it had, as long as it does nothing.
LEMMA HandSame ==
  ASSUME nfPc' = nfPc, inCache' = inCache, NEW i
  PROVE  (InHand(i)' <=> InHand(i)) /\ (Unread(i)' <=> Unread(i)) /\ (Processed(i)' <=> Processed(i))
  BY DEF InHand, Unread, Processed

\* And its caches are right as long as nobody writes that node.
LEMMA CacheFrame ==
  ASSUME nfPc' = nfPc, inCache' = inCache, NEW i \in NFs, outCache'[i] = outCache[i],
         outTail'[i] = outTail[i], CacheOf(i), InHand(i) => In(i, outTail[i])'.cnt = In(i, outTail[i]).cnt
  PROVE  CacheOf(i)'
<1>1. (InHand(i)' <=> InHand(i)) /\ (Unread(i)' <=> Unread(i)) /\ (Processed(i)' <=> Processed(i))
  BY HandSame
<1>2. InHand(i) /\ HandOf(i) => HandOf(i)'
  BY <1>1 DEF HandOf
<1> QED BY <1>1, <1>2 DEF CacheOf

\* A step that moves no node: only mca itself, and perhaps a pkt_cnt, change.
LEMMA McaMoves ==
  ASSUME IInv, mca.pc # "publish", mca'.pc # "publish",
         UNCHANGED <<inNode, inHead, inTail, freeHead, outNode, outHead, outTail, mcaHead,
                     mem, nfVars, rxVars, txVars>>,
         inCnt' \in [NFs -> Int], outCnt' \in [Rings -> Int], McaType', Snapshots'
  PROVE  IInv'
<1>1. TypeOK'
  BY DEF IInv, TypeOK, InType, OutType, NfType, RxType, TxType, nfVars, rxVars, txVars
<1>2. \A i \in Rings : Taken(i)' = Taken(i)
  BY DEF Taken
<1>3. \A i \in NFs : (InHand(i)' <=> InHand(i)) /\ (Processed(i)' <=> Processed(i))
  BY HandSame DEF nfVars
<1>4. RingOrder'
  BY <1>2, <1>3 DEF IInv, RingOrder, InOrder, OutOrder
<1>5. NodeStates'
  BY <1>2 DEF IInv, NodeStates, InStatesOf, OutStatesOf, In, Out
<1>6. Buffers' /\ Contents'
  BY <1>3 DEF IInv, Buffers, Contents, BuffersOf, ContentsOf, Out, nfVars
<1>60. Caches'
  <2>1. ASSUME NEW i \in NFs PROVE CacheOf(i)'
    <3>1. CacheOf(i) /\ In(i, outTail[i])' = In(i, outTail[i])
      BY DEF IInv, Caches, In
    <3> QED BY <3>1, CacheFrame DEF nfVars
  <2> QED BY <2>1 DEF Caches
<1>7. Counts'
  BY DEF IInv, Counts, InCountsOf, OutCountsOf, In
<1>8. 0 \in Rings
  BY ChainAssumption DEF Rings
<1>9. RxBacklog' /\ RxContents' /\ MbufOwner' /\ WireInOrder' /\ BroughtLen'
  BY <1>2, <1>8 DEF IInv, RxBacklog, RxContents, MbufOwner, WireInOrder, BroughtLen,
                    Pending, Out, nfVars, rxVars, txVars
<1> QED BY <1>1, <1>4, <1>5, <1>6, <1>60, <1>7, <1>9 DEF IInv

\* The head of the loop of mca_process is a state of the MCA.
LEMMA LookType ==
  ASSUME NEW c \in NFs, NEW r \in 0..(Burst - 1), mca' = Look(c, r)
  PROVE  McaType' /\ mca'.pc = "look"
  BY ChainAssumption DEF Look, McaType, McaPcs, Buf

\* So is the head of the loop for the next connection.
LEMMA NextConnType ==
  ASSUME IInv, mca' = NextConn
  PROVE  McaType' /\ mca'.pc = "look"
<1>1. (IF mca.conn = 1 THEN L ELSE mca.conn - 1) \in NFs /\ 0 \in 0..(Burst - 1)
  BY ConnType, ChainAssumption DEF NFs
<1> QED BY <1>1, LookType DEF NextConn

\* Back at the head of the loop the MCA has no snapshot.
LEMMA LookSnapshots ==
  ASSUME mca'.pc \in {"look", "wakeup"}
  PROVE  Snapshots'
  BY DEF Snapshots, Recount

\* The tests of mca_process preserve the invariant: what they saw are the
\* snapshots.
LEMMA McaLook ==
  ASSUME IInv, mca_look
  PROVE  IInv'
<1> DEFINE sn == Out(Src, mcaHead[Src])
           rn == In(Dst, freeHead[Dst])
           ready == sn.st = "SENT_READY" /\ rn.st = "FREE"
<1>1. /\ mca.pc = "look"
      /\ UNCHANGED <<inVars, outVars, mem, nfVars, rxVars, txVars>>
      /\ inCnt' \in [NFs -> Int] /\ outCnt' \in [Rings -> Int]
  BY DEF mca_look, CanCopy, inVars, outVars, IInv, TypeOK, InType, OutType
<1>2. CASE ~ready
  <2>1. McaType' /\ mca'.pc = "look"
    BY <1>2, NextConnType DEF mca_look, CanCopy
  <2>2. Snapshots'
    BY <2>1, LookSnapshots
  <2> QED BY <1>1, <2>1, <2>2, McaMoves DEF inVars, outVars
<1>3. CASE ready
  <2>2. /\ outNode \in [Rings -> [Slots -> OutNodes]] /\ inNode \in [NFs -> [Slots -> InNodes]]
        /\ mca \in [pc : McaPcs, conn : NFs, r : 0..(Burst - 1), scnt : 0..K,
                    sbuf : Buf, rbuf : Slots \cup {NoBuf}]
    BY DEF IInv, TypeOK, InType, OutType, McaType
  <2>3. /\ mcaHead[Src] \in Nat /\ outHead[Src] \in Nat /\ outTail[Src] \in Nat
        /\ mcaHead[Src] = Taken(Src) /\ outHead[Src] <= mcaHead[Src]
        /\ mcaHead[Src] <= outTail[Src] /\ outTail[Src] <= outHead[Src] + N
        /\ freeHead[Dst] \in Nat /\ inHead[Dst] \in Nat
        /\ inHead[Dst] <= freeHead[Dst] /\ freeHead[Dst] <= inHead[Dst] + N
        /\ N \in Nat \ {0}
    BY <1>1, ConnType, OutNumbers, InNumbers, ChainAssumption DEF Taken
  <2>4. mcaHead[Src] < outTail[Src]
    <3>1. OutStatesOf(Src)
      BY ConnType DEF IInv, NodeStates
    <3>2. CASE mcaHead[Src] < outHead[Src] + N
      BY <1>3, <2>3, <3>1, <3>2 DEF OutStatesOf
    <3>3. CASE mcaHead[Src] = outHead[Src] + N
      <4>1. sn = Out(Src, outHead[Src])
        BY <2>3, <3>3, SlotWrap DEF Out
      <4> QED BY <1>3, <2>3, <3>1, <3>3, <4>1, ConnType DEF OutStatesOf
    <3> QED BY <2>3, <3>2, <3>3
  <2>5. freeHead[Dst] < inHead[Dst] + N
    <3>1. InStatesOf(Dst)
      BY ConnType DEF IInv, NodeStates
    <3>2. SUFFICES ASSUME freeHead[Dst] = inHead[Dst] + N PROVE FALSE
      BY <2>3
    <3>3. rn = In(Dst, inHead[Dst])
      BY <2>3, <3>2, SlotWrap DEF In
    <3> QED BY <1>3, <2>3, <3>1, <3>2, <3>3, ConnType, InNumbers DEF InStatesOf
  <2>6. Slot(mcaHead[Src]) \in Slots /\ Slot(freeHead[Dst]) \in Slots
    BY <2>3, SlotType
  <2>7. /\ sn.cnt \in 0..K
        /\ sn.cnt = 0 => Src \in Servers
        /\ OneEach(Dst) => sn.cnt = 1
    <3>1. Slot(mcaHead[Src]) < outTail[Src]
      BY <2>3, <2>4, <2>6, SlotLow, ChainAssumption DEF Slots
    <3>2. sn.cnt \in 0..K
      BY <2>2, <2>6, ConnType DEF OutNodes, Out
    <3>3. OutCountsOf(Src) /\ Src + 1 = Dst /\ Src < L
      BY ConnType DEF IInv, Counts, NFs
    <3> QED BY <2>6, <3>1, <3>2, <3>3 DEF OutCountsOf, Out
  <2>8. rn.buf = Slot(freeHead[Dst])
    BY <2>6, ConnType DEF IInv, Buffers, BuffersOf, In
  <2>9. sn.buf \in Buf
    BY <2>2, <2>6, ConnType DEF OutNodes, Out
  <2>20. CASE sn.cnt = 0
    <3>1. mca' = [mca EXCEPT !.pc = "abort"]
      BY <1>3, <2>20 DEF mca_look, CanCopy
    <3>2. McaType' /\ mca'.pc = "abort" /\ Src' = Src
      BY <2>2, <3>1 DEF McaType, McaPcs, Src
    <3>3. Snapshots'
      BY <2>7, <2>20, <3>2 DEF Snapshots, Recount
    <3> QED BY <1>1, <3>2, <3>3, McaMoves DEF inVars, outVars
  <2>21. CASE sn.cnt # 0
    <3>0. mca' = [mca EXCEPT !.pc = "copy", !.scnt = sn.cnt, !.sbuf = sn.buf, !.rbuf = rn.buf]
      BY <1>3, <2>21 DEF mca_look, CanCopy
    <3> HIDE DEF rn, sn
    <3>1. /\ mca'.pc = "copy" /\ mca'.conn = mca.conn /\ mca'.scnt = sn.cnt
          /\ mca'.sbuf = sn.buf /\ mca'.rbuf = Slot(freeHead[Dst])
      BY <2>2, <2>8, <3>0
    <3>2. Src' = Src /\ Dst' = Dst /\ Held' = mcaHead[Src]
      BY <1>1, <2>3, <3>1 DEF Src, Dst, Held, outVars
    <3>3. McaType'
      <4>1. /\ "copy" \in McaPcs /\ sn.cnt \in 0..K /\ sn.buf \in Buf
            /\ rn.buf \in Slots \cup {NoBuf}
        BY <2>6, <2>7, <2>8, <2>9, ChainAssumption DEF McaPcs
      <4> QED BY <2>2, <3>0, <4>1 DEF McaType
    <3>4. Out(Src, mcaHead[Src])' = sn
      BY <1>1, <3>2 DEF Out, sn, outVars
    <3>5. Src > 0 => freeHead[Src] <= mcaHead[Src] + N
      <4>1. Src > 0 => Src \in NFs
        BY ConnType, ChainAssumption DEF NFs
      <4>2. Src > 0 => freeHead[Src] \in Nat /\ freeHead[Src] <= outHead[Src] + N
        BY <4>1, InNumbers
      <4> QED BY <2>3, <4>2
    <3>6. Recount'
      <4>1. sn.cnt > 0 /\ (OneEach(Dst)' => sn.cnt = 1)
        BY <2>7, <2>21, <3>2 DEF OneEach
      <4>2. Out(Src, Held)' = sn
        BY <1>1, <3>2, <3>4 DEF Out, outVars
      <4> QED BY <1>1, <2>3, <3>1, <3>2, <3>5, <4>1, <4>2 DEF Recount, inVars
    <3>7. Snapshots'
      BY <1>1, <2>4, <2>5, <3>1, <3>2, <3>4, <3>6 DEF Snapshots, inVars, outVars
    <3> QED BY <1>1, <3>1, <3>3, <3>7, McaMoves DEF inVars, outVars
  <2> QED BY <2>20, <2>21
<1> QED BY <1>2, <1>3

\* The deadline tests preserve the invariant.
LEMMA McaDecline ==
  ASSUME IInv, mca_decline
  PROVE  IInv'
<1>1. McaType' /\ mca'.pc = "look"
  BY NextConnType DEF mca_decline
<1>2. Snapshots'
  BY <1>1, LookSnapshots
<1>3. inCnt' \in [NFs -> Int] /\ outCnt' \in [Rings -> Int]
  BY DEF mca_decline, inVars, outVars, IInv, TypeOK, InType, OutType
<1> QED BY <1>1, <1>2, <1>3, McaMoves DEF mca_decline, inVars, outVars

\* The end of the body of the loop preserves the invariant.
LEMMA McaWakeup ==
  ASSUME IInv, mca_wakeup
  PROVE  IInv'
<1>1. McaType' /\ mca'.pc = "look"
  <2>1. CASE mca.r + 1 < Burst
    <3>1. mca.r + 1 \in 0..(Burst - 1) /\ mca' = Look(mca.conn, mca.r + 1)
      BY <2>1, ChainAssumption DEF mca_wakeup, IInv, TypeOK, McaType
    <3> QED BY <3>1, ConnType, LookType
  <2>2. CASE ~(mca.r + 1 < Burst)
    BY <2>2, NextConnType DEF mca_wakeup
  <2> QED BY <2>1, <2>2
<1>2. Snapshots'
  BY <1>1, LookSnapshots
<1>3. inCnt' \in [NFs -> Int] /\ outCnt' \in [Rings -> Int]
  BY DEF mca_wakeup, inVars, outVars, IInv, TypeOK, InType, OutType
<1> QED BY <1>1, <1>2, <1>3, McaMoves DEF mca_wakeup, inVars, outVars

\* The count the MCA reads again is the one it copied, whatever became of the node.
LEMMA RereadCount ==
  ASSUME IInv, mca.pc \in {"faa_src", "faa_dst"}
  PROVE  /\ Out(Src, mcaHead[Src] - 1).cnt = mca.scnt
         /\ mca.scnt \in 0..K /\ mca.scnt > 0 /\ mcaHead[Src] \in Nat /\ mcaHead[Src] > 0
         /\ OneEach(Dst) => mca.scnt = 1
<1>1. mca.scnt \in 0..K /\ mcaHead[Src] \in Nat
  BY ConnType DEF IInv, TypeOK, McaType, OutType
<1>2. Held = mcaHead[Src] - 1
  BY DEF Held
<1> QED BY <1>1, <1>2 DEF IInv, Snapshots, Recount

\* The add to the source's pkt_cnt preserves the invariant.
LEMMA McaFaaSrc ==
  ASSUME IInv, mca_faa_src
  PROVE  IInv'
<1>1. /\ McaType' /\ mca'.pc = "faa_dst" /\ mca'.conn = mca.conn /\ mca'.scnt = mca.scnt
  BY DEF mca_faa_src, IInv, TypeOK, McaType, McaPcs
<1>2. Snapshots'
  <2>1. Src' = Src /\ Dst' = Dst /\ Held' = Held
    BY <1>1 DEF mca_faa_src, Src, Dst, Held
  <2>2. Out(Src, Held)' = Out(Src, Held) /\ (OneEach(Dst)' <=> OneEach(Dst))
    BY <2>1 DEF mca_faa_src, Out, OneEach
  <2>3. Recount'
    BY <1>1, <2>1, <2>2 DEF mca_faa_src, IInv, Snapshots, Recount, inVars
  <2> QED BY <1>1, <2>3 DEF Snapshots
<1>3. inCnt' \in [NFs -> Int]
  BY DEF mca_faa_src, inVars, IInv, TypeOK, InType
<1>4. outCnt' \in [Rings -> Int]
  BY RereadCount, ConnType DEF mca_faa_src, IInv, TypeOK, OutType
<1> QED BY <1>1, <1>2, <1>3, <1>4, McaMoves DEF mca_faa_src, inVars

\* The add to the destination's pkt_cnt preserves the invariant.
LEMMA McaFaaDst ==
  ASSUME IInv, mca_faa_dst
  PROVE  IInv'
<1>1. /\ McaType' /\ mca'.pc = "wakeup"
  BY DEF mca_faa_dst, IInv, TypeOK, McaType, McaPcs
<1>2. Snapshots'
  BY <1>1, LookSnapshots
<1>3. outCnt' \in [Rings -> Int]
  BY DEF mca_faa_dst, outVars, IInv, TypeOK, OutType
<1>4. inCnt' \in [NFs -> Int]
  BY RereadCount, ConnType DEF mca_faa_dst, IInv, TypeOK, InType
<1> QED BY <1>1, <1>2, <1>3, <1>4, McaMoves DEF mca_faa_dst, outVars

\* mca_transfer preserves the invariant: the buffer it writes belongs to a FREE
\* node, the buffer it reads to a SENT_READY one.
LEMMA McaTransfer ==
  ASSUME IInv, mca_transfer
  PROVE  IInv'
<1> DEFINE m == mcaHead[Src]
           f == freeHead[Dst]
           val == IF Src = 0 THEN rxMem[mca.sbuf] ELSE mem[Src][mca.sbuf]
           pkt == [id |-> f, hop |-> Src]
<1>1. /\ mca.pc = "copy" /\ mca' = [mca EXCEPT !.pc = "publish"]
      /\ mem' = [mem EXCEPT ![Dst][mca.rbuf] = val]
      /\ outNode' = [outNode EXCEPT ![Src][Slot(m)].st = "SENT_DONE"]
      /\ UNCHANGED <<inVars, outHead, outTail, mcaHead, outCnt, nfVars, rxVars, txVars>>
  BY DEF mca_transfer, SourcePkt
<1>2. /\ outNode \in [Rings -> [Slots -> OutNodes]] /\ mem \in [NFs -> [Slots -> Packet]]
      /\ mca \in [pc : McaPcs, conn : NFs, r : 0..(Burst - 1), scnt : 0..K,
                  sbuf : Buf, rbuf : Slots \cup {NoBuf}]
  BY DEF IInv, TypeOK, NfType, OutType, McaType
<1>3. /\ mca.rbuf = Slot(f) /\ f < inHead[Dst] + N /\ m < outTail[Src]
      /\ mca.sbuf = Out(Src, m).buf
  BY <1>1 DEF IInv, Snapshots
<1>4. /\ Dst \in NFs /\ Src \in Rings /\ Src = Dst - 1 /\ Src # L /\ Src \in Int
  BY ConnType
<1>5. /\ m \in Nat /\ m = f /\ m = Taken(Src) /\ outHead[Src] \in Nat /\ outTail[Src] \in Nat
      /\ outHead[Src] <= m /\ outTail[Src] <= outHead[Src] + N
      /\ Slot(m) \in Slots /\ N \in Nat \ {0}
  BY <1>1, <1>3, <1>4, OutNumbers, InNumbers, SlotType, ChainAssumption DEF Taken
<1>6. val = pkt
  <2>1. Out(Src, m).st = "SENT_READY"
    BY <1>3, <1>4, <1>5 DEF IInv, NodeStates, OutStatesOf
  <2>2. CASE Src = 0
    BY <1>3, <1>5, <2>2 DEF IInv, RxContents
  <2>3. CASE Src # 0
    <3>1. Src \in NFs
      BY <1>4, <2>3, ChainAssumption DEF Rings, NFs
    <3>2. mca.sbuf = Slot(m)
      BY <1>3, <1>5, <3>1 DEF IInv, Buffers, BuffersOf
    <3>3. mem[Src][Slot(m)] = [id |-> m, hop |-> Src]
      <4>1. ContentsOf(Src) /\ m \in outHead[Src]..(outTail[Src] - 1)
        BY <1>3, <1>5, <3>1 DEF IInv, Contents
      <4> QED BY <2>1, <4>1 DEF ContentsOf
    <3> QED BY <1>5, <2>3, <3>2, <3>3
  <2> QED BY <2>2, <2>3
<1> HIDE DEF val
<1>7. /\ mem'[Dst][Slot(f)] = pkt
      /\ \A s \in Slots : s # Slot(f) => mem'[Dst][s] = mem[Dst][s]
      /\ \A i \in NFs : i # Dst => mem'[i] = mem[i]
      /\ pkt \in Packet
      /\ mem' \in [NFs -> [Slots -> Packet]]
  <2>1. pkt \in Packet
    BY <1>4, <1>5 DEF Packet
  <2> HIDE DEF pkt
  <2> QED BY <1>1, <1>2, <1>3, <1>4, <1>5, <1>6, <2>1
<1>8. \A i \in Rings, s \in Slots :
        /\ outNode'[i][s].buf = outNode[i][s].buf /\ outNode'[i][s].cnt = outNode[i][s].cnt
        /\ outNode'[i][s].st = IF i = Src /\ s = Slot(m) THEN "SENT_DONE" ELSE outNode[i][s].st
  BY <1>1, <1>2, <1>4, <1>5 DEF OutNodes
<1>9. /\ mca'.pc = "publish" /\ mca'.conn = mca.conn /\ mca'.scnt = mca.scnt
      /\ mca'.rbuf = mca.rbuf /\ McaType' /\ Src' = Src /\ Dst' = Dst
  BY <1>1, <1>2 DEF McaType, McaPcs, Src, Dst
<1>10. \A i \in Rings : Taken(i)' = IF i = Src THEN m + 1 ELSE Taken(i)
  BY <1>1, <1>4, <1>5, <1>9, OutNumbers DEF Taken
<1>11. \A i \in NFs : (InHand(i)' <=> InHand(i)) /\ (Processed(i)' <=> Processed(i))
  BY <1>1, HandSame DEF nfVars
<1>12. TypeOK'
  <2>1. [outNode[Src][Slot(m)] EXCEPT !.st = "SENT_DONE"] \in OutNodes
    <3>1. outNode[Src][Slot(m)] \in OutNodes
      BY <1>2, <1>4, <1>5
    <3> QED BY <3>1 DEF OutNodes, PktStates
  <2>2. OutType'
    BY <1>1, <1>2, <1>4, <1>5, <2>1 DEF IInv, TypeOK, OutType
  <2>3. NfType'
    BY <1>1, <1>7 DEF IInv, TypeOK, NfType, nfVars
  <2> QED BY <1>1, <1>9, <2>2, <2>3 DEF IInv, TypeOK, InType, RxType, TxType, inVars, rxVars, txVars
<1>13. RingOrder'
  <2>1. ASSUME NEW i \in NFs PROVE InOrder(i)'
    BY <1>1, <1>11 DEF IInv, RingOrder, InOrder, inVars
  <2>2. ASSUME NEW i \in Rings PROVE OutOrder(i)'
    BY <1>1, <1>3, <1>5, <1>10 DEF IInv, RingOrder, OutOrder
  <2> QED BY <2>1, <2>2 DEF RingOrder
<1>14. NodeStates'
  <2>1. ASSUME NEW i \in NFs PROVE InStatesOf(i)'
    BY <1>1 DEF IInv, NodeStates, InStatesOf, In, inVars
  <2>2. ASSUME NEW i \in Rings PROVE OutStatesOf(i)'
    <3>1. OutStatesOf(i) /\ outHead[i] \in Nat
      BY OutNumbers DEF IInv, NodeStates
    <3>2. CASE i # Src
      <4>1. ASSUME NEW k \in Int PROVE Out(i, k)'.st = Out(i, k).st
        BY <1>8, <3>2, SlotType DEF Out
      <4> QED BY <1>1, <1>10, <3>1, <3>2, <4>1, ChainAssumption DEF OutStatesOf
    <3>3. CASE i = Src
      <4>1. ASSUME NEW k \in outHead[i]..(outHead[i] + N - 1)
            PROVE  Out(i, k)'.st = IF k = m THEN "SENT_DONE" ELSE Out(i, k).st
        <5>1. Slot(k) \in Slots /\ (k # m => Slot(k) # Slot(m))
          BY <1>3, <1>5, <3>3, SlotType, SlotInj, ChainAssumption
        <5> QED BY <1>8, <3>3, <5>1 DEF Out
      <4> QED BY <1>1, <1>3, <1>5, <1>10, <3>1, <3>3, <4>1 DEF OutStatesOf
    <3> QED BY <3>2, <3>3
  <2> QED BY <2>1, <2>2 DEF NodeStates
<1>15. Buffers'
  <2>1. ASSUME NEW i \in Rings, NEW k \in Int PROVE Out(i, k)'.buf = Out(i, k).buf
    BY <1>8, SlotType DEF Out
  <2>2. ASSUME NEW i \in NFs PROVE BuffersOf(i)'
    BY <1>1, <1>11, <2>1, NFRings, InNumbers DEF IInv, Buffers, BuffersOf, inVars, nfVars
  <2> QED BY <2>2 DEF Buffers
<1>16. Contents'
  <2>1. ASSUME NEW i \in NFs PROVE ContentsOf(i)'
    <3>1. ContentsOf(i)
      BY DEF IInv, Contents
    <3>2. ASSUME NEW k \in outHead[i]..(outTail[i] - 1), Out(i, k)'.st \in {"SENT_READY", "TXING"}
          PROVE  Out(i, k)'.st = Out(i, k).st
      BY <1>8, <3>2, SlotType, InNumbers, NFRings DEF Out
    <3>3. CASE i # Dst
      BY <1>1, <1>7, <1>11, <3>1, <3>2, <3>3 DEF ContentsOf, inVars, nfVars
    <3>4. CASE i = Dst
      <4>1. /\ inTail[i] \in Nat /\ outTail[i] \in Nat /\ outHead[i] \in Nat /\ f \in Nat
            /\ outHead[i] <= outTail[i] /\ outTail[i] <= inTail[i] /\ inTail[i] <= f
            /\ f < outHead[i] + N /\ (InHand(i) => outTail[i] < inTail[i])
        BY <1>3, <3>4, InNumbers
      <4>2. ASSUME NEW k \in outHead[i]..(f - 1)
            PROVE  mem'[i][Slot(k)] = mem[i][Slot(k)]
        <5>1. k \in Int /\ f \in Int /\ k < f /\ f < k + N
          BY <1>5, <4>1
        <5>2. Slot(k) \in Slots /\ Slot(k) # Slot(f)
          BY <5>1, SlotType, SlotInj
        <5> QED BY <1>7, <3>4, <5>2
      <4>3. \A k \in inTail[i]..(freeHead[i] - 1) : mem'[i][Slot(k)] = [id |-> k, hop |-> i - 1]
        BY <3>1, <3>4, <4>1, <4>2 DEF ContentsOf
      <4>4. InHand(i) => mem'[i][Slot(outTail[i])] = mem[i][Slot(outTail[i])]
        BY <4>1, <4>2
      <4>5. \A k \in outHead[i]..(outTail[i] - 1) :
              Out(i, k)'.st \in {"SENT_READY", "TXING"} => mem'[i][Slot(k)] = [id |-> k, hop |-> i]
        BY <3>1, <3>2, <4>1, <4>2 DEF ContentsOf
      <4> QED BY <1>1, <1>11, <3>1, <4>3, <4>4, <4>5 DEF ContentsOf, inVars, nfVars
    <3> QED BY <3>3, <3>4
  <2> QED BY <2>1 DEF Contents
<1>17. Counts'
  <2>1. ASSUME NEW i \in NFs PROVE InCountsOf(i)'
    BY <1>1 DEF IInv, Counts, InCountsOf, In, inVars
  <2>2. ASSUME NEW i \in Rings PROVE OutCountsOf(i)'
    BY <1>1, <1>8 DEF IInv, Counts, OutCountsOf
  <2> QED BY <2>1, <2>2 DEF Counts
<1>18. Caches'
  <2>1. ASSUME NEW i \in NFs PROVE CacheOf(i)'
    <3>1. CacheOf(i) /\ In(i, outTail[i])' = In(i, outTail[i])
      BY <1>1 DEF IInv, Caches, In, inVars
    <3> QED BY <1>1, <3>1, CacheFrame DEF nfVars
  <2> QED BY <2>1 DEF Caches
<1>19. Snapshots'
  <2>1. Recount'
    <3>1. Held' = Held /\ Held = m
      BY <1>1, <1>5, <1>9 DEF Held
    <3>2. Out(Src, Held)'.cnt = Out(Src, Held).cnt /\ (OneEach(Dst)' <=> OneEach(Dst))
      BY <1>4, <1>5, <1>8, <1>9, <3>1 DEF Out, OneEach
    <3> QED BY <1>1, <1>9, <3>1, <3>2 DEF IInv, Snapshots, Recount, inVars
  <2> QED BY <1>1, <1>3, <1>4, <1>7, <1>9, <2>1 DEF Snapshots, inVars
<1>20. RxBacklog' /\ WireInOrder' /\ BroughtLen'
  BY <1>1 DEF IInv, RxBacklog, WireInOrder, BroughtLen, Pending, inVars, nfVars, rxVars, txVars
<1>21. RxContents' /\ MbufOwner'
  <2>1. 0 \in Rings
    BY ChainAssumption DEF Rings
  <2>2. ASSUME NEW k \in Int PROVE Out(0, k)'.buf = Out(0, k).buf
    BY <1>8, <2>1, SlotType DEF Out
  <2>3. Taken(0) <= Taken(0)' /\ Taken(0) \in Nat /\ Taken(0)' \in Nat
    BY <1>5, <1>10, <2>1, OutNumbers
  <2>4. outHead[0] \in Nat /\ outTail[0] \in Nat
    BY <2>1, OutNumbers
  <2>5. RxContents'
    BY <1>1, <2>2, <2>3, <2>4 DEF IInv, RxContents, Pending, nfVars, rxVars
  <2>6. MbufOwner'
    BY <1>1, <2>2, <2>4 DEF IInv, MbufOwner, Pending, nfVars, rxVars
  <2> QED BY <2>5, <2>6
<1> QED BY <1>12, <1>13, <1>14, <1>15, <1>16, <1>17, <1>18, <1>19, <1>20, <1>21 DEF IInv

\* The write of the destination node preserves the invariant.
LEMMA McaPublish ==
  ASSUME IInv, mca_publish
  PROVE  IInv'
<1> DEFINE m == mcaHead[Src]
           f == freeHead[Dst]
           n == mca.scnt
           node == [st |-> "RECV_READY", cnt |-> n, buf |-> Slot(f)]
<1>1. /\ mca.pc = "publish" /\ mca.rbuf = Slot(f) /\ f < inHead[Dst] + N
      /\ mem[Dst][Slot(f)] = [id |-> f, hop |-> Dst - 1]
      /\ n > 0 /\ (OneEach(Dst) => n = 1)
  BY DEF mca_publish, IInv, Snapshots, Recount
<1>2. /\ mca' = [mca EXCEPT !.pc = "faa_src"]
      /\ inNode' = [inNode EXCEPT ![Dst][Slot(f)] = node]
      /\ freeHead' = [freeHead EXCEPT ![Dst] = f + 1]
      /\ mcaHead' = [mcaHead EXCEPT ![Src] = m + 1]
      /\ UNCHANGED <<inHead, inTail, inCnt, outNode, outHead, outTail, outCnt,
                     mem, nfVars, rxVars, txRet, wire>>
  BY <1>1 DEF mca_publish, Node
<1>3. /\ inNode \in [NFs -> [Slots -> InNodes]] /\ freeHead \in [NFs -> Nat]
      /\ mcaHead \in [Rings -> Nat]
      /\ mca \in [pc : McaPcs, conn : NFs, r : 0..(Burst - 1), scnt : 0..K,
                  sbuf : Buf, rbuf : Slots \cup {NoBuf}]
  BY DEF IInv, TypeOK, InType, OutType, McaType
<1>4. /\ Dst \in NFs /\ Src \in Rings /\ Src = Dst - 1 /\ Src # L /\ Src \in Int
  BY ConnType
<1>5. /\ m \in Nat /\ f \in Nat /\ m = f /\ Slot(f) \in Slots /\ N \in Nat \ {0}
      /\ inHead[Dst] \in Nat /\ inTail[Dst] \in Nat
      /\ inHead[Dst] <= inTail[Dst] /\ inTail[Dst] <= f
  BY <1>3, <1>4, InNumbers, SlotType, ChainAssumption
<1>6. n \in 0..K /\ node \in InNodes
  <2>1. n \in 0..K
    BY <1>3
  <2> QED BY <1>5, <2>1, ChainAssumption DEF InNodes, PktStates
<1>60. /\ brought' = [brought EXCEPT ![Dst] = Append(@, Brought(Dst, f) + n)]
       /\ brought \in [NFs -> Seq(Nat)] /\ Len(brought[Dst]) = f
       /\ Brought(Dst, f) + n \in Nat
  <2>1. /\ brought' = [brought EXCEPT ![Dst] = Append(@, Brought(Dst, f) + n)]
        /\ brought \in [NFs -> Seq(Nat)] /\ Len(brought[Dst]) = f
    BY <1>4 DEF mca_publish, IInv, TypeOK, TxType, BroughtLen
  <2>2. Brought(Dst, f) \in Nat
    <3>1. CASE f = 0
      BY <3>1 DEF Brought
    <3>2. CASE f # 0
      <4>1. brought[Dst] \in Seq(Nat) /\ f \in 1..Len(brought[Dst])
        BY <1>4, <1>5, <2>1, <3>2
      <4> QED BY <3>2, <4>1 DEF Brought
    <3> QED BY <3>1, <3>2
  <2> QED BY <1>6, <2>1, <2>2
<1>61. /\ brought' \in [NFs -> Seq(Nat)] /\ Len(brought'[Dst]) = f + 1
       /\ \A i \in NFs : i # Dst => brought'[i] = brought[i]
  <2> HIDE DEF f, n
  <2>1. brought[Dst] \in Seq(Nat)
    BY <1>4, <1>60
  <2>2. /\ Append(brought[Dst], Brought(Dst, f) + n) \in Seq(Nat)
        /\ Len(Append(brought[Dst], Brought(Dst, f) + n)) = f + 1
    BY <1>60, <2>1
  <2> QED BY <1>4, <1>60, <2>2
<1>7. /\ mca'.pc = "faa_src" /\ mca'.conn = mca.conn /\ mca'.scnt = n
      /\ McaType' /\ Src' = Src /\ Dst' = Dst
  BY <1>2, <1>3 DEF McaType, McaPcs, Src, Dst
<1>8. /\ freeHead' \in [NFs -> Nat] /\ mcaHead' \in [Rings -> Nat]
      /\ \A i \in NFs : freeHead'[i] = IF i = Dst THEN f + 1 ELSE freeHead[i]
      /\ \A i \in Rings : mcaHead'[i] = IF i = Src THEN m + 1 ELSE mcaHead[i]
  BY <1>2, <1>3, <1>4, <1>5
<1>9. \A i \in Rings : Taken(i)' = Taken(i)
  BY <1>1, <1>3, <1>5, <1>7, <1>8 DEF Taken
<1>10. \A i \in NFs : (InHand(i)' <=> InHand(i)) /\ (Processed(i)' <=> Processed(i))
  BY <1>2, HandSame DEF nfVars
<1>11. TypeOK'
  <2> HIDE DEF node
  <2>1. InType' /\ OutType'
    BY <1>2, <1>3, <1>4, <1>5, <1>6, <1>8 DEF IInv, TypeOK, InType, OutType
  <2> QED BY <1>2, <1>61, <1>7, <2>1 DEF IInv, TypeOK, NfType, RxType, TxType, nfVars, rxVars
<1>12. RingOrder'
  <2>1. ASSUME NEW i \in NFs PROVE InOrder(i)'
    <3>1. i - 1 \in Rings /\ (i - 1 = Src <=> i = Dst) /\ InOrder(i)
      BY <1>4, NFRings DEF IInv, RingOrder
    <3> QED BY <1>1, <1>2, <1>5, <1>8, <1>10, <3>1 DEF InOrder
  <2>2. ASSUME NEW i \in Rings PROVE OutOrder(i)'
    BY <1>2, <1>9 DEF IInv, RingOrder, OutOrder
  <2> QED BY <2>1, <2>2 DEF RingOrder
<1>13. ASSUME NEW i \in NFs, i # Dst, NEW k \in Int PROVE In(i, k)' = In(i, k)
  BY <1>2, <1>3, <1>13 DEF In
<1>14. ASSUME NEW k \in inHead[Dst]..(inHead[Dst] + N - 1)
       PROVE  inNode'[Dst][Slot(k)] = IF k = f THEN node ELSE inNode[Dst][Slot(k)]
  <2>0. k \in Int /\ f \in Int /\ k < f + N /\ f < k + N
    BY <1>1, <1>5
  <2>1. Slot(k) \in Slots /\ (k # f => Slot(k) # Slot(f))
    BY <2>0, SlotType, SlotInj
  <2> HIDE DEF node
  <2> QED BY <1>2, <1>3, <1>4, <1>5, <2>1
<1>15. ASSUME NEW i \in NFs PROVE InStatesOf(i)' /\ InCountsOf(i)'
  <2>1. InStatesOf(i) /\ InCountsOf(i) /\ inHead[i] \in Nat
    BY InNumbers DEF IInv, NodeStates, Counts
  <2>2. CASE i # Dst
    BY <1>2, <1>8, <1>13, <2>1, <2>2, ChainAssumption DEF InStatesOf, InCountsOf
  <2>3. CASE i = Dst
    <3>1. ASSUME NEW k \in inHead[i]..(inHead[i] + N - 1)
          PROVE  /\ In(i, k)'.st = IF k < inTail[i] THEN "RECV_DONE"
                                   ELSE IF k < f + 1 THEN "RECV_READY" ELSE "FREE"
                 /\ In(i, k)'.cnt > 0 <=> k < f + 1
                 /\ k < f + 1 /\ OneEach(i) => In(i, k)'.cnt = 1
      <4>1. CASE k = f
        BY <1>1, <1>5, <1>14, <2>3, <4>1 DEF In
      <4>2. CASE k # f
        <5>1. In(i, k)' = In(i, k)
          BY <1>14, <2>3, <4>2 DEF In
        <5> QED BY <1>5, <2>1, <2>3, <4>2, <5>1 DEF InStatesOf, InCountsOf
      <4> QED BY <4>1, <4>2
    <3> QED BY <1>2, <1>8, <2>3, <3>1 DEF InStatesOf, InCountsOf, OneEach
  <2> QED BY <2>2, <2>3
<1>16. NodeStates'
  <2>1. ASSUME NEW i \in Rings PROVE OutStatesOf(i)'
    BY <1>2, <1>9 DEF IInv, NodeStates, OutStatesOf, Out
  <2> QED BY <1>15, <2>1 DEF NodeStates
<1>17. Counts'
  <2>1. ASSUME NEW i \in Rings PROVE OutCountsOf(i)'
    BY <1>2 DEF IInv, Counts, OutCountsOf
  <2> QED BY <1>15, <2>1 DEF Counts
<1>18. Buffers'
  <2>1. ASSUME NEW i \in NFs, NEW s \in Slots PROVE inNode'[i][s].buf = s
    <3>1. inNode[i][s].buf = s
      BY DEF IInv, Buffers, BuffersOf
    <3>2. CASE i = Dst /\ s = Slot(f)
      BY <1>2, <1>3, <1>4, <3>2
    <3>3. CASE ~(i = Dst /\ s = Slot(f))
      BY <1>2, <1>3, <1>4, <3>1, <3>3
    <3> QED BY <3>2, <3>3
  <2>2. ASSUME NEW i \in NFs PROVE BuffersOf(i)'
    BY <1>2, <1>10, <2>1 DEF IInv, Buffers, BuffersOf, Out, nfVars
  <2> QED BY <2>2 DEF Buffers
<1>19. Contents'
  <2>1. ASSUME NEW i \in NFs PROVE ContentsOf(i)'
    <3>1. ContentsOf(i) /\ inTail[i] \in Nat
      BY InNumbers DEF IInv, Contents
    <3>2. \A k \in inTail[i]..(freeHead'[i] - 1) : mem[i][Slot(k)] = [id |-> k, hop |-> i - 1]
      <4>1. CASE i # Dst
        BY <1>8, <3>1, <4>1 DEF ContentsOf
      <4>2. CASE i = Dst
        <5>1. ASSUME NEW k \in inTail[i]..f PROVE mem[i][Slot(k)] = [id |-> k, hop |-> i - 1]
          BY <1>1, <1>5, <3>1, <4>2 DEF ContentsOf
        <5>2. freeHead'[i] - 1 = f
          BY <1>5, <1>8, <4>2
        <5> QED BY <5>1, <5>2
      <4> QED BY <4>1, <4>2
    <3> QED BY <1>2, <1>10, <3>1, <3>2 DEF ContentsOf, Out, nfVars
  <2> QED BY <2>1 DEF Contents
<1>20. Caches'
  <2>1. ASSUME NEW i \in NFs PROVE CacheOf(i)'
    <3>1. CacheOf(i) /\ outTail[i] \in Nat
      BY InNumbers DEF IInv, Caches
    <3>2. InHand(i) => In(i, outTail[i])' = In(i, outTail[i])
      <4>1. CASE i # Dst
        BY <1>2, <1>3, <4>1 DEF In
      <4>2. CASE i = Dst /\ InHand(i)
        <5>1. outTail[i] \in inHead[Dst]..(inHead[Dst] + N - 1) /\ outTail[i] # f
          BY <1>1, <1>5, <4>2, InNumbers, ChainAssumption
        <5> QED BY <1>2, <1>14, <4>2, <5>1 DEF In
      <4> QED BY <4>1, <4>2
    <3> QED BY <1>2, <3>1, <3>2, CacheFrame DEF nfVars
  <2> QED BY <2>1 DEF Caches
<1>21. Snapshots'
  <2>1. Recount'
    <3>1. Held' = m /\ Held = m
      BY <1>1, <1>4, <1>5, <1>7, <1>8 DEF Held
    <3>2. Out(Src, Held)' = Out(Src, Held) /\ (OneEach(Dst)' <=> OneEach(Dst))
      BY <1>2, <1>7, <3>1 DEF Out, OneEach
    <3>3. Src > 0 => freeHead'[Src] = freeHead[Src]
      <4>1. Src > 0 => Src \in NFs /\ Src # Dst
        BY <1>4, ConnType, ChainAssumption DEF NFs
      <4> QED BY <1>8, <4>1
    <3> QED BY <1>1, <1>7, <3>1, <3>2, <3>3 DEF IInv, Snapshots, Recount
  <2> QED BY <1>7, <2>1 DEF Snapshots
<1>22. RxBacklog' /\ RxContents' /\ MbufOwner'
  <2>1. 0 \in Rings
    BY ChainAssumption DEF Rings
  <2> QED BY <1>2, <1>9, <2>1 DEF IInv, RxBacklog, RxContents, MbufOwner, Pending, Out,
                                  nfVars, rxVars
<1>23. WireInOrder'
  <2>1. L \in Rings
    BY ChainAssumption DEF Rings
  <2> QED BY <1>2, <1>4, <1>8, <2>1 DEF IInv, WireInOrder
<1>24. BroughtLen'
  BY <1>61, <1>8 DEF IInv, BroughtLen
<1> QED BY <1>11, <1>12, <1>16, <1>17, <1>18, <1>19, <1>20, <1>21, <1>22, <1>23, <1>24 DEF IInv

\* Every step of the MCA preserves the invariant.
LEMMA McaRun ==
  ASSUME IInv, mca_run
  PROVE  IInv'
  BY McaLook, McaDecline, McaTransfer, McaPublish, McaFaaSrc, McaFaaDst, McaWakeup DEF mca_run

-----------------------------------------------------------------------------
(* Steps of the receive thread.                                            *)

\* Everything the invariant says of the receive thread's ring.
RxPart ==
  /\ OutOrder(0) /\ OutStatesOf(0) /\ OutCountsOf(0)
  /\ RxBacklog /\ RxContents /\ MbufOwner

\* What the invariant says of the receive thread and its ring.
LEMMA RxInv ==
  ASSUME IInv
  PROVE  0 \in Rings /\ 0 # L /\ 0 < L /\ RxPart
  BY ChainAssumption DEF Rings, IInv, RingOrder, NodeStates, Counts, RxPart

\* The receive thread touches ring 0 and its own buffers only: that part of the
\* invariant, and the MCA's snapshot of a node of ring 0, are at stake.
LEMMA RxSuffices ==
  ASSUME IInv, OutType', NfType', RxType', RxPart',
         \A i \in NFs : /\ outNode'[i] = outNode[i] /\ outHead'[i] = outHead[i]
                        /\ outTail'[i] = outTail[i] /\ outCache'[i] = outCache[i],
         UNCHANGED <<inVars, mcaHead, mem, nfPc, inCache, mca, txVars>>,
         mca.pc = "copy" /\ Src = 0 =>
           /\ mcaHead[0] < outTail'[0]
           /\ outNode'[0][Slot(mcaHead[0])].buf = outNode[0][Slot(mcaHead[0])].buf
  PROVE  IInv'
<1>1. TypeOK'
  BY DEF IInv, TypeOK, InType, McaType, TxType, inVars, txVars
<1>2. \A i \in Rings : Taken(i)' = Taken(i)
  BY DEF Taken, Src
<1>3. \A i \in NFs : (InHand(i)' <=> InHand(i)) /\ (Processed(i)' <=> Processed(i))
  BY HandSame
<1>4. ASSUME NEW i \in NFs PROVE SegmentOf(i)'
  <2>1. SegmentOf(i) /\ i \in Rings
    BY SegmentInv, NFRings
  <2>2. InOrder(i)' /\ OutOrder(i)' /\ InStatesOf(i)' /\ InCountsOf(i)'
    BY <1>2, <1>3, <2>1 DEF SegmentOf, InOrder, OutOrder, InStatesOf, InCountsOf, In, inVars
  <2>3. OutStatesOf(i)' /\ OutCountsOf(i)'
    BY <1>2, <2>1 DEF SegmentOf, OutStatesOf, OutCountsOf, Out
  <2>4. BuffersOf(i)' /\ ContentsOf(i)'
    BY <1>3, <2>1 DEF SegmentOf, BuffersOf, ContentsOf, Out, inVars
  <2>5. In(i, outTail[i])' = In(i, outTail[i])
    BY DEF In, inVars
  <2>6. CacheOf(i)'
    BY <2>1, <2>5, CacheFrame DEF SegmentOf
  <2> QED BY <2>2, <2>3, <2>4, <2>6 DEF SegmentOf
<1>5. \A i \in Rings : OutOrder(i)' /\ OutStatesOf(i)' /\ OutCountsOf(i)'
  <2>1. \A i \in Rings : i = 0 \/ i \in NFs
    BY ChainAssumption DEF Rings, NFs
  <2> QED BY <1>4, <2>1 DEF RxPart, SegmentOf
<1>6. RingOrder' /\ NodeStates' /\ Buffers' /\ Contents' /\ Counts' /\ Caches'
  BY <1>4, <1>5 DEF SegmentOf, RingOrder, NodeStates, Buffers, Contents, Counts, Caches
<1>7. Snapshots'
  <2>1. mca.pc = "copy" => /\ mcaHead[Src] < outTail'[Src]
                           /\ mca.sbuf = outNode'[Src][Slot(mcaHead[Src])].buf
    <3>1. Src = 0 \/ Src \in NFs
      BY ConnType, ChainAssumption DEF Rings, NFs
    <3> QED BY <3>1 DEF IInv, Snapshots, Out
  <2>2. Recount'
    <3>1. CASE mca.pc \notin {"copy", "publish", "faa_src", "faa_dst"}
      BY <3>1 DEF Recount
    <3>2. CASE mca.pc \in {"copy", "publish", "faa_src", "faa_dst"} /\ Src \in NFs
      <4>1. outNode'[Src] = outNode[Src]
        BY <3>2
      <4> QED BY <4>1, RecountFrame DEF IInv, Snapshots, inVars
    <3>3. CASE mca.pc \in {"copy", "publish", "faa_src", "faa_dst"} /\ Src = 0
      <4>1. OneEach(Dst) /\ OneEach(0 + 1)
        BY <3>3, ConnType, ChainAssumption DEF OneEach
      <4>2. Out(Src, Held).cnt = 1 /\ Held >= 0
        BY <3>3, <4>1 DEF IInv, Snapshots, Recount
      <4>3. Held \in Nat /\ Held < outTail'[0] /\ outTail'[0] \in Nat
        <5>1. /\ outTail'[0] \in Nat /\ mcaHead[0] \in Nat /\ mcaHead[0] <= Taken(0)
              /\ Taken(0) \in Nat /\ Taken(0) <= outTail'[0]
          <6>1. 0 \in Rings
            BY RxInv
          <6>2. Taken(0)' <= outTail'[0] /\ outTail'[0] \in Nat
            BY <6>1 DEF RxPart, OutOrder, OutType
          <6> QED BY <1>2, <6>1, <6>2, OutNumbers
        <5>2. mca.pc = "publish" => mcaHead[0] < outTail'[0]
          BY <3>3, <5>1 DEF Taken
        <5> QED BY <3>3, <4>2, <5>1, <5>2 DEF Held
      <4>4. Slot(Held) \in Slots /\ Slot(Held) < outTail'[0]
        BY <4>3, SlotType, SlotLow, ChainAssumption DEF Slots
      <4>5. outNode'[0][Slot(Held)].cnt = 1
        <5>1. OutCountsOf(0)' /\ 0 < L /\ (OneEach(0 + 1)' <=> OneEach(0 + 1))
          BY RxInv DEF RxPart, OneEach
        <5> QED BY <4>1, <4>4, <5>1 DEF OutCountsOf
      <4>6. outNode'[Src][Slot(Held)].cnt = outNode[Src][Slot(Held)].cnt
        BY <3>3, <4>2, <4>5 DEF Out
      <4> QED BY <4>6, RecountFrame DEF IInv, Snapshots, inVars
    <3>4. Src = 0 \/ Src \in NFs
      BY ConnType, ChainAssumption DEF Rings, NFs
    <3> QED BY <3>1, <3>2, <3>3, <3>4
  <2> QED BY <2>1, <2>2 DEF IInv, Snapshots, Src, Dst, Out, inVars
<1>8. WireInOrder' /\ BroughtLen'
  BY DEF IInv, WireInOrder, BroughtLen, inVars, txVars
<1> QED BY <1>1, <1>6, <1>7, <1>8 DEF IInv, RxPart

\* A step that leaves ring 0 alone, but for its pkt_cnt.
LEMMA RxMoves ==
  ASSUME IInv, RxType', RxBacklog', RxContents', MbufOwner', outCnt' \in [Rings -> Int],
         UNCHANGED <<inVars, outNode, outHead, outTail, mcaHead, mem, nfVars, mca, txVars>>
  PROVE  IInv'
<1>1. OutType' /\ NfType'
  BY DEF IInv, TypeOK, OutType, NfType, nfVars
<1>2. Taken(0)' = Taken(0)
  BY DEF Taken, Src
<1>3. RxPart'
  BY <1>2, RxInv DEF RxPart, OutOrder, OutStatesOf, OutCountsOf, Out
<1>4. mca.pc = "copy" /\ Src = 0 => mcaHead[0] < outTail'[0]
  BY DEF IInv, Snapshots
<1> QED BY <1>1, <1>3, <1>4, RxSuffices DEF nfVars

\* The test of tot_free_mbuf preserves the invariant.
LEMMA RxLoop ==
  ASSUME IInv, rx_loop
  PROVE  IInv'
<1>1. rxPc = "poll" /\ rxPc' \in {"reclaim", "burst"}
  BY DEF rx_loop
<1>2. RxType'
  BY <1>1 DEF rx_loop, IInv, TypeOK, RxType, RxPcs
<1>3. RxBacklog'
  BY <1>1 DEF rx_loop, IInv, RxBacklog, Pending, outVars, nfVars
<1>4. Taken(0)' = Taken(0)
  BY DEF rx_loop, Taken, Src, outVars
<1>5. RxContents' /\ MbufOwner'
  BY <1>4 DEF rx_loop, IInv, RxContents, MbufOwner, Pending, Out, outVars, nfVars
<1>6. outCnt' \in [Rings -> Int]
  BY DEF rx_loop, outVars, IInv, TypeOK, OutType
<1> QED BY <1>2, <1>3, <1>5, <1>6, RxMoves DEF rx_loop, outVars

\* The receive thread's add of pkt_cnt preserves the invariant.
LEMMA RxFaa ==
  ASSUME IInv, rx_faa
  PROVE  IInv'
<1>1. rxPc = "faa" /\ rxPc' = "poll"
  BY DEF rx_faa
<1>2. RxType'
  BY <1>1 DEF rx_faa, IInv, TypeOK, RxType, RxPcs
<1>3. RxBacklog'
  BY <1>1 DEF rx_faa, IInv, RxBacklog, Pending, nfVars
<1>4. Taken(0)' = Taken(0)
  BY DEF rx_faa, Taken, Src
<1>5. RxContents' /\ MbufOwner'
  BY <1>4 DEF rx_faa, IInv, RxContents, MbufOwner, Pending, Out, nfVars
<1>6. outCnt' \in [Rings -> Int]
  BY RxInv DEF rx_faa, IInv, TypeOK, OutType
<1> QED BY <1>2, <1>3, <1>5, <1>6, RxMoves DEF rx_faa

\* A passed-through packet that is sent preserves the invariant.
LEMMA NicPassDone ==
  ASSUME IInv, NEW m \in mbufNic, nic_pass_done(m)
  PROVE  IInv'
<1>1. RxType'
  BY DEF nic_pass_done, IInv, TypeOK, RxType
<1>2. RxBacklog'
  BY DEF nic_pass_done, IInv, RxBacklog, Pending, outVars, nfVars
<1>3. Taken(0)' = Taken(0)
  BY DEF nic_pass_done, Taken, Src, outVars
<1>4. RxContents'
  BY <1>3 DEF nic_pass_done, IInv, RxContents, Pending, Out, outVars, nfVars
<1>5. /\ mbufFree' \cup mbufNic' = mbufFree \cup mbufNic /\ mbufFree' \cap mbufNic' = {}
      /\ mbufLost' = mbufLost
  BY DEF nic_pass_done, IInv, MbufOwner
<1>6. MbufOwner'
  BY <1>5 DEF nic_pass_done, IInv, MbufOwner, Pending, Out, outVars, nfVars
<1>7. outCnt' \in [Rings -> Int]
  BY DEF nic_pass_done, outVars, IInv, TypeOK, OutType
<1> QED BY <1>1, <1>2, <1>4, <1>6, <1>7, RxMoves DEF nic_pass_done, outVars

\* rte_eth_rx_burst preserves the invariant: it fills an mbuf of the pool, which
\* nothing points to.
LEMMA RxBurst ==
  ASSUME IInv, rx_burst
  PROVE  IInv'
<1>1. /\ rxPc = "burst" /\ rxMbuf = NoBuf
      /\ UNCHANGED <<inVars, outVars, mem, nfVars, mca, txVars>>
      /\ outCnt' \in [Rings -> Int] /\ Taken(0)' = Taken(0)
  BY DEF rx_burst, IInv, RxBacklog, TypeOK, OutType, outVars, Taken, Src
<1>2. RxType
  BY DEF IInv, TypeOK
<1>3. CASE rxPc' = "poll" /\ UNCHANGED <<rxMbuf, rxMem, mbufFree, mbufNic, mbufLost, totFree, accepted, passed>>
  <2>1. RxType' /\ RxBacklog' /\ RxContents' /\ MbufOwner'
    BY <1>1, <1>2, <1>3 DEF IInv, RxType, RxPcs, RxBacklog, RxContents, MbufOwner, Pending, Out,
                       outVars, nfVars
  <2> QED BY <1>1, <2>1, RxMoves DEF outVars
<1>4. ASSUME NEW m \in mbufFree,
             mbufFree' = mbufFree \ {m}, totFree' = totFree - 1,
             \/ mbufNic' = mbufNic \cup {m} /\ UNCHANGED mbufLost
             \/ mbufLost' = mbufLost \cup {m} /\ UNCHANGED mbufNic,
             passed' = passed + 1, rxPc' = "poll",
             UNCHANGED <<rxMbuf, rxMem, accepted>>
      PROVE  IInv'
  <2>1. RxType'
    BY <1>2, <1>4 DEF RxType, RxPcs
  <2>2. RxBacklog' /\ RxContents'
    BY <1>1, <1>4 DEF IInv, RxBacklog, RxContents, Pending, Out, outVars, nfVars
  <2>3. /\ mbufFree' \cup mbufNic' \cup mbufLost' = mbufFree \cup mbufNic \cup mbufLost
        /\ mbufFree' \cap mbufNic' = {} /\ (mbufFree' \cup mbufNic') \cap mbufLost' = {}
    BY <1>4 DEF IInv, MbufOwner
  <2>4. MbufOwner'
    BY <1>1, <1>4, <2>3 DEF IInv, MbufOwner, Pending, Out, outVars, nfVars
  <2> QED BY <1>1, <2>1, <2>2, <2>4, RxMoves DEF outVars
<1>5. ASSUME NEW m \in mbufFree,
             mbufFree' = mbufFree \ {m}, totFree' = totFree - 1,
             rxMem' = [rxMem EXCEPT ![m] = [id |-> accepted, hop |-> 0]],
             rxMbuf' = m, accepted' = accepted + 1, rxPc' = "collect",
             UNCHANGED <<mbufNic, mbufLost, passed>>
      PROVE  IInv'
  <2>1. m \in Mbufs /\ m # NoBuf /\ m \notin mbufNic /\ m \notin mbufLost
    BY <1>2, PoolAssumption DEF RxType, IInv, MbufOwner
  <2>2. [id |-> accepted, hop |-> 0] \in Packet
    BY <1>2, RxInv DEF RxType, Packet
  <2>3. RxType'
    BY <1>2, <1>5, <2>1, <2>2 DEF RxType, RxPcs
  <2>4. RxBacklog'
    <3>1. /\ RxBacklog /\ outTail[0] \in Nat /\ accepted \in Nat /\ outCache[0].idx \in 0..1
      BY <1>2, RxInv, OutNumbers DEF RxPart, RxType, RxBacklog
    <3> QED BY <1>1, <1>5, <2>1, <3>1 DEF RxBacklog, Pending, nfVars, outVars
  <2>5. outHead[0] \in Nat /\ outTail[0] \in Nat /\ Taken(0) \in Nat /\ outHead[0] <= Taken(0)
    BY RxInv, OutNumbers
  <2>6. ASSUME NEW k \in outHead[0]..(outTail[0] - 1) PROVE Out(0, k).buf \in Mbufs /\ Out(0, k).buf # m
    BY DEF IInv, MbufOwner
  <2>7. Pending = 1 => outCache[0].buf \in Mbufs /\ outCache[0].buf # m
    BY DEF IInv, MbufOwner
  <2>8. RxContents'
    <3>1. \A k \in Taken(0)..(outTail[0] - 1) : rxMem'[Out(0, k).buf] = [id |-> k, hop |-> 0]
      <4> SUFFICES ASSUME NEW k \in Taken(0)..(outTail[0] - 1)
                   PROVE  rxMem'[Out(0, k).buf] = [id |-> k, hop |-> 0]
        OBVIOUS
      <4>1. Out(0, k).buf \in Mbufs /\ Out(0, k).buf # m
        BY <2>5, <2>6
      <4>2. rxMem'[Out(0, k).buf] = rxMem[Out(0, k).buf]
        BY <1>2, <1>5, <4>1 DEF RxType
      <4> QED BY <4>2 DEF IInv, RxContents
    <3>2. Pending = 1 => rxMem'[outCache[0].buf] = [id |-> outTail[0], hop |-> 0]
      BY <1>2, <1>5, <2>7 DEF IInv, RxContents, RxType
    <3>3. rxMem'[rxMbuf'] = [id |-> accepted' - 1, hop |-> 0]
      BY <1>2, <1>5, <2>1 DEF RxType
    <3> QED BY <1>1, <3>1, <3>2, <3>3 DEF RxContents, Pending, Out, outVars, nfVars
  <2>9. MbufOwner'
    BY <1>1, <1>5, <2>1, <2>6, <2>7 DEF IInv, MbufOwner, Pending, Out, outVars, nfVars
  <2> QED BY <1>1, <2>3, <2>4, <2>8, <2>9, RxMoves DEF outVars
<1> QED BY <1>3, <1>4, <1>5 DEF rx_burst

\* ninf_pkt_collect frees the mbuf of a node the MCA has finished with, and no
\* other.
LEMMA NinfPktCollect ==
  ASSUME IInv, ninf_pkt_collect, NfType', RxBacklog', rxPc' \in RxPcs,
         \A i \in NFs : outCache'[i] = outCache[i],
         outCache'[0].idx = outCache[0].idx, outCache'[0].buf = outCache[0].buf,
         UNCHANGED <<inVars, outTail, mcaHead, outCnt, mem, nfPc, inCache, mca, rxMbuf, rxMem,
                     mbufNic, mbufLost, accepted, passed, txVars>>
  PROVE  IInv'
<1> DEFINE h == outHead[0]
           n == Out(0, h)
<1>1. /\ 0 \in Rings /\ 0 # L /\ RxPart /\ RxType /\ 0 \notin NFs
  BY RxInv DEF IInv, TypeOK, NFs
<1>2. /\ outNode \in [Rings -> [Slots -> OutNodes]] /\ outHead \in [Rings -> Nat]
  BY DEF IInv, TypeOK, OutType
<1>3. Taken(0)' = Taken(0)
  BY DEF Taken, Src
<1>4. /\ h \in Nat /\ outTail[0] \in Nat /\ Taken(0) \in Nat /\ h <= Taken(0)
      /\ Taken(0) <= outTail[0] /\ outTail[0] <= h + N /\ Slot(h) \in Slots /\ N \in Nat \ {0}
  BY <1>1, OutNumbers, SlotType, ChainAssumption
<1>5. mca.pc = "copy" /\ Src = 0 => mcaHead[0] < outTail'[0] /\ Slot(mcaHead[0]) \in Slots
  BY <1>1, OutNumbers, SlotType DEF IInv, Snapshots
<1>6. \A i \in NFs : i \in Rings /\ i # 0
  BY NFRings
<1>7. CASE n.st # "SENT_DONE"
  <2>1. UNCHANGED <<mbufFree, totFree, outNode, outHead>>
    BY <1>7 DEF ninf_pkt_collect, RxCopied
  <2>2. OutType' /\ RxType'
    BY <1>1, <2>1 DEF IInv, TypeOK, OutType, RxType
  <2>3. OutOrder(0)' /\ OutStatesOf(0)' /\ OutCountsOf(0)'
    BY <1>1, <1>3, <2>1 DEF RxPart, OutOrder, OutStatesOf, OutCountsOf, Out
  <2>4. RxContents' /\ MbufOwner'
    BY <1>1, <1>3, <2>1 DEF RxPart, RxContents, MbufOwner, Pending, Out
  <2> QED BY <1>5, <2>1, <2>2, <2>3, <2>4, RxSuffices DEF RxPart
<1>8. CASE n.st = "SENT_DONE"
  <2>1. /\ mbufFree' = mbufFree \cup {n.buf}
        /\ totFree' = totFree + n.cnt
        /\ outNode' = [outNode EXCEPT ![0][Slot(h)].st = "EMPTY"]
        /\ outHead' = [outHead EXCEPT ![0] = h + 1]
    BY <1>8 DEF ninf_pkt_collect, RxCopied
  <2>2. h < Taken(0)
    BY <1>1, <1>4, <1>8 DEF RxPart, OutStatesOf
  <2>3. n \in OutNodes /\ n = outNode[0][Slot(h)]
    BY <1>1, <1>2, <1>4 DEF Out
  <2>4. n.buf \in Mbufs \ (mbufFree \cup mbufNic \cup mbufLost)
    BY <1>1, <1>4, <2>2 DEF RxPart, MbufOwner
  <2> HIDE DEF n
  <2>5. \A i \in NFs : outNode'[i] = outNode[i] /\ outHead'[i] = outHead[i]
    BY <1>1, <1>2, <1>6, <2>1
  <2>6. /\ outHead'[0] = h + 1
        /\ \A s \in Slots : /\ outNode'[0][s].buf = outNode[0][s].buf
                            /\ outNode'[0][s].cnt = outNode[0][s].cnt
                            /\ outNode'[0][s].st = IF s = Slot(h) THEN "EMPTY" ELSE outNode[0][s].st
    BY <1>1, <1>2, <1>4, <2>1 DEF OutNodes
  <2>7. OutType'
    <3>1. [outNode[0][Slot(h)] EXCEPT !.st = "EMPTY"] \in OutNodes
      BY <2>3 DEF OutNodes, PktStates
    <3> QED BY <1>1, <1>2, <1>4, <2>1, <3>1 DEF IInv, TypeOK, OutType
  <2>8. RxType'
    <3>1. n.cnt \in Int
      BY <2>3, ChainAssumption DEF OutNodes
    <3> QED BY <1>1, <2>1, <2>4, <3>1 DEF RxType
  <2>9. OutOrder(0)'
    BY <1>3, <1>4, <2>2, <2>6 DEF OutOrder
  <2>10. OutStatesOf(0)'
    <3>1. ASSUME NEW k \in (h + 1)..(h + N)
          PROVE  /\ k < Taken(0) => Out(0, k)'.st = "SENT_DONE"
                 /\ Taken(0) <= k /\ k < outTail[0] => Out(0, k)'.st = "SENT_READY"
                 /\ outTail[0] <= k => Out(0, k)'.st = "EMPTY"
      <4>1. CASE k = h + N
        <5>1. Slot(k) = Slot(h)
          BY <1>4, <4>1, SlotWrap
        <5>2. Out(0, k)'.st = "EMPTY"
          BY <1>4, <2>6, <5>1 DEF Out
        <5> QED BY <1>4, <4>1, <5>2
      <4>2. CASE k # h + N
        <5>1. k \in Int /\ h < k /\ k < h + N
          BY <1>4, <4>2
        <5>2. Slot(k) \in Slots /\ Slot(k) # Slot(h)
          BY <1>4, <5>1, SlotType, SlotInj
        <5>3. Out(0, k)'.st = Out(0, k).st
          BY <2>6, <5>2 DEF Out
        <5> QED BY <1>1, <1>4, <5>1, <5>3 DEF RxPart, OutStatesOf
      <4> QED BY <4>1, <4>2
    <3>2. \A k : k \in outHead'[0]..(outHead'[0] + N - 1) => k \in (h + 1)..(h + N)
      BY <1>4, <2>6
    <3> QED BY <1>3, <3>1, <3>2 DEF OutStatesOf
  <2>11. OutCountsOf(0)'
    BY <1>1, <2>6 DEF RxPart, OutCountsOf
  <2>12. ASSUME NEW k \in Int PROVE Out(0, k)'.buf = Out(0, k).buf
    BY <2>6, SlotType DEF Out
  <2>13. RxContents'
    BY <1>1, <1>3, <1>4, <2>12 DEF RxPart, RxContents, Pending
  <2>14. MbufOwner'
    <3>1. \A k \in (h + 1)..(outTail[0] - 1) :
            /\ k \in h..(outTail[0] - 1) /\ k # h
            /\ Out(0, k)'.buf = Out(0, k).buf /\ Out(0, k).buf # n.buf
      <4>1. ASSUME NEW k \in (h + 1)..(outTail[0] - 1)
            PROVE  k \in h..(outTail[0] - 1) /\ k # h /\ h \in h..(outTail[0] - 1) /\ k \in Int
        BY <1>4
      <4> QED BY <1>1, <2>12, <4>1 DEF RxPart, MbufOwner, n
    <3>2. h \in h..(outTail[0] - 1)
      BY <1>4, <2>2
    <3>3. /\ Pending = 1 => outCache[0].buf # n.buf
          /\ rxMbuf # NoBuf => rxMbuf # n.buf
      BY <1>1, <3>2 DEF RxPart, MbufOwner, n
    <3>4. mbufFree' \cap mbufNic' = {} /\ (mbufFree' \cup mbufNic') \cap mbufLost' = {}
      BY <1>1, <2>1, <2>4 DEF RxPart, MbufOwner
    <3> QED BY <1>1, <2>1, <2>4, <2>6, <3>1, <3>3, <3>4 DEF RxPart, MbufOwner, Pending
  <2>15. mca.pc = "copy" /\ Src = 0 =>
           /\ mcaHead[0] < outTail'[0]
           /\ outNode'[0][Slot(mcaHead[0])].buf = outNode[0][Slot(mcaHead[0])].buf
    BY <1>5, <2>6
  <2> QED BY <2>5, <2>7, <2>8, <2>9, <2>10, <2>11, <2>13, <2>14, <2>15, RxSuffices DEF RxPart
<1> QED BY <1>7, <1>8

\* rx_collect_all_nf preserves the invariant.
LEMMA RxCollectAllNf ==
  ASSUME IInv, rx_collect_all_nf
  PROVE  IInv'
<1>1. /\ rxPc = "reclaim" /\ rxPc' \in {"reclaim", "burst"} /\ rxPc' \in RxPcs
      /\ UNCHANGED nfVars
  BY DEF rx_collect_all_nf, RxCopied, RxPcs
<1>2. NfType'
  BY <1>1 DEF rx_collect_all_nf, RxCopied, IInv, TypeOK, NfType, nfVars
<1>3. RxBacklog'
  BY <1>1 DEF rx_collect_all_nf, RxCopied, IInv, RxBacklog, Pending, nfVars
<1> QED BY <1>1, <1>2, <1>3, NinfPktCollect DEF rx_collect_all_nf, RxCopied, nfVars

\* The collection before a packet is sent preserves the invariant.
LEMMA RxCollect ==
  ASSUME IInv, rx_collect
  PROVE  IInv'
<1>1. rxPc = "collect" /\ rxPc' = "send" /\ rxPc' \in RxPcs
  BY DEF rx_collect, RxPcs
<1>2. /\ outCache \in [Rings -> [cnt : 0..(K + 1), idx : 0..K, buf : Buf]] /\ 0 \in Rings
      /\ outCache' = [outCache EXCEPT ![0].cnt = 1]
  BY RxInv DEF rx_collect, IInv, TypeOK, NfType
<1>3. /\ outCache'[0].idx = outCache[0].idx /\ outCache'[0].buf = outCache[0].buf
      /\ outCache'[0].cnt = 1
      /\ \A i \in NFs : outCache'[i] = outCache[i]
  BY <1>2, NFRings
<1>4. outCache' \in [Rings -> [cnt : 0..(K + 1), idx : 0..K, buf : Buf]]
  BY <1>2, ChainAssumption
<1>5. NfType'
  BY <1>4 DEF rx_collect, IInv, TypeOK, NfType
<1>6. RxBacklog'
  BY <1>1, <1>3 DEF rx_collect, IInv, RxBacklog, Pending
<1> QED BY <1>1, <1>3, <1>5, <1>6, NinfPktCollect DEF rx_collect

\* A flush of the receive thread writes an EMPTY node that no one reads.
LEMMA RxFlush ==
  ASSUME IInv, CanFlush(0), NEW b \in Mbufs, flush(0, 1, b),
         UNCHANGED <<outHead, mcaHead, outCnt, mca>>
  PROVE  /\ OutType' /\ OutOrder(0)' /\ OutStatesOf(0)' /\ OutCountsOf(0)'
         /\ \A i \in NFs : outNode'[i] = outNode[i] /\ outTail'[i] = outTail[i]
         /\ outTail'[0] = outTail[0] + 1 /\ Taken(0)' = Taken(0)
         /\ \A k \in outHead[0]..(outTail[0] - 1) : Out(0, k)'.buf = Out(0, k).buf
         /\ \A k \in Int : k = outTail[0] => Out(0, k)'.buf = b
         /\ mca.pc = "copy" /\ Src = 0 =>
              /\ mcaHead[0] < outTail'[0]
              /\ outNode'[0][Slot(mcaHead[0])].buf = outNode[0][Slot(mcaHead[0])].buf
<1> DEFINE t == outTail[0]
           h == outHead[0]
           node == [st |-> "SENT_READY", cnt |-> 1, buf |-> b]
<1>1. /\ 0 \in Rings /\ 0 # L /\ RxPart /\ \A i \in NFs : i \in Rings /\ i # 0
  BY RxInv, NFRings
<1>2. /\ outNode \in [Rings -> [Slots -> OutNodes]] /\ outTail \in [Rings -> Nat]
  BY DEF IInv, TypeOK, OutType
<1>3. /\ h \in Nat /\ t \in Nat /\ Taken(0) \in Nat /\ h <= Taken(0)
      /\ Taken(0) <= t /\ t <= h + N /\ Slot(t) \in Slots /\ N \in Nat \ {0}
  BY <1>1, OutNumbers, SlotType, ChainAssumption
<1>4. t < h + N
  <2>1. SUFFICES ASSUME t = h + N PROVE FALSE
    BY <1>3
  <2>2. Out(0, h).st = "EMPTY"
    BY <1>3, <2>1, SlotWrap DEF CanFlush, Out
  <2> QED BY <1>1, <1>3, <2>1, <2>2 DEF RxPart, OutStatesOf
<1>5. /\ outNode' = [outNode EXCEPT ![0][Slot(t)] = node]
      /\ outTail' = [outTail EXCEPT ![0] = t + 1]
  BY DEF flush, Node
<1>6. node \in OutNodes
  BY ChainAssumption DEF OutNodes, PktStates, Buf
<1>7. Taken(0)' = Taken(0)
  BY DEF Taken, Src
<1>8. /\ outNode'[0][Slot(t)] = node /\ outTail'[0] = t + 1
      /\ \A s \in Slots : s # Slot(t) => outNode'[0][s] = outNode[0][s]
      /\ \A i \in NFs : outNode'[i] = outNode[i] /\ outTail'[i] = outTail[i]
  <2> HIDE DEF node
  <2> QED BY <1>1, <1>2, <1>3, <1>5
<1>9. OutType'
  <2> HIDE DEF node
  <2> QED BY <1>1, <1>2, <1>3, <1>5, <1>6 DEF IInv, TypeOK, OutType
<1>10. ASSUME NEW k \in h..(h + N - 1)
       PROVE  outNode'[0][Slot(k)] = IF k = t THEN node ELSE outNode[0][Slot(k)]
  <2>1. Slot(k) \in Slots /\ (k # t => Slot(k) # Slot(t))
    BY <1>3, <1>4, SlotType, SlotInj, ChainAssumption
  <2> HIDE DEF node
  <2> QED BY <1>8, <2>1
<1>11. OutOrder(0)'
  BY <1>3, <1>4, <1>7, <1>8 DEF OutOrder
<1>12. OutStatesOf(0)'
  BY <1>1, <1>3, <1>7, <1>8, <1>10 DEF RxPart, OutStatesOf, Out
<1>13. OutCountsOf(0)'
  <2>1. ASSUME NEW s \in Slots, s < t + 1, s # Slot(t) PROVE s < t
    BY <1>3, <2>1, SlotLow, ChainAssumption DEF Slots
  <2> QED BY <1>1, <1>3, <1>8, <2>1, RxInv DEF RxPart, OutCountsOf
<1>14. ASSUME NEW k \in h..(t - 1) PROVE Out(0, k)'.buf = Out(0, k).buf
  BY <1>3, <1>4, <1>10 DEF Out
<1>15. ASSUME NEW k \in Int, k = t PROVE Out(0, k)'.buf = b
  BY <1>8, <1>15 DEF Out
<1>16. ASSUME mca.pc = "copy", Src = 0
       PROVE  /\ mcaHead[0] < outTail'[0]
              /\ outNode'[0][Slot(mcaHead[0])].buf = outNode[0][Slot(mcaHead[0])].buf
  <2>1. mcaHead[0] < t /\ mcaHead[0] = Taken(0) /\ mcaHead[0] \in Nat
    BY <1>1, <1>16, OutNumbers DEF IInv, Snapshots, Taken
  <2> QED BY <1>3, <1>4, <1>8, <1>10, <2>1
<1> QED BY <1>7, <1>8, <1>9, <1>11, <1>12, <1>13, <1>14, <1>15, <1>16

\* eos_pkt_send_test preserves the invariant in each of its five outcomes.
LEMMA RxSend ==
  ASSUME IInv, rx_send
  PROVE  IInv'
<1> DEFINE c == outCache[0]
           t == outTail[0]
           ring == outHead[0]..(t - 1)
           busy == Mbufs \ (mbufFree \cup mbufNic \cup mbufLost)
<1>1. /\ rxPc = "send" /\ 0 \in Rings /\ RxPart /\ RxType /\ \A i \in NFs : i \in Rings /\ i # 0
      /\ UNCHANGED <<inVars, outHead, mcaHead, outCnt, mem, nfPc, inCache, mca,
                     rxMem, mbufNic, mbufLost, accepted, passed, txVars>>
  BY RxInv, NFRings DEF rx_send, RxCached, IInv, TypeOK
<1>2. /\ outCache \in [Rings -> [cnt : 0..(K + 1), idx : 0..K, buf : Buf]]
      /\ c \in [cnt : 0..(K + 1), idx : 0..K, buf : Buf]
      /\ t \in Nat /\ outHead[0] \in Nat /\ outHead[0] <= t /\ Taken(0) \in Nat
      /\ outHead[0] <= Taken(0)
  BY <1>1, OutNumbers DEF IInv, TypeOK, NfType
<1>3. /\ c.cnt = 1 /\ c.idx \in 0..1 /\ rxMbuf # NoBuf /\ accepted \in Nat
      /\ accepted = t + c.idx + 1 /\ Pending = c.idx
  BY <1>1 DEF RxPart, RxBacklog, RxType, Pending
<1>4. /\ rxMbuf \in busy /\ rxMbuf \in Mbufs
      /\ \A k \in ring : Out(0, k).buf \in busy /\ Out(0, k).buf # rxMbuf
      /\ \A j, k \in ring : j # k => Out(0, j).buf # Out(0, k).buf
      /\ mbufFree \cap mbufNic = {} /\ (mbufFree \cup mbufNic) \cap mbufLost = {}
      /\ c.idx = 1 => /\ c.buf \in busy /\ c.buf \in Mbufs /\ c.buf # rxMbuf
                      /\ \A k \in ring : Out(0, k).buf # c.buf
  BY <1>1, <1>3 DEF RxPart, MbufOwner
<1>5. /\ \A k \in Taken(0)..(t - 1) : rxMem[Out(0, k).buf] = [id |-> k, hop |-> 0]
      /\ c.idx = 1 => rxMem[c.buf] = [id |-> t, hop |-> 0]
      /\ rxMem[rxMbuf] = [id |-> t + c.idx, hop |-> 0]
  BY <1>1, <1>2, <1>3 DEF RxPart, RxContents
<1>6. ASSUME NEW d \in [cnt : 0..(K + 1), idx : 0..K, buf : Buf],
             outCache' = [outCache EXCEPT ![0] = d]
      PROVE  NfType' /\ outCache'[0] = d /\ \A i \in NFs : outCache'[i] = outCache[i]
  <2>1. NfType'
    BY <1>1, <1>2, <1>6 DEF IInv, TypeOK, NfType
  <2> QED BY <1>1, <1>2, <1>6, <2>1
<1>7. rxMbuf \in Buf /\ c.buf \in Buf
  BY <1>2, <1>4 DEF Buf
<1>8. CASE c.cnt # c.idx /\ CanFlush(0)
  <2> DEFINE d == [cnt |-> 0, idx |-> 0, buf |-> rxMbuf]
  <2>1. /\ flush(0, 1, rxMbuf) /\ outCache' = [outCache EXCEPT ![0] = d] /\ rxPc' = "faa" /\ rxMbuf' = NoBuf
        /\ UNCHANGED <<mbufFree, totFree>> /\ c.idx = 0
    BY <1>1, <1>3, <1>8 DEF rx_send, RxCached
  <2>2. /\ NfType' /\ outCache'[0].cnt = 0 /\ outCache'[0].idx = 0
        /\ \A i \in NFs : outCache'[i] = outCache[i]
    <3>1. d \in [cnt : 0..(K + 1), idx : 0..K, buf : Buf]
      BY <1>7, ChainAssumption
    <3>2. NfType' /\ outCache'[0] = d /\ \A i \in NFs : outCache'[i] = outCache[i]
      <4> HIDE DEF d
      <4> QED BY <1>6, <2>1, <3>1
    <3> QED BY <3>2
  <2>3. /\ OutType' /\ OutOrder(0)' /\ OutStatesOf(0)' /\ OutCountsOf(0)'
        /\ \A i \in NFs : outNode'[i] = outNode[i] /\ outTail'[i] = outTail[i]
        /\ outTail'[0] = t + 1 /\ Taken(0)' = Taken(0)
        /\ \A k \in ring : Out(0, k)'.buf = Out(0, k).buf
        /\ \A k \in Int : k = t => Out(0, k)'.buf = rxMbuf
        /\ mca.pc = "copy" /\ Src = 0 =>
              /\ mcaHead[0] < outTail'[0]
              /\ outNode'[0][Slot(mcaHead[0])].buf = outNode[0][Slot(mcaHead[0])].buf
    BY <1>1, <1>4, <1>8, <2>1, RxFlush
  <2>4. RxType'
    BY <1>1, <2>1 DEF RxType, RxPcs
  <2>5. RxBacklog'
    BY <1>1, <1>2, <1>3, <2>1, <2>2, <2>3 DEF RxBacklog, Pending
  <2>6. ASSUME NEW k \in outHead[0]..t
        PROVE  Out(0, k)'.buf = IF k = t THEN rxMbuf ELSE Out(0, k).buf
    BY <1>2, <2>3
  <2>7. RxContents'
    <3>1. \A k \in Taken(0)..t : rxMem[Out(0, k)'.buf] = [id |-> k, hop |-> 0]
      <4> SUFFICES ASSUME NEW k \in Taken(0)..t
                   PROVE  rxMem[Out(0, k)'.buf] = [id |-> k, hop |-> 0]
        OBVIOUS
      <4>1. k \in outHead[0]..t /\ (k # t => k \in Taken(0)..(t - 1))
        BY <1>2
      <4>2. CASE k = t
        <5>1. rxMem[IF k = t THEN rxMbuf ELSE Out(0, k).buf] = [id |-> k, hop |-> 0]
          BY <1>2, <1>5, <2>1, <4>2
        <5> QED BY <2>6, <4>1, <4>2, <5>1
      <4>3. CASE k # t
        BY <1>5, <2>6, <4>1, <4>3
      <4> QED BY <4>2, <4>3
    <3> QED BY <1>1, <1>2, <2>1, <2>2, <2>3, <3>1 DEF RxContents, Pending
  <2>8. MbufOwner'
    <3>1. /\ \A k \in outHead[0]..t : Out(0, k)'.buf \in busy
          /\ \A j, k \in outHead[0]..t : j # k => Out(0, j)'.buf # Out(0, k)'.buf
      BY <1>2, <1>4, <2>6
    <3> QED BY <1>1, <1>2, <1>4, <2>1, <2>2, <2>3, <3>1 DEF MbufOwner, Pending
  <2> QED BY <1>1, <2>2, <2>3, <2>4, <2>5, <2>7, <2>8, RxSuffices DEF RxPart
<1>9. CASE c.cnt = c.idx /\ CanFlush(0)
  <2> DEFINE d == [cnt |-> 0, idx |-> 1, buf |-> rxMbuf]
  <2>1. /\ flush(0, 1, c.buf) /\ outCache' = [outCache EXCEPT ![0] = d] /\ rxPc' = "faa" /\ rxMbuf' = NoBuf
        /\ UNCHANGED <<mbufFree, totFree>> /\ c.idx = 1
    BY <1>1, <1>3, <1>9 DEF rx_send, RxCached, CanFlush
  <2>2. /\ NfType' /\ outCache'[0].cnt = 0 /\ outCache'[0].idx = 1 /\ outCache'[0].buf = rxMbuf
        /\ \A i \in NFs : outCache'[i] = outCache[i]
    <3>1. d \in [cnt : 0..(K + 1), idx : 0..K, buf : Buf]
      BY <1>7, ChainAssumption
    <3>2. NfType' /\ outCache'[0] = d /\ \A i \in NFs : outCache'[i] = outCache[i]
      <4> HIDE DEF d
      <4> QED BY <1>6, <2>1, <3>1
    <3> QED BY <3>2
  <2>3. /\ OutType' /\ OutOrder(0)' /\ OutStatesOf(0)' /\ OutCountsOf(0)'
        /\ \A i \in NFs : outNode'[i] = outNode[i] /\ outTail'[i] = outTail[i]
        /\ outTail'[0] = t + 1 /\ Taken(0)' = Taken(0)
        /\ \A k \in ring : Out(0, k)'.buf = Out(0, k).buf
        /\ \A k \in Int : k = t => Out(0, k)'.buf = c.buf
        /\ mca.pc = "copy" /\ Src = 0 =>
              /\ mcaHead[0] < outTail'[0]
              /\ outNode'[0][Slot(mcaHead[0])].buf = outNode[0][Slot(mcaHead[0])].buf
    BY <1>1, <1>4, <1>9, <2>1, RxFlush
  <2>4. RxType'
    BY <1>1, <2>1 DEF RxType, RxPcs
  <2>5. RxBacklog'
    BY <1>1, <1>2, <1>3, <2>1, <2>2, <2>3 DEF RxBacklog, Pending
  <2>6. ASSUME NEW k \in outHead[0]..t
        PROVE  Out(0, k)'.buf = IF k = t THEN c.buf ELSE Out(0, k).buf
    BY <1>2, <2>3
  <2>7. RxContents'
    <3>1. \A k \in Taken(0)..t : rxMem[Out(0, k)'.buf] = [id |-> k, hop |-> 0]
      <4> SUFFICES ASSUME NEW k \in Taken(0)..t
                   PROVE  rxMem[Out(0, k)'.buf] = [id |-> k, hop |-> 0]
        OBVIOUS
      <4>1. k \in outHead[0]..t /\ (k # t => k \in Taken(0)..(t - 1))
        BY <1>2
      <4>2. CASE k = t
        <5>1. rxMem[IF k = t THEN c.buf ELSE Out(0, k).buf] = [id |-> k, hop |-> 0]
          BY <1>2, <1>5, <2>1, <4>2
        <5> QED BY <2>6, <4>1, <4>2, <5>1
      <4>3. CASE k # t
        BY <1>5, <2>6, <4>1, <4>3
      <4> QED BY <4>2, <4>3
    <3> QED BY <1>1, <1>2, <1>5, <2>1, <2>2, <2>3, <3>1 DEF RxContents, Pending
  <2>8. MbufOwner'
    <3>1. /\ \A k \in outHead[0]..t : Out(0, k)'.buf \in busy /\ Out(0, k)'.buf # rxMbuf
          /\ \A j, k \in outHead[0]..t : j # k => Out(0, j)'.buf # Out(0, k)'.buf
      BY <1>2, <1>4, <2>1, <2>6
    <3> QED BY <1>1, <1>2, <1>4, <2>1, <2>2, <2>3, <3>1 DEF MbufOwner, Pending
  <2> QED BY <1>1, <2>2, <2>3, <2>4, <2>5, <2>7, <2>8, RxSuffices DEF RxPart
<1>10. CASE ~CanFlush(0)
  <2>1. UNCHANGED <<outNode, outTail>> /\ OutType'
    BY <1>1, <1>10 DEF rx_send, RxCached, IInv, TypeOK, OutType
  <2>2. Taken(0)' = Taken(0)
    BY <1>1 DEF Taken, Src
  <2>3. OutOrder(0)' /\ OutStatesOf(0)' /\ OutCountsOf(0)'
    BY <1>1, <2>1, <2>2 DEF RxPart, OutOrder, OutStatesOf, OutCountsOf, Out
  <2>4. mca.pc = "copy" /\ Src = 0 => mcaHead[0] < outTail'[0]
    BY <2>1 DEF IInv, Snapshots
  <2>5. SUFFICES /\ NfType' /\ RxType' /\ RxBacklog' /\ RxContents' /\ MbufOwner'
                 /\ \A i \in NFs : outCache'[i] = outCache[i]
    BY <1>1, <2>1, <2>3, <2>4, RxSuffices DEF RxPart
  <2>6. CASE c.cnt # c.idx
    <3>1. /\ outCache' = [outCache EXCEPT ![0].idx = 1, ![0].buf = rxMbuf] /\ c.idx = 0
          /\ rxPc' = "poll" /\ rxMbuf' = NoBuf /\ UNCHANGED <<mbufFree, totFree>>
      BY <1>3, <1>10, <2>6 DEF rx_send, RxCached
    <3> DEFINE d == [cnt |-> 1, idx |-> 1, buf |-> rxMbuf]
    <3>2. outCache' = [outCache EXCEPT ![0] = d]
      <4>1. [[c EXCEPT !.idx = 1] EXCEPT !.buf = rxMbuf] = [cnt |-> 1, idx |-> 1, buf |-> rxMbuf]
        <5>1. c = [cnt |-> 1, idx |-> 0, buf |-> c.buf]
          BY <1>2, <1>3, <3>1
        <5>2. [c EXCEPT !.idx = 1] = [cnt |-> 1, idx |-> 1, buf |-> c.buf]
          BY <5>1
        <5>3. [[cnt |-> 1, idx |-> 1, buf |-> c.buf] EXCEPT !.buf = rxMbuf]
                = [cnt |-> 1, idx |-> 1, buf |-> rxMbuf]
          OBVIOUS
        <5> QED BY <5>2, <5>3
      <4> QED BY <1>1, <1>2, <3>1, <4>1
    <3>3. /\ NfType' /\ outCache'[0].cnt = 1 /\ outCache'[0].idx = 1 /\ outCache'[0].buf = rxMbuf
          /\ \A i \in NFs : outCache'[i] = outCache[i]
      <4>1. d \in [cnt : 0..(K + 1), idx : 0..K, buf : Buf]
        BY <1>7, ChainAssumption
      <4>2. NfType' /\ outCache'[0] = d /\ \A i \in NFs : outCache'[i] = outCache[i]
        <5> HIDE DEF d
        <5> QED BY <1>6, <3>2, <4>1
      <4> QED BY <4>2
    <3>4. RxType'
      BY <1>1, <3>1 DEF RxType, RxPcs
    <3>5. RxBacklog'
      <4>1. accepted' = t + 1 /\ outTail'[0] = t /\ t \in Nat
        BY <1>1, <1>2, <1>3, <2>1, <3>1
      <4> QED BY <3>1, <3>3, <4>1 DEF RxBacklog, Pending
    <3>6. RxContents'
      BY <1>1, <1>2, <1>5, <2>1, <2>2, <3>1, <3>3 DEF RxContents, Pending, Out
    <3>7. MbufOwner'
      <4>1. /\ (outHead[0]..(outTail[0] - 1))' = ring /\ rxMbuf' = NoBuf
            /\ (Mbufs \ (mbufFree \cup mbufNic \cup mbufLost))' = busy
            /\ (mbufFree \cap mbufNic)' = {} /\ ((mbufFree \cup mbufNic) \cap mbufLost)' = {}
        BY <1>1, <1>4, <2>1, <3>1
      <4>2. ASSUME NEW k PROVE Out(0, k)' = Out(0, k)
        BY <2>1 DEF Out
      <4> HIDE DEF ring, busy
      <4> QED BY <1>4, <3>3, <4>1, <4>2 DEF MbufOwner
    <3> QED BY <3>3, <3>4, <3>5, <3>6, <3>7
  <2>7. CASE c.cnt = c.idx /\ Out(0, outTail[0]).st = "SENT_DONE"
    <3>1. rxPc' = "collect" /\ UNCHANGED <<outCache, rxMbuf, mbufFree, totFree>>
      BY <1>10, <2>7 DEF rx_send, RxCached, CanFlush
    <3>2. NfType' /\ RxType'
      BY <1>1, <3>1 DEF IInv, TypeOK, NfType, RxType, RxPcs
    <3>3. RxBacklog' /\ RxContents' /\ MbufOwner'
      BY <1>1, <2>1, <2>2, <3>1 DEF RxPart, RxBacklog, RxContents, MbufOwner, Pending, Out
    <3> QED BY <3>1, <3>2, <3>3
  <2>8. CASE c.cnt = c.idx /\ Out(0, outTail[0]).st # "SENT_DONE"
    <3>1. /\ rxPc' = "abort" /\ rxMbuf' = NoBuf /\ mbufFree' = mbufFree \cup {rxMbuf}
          /\ totFree' = totFree + 1 /\ UNCHANGED outCache
      BY <1>10, <2>8 DEF rx_send, RxCached
    <3>2. NfType' /\ RxType'
      BY <1>1, <1>4, <3>1 DEF IInv, TypeOK, NfType, RxType, RxPcs
    <3>3. RxBacklog'
      BY <1>1, <1>3, <2>1, <2>8, <3>1 DEF RxPart, RxBacklog, Pending
    <3>4. RxContents'
      BY <1>1, <1>2, <1>5, <2>1, <2>2, <3>1 DEF RxContents, Pending, Out
    <3>5. MbufOwner'
      BY <1>1, <1>3, <1>4, <2>1, <3>1 DEF MbufOwner, Pending, Out
    <3> QED BY <3>1, <3>2, <3>3, <3>4, <3>5
  <2> QED BY <2>6, <2>7, <2>8
<1> QED BY <1>8, <1>9, <1>10

\* Every step of the receive thread preserves the invariant.
LEMMA NinfRx ==
  ASSUME IInv, ninf_rx
  PROVE  IInv'
  BY RxLoop, RxCollectAllNf, RxBurst, RxCollect, RxSend, RxFaa DEF ninf_rx

-----------------------------------------------------------------------------
(* Steps of the transmit thread and the NIC.                               *)

\* The transmit thread touches the states and counts of ring L and its mca_head
\* only: the buffers and contents of that ring stay, its states are at stake.
LEMMA TxSuffices ==
  ASSUME IInv, OutType', TxType', WireInOrder',
         OutOrder(L)', OutStatesOf(L)', OutCountsOf(L)',
         \A i \in Rings : i # L => outNode'[i] = outNode[i] /\ mcaHead'[i] = mcaHead[i],
         \A s \in Slots :
           /\ outNode'[L][s].buf = outNode[L][s].buf
           /\ outNode'[L][s].st \in {"SENT_READY", "TXING"} =>
                outNode[L][s].st \in {"SENT_READY", "TXING"},
         UNCHANGED <<inVars, outHead, outTail, mem, nfVars, mca, rxVars, brought>>
  PROVE  IInv'
<1>1. TypeOK'
  BY DEF IInv, TypeOK, InType, NfType, McaType, RxType, inVars, nfVars, rxVars
<1>2. \A i \in Rings : i # L => Taken(i)' = Taken(i)
  BY DEF Taken, Src
<1>3. \A i \in NFs : (InHand(i)' <=> InHand(i)) /\ (Processed(i)' <=> Processed(i))
  BY HandSame DEF nfVars
<1>4. ASSUME NEW i \in Rings PROVE OutOrder(i)' /\ OutStatesOf(i)' /\ OutCountsOf(i)'
  <2>1. OutOrder(i) /\ OutStatesOf(i) /\ OutCountsOf(i)
    BY DEF IInv, RingOrder, NodeStates, Counts
  <2>2. CASE i # L
    BY <1>2, <2>1, <2>2 DEF OutOrder, OutStatesOf, OutCountsOf, Out
  <2> QED BY <2>2
<1>5. ASSUME NEW i \in NFs
      PROVE  /\ InOrder(i)' /\ InStatesOf(i)' /\ InCountsOf(i)' /\ CacheOf(i)'
             /\ BuffersOf(i)' /\ ContentsOf(i)'
  <2>1. SegmentOf(i) /\ i \in Rings /\ i - 1 \in Rings /\ i - 1 # L
    BY SegmentInv, NFRings
  <2>2. InOrder(i)' /\ InStatesOf(i)' /\ InCountsOf(i)'
    BY <1>3, <2>1 DEF SegmentOf, InOrder, InStatesOf, InCountsOf, OneEach, In, inVars, nfVars
  <2>6. CacheOf(i)'
    <3>1. CacheOf(i) /\ In(i, outTail[i])'.cnt = In(i, outTail[i]).cnt
      BY <2>1 DEF SegmentOf, In, inVars
    <3> QED BY <3>1, CacheFrame DEF nfVars
  <2>3. ASSUME NEW k \in outHead[i]..(outTail[i] - 1)
        PROVE  /\ Out(i, k)'.buf = Out(i, k).buf
               /\ Out(i, k)'.st \in {"SENT_READY", "TXING"} =>
                    Out(i, k).st \in {"SENT_READY", "TXING"}
    <3>1. Slot(k) \in Slots
      BY <2>1, OutNumbers, SlotType
    <3> QED BY <2>1, <3>1 DEF Out
  <2>4. BuffersOf(i)'
    BY <1>3, <2>1, <2>3 DEF SegmentOf, BuffersOf, inVars, nfVars
  <2>5. ContentsOf(i)'
    BY <1>3, <2>1, <2>3 DEF SegmentOf, ContentsOf, inVars, nfVars
  <2> QED BY <2>2, <2>4, <2>5, <2>6
<1>6. RingOrder' /\ NodeStates' /\ Buffers' /\ Contents' /\ Counts' /\ Caches'
  BY <1>4, <1>5 DEF RingOrder, NodeStates, Buffers, Contents, Counts, Caches
<1>7. Snapshots'
  <2>1. Recount'
    BY ConnType, RecountFrame DEF IInv, Snapshots, inVars
  <2> QED BY <2>1, ConnType DEF IInv, Snapshots, Src, Dst, Out, inVars
<1>10. BroughtLen'
  BY DEF IInv, BroughtLen, inVars
<1>8. 0 \in Rings /\ 0 # L /\ Taken(0)' = Taken(0)
  BY <1>2, RxInv
<1>9. RxBacklog' /\ RxContents' /\ MbufOwner'
  BY <1>8 DEF IInv, RxBacklog, RxContents, MbufOwner, Pending, Out, nfVars, rxVars
<1> QED BY <1>1, <1>6, <1>7, <1>9, <1>10 DEF IInv

\* ninf_tx_process takes the next node, and with it packet mca_head.
LEMMA NinfTxTake ==
  ASSUME IInv, ninf_tx_take
  PROVE  IInv'
<1> DEFINE m == mcaHead[L]
           sent == outNode[L][Slot(m)]
           st == IF sent.cnt # 0 THEN "TXING" ELSE "SENT_DONE"
           pkt == [id |-> m, hop |-> L]
<1>1. /\ L \in Rings /\ L \in NFs /\ L \in Int /\ SegmentOf(L) /\ N \in Nat \ {0}
  BY SegmentInv, ChainAssumption DEF Rings, NFs
<1>2. /\ sent.st = "SENT_READY"
      /\ outNode' = [outNode EXCEPT ![L][Slot(m)].st = st]
      /\ mcaHead' = [mcaHead EXCEPT ![L] = m + 1]
      /\ txRet' = txRet + 1
      /\ wire' = Append(wire, mem[L][sent.buf])
      /\ UNCHANGED <<inVars, outHead, outTail, outCnt, mem, nfVars, mca, rxVars, brought>>
  BY DEF ninf_tx_take, TakenState, Out
<1>3. /\ outNode \in [Rings -> [Slots -> OutNodes]] /\ mcaHead \in [Rings -> Nat]
      /\ wire \in Seq(Packet) /\ txRet \in Nat /\ brought \in [NFs -> Seq(Nat)]
  BY DEF IInv, TypeOK, OutType, TxType
<1>4. /\ m \in Nat /\ Taken(L) = m /\ Taken(L)' = m + 1 /\ Slot(m) \in Slots
      /\ outHead[L] \in Nat /\ outTail[L] \in Nat /\ outHead[L] <= m
      /\ m <= outTail[L] /\ outTail[L] <= outHead[L] + N
  <2>1. Src # L /\ Src' # L
    BY <1>2, ConnType DEF Src
  <2> QED BY <1>1, <1>2, <1>3, <2>1, OutNumbers, SlotType DEF Taken
<1>5. m < outTail[L]
  <2>1. SUFFICES ASSUME m = outTail[L] PROVE FALSE
    BY <1>4
  <2>2. CASE m = outHead[L] + N
    <3>1. Slot(m) = Slot(outHead[L])
      BY <1>4, <2>2, SlotWrap
    <3>2. outHead[L] \in outHead[L]..(outHead[L] + N - 1) /\ outHead[L] < Taken(L)
      BY <1>1, <1>4, <2>2
    <3>3. Out(L, outHead[L]).st \in {"SENT_DONE", "TXING"}
      BY <1>1, <3>2 DEF SegmentOf, OutStatesOf
    <3> QED BY <1>2, <3>1, <3>3 DEF Out
  <2>3. CASE m # outHead[L] + N
    <3>1. m \in outHead[L]..(outHead[L] + N - 1) /\ outTail[L] <= m
      BY <1>1, <1>4, <2>1, <2>3
    <3>2. Out(L, m).st = "EMPTY"
      BY <1>1, <3>1 DEF SegmentOf, OutStatesOf
    <3> QED BY <1>2, <3>2 DEF Out
  <2> QED BY <2>2, <2>3
<1>6. sent \in OutNodes /\ st \in PktStates
  BY <1>1, <1>3, <1>4 DEF PktStates
<1> HIDE DEF st
<1>7. /\ \A i \in Rings : i # L => outNode'[i] = outNode[i] /\ mcaHead'[i] = mcaHead[i]
      /\ \A s \in Slots :
           /\ outNode'[L][s].buf = outNode[L][s].buf /\ outNode'[L][s].cnt = outNode[L][s].cnt
           /\ outNode'[L][s].st = IF s = Slot(m) THEN st ELSE outNode[L][s].st
      /\ mcaHead'[L] = m + 1
  BY <1>1, <1>2, <1>3, <1>4, SMTT(30) DEF OutNodes
<1>8. OutType'
  <2>1. [sent EXCEPT !.st = st] \in OutNodes
    <3> HIDE DEF sent
    <3> QED BY <1>6 DEF OutNodes
  <2> QED BY <1>1, <1>2, <1>3, <1>4, <2>1, SMTT(30) DEF IInv, TypeOK, OutType
<1>9. ASSUME NEW k \in outHead[L]..(outHead[L] + N - 1)
      PROVE  Out(L, k)'.st = IF k = m THEN st ELSE Out(L, k).st
  <2>1. Slot(k) \in Slots /\ (k # m => Slot(k) # Slot(m))
    BY <1>1, <1>4, <1>5, SlotType, SlotInj
  <2> QED BY <1>7, <2>1 DEF Out
<1>10. OutOrder(L)'
  BY <1>2, <1>4, <1>5 DEF OutOrder
<1>11. OutStatesOf(L)'
  <2> SUFFICES ASSUME NEW k \in outHead[L]..(outHead[L] + N - 1)
               PROVE  /\ k < m + 1 => Out(L, k)'.st \in {"SENT_DONE", "TXING"}
                      /\ m + 1 <= k /\ k < outTail[L] => Out(L, k)'.st = "SENT_READY"
                      /\ outTail[L] <= k => Out(L, k)'.st = "EMPTY"
    BY <1>2, <1>4 DEF OutStatesOf
  <2>1. /\ k < m => Out(L, k).st \in {"SENT_DONE", "TXING"}
        /\ m <= k /\ k < outTail[L] => Out(L, k).st = "SENT_READY"
        /\ outTail[L] <= k => Out(L, k).st = "EMPTY"
    BY <1>1, <1>4 DEF SegmentOf, OutStatesOf
  <2>2. st \in {"SENT_DONE", "TXING"} /\ k \in Int
    BY <1>4, <1>1 DEF st
  <2> QED BY <1>4, <1>5, <1>9, <2>1, <2>2
<1>12. OutCountsOf(L)'
  <2>1. sent.cnt \in Nat
    BY <1>6 DEF OutNodes
  <2> QED BY <1>1, <1>7, <2>1 DEF SegmentOf, OutCountsOf, st
<1>13. mem[L][sent.buf] = pkt /\ pkt \in Packet
  <2>1. m \in outHead[L]..(outTail[L] - 1)
    BY <1>4, <1>5
  <2>2. sent.buf = Slot(m)
    BY <1>1, <2>1 DEF SegmentOf, BuffersOf, Out
  <2>3. mem[L][Slot(m)] = pkt
    BY <1>1, <1>2, <2>1 DEF SegmentOf, ContentsOf, Out
  <2> QED BY <1>1, <1>4, <2>2, <2>3 DEF Packet
<1>14. WireInOrder' /\ TxType'
  <2>1. wire' = Append(wire, pkt)
    BY <1>2, <1>13
  <2>2. Len(wire) = m /\ \A k \in 1..m : wire[k] = [id |-> k - 1, hop |-> L]
    BY DEF IInv, WireInOrder
  <2> HIDE DEF pkt
  <2>3. /\ wire' \in Seq(Packet) /\ Len(wire') = m + 1 /\ wire'[m + 1] = pkt
        /\ \A k \in 1..m : wire'[k] = wire[k]
    BY <1>3, <1>4, <1>13, <2>1, <2>2
  <2>4. ASSUME NEW k \in 1..(m + 1) PROVE wire'[k] = [id |-> k - 1, hop |-> L]
    <3>1. CASE k = m + 1
      <4>1. k - 1 = m
        BY <1>4, <3>1
      <4> QED BY <2>3, <3>1, <4>1 DEF pkt
    <3>2. CASE k # m + 1
      <4>1. k \in 1..m
        BY <1>4, <3>2
      <4> QED BY <2>2, <2>3, <4>1
    <3> QED BY <3>1, <3>2
  <2> QED BY <1>2, <1>3, <1>7, <2>3, <2>4 DEF WireInOrder, TxType
<1>15. \A s \in Slots : outNode'[L][s].st \in {"SENT_READY", "TXING"} =>
                          outNode[L][s].st \in {"SENT_READY", "TXING"}
  BY <1>2, <1>7
<1> QED BY <1>2, <1>7, <1>8, <1>10, <1>11, <1>12, <1>14, <1>15, TxSuffices

\* The end of ninf_tx_process touches pkt_cnt and its own count only.
LEMMA NinfTxFaa ==
  ASSUME IInv, ninf_tx_faa
  PROVE  IInv'
<1>1. L \in Rings /\ L \in NFs
  BY ChainAssumption DEF Rings, NFs
<1>2. OutType' /\ TxType' /\ WireInOrder'
  <2>1. outCnt \in [Rings -> Int] /\ txRet \in Int
    BY DEF IInv, TypeOK, OutType, TxType
  <2>2. outCnt' \in [Rings -> Int] /\ txRet' \in Nat
    BY <1>1, <2>1 DEF ninf_tx_faa
  <2> QED BY <2>2 DEF ninf_tx_faa, IInv, TypeOK, OutType, TxType, WireInOrder
<1>3. Taken(L)' = Taken(L)
  BY DEF ninf_tx_faa, Taken, Src
<1>4. OutOrder(L)' /\ OutStatesOf(L)' /\ OutCountsOf(L)'
  BY <1>1, <1>3, SegmentInv
     DEF ninf_tx_faa, SegmentOf, OutOrder, OutStatesOf, OutCountsOf, Out
<1> QED BY <1>2, <1>4, TxSuffices DEF ninf_tx_faa

\* cos_tx_cb drops one reference of a node that is being sent, and hands it back
\* to the network function with the last.
LEMMA CosTxCb ==
  ASSUME IInv, NEW s \in Slots, cos_tx_cb(s)
  PROVE  IInv'
<1> DEFINE old == outNode[L][s]
           new == [st |-> IF old.cnt = 1 THEN "SENT_DONE" ELSE "TXING",
                   cnt |-> old.cnt - 1, buf |-> old.buf]
<1>1. L \in Rings /\ L \in NFs /\ SegmentOf(L) /\ N \in Nat \ {0} /\ K \in Nat
  BY SegmentInv, ChainAssumption DEF Rings, NFs
<1>2. /\ old.st = "TXING"
      /\ outNode' = [outNode EXCEPT ![L][s] = new]
      /\ UNCHANGED <<inVars, outHead, outTail, mcaHead, outCnt, mem, nfVars, mca, rxVars, txVars>>
  BY DEF cos_tx_cb, Node
<1>3. outNode \in [Rings -> [Slots -> OutNodes]] /\ old \in OutNodes
  BY <1>1 DEF IInv, TypeOK, OutType
<1>4. old.cnt \in 0..K /\ old.cnt > 0
  BY <1>1, <1>2, <1>3 DEF SegmentOf, OutCountsOf, OutNodes
<1>6. new \in OutNodes
  BY <1>1, <1>3, <1>4 DEF OutNodes, PktStates
<1>7. /\ \A i \in Rings : i # L => outNode'[i] = outNode[i]
      /\ \A r \in Slots : outNode'[L][r] = IF r = s THEN new ELSE outNode[L][r]
      /\ outNode' \in [Rings -> [Slots -> OutNodes]]
  <2> HIDE DEF new
  <2> QED BY <1>1, <1>2, <1>3, <1>6
<1>8. Taken(L)' = Taken(L)
  BY <1>2 DEF Taken, Src
<1>9. OutType' /\ TxType' /\ WireInOrder'
  BY <1>2, <1>7 DEF IInv, TypeOK, OutType, TxType, WireInOrder, txVars
<1>10. OutOrder(L)'
  BY <1>1, <1>2, <1>8 DEF SegmentOf, OutOrder
<1>11. OutStatesOf(L)'
  <2>1. ASSUME NEW k \in outHead[L]..(outHead[L] + N - 1)
        PROVE  \/ Out(L, k)'.st = Out(L, k).st
               \/ Out(L, k).st = "TXING" /\ Out(L, k)'.st \in {"SENT_DONE", "TXING"}
    <3>1. Slot(k) \in Slots
      BY <1>1, OutNumbers, SlotType
    <3>2. new.st \in {"SENT_DONE", "TXING"}
      OBVIOUS
    <3> HIDE DEF new
    <3>3. outNode'[L][Slot(k)] = IF Slot(k) = s THEN new ELSE outNode[L][Slot(k)]
      BY <1>7, <3>1
    <3>4. CASE Slot(k) = s
      BY <1>2, <3>2, <3>3, <3>4 DEF Out
    <3>5. CASE Slot(k) # s
      BY <3>3, <3>5 DEF Out
    <3> QED BY <3>4, <3>5
  <2> QED BY <1>1, <1>2, <1>8, <2>1 DEF SegmentOf, OutStatesOf
<1>12. OutCountsOf(L)'
  <2>1. new.st = "TXING" => new.cnt > 0
    BY <1>4
  <2> HIDE DEF new
  <2> QED BY <1>1, <1>2, <1>7, <2>1, ChainAssumption DEF SegmentOf, OutCountsOf
<1>13. \A r \in Slots :
         /\ outNode'[L][r].buf = outNode[L][r].buf
         /\ outNode'[L][r].st \in {"SENT_READY", "TXING"} =>
              outNode[L][r].st \in {"SENT_READY", "TXING"}
  BY <1>2, <1>7
<1> QED BY <1>2, <1>7, <1>9, <1>10, <1>11, <1>12, <1>13, TxSuffices DEF txVars

-----------------------------------------------------------------------------
(* The invariant.                                                          *)

\* eos_rings_init establishes the invariant.
LEMMA InitInv ==
  ASSUME Init
  PROVE  IInv
<1>1. /\ L \in Nat \ {0} /\ N \in Nat \ {0} /\ K \in Nat \ {0} /\ Burst \in Nat \ {0}
      /\ 1 \in NFs /\ L \in Rings /\ L \in NFs
  BY ChainAssumption DEF NFs, Rings
<1>2. Cardinality(Mbufs) \in Nat
  BY PoolAssumption, FS_CardinalityType
<1>3. /\ \A s \in Slots : [st |-> "FREE", cnt |-> 0, buf |-> s] \in InNodes
      /\ [st |-> "EMPTY", cnt |-> 0, buf |-> NoBuf] \in OutNodes
      /\ [cnt |-> 0, idx |-> 0, buf |-> NoBuf] \in [cnt : 0..(K + 1), idx : 0..K, buf : Buf]
      /\ [cnt |-> 0, idx |-> 0] \in [cnt : 0..K, idx : 0..K]
      /\ Garbage \in Packet
  BY <1>1 DEF InNodes, OutNodes, PktStates, Buf, Garbage, Packet, Rings
<1>4. InType
  BY <1>3 DEF Init, InType, Node
<1>5. OutType
  BY <1>3 DEF Init, OutType, Node
<1>6. NfType
  BY <1>3 DEF Init, NfType, NfPcs
<1>7. /\ mca.pc = "look" /\ mca.conn = 1 /\ McaType
  BY <1>1 DEF Init, McaType, McaPcs, Look, Buf
<1>8. RxType /\ TxType
  BY <1>2, <1>3 DEF Init, RxType, RxPcs, TxType
<1>9. /\ \A i \in NFs : /\ inHead[i] = 0 /\ inTail[i] = 0 /\ freeHead[i] = 0
                        /\ nfPc[i] = "collect" /\ inCache[i] = [cnt |-> 0, idx |-> 0]
                        /\ i - 1 \in Rings /\ i \in Rings /\ ~Unread(i) /\ ~InHand(i)
      /\ \A i \in Rings : /\ outHead[i] = 0 /\ outTail[i] = 0 /\ mcaHead[i] = 0
                          /\ outCache[i] = [cnt |-> 0, idx |-> 0, buf |-> NoBuf]
                          /\ Taken(i) = 0
  BY <1>7, NFRings DEF Init, InHand, Unread, Taken
<1>10. ASSUME NEW k \in Int
       PROVE  /\ \A i \in NFs : In(i, k) = [st |-> "FREE", cnt |-> 0, buf |-> Slot(k)]
              /\ \A i \in Rings : Out(i, k) = [st |-> "EMPTY", cnt |-> 0, buf |-> NoBuf]
  <2>1. Slot(k) \in Slots
    BY SlotType
  <2> QED BY <2>1 DEF Init, In, Out, Node
<1>11. RingOrder
  <2>1. ASSUME NEW i \in NFs PROVE InOrder(i)
    <3>1. /\ inHead[i] = 0 /\ inTail[i] = 0 /\ freeHead[i] = 0 /\ ~InHand(i)
          /\ i \in Rings /\ i - 1 \in Rings
      BY <1>9
    <3>2. outHead[i] = 0 /\ outTail[i] = 0 /\ mcaHead[i - 1] = 0
      BY <1>9, <3>1
    <3> QED BY <1>1, <3>1, <3>2 DEF InOrder
  <2>2. ASSUME NEW i \in Rings PROVE OutOrder(i)
    <3>1. outHead[i] = 0 /\ outTail[i] = 0 /\ Taken(i) = 0
      BY <1>9
    <3> QED BY <1>1, <3>1 DEF OutOrder
  <2> QED BY <2>1, <2>2 DEF RingOrder
<1>12. NodeStates
  <2>1. ASSUME NEW i \in NFs PROVE InStatesOf(i)
    <3>1. inHead[i] = 0 /\ inTail[i] = 0 /\ freeHead[i] = 0
      BY <1>9
    <3> SUFFICES ASSUME NEW k \in 0..(0 + N - 1) PROVE In(i, k).st = "FREE" /\ ~(k < 0)
      BY <3>1 DEF InStatesOf
    <3> QED BY <1>1, <1>10
  <2>2. ASSUME NEW i \in Rings PROVE OutStatesOf(i)
    <3>1. outHead[i] = 0 /\ outTail[i] = 0 /\ Taken(i) = 0
      BY <1>9
    <3> SUFFICES ASSUME NEW k \in 0..(0 + N - 1) PROVE Out(i, k).st = "EMPTY" /\ ~(k < 0)
      BY <3>1 DEF OutStatesOf
    <3> QED BY <1>1, <1>10
  <2> QED BY <2>1, <2>2 DEF NodeStates
<1>13. Buffers /\ Contents
  BY <1>9 DEF Init, Node, Buffers, BuffersOf, Contents, ContentsOf
<1>14. Counts
  <2>1. ASSUME NEW i \in NFs PROVE InCountsOf(i)
    <3>1. inHead[i] = 0 /\ freeHead[i] = 0
      BY <1>9
    <3> SUFFICES ASSUME NEW k \in 0..(0 + N - 1) PROVE In(i, k).cnt = 0 /\ ~(k < 0)
      BY <3>1 DEF InCountsOf
    <3> QED BY <1>1, <1>10
  <2>2. \A i \in Rings : OutCountsOf(i)
    BY <1>1, <1>9 DEF Init, Node, OutCountsOf, Slots
  <2> QED BY <2>1, <2>2 DEF Counts
<1>15. Caches
  BY <1>9 DEF Caches, CacheOf
<1>16. Snapshots
  BY <1>7 DEF Snapshots, Recount
<1>20. BroughtLen
  BY DEF Init, BroughtLen
<1>17. 0 \in Rings /\ outTail[0] = 0 /\ outHead[0] = 0 /\ Taken(0) = 0
       /\ outCache[0].cnt = 0 /\ outCache[0].idx = 0
  BY <1>1, <1>9 DEF Rings
<1>18. RxBacklog /\ RxContents /\ MbufOwner
  BY <1>17 DEF Init, RxBacklog, RxContents, MbufOwner, Pending
<1>19. WireInOrder
  BY <1>1, <1>9 DEF Init, WireInOrder
<1> QED BY <1>4, <1>5, <1>6, <1>7, <1>8, <1>11, <1>12, <1>13, <1>14, <1>15, <1>16, <1>18,
           <1>19, <1>20 DEF IInv, TypeOK

\* A step that changes nothing preserves it.
LEMMA StutterInv ==
  ASSUME IInv, UNCHANGED vars
  PROVE  IInv'
<1>1. UNCHANGED <<inVars, outVars, mem, nfVars, mca, rxVars, txVars>>
  BY DEF vars
<1>2. TypeOK'
  BY <1>1 DEF IInv, TypeOK, InType, OutType, NfType, McaType, RxType, TxType,
              inVars, outVars, nfVars, rxVars, txVars
<1>3. L \in Rings /\ L \in NFs /\ Taken(L)' = Taken(L)
  BY <1>1, ChainAssumption DEF Rings, NFs, Taken, Src, outVars
<1>4. OutOrder(L)' /\ OutStatesOf(L)' /\ OutCountsOf(L)'
  BY <1>1, <1>3, SegmentInv
     DEF SegmentOf, OutOrder, OutStatesOf, OutCountsOf, Out, outVars
<1>5. WireInOrder'
  BY <1>1 DEF IInv, WireInOrder, txVars, outVars
<1> QED BY <1>1, <1>2, <1>4, <1>5, TxSuffices DEF TypeOK, outVars, txVars

\* The invariant is inductive: no step of any thread, at any point of any other,
\* leaves it.
THEOREM Inductive == IInv /\ [Next]_vars => IInv'
<1> SUFFICES ASSUME IInv, [Next]_vars PROVE IInv'
  OBVIOUS
<1>1. CASE \E i \in NFs : nf_run(i)
  BY <1>1, NfRun
<1>2. CASE mca_run
  BY <1>2, McaRun
<1>3. CASE ninf_rx
  BY <1>3, NinfRx
<1>4. CASE ninf_tx_take
  BY <1>4, NinfTxTake
<1>5. CASE ninf_tx_faa
  BY <1>5, NinfTxFaa
<1>6. CASE \E s \in Slots : cos_tx_cb(s)
  BY <1>6, CosTxCb
<1>7. CASE \E m \in mbufNic : nic_pass_done(m)
  BY <1>7, NicPassDone
<1>8. CASE UNCHANGED vars
  BY <1>8, StutterInv
<1> QED BY <1>1, <1>2, <1>3, <1>4, <1>5, <1>6, <1>7, <1>8 DEF Next

\* The invariant holds in every behaviour of the chain.
THEOREM Invariance == Spec => []IInv
<1>1. Init => IInv
  BY InitInv
<1> QED BY <1>1, Inductive, PTL DEF Spec

-----------------------------------------------------------------------------
(* What follows from it.                                                   *)

\* Every variable keeps its type, in particular the count of a node.
THEOREM TypeCorrect == Spec => []TypeOK
  BY Invariance, PTL DEF IInv

\* The five cursors of a segment keep their order, whatever the interleaving.
THEOREM RingSafety == Spec => []RingDiscipline
  BY Invariance, PTL DEF IInv, RingDiscipline

\* Buffers do not migrate, node k of every ring carries packet k, and the transmit thread
\* takes the packets in order.
THEOREM BufferSafety == Spec => []PacketsInPlace
  BY Invariance, PTL DEF IInv, PacketsInPlace

\* The assertions on counts, caches and snapshots hold, wherever in the chain its servers
\* are; the MCA stops, at the assertion against empty nodes, only behind one of them.
THEOREM Assertions == Spec => []AssertsHold
  BY Invariance, PTL DEF IInv, AssertsHold

\* The transmit thread takes every accepted packet, once, in order, processed by
\* the last function.
THEOREM InOrderDelivery == Spec => []WireInOrder
  BY Invariance, PTL DEF IInv

\* The receive thread loses no packet and frees no mbuf that is still in use.
THEOREM ReceiveSafety == Spec => []RxOwnership
  BY Invariance, PTL DEF IInv, RxOwnership

\* The flush of a network function never finds its output ring full.
THEOREM FlushNeverFails == Spec => []FlushSucceeds
<1>1. IInv => FlushSucceeds
  BY FlushRoom DEF FlushSucceeds
<1> QED BY <1>1, Invariance, PTL

-----------------------------------------------------------------------------
(* The chain is a FIFO.                                                    *)

\* A set of natural numbers that is not empty has a least member.
LEMMA Least ==
  ASSUME NEW S, S \subseteq Nat, S # {}
  PROVE  \E x \in S : \A y \in S : x <= y
<1>1. \E x \in S : \A y \in S : ~ (<<y, x>> \in OpToRel(<, Nat))
  BY NatLessThanWellFounded, WFMin
<1>2. PICK x \in S : \A y \in S : ~ (<<y, x>> \in OpToRel(<, Nat))
  BY <1>1
<1>3. ASSUME NEW y \in S PROVE x <= y
  <2>1. ~(y < x)
    BY <1>2 DEF OpToRel
  <2> QED BY <2>1
<1> QED BY <1>3

\* No function is ahead of the receive thread: along the chain the tails only fall.
LEMMA TailsFall ==
  ASSUME IInv
  PROVE  \A i \in Rings : outTail[i] <= outTail[0]
<1> DEFINE S == {i \in Rings : ~(outTail[i] <= outTail[0])}
<1>1. \A i \in Rings : i \in Nat /\ outTail[i] \in Nat
  BY ChainAssumption DEF Rings, IInv, TypeOK, OutType
<1> SUFFICES ASSUME S # {} PROVE FALSE
  OBVIOUS
<1>2. PICK i \in S : \A j \in S : i <= j
  BY <1>1, Least
<1>3. 0 \in Rings /\ i # 0
  BY <1>1, ChainAssumption DEF Rings
<1>4. i \in NFs /\ i - 1 \in Rings /\ i - 1 \notin S
  BY <1>1, <1>2, <1>3, ChainAssumption DEF Rings, NFs
<1>5. outTail[i - 1] <= outTail[0]
  BY <1>4
<1>6. outTail[i] <= mcaHead[i - 1] /\ mcaHead[i - 1] \in Nat
  BY <1>4, InNumbers
<1>7. mcaHead[i - 1] <= outTail[i - 1]
  BY <1>4, OutNumbers
<1> QED BY <1>1, <1>3, <1>4, <1>5, <1>6, <1>7

\* The transmit thread delivers the next accepted packet.
LEMMA TakeDelivers ==
  ASSUME IInv, IInv', ninf_tx_take
  PROVE  Fifo!Deliver
<1>1. /\ wire \in Seq(Packet) /\ mem[L][Out(L, mcaHead[L]).buf] = wire'[Len(wire) + 1]
      /\ wire' = Append(wire, mem[L][Out(L, mcaHead[L]).buf])
      /\ Len(wire') = Len(wire) + 1 /\ Len(wire) \in Nat
  BY DEF ninf_tx_take, IInv, TypeOK, TxType
<1>2. wire'[Len(wire) + 1] = [id |-> Len(wire), hop |-> L]
  BY <1>1 DEF IInv, WireInOrder
<1>3. /\ L \in Rings /\ 0 \in Rings
  BY ChainAssumption DEF Rings
<1>4. Len(wire') <= outTail'[L] /\ outTail'[L] = outTail[L] /\ outTail[L] <= outTail[0]
  <2>1. Len(wire') = mcaHead'[L]
    BY DEF IInv, WireInOrder
  <2>2. /\ mcaHead'[L] \in Nat /\ outTail'[L] \in Nat /\ (Taken(L))' \in Nat
        /\ mcaHead'[L] <= (Taken(L))' /\ (Taken(L))' <= outTail'[L]
    BY <1>3, ChainAssumption DEF Taken, IInv, TypeOK, OutType, RingOrder, OutOrder
  <2>3. outTail'[L] = outTail[L]
    BY DEF ninf_tx_take
  <2> QED BY <1>3, <2>1, <2>2, <2>3, TailsFall
<1>5. outTail[0] <= accepted /\ accepted \in Nat /\ outTail[0] \in Nat /\ outTail[L] \in Nat
  BY <1>3 DEF IInv, RxBacklog, Pending, TypeOK, RxType, OutType
<1>6. Len(wire) < accepted
  BY <1>1, <1>4, <1>5
<1>7. UNCHANGED accepted
  BY DEF ninf_tx_take, rxVars
<1> QED BY <1>1, <1>2, <1>6, <1>7 DEF Fifo!Deliver

\* From ninf_rx to ninf_tx the chain is one FIFO: what any interleaving of its threads does
\* to the packets is what PktFifo does, a packet accepted or the next one delivered.
THEOREM ChainIsFifo == Spec => FifoSpec
<1>1. Init => Fifo!Init
  BY DEF Init, Fifo!Init
<1>2. IInv /\ IInv' /\ [Next]_vars => [Fifo!Next]_<<accepted, wire>>
  <2> SUFFICES ASSUME IInv, IInv', [Next]_vars
               PROVE  Fifo!Accept \/ Fifo!Deliver \/ UNCHANGED <<accepted, wire>>
    BY DEF Fifo!Next
  <2>1. CASE \E i \in NFs : nf_run(i)
    BY <2>1, NfFrame DEF rxVars, txVars
  <2>2. CASE mca_run
    BY <2>2 DEF mca_run, mca_look, mca_decline, mca_transfer, mca_publish, mca_faa_src,
                mca_faa_dst, mca_wakeup, rxVars, txVars
  <2>3. CASE ninf_rx
    BY <2>3 DEF ninf_rx, rx_loop, rx_collect_all_nf, rx_burst, rx_collect, rx_send, rx_faa,
                txVars, Fifo!Accept
  <2>4. CASE ninf_tx_take
    BY <2>4, TakeDelivers
  <2>5. CASE ninf_tx_faa
    BY <2>5 DEF ninf_tx_faa, rxVars
  <2>6. CASE \E s \in Slots : cos_tx_cb(s)
    BY <2>6 DEF cos_tx_cb, rxVars, txVars
  <2>7. CASE \E m \in mbufNic : nic_pass_done(m)
    BY <2>7 DEF nic_pass_done, txVars
  <2>8. CASE UNCHANGED vars
    BY <2>8 DEF vars, rxVars, txVars
  <2> QED BY <2>1, <2>2, <2>3, <2>4, <2>5, <2>6, <2>7, <2>8 DEF Next
<1> QED BY <1>1, <1>2, Invariance, PTL DEF Spec, FifoSpec, Fifo!Spec

-----------------------------------------------------------------------------
(* The counters of the rings.                                              *)

\* The types of what pkt_cnt is computed from.
LEMMA CountTypes ==
  ASSUME IInv
  PROVE  /\ inCnt \in [NFs -> Int] /\ freeHead \in [NFs -> Nat] /\ inTail \in [NFs -> Nat]
         /\ outCnt \in [Rings -> Int] /\ outTail \in [Rings -> Nat]
         /\ mcaHead \in [Rings -> Nat] /\ nfPc \in [NFs -> NfPcs] /\ txRet \in Nat
         /\ mca.scnt \in Nat
  BY ChainAssumption, SMTT(30) DEF IInv, TypeOK, InType, OutType, NfType, TxType, McaType

\* The packets brought in any number of nodes so far are a number.
LEMMA BroughtType ==
  ASSUME IInv, NEW i \in NFs, NEW k \in 0..freeHead[i]
  PROVE  Brought(i, k) \in Nat
<1>1. brought[i] \in Seq(Nat) /\ Len(brought[i]) = freeHead[i] /\ freeHead[i] \in Nat
  BY CountTypes DEF IInv, TypeOK, TxType, BroughtLen
<1>2. CASE k # 0
  <2>1. k \in 1..Len(brought[i])
    BY <1>1, <1>2
  <2> QED BY <1>1, <1>2, <2>1 DEF Brought
<1> QED BY <1>2 DEF Brought

\* It does not change while the MCA brings nothing, and no other thread changes what is in
\* the nodes, except to free them.
LEMMA BroughtFrame ==
  ASSUME NEW j \in NFs, BroughtOf(j), brought' = brought, freeHead' = freeHead,
         freeHead[j] \in Nat, inHead[j] \in Nat, inHead'[j] \in Nat, inHead[j] <= inHead'[j],
         \A k \in inHead'[j]..(freeHead[j] - 1) : In(j, k)'.cnt = In(j, k).cnt
  PROVE  BroughtOf(j)'
<1>1. \A k : Brought(j, k)' = Brought(j, k)
  BY DEF Brought
<1>2. OneEach(j)' <=> OneEach(j)
  BY DEF OneEach
<1>3. ASSUME NEW k \in inHead'[j]..(freeHead'[j] - 1)
      PROVE  Brought(j, k + 1)' = Brought(j, k)' + In(j, k)'.cnt
  <2>1. k \in inHead[j]..(freeHead[j] - 1) /\ k \in inHead'[j]..(freeHead[j] - 1)
    BY <1>3
  <2>2. Brought(j, k + 1) = Brought(j, k) + In(j, k).cnt /\ In(j, k)'.cnt = In(j, k).cnt
    BY <2>1 DEF BroughtOf
  <2> QED BY <1>1, <2>2
<1> QED BY <1>1, <1>2, <1>3 DEF BroughtOf

\* The count that recv_faa takes off is that of the node just received, which is cached.
LEMMA ReceivedCount ==
  ASSUME IInv, NEW i \in NFs, nfPc[i] = "faa_in"
  PROVE  In(i, inTail[i] - 1).cnt = inCache[i].cnt /\ inCache[i].cnt \in Nat
<1>1. CacheOf(i) /\ InHand(i)
  BY SegmentInv DEF SegmentOf, InHand
<1>2. inTail[i] - 1 = outTail[i]
  BY <1>1, InNumbers
<1>3. inCache[i].cnt \in 0..K
  BY DEF IInv, TypeOK, NfType
<1> QED BY <1>1, <1>2, <1>3, ChainAssumption DEF CacheOf, HandOf

\* A step of a function leaves the packets that it was brought.
LEMMA NfBrought ==
  ASSUME IInv, IInv', NEW i \in NFs, nf_run(i), NEW j \in NFs, BroughtOf(j)
  PROVE  BroughtOf(j)'
<1>1. /\ brought' = brought /\ freeHead' = freeHead /\ freeHead[j] \in Nat /\ inHead[j] \in Nat
      /\ freeHead[j] <= inHead[j] + N /\ inHead'[j] \in Nat /\ N \in Nat \ {0}
  <2>1. inHead' \in [NFs -> Nat]
    BY DEF IInv, TypeOK, InType
  <2> QED BY <2>1, NfFrame, InNumbers, ChainAssumption DEF txVars
<1>2. inNode \in [NFs -> [Slots -> InNodes]] /\ inHead \in [NFs -> Nat]
  BY DEF IInv, TypeOK, InType
<1>3. CASE eos_pkt_collect(i) /\ Transmitted(i) /\ i = j
  <2>1. /\ inNode' = [inNode EXCEPT ![i][Slot(inHead[i])] = Recycled(i)]
        /\ inHead'[i] = inHead[i] + 1
    BY <1>2, <1>3 DEF eos_pkt_collect
  <2>2. ASSUME NEW k \in (inHead[j] + 1)..(freeHead[j] - 1) PROVE In(j, k)' = In(j, k)
    <3>1. Slot(k) # Slot(inHead[j]) /\ Slot(k) \in Slots
      BY <1>1, SlotInj, SlotType
    <3> QED BY <1>2, <1>3, <2>1, <3>1 DEF In
  <2> QED BY <1>1, <1>3, <2>1, <2>2, BroughtFrame
<1>4. CASE eos_pkt_recv(i) /\ i = j /\ inNode' # inNode
  <2>1. inHead' = inHead /\ inNode' = [inNode EXCEPT ![i][Slot(NextToRecv(i))].st = "RECV_DONE"]
    BY <1>4 DEF eos_pkt_recv
  <2>2. NextToRecv(i) \in Nat
    BY RecvAtTail, InNumbers
  <2>3. ASSUME NEW k \in Nat PROVE In(j, k)'.cnt = In(j, k).cnt
    <3>1. Slot(k) \in Slots /\ Slot(NextToRecv(i)) \in Slots
      BY <2>2, SlotType
    <3> QED BY <1>2, <1>4, <2>1, <3>1 DEF In, InNodes
  <2> QED BY <1>1, <2>1, <2>3, BroughtFrame
<1>5. CASE inNode'[j] = inNode[j] /\ inHead'[j] = inHead[j]
  <2>1. \A k : In(j, k)' = In(j, k)
    BY <1>5 DEF In
  <2> QED BY <1>1, <1>5, <2>1, BroughtFrame
<1>6. i # j => inNode'[j] = inNode[j] /\ inHead'[j] = inHead[j]
  BY NfFrame
<1>7. CASE eos_pkt_collect(i)
  BY <1>3, <1>5, <1>6, <1>7 DEF eos_pkt_collect
<1>8. CASE eos_pkt_recv(i)
  BY <1>4, <1>5, <1>6, <1>8 DEF eos_pkt_recv
<1>9. CASE recv_faa(i) \/ nf_hyp_block(i) \/ nf_process(i) \/ eos_pkt_send_flush(i) \/ flush_faa(i)
  BY <1>5, <1>9 DEF recv_faa, nf_hyp_block, nf_process, eos_pkt_send_flush, flush_faa, inVars
<1> QED BY <1>7, <1>8, <1>9 DEF nf_run

\* What the MCA has taken off an output ring changes with its own steps, and on the last
\* ring with those of the transmit thread.
LEMMA TakenOffFrame ==
  ASSUME NEW j \in Rings, UNCHANGED <<brought, mca, txRet>>, mcaHead'[j] = mcaHead[j]
  PROVE  TakenOff(j)' = TakenOff(j)
  BY DEF TakenOff, Brought, Src

\* TakenOff is a number.
LEMMA TakenOffType ==
  ASSUME IInv, NEW j \in Rings
  PROVE  TakenOff(j) \in Int
<1>1. CASE j < L
  <2>1. j + 1 \in NFs /\ (j + 1) - 1 = j
    BY <1>1, ChainAssumption DEF Rings, NFs
  <2>2. mcaHead[j] \in 0..freeHead[j + 1]
    BY <2>1, InNumbers
  <2> QED BY <1>1, <2>1, <2>2, BroughtType, CountTypes DEF TakenOff
<1> QED BY <1>1, CountTypes DEF TakenOff

\* A step of a function keeps the account of both its rings.
LEMMA NfAccounts ==
  ASSUME IInv, IInv', PktCnt, NEW i \in NFs, nf_run(i)
  PROVE  PktCnt'
<1> USE CountTypes
<1>1. /\ UNCHANGED <<freeHead, mcaHead, mca, rxVars, txVars>>
      /\ UNCHANGED <<Src, Dst, rxPc, txRet, brought>>
      /\ i \in Rings /\ i # 0 /\ i \in Int
  BY NfFrame, NFRings DEF rxVars, txVars, Src, Dst
<1>0. i > 0
  BY ChainAssumption DEF NFs
<1>2. ASSUME NEW j \in NFs PROVE InCntOf(j)'
  <2>1. InCntOf(j) /\ BroughtOf(j)
    BY DEF PktCnt
  <2>2. \A k : Brought(j, k)' = Brought(j, k)
    BY <1>1 DEF Brought
  <2>3. CASE inCnt'[j] = inCnt[j] /\ inTail'[j] = inTail[j] /\ nfPc[j] # "faa_in" /\ nfPc'[j] # "faa_in"
    <3>1. Brought(j, freeHead[j])' = Brought(j, freeHead[j]) /\ Brought(j, inTail[j])' = Brought(j, inTail[j])
      BY <1>1, <2>3 DEF Brought
    <3> QED BY <1>1, <2>1, <2>3, <3>1 DEF InCntOf
  <2>4. CASE i # j
    <3>1. inCnt'[j] = inCnt[j]
      BY <2>4 DEF nf_run, eos_pkt_collect, eos_pkt_recv, recv_faa, nf_hyp_block, nf_process,
                  eos_pkt_send_flush, flush_faa, inVars
    <3>2. inTail'[j] = inTail[j] /\ nfPc'[j] = nfPc[j] /\ inCache'[j] = inCache[j]
      BY <2>4, NfFrame
    <3>3. Brought(j, freeHead[j])' = Brought(j, freeHead[j]) /\ Brought(j, inTail[j])' = Brought(j, inTail[j])
      BY <1>1, <3>2 DEF Brought
    <3> QED BY <1>1, <2>1, <3>1, <3>2, <3>3 DEF InCntOf
  <2>5. CASE i = j /\ eos_pkt_recv(i) /\ nfPc'[i] = "faa_in"
    <3> DEFINE t == inTail[i]
               c == In(i, t).cnt
    <3>1. /\ nfPc[i] = "recv" /\ inTail'[i] = t + 1 /\ inCache'[i].cnt = c /\ inCnt' = inCnt
          /\ t < freeHead[i]
      <4>1. NextToRecv(i) = t /\ inCache \in [NFs -> [cnt : 0..K, idx : 0..K]]
        BY RecvAtTail DEF IInv, TypeOK, NfType
      <4> QED BY <2>5, <4>1, RecvAtTail DEF eos_pkt_recv
    <3>2. t \in inHead[i]..(freeHead[i] - 1) /\ t \in 0..freeHead[i] /\ t + 1 \in 0..freeHead[i]
          /\ freeHead[i] \in 0..freeHead[i]
      BY <3>1, InNumbers
    <3>3. Brought(i, t + 1) = Brought(i, t) + c
      BY <2>1, <2>5, <3>2 DEF BroughtOf
    <3>4. /\ Brought(i, t) \in Nat /\ Brought(i, t + 1) \in Nat /\ Brought(i, freeHead[i]) \in Nat
      BY <3>2, BroughtType
    <3>5. c \in Nat
      BY <3>2, InNumbers, SlotType, ChainAssumption DEF IInv, TypeOK, InType, InNodes, In
    <3>6. Brought(i, freeHead[i])' = Brought(i, freeHead[i]) /\ Brought(i, inTail[i])' = Brought(i, t + 1)
      BY <1>1, <3>1 DEF Brought
    <3> HIDE DEF c, t
    <3>7. inCnt[i] = Brought(i, freeHead[i]) - Brought(i, t)
             - (IF mca.pc \in {"faa_src", "faa_dst"} /\ Dst = i THEN mca.scnt ELSE 0)
      BY <2>1, <2>5, <3>1, <3>4 DEF InCntOf, t
    <3> QED BY <1>1, <2>5, <3>1, <3>3, <3>4, <3>5, <3>6, <3>7 DEF InCntOf
  <2>6. CASE i = j /\ recv_faa(i)
    <3>1. nfPc[i] = "faa_in" /\ nfPc'[i] = "work" /\ inTail' = inTail
          /\ inCnt' = [inCnt EXCEPT ![i] = @ - In(i, inTail[i] - 1).cnt]
      BY <2>6 DEF recv_faa, NfGoto
    <3>2. inCnt'[i] = inCnt[i] - inCache[i].cnt /\ inCache[i].cnt \in Nat
      BY <3>1, ReceivedCount
    <3>3. Brought(j, freeHead[j])' = Brought(j, freeHead[j]) /\ Brought(j, inTail[j])' = Brought(j, inTail[j])
      BY <1>1, <3>1 DEF Brought
    <3>4. freeHead[i] \in 0..freeHead[i] /\ inTail[i] \in 0..freeHead[i]
      BY InNumbers
    <3>5. Brought(i, freeHead[i]) \in Nat /\ Brought(i, inTail[i]) \in Nat
      BY <3>4, BroughtType
    <3> QED BY <1>1, <2>1, <2>6, <3>1, <3>2, <3>3, <3>5 DEF InCntOf
  <2>7. CASE i = j /\ eos_pkt_recv(i) /\ nfPc'[i] # "faa_in"
    <3>1. inCnt' = inCnt /\ nfPc[i] = "recv"
      BY <2>7 DEF eos_pkt_recv
    <3>2. inTail'[i] = inTail[i]
      BY <2>7, RecvAtTail DEF eos_pkt_recv
    <3> QED BY <2>3, <2>7, <3>1, <3>2
  <2>8. CASE i = j /\ (eos_pkt_collect(i) \/ nf_hyp_block(i) \/ nf_process(i)
                       \/ eos_pkt_send_flush(i) \/ flush_faa(i))
    BY <2>3, <2>8 DEF eos_pkt_collect, nf_hyp_block, nf_process, eos_pkt_send_flush, flush_faa,
       NfGoto, inVars
  <2> QED BY <2>4, <2>5, <2>6, <2>7, <2>8 DEF nf_run
<1>3. ASSUME NEW j \in Rings PROVE OutCntOf(j)'
  <2>1. OutCntOf(j) /\ (j > 0 => j \in NFs) /\ TakenOff(j)' = TakenOff(j) /\ TakenOff(j) \in Int
    BY <1>1, TakenOffFrame, TakenOffType DEF Rings, NFs, PktCnt
  <2>2. CASE eos_pkt_send_flush(i)
    <3>1. /\ nfPc[i] = "flush" /\ outCnt' = outCnt
          /\ \/ outTail' = [outTail EXCEPT ![i] = @ + 1] /\ nfPc' = [nfPc EXCEPT ![i] = "faa_out"]
             \/ outTail' = outTail /\ nfPc' = [nfPc EXCEPT ![i] = "collect"]
      BY <2>2 DEF eos_pkt_send_flush, flush
    <3>2. CASE j = i
      BY <1>0, <1>1, <2>1, <3>1, <3>2 DEF OutCntOf
    <3>3. CASE j # i
      <4>1. outTail'[j] = outTail[j] /\ (j > 0 => nfPc'[j] = nfPc[j])
        BY <2>1, <3>1, <3>3
      <4> QED BY <1>1, <2>1, <3>1, <4>1 DEF OutCntOf
    <3> QED BY <3>2, <3>3
  <2>3. CASE flush_faa(i)
    <3>1. /\ nfPc[i] = "faa_out" /\ nfPc' = [nfPc EXCEPT ![i] = "collect"]
          /\ outCnt' = [outCnt EXCEPT ![i] = @ + 1] /\ outTail' = outTail
      BY <2>3 DEF flush_faa, NfGoto
    <3>2. CASE j = i
      BY <1>0, <1>1, <2>1, <3>1, <3>2 DEF OutCntOf
    <3>3. CASE j # i
      <4>1. outCnt'[j] = outCnt[j] /\ outTail'[j] = outTail[j] /\ (j > 0 => nfPc'[j] = nfPc[j])
        BY <2>1, <3>1, <3>3
      <4> QED BY <1>1, <2>1, <4>1 DEF OutCntOf
    <3> QED BY <3>2, <3>3
  <2>4. CASE eos_pkt_collect(i) \/ eos_pkt_recv(i) \/ recv_faa(i) \/ nf_hyp_block(i) \/ nf_process(i)
    <3>1. outCnt' = outCnt /\ outTail' = outTail
      BY <2>4 DEF eos_pkt_collect, eos_pkt_recv, recv_faa, nf_hyp_block, nf_process, outVars
    <3>2. nfPc[i] # "faa_out" /\ nfPc'[i] # "faa_out" /\ \A k \in NFs : k # i => nfPc'[k] = nfPc[k]
      BY <2>4 DEF eos_pkt_collect, eos_pkt_recv, recv_faa, nf_hyp_block, nf_process, NfGoto
    <3>3. j > 0 => (nfPc'[j] = "faa_out") = (nfPc[j] = "faa_out")
      BY <2>1, <3>2
    <3> QED BY <1>1, <2>1, <3>1, <3>3 DEF OutCntOf
  <2> QED BY <2>2, <2>3, <2>4 DEF nf_run
<1>4. ASSUME NEW j \in NFs PROVE BroughtOf(j)'
  BY NfBrought DEF PktCnt
<1> QED BY <1>2, <1>3, <1>4 DEF PktCnt

\* A step that touches neither the input ring nor the MCA keeps the ring's account.
LEMMA InCntFrame ==
  ASSUME NEW j \in NFs, InCntOf(j), UNCHANGED <<mca, inCnt, inTail, freeHead, brought, nfPc, inCache>>
  PROVE  InCntOf(j)'
  BY DEF InCntOf, Brought, Dst

\* What appending a number to a sequence of numbers gives.
LEMMA LastAppended ==
  ASSUME NEW b \in Seq(Nat), NEW n \in Nat
  PROVE  /\ Len(Append(b, n)) = Len(b) + 1 /\ Append(b, n)[Len(b) + 1] = n
         /\ \A k \in 1..Len(b) : Append(b, n)[k] = b[k]
  OBVIOUS

\* The MCA brings a node: one more entry of the history, the packets of the node.
LEMMA PublishBrought ==
  ASSUME IInv, mca_publish
  PROVE  /\ mca.pc = "publish" /\ mca'.pc = "faa_src" /\ mca'.scnt = mca.scnt
         /\ UNCHANGED <<inCnt, outCnt, Src, Dst, inHead>>
         /\ mcaHead'[Src] = freeHead[Dst] + 1 /\ freeHead'[Dst] = freeHead[Dst] + 1
         /\ \A j \in NFs : j # Dst => freeHead'[j] = freeHead[j] /\ brought'[j] = brought[j]
                                      /\ inNode'[j] = inNode[j]
         /\ \A j \in Rings : j # Src => mcaHead'[j] = mcaHead[j]
         /\ \A k \in 0..freeHead[Dst] : Brought(Dst, k)' = Brought(Dst, k)
         /\ \A k : k = freeHead[Dst] + 1 =>
                   Brought(Dst, k)' = Brought(Dst, freeHead[Dst]) + mca.scnt
         /\ Len(brought'[Dst]) = freeHead[Dst] + 1
<1> USE CountTypes, ConnType
<1> DEFINE f == freeHead[Dst]
           b == brought[Dst]
           n == Brought(Dst, f) + mca.scnt
<1>1. mca \in [pc : McaPcs, conn : NFs, r : 0..(Burst - 1), scnt : 0..K,
               sbuf : Buf, rbuf : Slots \cup {NoBuf}]
  BY DEF IInv, TypeOK, McaType
<1>2. /\ mca.pc = "publish" /\ mca' = [mca EXCEPT !.pc = "faa_src"]
      /\ freeHead' = [freeHead EXCEPT ![Dst] = @ + 1] /\ mcaHead' = [mcaHead EXCEPT ![Src] = @ + 1]
      /\ brought' = [brought EXCEPT ![Dst] = Append(b, n)]
      /\ UNCHANGED <<inCnt, outCnt, inHead>>
      /\ \E v : inNode' = [inNode EXCEPT ![Dst][Slot(f)] = v]
  BY DEF mca_publish
<1>3. mca'.pc = "faa_src" /\ mca'.scnt = mca.scnt /\ mca'.conn = mca.conn
  BY <1>1, <1>2
<1>4. UNCHANGED <<Src, Dst>>
  BY <1>3 DEF Src, Dst
<1>5. mcaHead[Src] = f /\ f \in Nat
  BY InNumbers
<1>6. b \in Seq(Nat) /\ Len(b) = f /\ brought \in [NFs -> Seq(Nat)] /\ n \in Nat
  <2>1. f \in 0..f
    BY <1>5
  <2>2. Brought(Dst, f) \in Nat
    BY <2>1, BroughtType
  <2>3. n \in Nat
    BY <2>2
  <2> QED BY <2>3 DEF IInv, TypeOK, TxType, BroughtLen
<1>7. brought'[Dst] = Append(b, n)
  BY <1>2, <1>6
<1> HIDE DEF b, n, f
<1>8. /\ Len(Append(b, n)) = f + 1 /\ Append(b, n)[f + 1] = n
      /\ \A k \in 1..f : Append(b, n)[k] = b[k]
  BY <1>6, LastAppended
<1>9. ASSUME NEW k \in 0..f PROVE Brought(Dst, k)' = Brought(Dst, k)
  <2>1. CASE k = 0
    BY <2>1 DEF Brought
  <2>2. CASE k # 0
    <3>1. k \in 1..f
      BY <1>5, <2>2
    <3> QED BY <1>4, <1>7, <1>8, <2>2, <3>1 DEF Brought, b
  <2> QED BY <2>1, <2>2
<1>10. ASSUME NEW k, k = f + 1 PROVE Brought(Dst, k)' = n
  <2>1. k # 0
    BY <1>5, <1>10
  <2> QED BY <1>4, <1>7, <1>8, <1>10, <2>1 DEF Brought
<1> QED BY <1>2, <1>3, <1>4, <1>5, <1>7, <1>8, <1>9, <1>10 DEF f, n, b

\* So does a step of the MCA, although it adds to two counters after it has moved both heads.
LEMMA McaAccounts ==
  ASSUME IInv, IInv', PktCnt, mca_run
  PROVE  PktCnt'
<1> USE CountTypes, ConnType
<1>1. /\ UNCHANGED <<inHead, inTail, outTail, nfPc, inCache, rxPc, txRet>>
  BY DEF mca_run, mca_look, mca_decline, mca_transfer, mca_publish, mca_faa_src, mca_faa_dst,
         mca_wakeup, inVars, outVars, nfVars, rxVars, txVars
<1>2. mca \in [pc : McaPcs, conn : NFs, r : 0..(Burst - 1), scnt : 0..K,
               sbuf : Buf, rbuf : Slots \cup {NoBuf}]
  BY DEF IInv, TypeOK, McaType
<1>7. ASSUME NEW j \in NFs
      PROVE  /\ BroughtOf(j) /\ InCntOf(j) /\ inHead[j] \in Nat /\ inTail[j] \in 0..freeHead[j]
             /\ freeHead[j] \in 0..freeHead[j]
             /\ Brought(j, freeHead[j]) \in Nat /\ Brought(j, inTail[j]) \in Nat
  <2>1. inTail[j] \in 0..freeHead[j] /\ freeHead[j] \in 0..freeHead[j] /\ inHead[j] \in Nat
    BY InNumbers
  <2> QED BY <2>1, BroughtType DEF PktCnt
<1>8. ASSUME NEW j \in Rings PROVE OutCntOf(j) /\ TakenOff(j) \in Int
  BY TakenOffType DEF PktCnt
<1>9. ASSUME UNCHANGED <<inNode, freeHead, brought>>, NEW j \in NFs PROVE BroughtOf(j)'
  <2>1. \A k : In(j, k)' = In(j, k)
    BY <1>9 DEF In
  <2> QED BY <1>1, <1>7, <1>9, <2>1, BroughtFrame
<1>3. CASE mca_look \/ mca_decline \/ mca_transfer \/ mca_wakeup
  <2>1. /\ mca.pc \notin {"faa_src", "faa_dst"} /\ mca'.pc \notin {"faa_src", "faa_dst"}
    <3>1. CASE mca_look
      <4>1. CASE mca' = NextConn
        BY <3>1, <4>1 DEF mca_look, NextConn, Look
      <4>2. CASE mca' = [mca EXCEPT !.pc = "abort"]
        BY <1>2, <3>1, <4>2 DEF mca_look
      <4>3. CASE \E a, b, c : mca' = [mca EXCEPT !.pc = "copy", !.scnt = a, !.sbuf = b, !.rbuf = c]
        <5>1. PICK a, b, c : mca' = [mca EXCEPT !.pc = "copy", !.scnt = a, !.sbuf = b, !.rbuf = c]
          BY <4>3
        <5> QED BY <1>2, <3>1, <5>1 DEF mca_look
      <4> QED BY <3>1, <4>1, <4>2, <4>3 DEF mca_look
    <3>2. CASE mca_decline \/ mca_wakeup
      BY <1>2, <3>2 DEF mca_decline, mca_wakeup, NextConn, Look
    <3>3. CASE mca_transfer
      BY <1>2, <3>3 DEF mca_transfer
    <3> QED BY <1>3, <3>1, <3>2, <3>3
  <2>2. UNCHANGED <<inNode, freeHead, inCnt, mcaHead, outCnt, brought>>
    BY <1>3 DEF mca_look, mca_decline, mca_transfer, mca_wakeup, inVars, outVars, txVars
  <2>3. ASSUME NEW j \in NFs PROVE InCntOf(j)'
    BY <1>1, <1>7, <2>1, <2>2 DEF InCntOf, Brought
  <2>4. ASSUME NEW j \in Rings PROVE OutCntOf(j)'
    <3>1. TakenOff(j)' = TakenOff(j)
      BY <1>1, <2>1, <2>2 DEF TakenOff, Brought
    <3> QED BY <1>1, <1>8, <2>2, <3>1 DEF OutCntOf
  <2> QED BY <1>9, <2>2, <2>3, <2>4 DEF PktCnt
<1>4. CASE mca_publish
  <2> DEFINE f == freeHead[Dst]
             h == inHead[Dst]
  <2>1. /\ mca.pc = "publish" /\ mca'.pc = "faa_src" /\ mca'.scnt = mca.scnt
        /\ UNCHANGED <<inCnt, outCnt, Src, Dst>>
        /\ mcaHead'[Src] = f + 1 /\ freeHead'[Dst] = f + 1 /\ mcaHead[Src] = f
        /\ f \in Nat /\ h \in Nat /\ Src < L
    BY <1>4, PublishBrought, InNumbers
  <2>2. /\ \A k \in 0..f : Brought(Dst, k)' = Brought(Dst, k)
        /\ \A k : k = f + 1 => Brought(Dst, k)' = Brought(Dst, f) + mca.scnt
        /\ Brought(Dst, f) \in Nat
    BY <1>4, <1>7, PublishBrought
  <2>3. ASSUME NEW j \in NFs PROVE BroughtOf(j)'
    <3>1. CASE j # Dst
      <4>1. freeHead'[j] = freeHead[j] /\ brought'[j] = brought[j] /\ inNode'[j] = inNode[j]
            /\ inHead'[j] = inHead[j]
        BY <1>1, <1>4, <3>1, PublishBrought
      <4>2. \A k : Brought(j, k)' = Brought(j, k)
        BY ONLY <4>1 DEF Brought
      <4>3. \A k : In(j, k)' = In(j, k)
        BY ONLY <4>1 DEF In
      <4>4. BroughtOf(j)
        BY <1>7
      <4> QED BY ONLY <4>1, <4>2, <4>3, <4>4 DEF BroughtOf, OneEach
    <3>2. CASE j = Dst
      <4>1. BroughtOf(Dst) /\ Len(brought'[Dst]) = f + 1
        BY <1>4, <1>7, PublishBrought
      <4>2. /\ inNode \in [NFs -> [Slots -> InNodes]] /\ N \in Nat \ {0} /\ Slot(f) \in Slots
            /\ f < h + N
        BY <2>1, SlotType, ChainAssumption DEF IInv, TypeOK, InType, Snapshots
      <4>3. inNode' = [inNode EXCEPT ![Dst][Slot(f)] = Node("RECV_READY", mca.scnt, mca.rbuf)]
        BY <1>4 DEF mca_publish
      <4>4. ASSUME NEW k \in h..f
            PROVE  Brought(Dst, k + 1)' = Brought(Dst, k)' + In(Dst, k)'.cnt
        <5>1. CASE k = f
          <6>1. In(Dst, k)'.cnt = mca.scnt
            <7>1. inNode'[Dst][Slot(f)].cnt = mca.scnt
              BY <4>2, <4>3 DEF Node
            <7>2. inNode'[Dst][Slot(k)].cnt = mca.scnt
              BY <5>1, <7>1
            <7> QED BY <2>1, <7>2 DEF In
          <6>2. Brought(Dst, k)' = Brought(Dst, f) /\ k + 1 = f + 1
            BY <2>1, <2>2, <5>1
          <6>3. Brought(Dst, k + 1)' = Brought(Dst, f) + mca.scnt
            BY <2>2, <6>2
          <6> QED BY <6>1, <6>2, <6>3
        <5>2. CASE k # f
          <6>1. k \in h..(f - 1) /\ k \in 0..f /\ k + 1 \in 0..f /\ k \in Int /\ k < f /\ f < k + N
            <7> HIDE DEF f, h
            <7> QED BY <2>1, <4>2, <5>2
          <6>2. Slot(k) # Slot(f) /\ Slot(k) \in Slots
            BY <2>1, <6>1, SlotInj, SlotType
          <6>3. inNode'[Dst][Slot(k)] = inNode[Dst][Slot(k)]
            BY <4>2, <4>3, <6>2
          <6>4. In(Dst, k)' = In(Dst, k)
            BY <2>1, <6>3 DEF In
          <6>5. Brought(Dst, k + 1) = Brought(Dst, k) + In(Dst, k).cnt
            BY <4>1, <6>1 DEF BroughtOf
          <6> QED BY <2>2, <6>1, <6>4, <6>5
        <5> QED BY <5>1, <5>2
      <4>5. ASSUME OneEach(Dst), NEW k \in 0..(f + 1) PROVE Brought(Dst, k)' = k
        <5>1. mca.scnt = 1
          BY <2>1, <4>5 DEF IInv, Snapshots, Recount
        <5>2. \A j2 \in 0..f : Brought(Dst, j2) = j2
          BY <4>1, <4>5 DEF BroughtOf
        <5>3. CASE k = f + 1
          BY <2>1, <2>2, <5>1, <5>2, <5>3
        <5>4. CASE k # f + 1
          <6>1. k \in 0..f
            BY <2>1, <5>4
          <6> QED BY <2>2, <5>2, <6>1
        <5> QED BY <5>3, <5>4
      <4>6. OneEach(Dst)' <=> OneEach(Dst)
        BY <2>1 DEF OneEach
      <4>7. /\ Len(brought'[Dst']) = freeHead'[Dst']
            /\ \A k \in inHead'[Dst']..(freeHead'[Dst'] - 1) :
                 Brought(Dst, k + 1)' = Brought(Dst, k)' + In(Dst, k)'.cnt
            /\ OneEach(Dst)' => \A k \in 0..freeHead'[Dst'] : Brought(Dst, k)' = k
        <5>1. freeHead'[Dst'] = f + 1 /\ inHead'[Dst'] = h /\ f + 1 - 1 = f
          BY <1>1, <2>1
        <5> HIDE DEF f, h
        <5> QED BY <2>1, <4>1, <4>4, <4>5, <4>6, <5>1
      <4>8. BroughtOf(Dst)'
        BY <4>7 DEF BroughtOf
      <4>9. Dst' = j
        BY <2>1, <3>2
      <4> QED BY <4>8, <4>9 DEF BroughtOf, Brought, In, OneEach
    <3> QED BY <3>1, <3>2
  <2>4. ASSUME NEW j \in NFs PROVE InCntOf(j)'
    <3>1. CASE j # Dst
      <4>1. freeHead'[j] = freeHead[j] /\ brought'[j] = brought[j] /\ inTail'[j] = inTail[j]
            /\ nfPc' = nfPc /\ inCache' = inCache /\ inCnt' = inCnt /\ Dst' = Dst
        BY <1>1, <1>4, <3>1, PublishBrought
      <4> QED BY <1>7, <3>1, <4>1 DEF InCntOf, Brought
    <3>2. CASE j = Dst
      <4>1. Brought(j, freeHead[j])' = Brought(Dst, f) + mca.scnt
        <5>1. PICK k : k = f + 1
          OBVIOUS
        <5>2. Brought(j, freeHead[j])' = Brought(Dst, k)'
          BY <2>1, <3>2, <5>1 DEF Brought
        <5> QED BY <2>2, <5>1, <5>2
      <4>2. Brought(j, inTail[j])' = Brought(j, inTail[j])
        <5>1. inTail[Dst] \in 0..f
          BY <1>7
        <5>2. inTail' = inTail /\ Dst' = Dst
          BY <1>1, <2>1
        <5>3. PICK k \in 0..f : k = inTail[Dst]
          BY <5>1
        <5>4. Brought(Dst, k)' = Brought(Dst, k)
          BY <2>2
        <5> QED BY <3>2, <5>2, <5>3, <5>4 DEF Brought
      <4>3. /\ Brought(j, inTail[j]) \in Nat /\ InCntOf(j) /\ inCnt[j] \in Int
            /\ (nfPc[j] = "faa_in" => inCache[j].cnt \in Nat)
        BY <1>7, ReceivedCount
      <4>4. PICK a : a = Brought(Dst, f) /\ a \in Nat
        BY <2>2
      <4>5. PICK b : b = Brought(j, inTail[j]) /\ b \in Nat
        BY <4>3
      <4>6. inCnt[j] = a - b + (IF nfPc[j] = "faa_in" THEN inCache[j].cnt ELSE 0)
        BY <2>1, <3>2, <4>3, <4>4, <4>5 DEF InCntOf
      <4>7. inCnt'[j] = (a + mca.scnt) - b - mca.scnt + (IF nfPc[j] = "faa_in" THEN inCache[j].cnt ELSE 0)
        BY <2>1, <4>3, <4>4, <4>5, <4>6
      <4>8. /\ Brought(j, freeHead[j])' = a + mca.scnt /\ Brought(j, inTail[j])' = b
        BY <4>1, <4>2, <4>4, <4>5
      <4> QED BY <1>1, <2>1, <3>2, <4>7, <4>8 DEF InCntOf
    <3> QED BY <3>1, <3>2
  <2>5. ASSUME NEW j \in Rings PROVE OutCntOf(j)'
    <3>1. TakenOff(j)' = TakenOff(j)
      <4>1. CASE j = Src
        <5>1. Src + 1 = Dst
          BY NFRings
        <5>2. TakenOff(j) = Brought(Dst, f)
          BY <2>1, <2>2, <4>1, <5>1 DEF TakenOff
        <5>3. Brought(j + 1, mcaHead[j])' = Brought(Dst, f) + mca.scnt
          <6>1. PICK k : k = f + 1
            OBVIOUS
          <6>2. Brought(j + 1, mcaHead[j])' = Brought(Dst, k)'
            BY <2>1, <4>1, <5>1, <6>1 DEF Brought
          <6> QED BY <2>2, <6>1, <6>2
        <5>4. TakenOff(j)' = (Brought(Dst, f) + mca.scnt) - mca.scnt
          BY <2>1, <4>1, <5>3 DEF TakenOff
        <5> QED BY <2>2, <5>2, <5>4
      <4>2. CASE j # Src
        <5>1. mcaHead'[j] = mcaHead[j] /\ Src' = Src /\ txRet' = txRet
          BY <1>1, <1>4, <4>2, PublishBrought
        <5>2. j < L => j + 1 \in NFs /\ j + 1 # Dst
          BY <4>2, ChainAssumption DEF Rings, NFs
        <5>3. j < L => brought'[j + 1] = brought[j + 1]
          BY <1>4, <5>2, PublishBrought
        <5> QED BY <4>2, <5>1, <5>3 DEF TakenOff, Brought
      <4> QED BY <4>1, <4>2
    <3> QED BY <1>1, <1>8, <2>1, <3>1 DEF OutCntOf
  <2> QED BY <2>3, <2>4, <2>5 DEF PktCnt
<1>5. CASE mca_faa_src
  <2>1. /\ mca.pc = "faa_src" /\ mca'.pc = "faa_dst" /\ mca'.conn = mca.conn /\ mca'.scnt = mca.scnt
        /\ UNCHANGED <<inNode, freeHead, mcaHead, inCnt, Src, Dst, brought>>
    BY <1>2, <1>5 DEF mca_faa_src, Src, Dst, inVars, txVars
  <2>2. ASSUME NEW j \in NFs PROVE InCntOf(j)'
    BY <1>1, <1>7, <2>1 DEF InCntOf, Brought
  <2>3. ASSUME NEW j \in Rings PROVE OutCntOf(j)'
    <3>1. OutCntOf(j) /\ Out(Src, mcaHead[Src] - 1).cnt = mca.scnt /\ TakenOff(j) \in Int
      BY <1>8, <2>1, RereadCount
    <3>2. outCnt'[j] = outCnt[j] - (IF Src = j THEN mca.scnt ELSE 0)
      BY <1>5, <3>1 DEF mca_faa_src
    <3>3. TakenOff(j)' = TakenOff(j) + (IF Src = j THEN mca.scnt ELSE 0)
      <4>1. CASE j < L
        <5>1. j + 1 \in NFs /\ (j + 1) - 1 = j
          BY <4>1, ChainAssumption DEF Rings, NFs
        <5>2. mcaHead[j] \in 0..freeHead[j + 1]
          BY <5>1, InNumbers
        <5>3. Brought(j + 1, mcaHead[j]) \in Nat /\ Brought(j + 1, mcaHead[j])' = Brought(j + 1, mcaHead[j])
          BY <2>1, <5>1, <5>2, BroughtType DEF Brought
        <5> QED BY <2>1, <4>1, <5>3 DEF TakenOff
      <4>2. CASE ~(j < L)
        BY <1>1, <2>1, <4>2 DEF TakenOff
      <4> QED BY <4>1, <4>2
    <3> QED BY <1>1, <3>1, <3>2, <3>3 DEF OutCntOf
  <2> QED BY <1>9, <2>1, <2>2, <2>3 DEF PktCnt
<1>6. CASE mca_faa_dst
  <2>1. /\ mca.pc = "faa_dst" /\ mca'.pc = "wakeup" /\ mca'.conn = mca.conn /\ mca'.scnt = mca.scnt
        /\ UNCHANGED <<inNode, freeHead, mcaHead, outCnt, Src, Dst, brought>>
    BY <1>2, <1>6 DEF mca_faa_dst, Src, Dst, outVars, txVars
  <2>2. ASSUME NEW j \in NFs PROVE InCntOf(j)'
    <3>1. InCntOf(j) /\ Out(Src, mcaHead[Src] - 1).cnt = mca.scnt
      BY <1>7, <2>1, RereadCount
    <3>2. inCnt'[j] = inCnt[j] + (IF Dst = j THEN mca.scnt ELSE 0)
      BY <1>6, <3>1 DEF mca_faa_dst
    <3>3. /\ Brought(j, freeHead[j])' = Brought(j, freeHead[j])
          /\ Brought(j, inTail[j])' = Brought(j, inTail[j])
          /\ (nfPc[j] = "faa_in" => inCache[j].cnt \in Nat)
      BY <1>1, <2>1, ReceivedCount DEF Brought
    <3> QED BY <1>1, <1>7, <2>1, <3>1, <3>2, <3>3 DEF InCntOf
  <2>3. ASSUME NEW j \in Rings PROVE OutCntOf(j)'
    <3>1. TakenOff(j)' = TakenOff(j)
      BY <1>1, <2>1 DEF TakenOff, Brought
    <3> QED BY <1>1, <1>8, <2>1, <3>1 DEF OutCntOf
  <2> QED BY <1>9, <2>1, <2>2, <2>3 DEF PktCnt
<1> QED BY <1>3, <1>4, <1>5, <1>6 DEF mca_run

\* And a step of the receive thread.
LEMMA RxAccounts ==
  ASSUME IInv, IInv', PktCnt, ninf_rx
  PROVE  PktCnt'
<1> USE CountTypes
<1>1. UNCHANGED <<inNode, inHead, inTail, freeHead, inCnt, mcaHead, nfPc, inCache, mca, txRet,
                  Src, Dst, brought>>
  BY DEF ninf_rx, rx_loop, rx_collect_all_nf, rx_burst, rx_collect, rx_send, rx_faa,
         inVars, outVars, nfVars, txVars, Src, Dst
<1>2. 0 \in Rings
  BY ChainAssumption DEF Rings
<1>3. ASSUME NEW j \in NFs PROVE BroughtOf(j)' /\ InCntOf(j)'
  BY <1>1, InCntFrame DEF PktCnt, BroughtOf, Brought, In, OneEach
<1>4. ASSUME NEW j \in Rings PROVE OutCntOf(j)'
  <2>1. OutCntOf(j) /\ TakenOff(j)' = TakenOff(j) /\ TakenOff(j) \in Int
    BY <1>1, TakenOffFrame, TakenOffType DEF PktCnt
  <2>2. CASE rx_loop \/ rx_collect_all_nf \/ rx_burst \/ rx_collect
    <3>1. rxPc # "faa" /\ rxPc' # "faa" /\ UNCHANGED <<outTail, outCnt>>
      BY <2>2 DEF rx_loop, rx_collect_all_nf, rx_burst, rx_collect, outVars
    <3> QED BY <1>1, <2>1, <3>1 DEF OutCntOf
  <2>3. CASE rx_send
    <3>1. /\ rxPc = "send" /\ outCnt' = outCnt
          /\ \/ outTail' = [outTail EXCEPT ![0] = @ + 1] /\ rxPc' = "faa"
             \/ outTail' = outTail /\ rxPc' # "faa"
      BY <2>3 DEF rx_send, flush
    <3> QED BY <1>1, <1>2, <2>1, <3>1 DEF OutCntOf
  <2>4. CASE rx_faa
    BY <1>1, <1>2, <2>1, <2>4 DEF rx_faa, OutCntOf
  <2> QED BY <2>2, <2>3, <2>4 DEF ninf_rx
<1> QED BY <1>3, <1>4 DEF PktCnt

\* And a step of the transmit thread or of the NIC.
LEMMA TxAccounts ==
  ASSUME IInv, PktCnt,
         \/ ninf_tx_take \/ ninf_tx_faa \/ \E s \in Slots : cos_tx_cb(s)
         \/ \E m \in mbufNic : nic_pass_done(m)
  PROVE  PktCnt'
<1> USE CountTypes
<1>1. UNCHANGED <<inNode, inHead, inTail, freeHead, inCnt, outTail, nfPc, inCache, mca, rxPc,
                  Src, Dst, brought>>
  BY DEF ninf_tx_take, ninf_tx_faa, cos_tx_cb, nic_pass_done, inVars, outVars, nfVars, rxVars,
         txVars, Src, Dst
<1>2. L \in Rings /\ L \in Int /\ L > 0 /\ Src # L
  BY ConnType, ChainAssumption DEF Rings
<1>3. ASSUME NEW j \in NFs PROVE BroughtOf(j)' /\ InCntOf(j)'
  BY <1>1, InCntFrame, ZenonT(60) DEF PktCnt, BroughtOf, Brought, In, OneEach
<1>4. ASSUME NEW j \in Rings PROVE OutCntOf(j)'
  <2>1. OutCntOf(j) /\ TakenOff(j) \in Int
    BY TakenOffType DEF PktCnt
  <2>2. CASE ninf_tx_take
    <3>1. outCnt' = outCnt /\ txRet' = txRet + 1 /\ mcaHead' = [mcaHead EXCEPT ![L] = @ + 1]
      BY <2>2 DEF ninf_tx_take
    <3>2. TakenOff(j)' = TakenOff(j)
      <4>1. CASE j < L
        BY <1>1, <1>2, <3>1, <4>1 DEF TakenOff, Brought
      <4>2. CASE ~(j < L)
        <5>1. j = L
          BY <4>2, ChainAssumption DEF Rings
        <5> QED BY <1>2, <3>1, <4>2, <5>1 DEF TakenOff
      <4> QED BY <4>1, <4>2
    <3> QED BY <1>1, <2>1, <3>1, <3>2 DEF OutCntOf
  <2>3. CASE ninf_tx_faa
    <3>1. outCnt' = [outCnt EXCEPT ![L] = @ - txRet] /\ txRet' = 0 /\ mcaHead' = mcaHead
      BY <2>3 DEF ninf_tx_faa
    <3>2. CASE j < L
      <4>1. TakenOff(j)' = TakenOff(j) /\ outCnt'[j] = outCnt[j]
        BY <1>1, <1>2, <3>1, <3>2 DEF TakenOff, Brought
      <4> QED BY <1>1, <2>1, <4>1 DEF OutCntOf
    <3>3. CASE ~(j < L)
      <4>1. j = L
        BY <3>3, ChainAssumption DEF Rings
      <4>2. TakenOff(j)' = TakenOff(j) + txRet /\ outCnt'[j] = outCnt[j] - txRet
        BY <1>2, <3>1, <3>3, <4>1 DEF TakenOff
      <4> QED BY <1>1, <2>1, <4>2 DEF OutCntOf
    <3> QED BY <3>2, <3>3
  <2>4. CASE UNCHANGED <<outCnt, mcaHead, txRet>>
    <3>1. TakenOff(j)' = TakenOff(j)
      BY <1>1, <2>4, TakenOffFrame
    <3> QED BY <1>1, <2>1, <2>4, <3>1 DEF OutCntOf
  <2> QED BY <2>2, <2>3, <2>4 DEF cos_tx_cb, nic_pass_done, outVars, txVars
<1> QED BY <1>3, <1>4 DEF PktCnt

\* The pkt_cnt of every ring is what its users have added and taken off, up to the atomic adds
\* that some thread has still to make: on an input ring the packets that wait in it, on an
\* output ring its nodes, of which the MCA counts the packets.
THEOREM PktCntRight == Spec => []PktCnt
<1>1. Init => PktCnt
  <2>1. ASSUME Init PROVE PktCnt
    <3>1. mca.pc = "look" /\ L \in Nat \ {0}
      BY <2>1, ChainAssumption DEF Init, Look
    <3>2. ASSUME NEW i \in NFs PROVE BroughtOf(i) /\ InCntOf(i)
      BY <2>1, <3>1 DEF Init, BroughtOf, InCntOf, Brought
    <3>3. ASSUME NEW i \in Rings PROVE OutCntOf(i)
      BY <2>1, <3>1 DEF Init, OutCntOf, TakenOff, Brought, Rings, NFs
    <3> QED BY <3>2, <3>3 DEF PktCnt
  <2> QED BY <2>1
<1>2. IInv /\ IInv' /\ PktCnt /\ [Next]_vars => PktCnt'
  <2>1. ASSUME IInv, IInv', PktCnt, UNCHANGED vars PROVE PktCnt'
    <3>1. UNCHANGED <<inNode, inHead, inTail, freeHead, inCnt, outTail, nfPc, inCache, mca, rxPc,
                      Src, Dst, brought, outCnt, mcaHead, txRet>>
      BY <2>1 DEF vars, inVars, outVars, nfVars, rxVars, txVars, Src, Dst
    <3>2. ASSUME NEW j \in NFs PROVE BroughtOf(j)' /\ InCntOf(j)'
      BY <2>1, <3>1, InCntFrame DEF PktCnt, BroughtOf, Brought, In, OneEach
    <3>3. ASSUME NEW j \in Rings PROVE OutCntOf(j)'
      BY <2>1, <3>1, TakenOffFrame DEF PktCnt, OutCntOf
    <3> QED BY <3>2, <3>3 DEF PktCnt
  <2> QED BY <2>1, NfAccounts, McaAccounts, RxAccounts, TxAccounts DEF Next
<1> QED BY <1>1, <1>2, Invariance, PTL DEF Spec

-----------------------------------------------------------------------------
(* The pool of mbufs.                                                      *)

\* The types of what the pool is counted from.
LEMMA PoolTypes ==
  ASSUME IInv
  PROVE  /\ Cardinality(mbufFree) \in Nat /\ Cardinality(mbufNic) \in Nat /\ Cardinality(Mbufs) \in Nat
         /\ Cardinality(mbufLost) \in Nat
         /\ IsFiniteSet(mbufFree) /\ IsFiniteSet(mbufNic) /\ IsFiniteSet(mbufLost)
         /\ totFree \in Int /\ accepted \in Nat /\ passed \in Nat /\ outHead[0] \in Nat
         /\ Dropped \in 0..1
<1>1. mbufFree \in SUBSET Mbufs /\ mbufNic \in SUBSET Mbufs /\ mbufLost \in SUBSET Mbufs
      /\ totFree \in Int /\ accepted \in Nat /\ passed \in Nat
  BY DEF IInv, TypeOK, RxType
<1>2. IsFiniteSet(mbufFree) /\ IsFiniteSet(mbufNic) /\ IsFiniteSet(mbufLost) /\ IsFiniteSet(Mbufs)
  BY <1>1, FS_Subset, PoolAssumption
<1>3. Cardinality(mbufFree) \in Nat /\ Cardinality(mbufNic) \in Nat /\ Cardinality(Mbufs) \in Nat
      /\ Cardinality(mbufLost) \in Nat
  BY <1>2, FS_CardinalityType
<1>4. outHead[0] \in Nat
  BY RxInv, OutNumbers
<1> QED BY <1>1, <1>2, <1>3, <1>4 DEF Dropped

\* ninf_pkt_collect returns the mbuf of one accepted packet, and counts it once.
LEMMA CollectAccount ==
  ASSUME IInv, PoolAccount, ninf_pkt_collect, rxPc # "abort", rxPc' # "abort",
         UNCHANGED <<mbufNic, mbufLost, accepted, passed>>
  PROVE  PoolAccount'
<1> DEFINE h == outHead[0]
           n == Out(0, h)
<1>1. Dropped = 0 /\ Dropped' = 0
  BY DEF Dropped
<1>2. CASE ~RxCopied
  BY <1>1, <1>2 DEF ninf_pkt_collect, PoolAccount
<1>3. CASE RxCopied
  <2>1. /\ 0 \in Rings /\ 0 # L /\ 0 < L /\ RxPart /\ outHead \in [Rings -> Nat]
    BY RxInv DEF IInv, TypeOK, OutType
  <2>2. /\ h \in Nat /\ outTail[0] \in Nat /\ Taken(0) \in Nat /\ h <= Taken(0)
        /\ Taken(0) <= outTail[0] /\ outTail[0] <= h + N /\ Slot(h) \in Slots /\ N \in Nat \ {0}
    BY <2>1, OutNumbers, SlotType, ChainAssumption
  <2>3. n.st = "SENT_DONE"
    BY <1>3 DEF RxCopied
  <2>4. h < Taken(0)
    BY <2>1, <2>2, <2>3 DEF RxPart, OutStatesOf
  <2>5. n.buf \notin mbufFree
    BY <2>1, <2>2, <2>4 DEF RxPart, MbufOwner
  <2>6. n.cnt = 1
    <3>1. Slot(h) < outTail[0]
      BY <2>2, <2>4, SlotLow, ChainAssumption DEF Slots
    <3>2. OneEach(0 + 1)
      BY ChainAssumption DEF OneEach
    <3> QED BY <2>1, <2>2, <3>1, <3>2 DEF RxPart, OutCountsOf, Out
  <2>7. /\ mbufFree' = mbufFree \cup {n.buf} /\ totFree' = totFree + 1
        /\ outHead' = [outHead EXCEPT ![0] = h + 1]
    BY <1>3, <2>6 DEF ninf_pkt_collect
  <2>8. Cardinality(mbufFree') = Cardinality(mbufFree) + 1
    BY <2>5, <2>7, FS_AddElement, PoolTypes
  <2>9. outHead'[0] = h + 1
    BY <2>1, <2>7
  <2> QED BY <1>1, <2>7, <2>8, <2>9, PoolTypes DEF PoolAccount
<1> QED BY <1>2, <1>3

\* A burst takes an mbuf from the pool for a packet that it accepts or passes on.
LEMMA BurstAccount ==
  ASSUME IInv, PoolAccount, rx_burst
  PROVE  PoolAccount'
<1>1. Dropped = 0 /\ Dropped' = 0 /\ outHead' = outHead
  BY DEF rx_burst, Dropped, outVars
<1>2. CASE UNCHANGED <<mbufFree, mbufNic, mbufLost, totFree, accepted, passed>>
  BY <1>1, <1>2 DEF PoolAccount
<1>3. ASSUME NEW m \in mbufFree, mbufFree' = mbufFree \ {m}, totFree' = totFree - 1,
             \/ /\ mbufNic' = mbufNic \cup {m} /\ mbufLost' = mbufLost
                /\ passed' = passed + 1 /\ accepted' = accepted
             \/ /\ mbufLost' = mbufLost \cup {m} /\ mbufNic' = mbufNic
                /\ passed' = passed + 1 /\ accepted' = accepted
             \/ accepted' = accepted + 1 /\ UNCHANGED <<mbufNic, mbufLost, passed>>
      PROVE  PoolAccount'
  <2>1. m \notin mbufNic /\ m \notin mbufLost
    BY DEF IInv, MbufOwner
  <2>2. Cardinality(mbufFree') = Cardinality(mbufFree) - 1
    BY <1>3, FS_RemoveElement, PoolTypes
  <2>3. CASE mbufNic' = mbufNic \cup {m} /\ mbufLost' = mbufLost
             /\ passed' = passed + 1 /\ accepted' = accepted
    <3>1. Cardinality(mbufNic') = Cardinality(mbufNic) + 1
      BY <2>1, <2>3, FS_AddElement, PoolTypes
    <3> QED BY <1>1, <1>3, <2>2, <2>3, <3>1, PoolTypes DEF PoolAccount
  <2>4. CASE mbufLost' = mbufLost \cup {m} /\ mbufNic' = mbufNic
             /\ passed' = passed + 1 /\ accepted' = accepted
    <3>1. Cardinality(mbufLost') = Cardinality(mbufLost) + 1
      BY <2>1, <2>4, FS_AddElement, PoolTypes
    <3> QED BY <1>1, <1>3, <2>2, <2>4, <3>1, PoolTypes DEF PoolAccount
  <2>5. CASE accepted' = accepted + 1 /\ UNCHANGED <<mbufNic, mbufLost, passed>>
    BY <1>1, <1>3, <2>2, <2>5, PoolTypes DEF PoolAccount
  <2> QED BY <1>3, <2>3, <2>4, <2>5
<1>4. CASE ~UNCHANGED <<mbufFree, mbufNic, mbufLost, totFree, accepted, passed>>
  <2>1. PICK m \in mbufFree :
          /\ mbufFree' = mbufFree \ {m}
          /\ totFree' = totFree - 1
          /\ \/ /\ mbufNic' = mbufNic \cup {m} /\ mbufLost' = mbufLost
                /\ passed' = passed + 1 /\ accepted' = accepted
             \/ /\ mbufLost' = mbufLost \cup {m} /\ mbufNic' = mbufNic
                /\ passed' = passed + 1 /\ accepted' = accepted
             \/ accepted' = accepted + 1 /\ UNCHANGED <<mbufNic, mbufLost, passed>>
    BY <1>4, Zenon DEF rx_burst
  <2> QED BY <2>1, <1>3
<1> QED BY <1>2, <1>4

\* A packet that finds the ring full is dropped: its mbuf goes back at once.
LEMMA SendAccount ==
  ASSUME IInv, PoolAccount, rx_send
  PROVE  PoolAccount'
<1>1. Dropped = 0 /\ UNCHANGED <<outHead, mbufNic, mbufLost, accepted, passed>>
  BY DEF rx_send, Dropped
<1>2. CASE rxPc' = "abort"
  <2>1. mbufFree' = mbufFree \cup {rxMbuf} /\ totFree' = totFree + 1 /\ Dropped' = 1
    BY <1>2 DEF rx_send, Dropped
  <2>2. rxMbuf \notin mbufFree
    BY DEF rx_send, IInv, RxBacklog, MbufOwner
  <2>3. Cardinality(mbufFree') = Cardinality(mbufFree) + 1
    BY <2>1, <2>2, FS_AddElement, PoolTypes
  <2> QED BY <1>1, <2>1, <2>3, PoolTypes DEF PoolAccount
<1>3. CASE rxPc' # "abort"
  <2>1. UNCHANGED <<mbufFree, totFree>> /\ Dropped' = 0
    BY <1>3 DEF rx_send, Dropped
  <2> QED BY <1>1, <2>1 DEF PoolAccount
<1> QED BY <1>2, <1>3

\* A passed-through packet that was sent moves its mbuf from the NIC to the pool.
LEMMA PassAccount ==
  ASSUME IInv, PoolAccount, NEW m \in mbufNic, nic_pass_done(m)
  PROVE  PoolAccount'
<1>1. /\ mbufNic' = mbufNic \ {m} /\ mbufFree' = mbufFree \cup {m}
      /\ UNCHANGED <<outHead, mbufLost, totFree, accepted, passed, rxPc, Dropped>>
  BY DEF nic_pass_done, outVars, Dropped
<1>2. m \notin mbufFree
  BY DEF IInv, MbufOwner
<1>3. Cardinality(mbufNic') = Cardinality(mbufNic) - 1
  BY <1>1, FS_RemoveElement, PoolTypes
<1>4. Cardinality(mbufFree') = Cardinality(mbufFree) + 1
  BY <1>1, <1>2, FS_AddElement, PoolTypes
<1> QED BY <1>1, <1>3, <1>4, PoolTypes DEF PoolAccount

\* No mbuf of the DPDK pool leaks except those of the passed-through packets that the NIC
\* refused, and tot_free_mbuf is what ninf_rx meant it to count, less all the packets that
\* it passed through.
THEOREM PoolBalance == Spec => []PoolAccount
<1>1. Init => PoolAccount
  <2>1. ASSUME Init PROVE PoolAccount
    <3>1. 0 \in Rings /\ Cardinality(Mbufs) \in Nat
      BY ChainAssumption, PoolAssumption, FS_CardinalityType DEF Rings
    <3>2. Cardinality({}) = 0
      BY FS_EmptySet
    <3> QED BY <2>1, <3>1, <3>2 DEF Init, PoolAccount, Dropped
  <2> QED BY <2>1
<1>2. IInv /\ PoolAccount /\ [Next]_vars => PoolAccount'
  <2> SUFFICES ASSUME IInv, PoolAccount, [Next]_vars PROVE PoolAccount'
    OBVIOUS
  <2>1. CASE /\ outHead'[0] = outHead[0]
             /\ UNCHANGED <<mbufFree, mbufNic, mbufLost, totFree, accepted, passed>>
             /\ (rxPc' = "abort" <=> rxPc = "abort")
    BY <2>1 DEF PoolAccount, Dropped
  <2>2. ASSUME NEW i \in NFs, nf_run(i) PROVE PoolAccount'
    BY <2>1, <2>2, NfFrame, NFRings, RxInv DEF rxVars
  <2>3. CASE mca_run
    BY <2>1, <2>3 DEF mca_run, mca_look, mca_decline, mca_transfer, mca_publish, mca_faa_src,
       mca_faa_dst, mca_wakeup, outVars, rxVars
  <2>4. CASE rx_loop \/ rx_faa
    BY <2>1, <2>4 DEF rx_loop, rx_faa, outVars
  <2>5. CASE rx_collect_all_nf \/ rx_collect
    BY <2>5, CollectAccount DEF rx_collect_all_nf, rx_collect
  <2>6. CASE ninf_tx_take \/ ninf_tx_faa \/ \E s \in Slots : cos_tx_cb(s)
    BY <2>1, <2>6 DEF ninf_tx_take, ninf_tx_faa, cos_tx_cb, outVars, rxVars
  <2>7. CASE UNCHANGED vars
    BY <2>1, <2>7 DEF vars, outVars, rxVars
  <2> QED BY <2>2, <2>3, <2>4, <2>5, <2>6, <2>7, BurstAccount, SendAccount, PassAccount
          DEF Next, ninf_rx
<1> QED BY <1>1, <1>2, Invariance, PTL DEF Spec

=============================================================================
