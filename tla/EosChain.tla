------------------------------ MODULE EosChain ------------------------------
(***************************************************************************)
(* The packet path of an EOS chain: the NIC receive thread (ninf_rx.c),    *)
(* the memory-copy agent MCA (eos_mca.c), L network functions sharing the  *)
(* ring protocol of eos_pkt.h, and the transmit thread (ninf_tx.c).        *)
(*                                                                         *)
(* Network function i owns a segment with an input ring, an output ring    *)
(* and N packet-buffer vectors (eos_ring.h).  Output ring 0 is the one     *)
(* ninf_rx allocates for the flow.  Connection c copies the nodes of       *)
(* output ring c-1 into input ring c.  Every thread polls node states; no  *)
(* lock is taken.  A definition Mutant... changes the definition after it  *)
(* the way a bug in that code would; no specification uses it.             *)
(*                                                                         *)
(* Grain.  A node write (memcpy, struct assignment) is one step: `state'   *)
(* is the last field of the node and every reader tests it first; what     *)
(* other orders of its stores would show a reader is in NodeCopy.  Each    *)
(* atomic add of pkt_cnt, and each node write of the MCA, is a step of its *)
(* own, so other threads interleave there.  Node indices are the code's    *)
(* ints before masking; pkts[] (the eight pointers of a node, which always *)
(* travel together) is one buffer.  Deadlines and blocking are in EosEdf,  *)
(* transmit batching in NinfTx.                                            *)
(***************************************************************************)
EXTENDS Integers, Sequences, FiniteSets

CONSTANTS
  L,        \* network functions in the chain
  N,        \* EOS_RING_SIZE
  K,        \* EOS_PKT_PER_ENTRY
  Burst,    \* MCA_BURST_CNT
  Servers,  \* network functions that answer packets with 0..K packets of their own
  Mbufs,    \* receive buffers of the DPDK pool
  NoBuf,    \* a null packet pointer
  LowWater, \* tot_free_mbuf below which ninf_rx_loop reclaims
  MaxPkt    \* bound: packets offered by the wire

ASSUME ChainAssumption ==
  /\ L \in Nat \ {0}
  /\ N \in Nat \ {0}
  /\ K \in Nat \ {0}
  /\ Burst \in Nat \ {0}
  /\ Servers \subseteq 1..L
  /\ MaxPkt \in Nat

ASSUME PoolAssumption ==
  /\ IsFiniteSet(Mbufs)
  /\ NoBuf \notin Mbufs /\ NoBuf \notin Nat
  /\ LowWater \in Nat

VARIABLES
  inNode,   \* inNode[i][s]: node s of the input ring of function i
  inHead,   \* inHead[i]: head, the oldest node not yet collected
  inTail,   \* inTail[i]: tail, the next node to receive
  freeHead, \* freeHead[i]: free_head, the next node the MCA fills
  inCnt,    \* inCnt[i]: pkt_cnt of the input ring
  outNode,  \* outNode[i][s]: node s of output ring i
  outHead,  \* outHead[i]: head
  outTail,  \* outTail[i]: tail, the next node to flush
  mcaHead,  \* mcaHead[i]: mca_head, the next node the consumer takes
  outCnt,   \* outCnt[i]: pkt_cnt of the output ring
  mem,      \* mem[i][b]: the packet in buffer b of function i
  nfPc,     \* nfPc[i]: where function i is in its server loop
  inCache,  \* inCache[i]: `cached' of the input ring (cnt, idx)
  outCache, \* outCache[i]: `cached' of output ring i (cnt, idx, pkts)
  mca,      \* the MCA: step, connection, burst count, scache and rcache
  rxPc,     \* where ninf_rx_loop is
  rxMbuf,   \* the mbuf ninf_rx_proc_mbuf is working on, NoBuf when none
  rxMem,    \* rxMem[m]: the packet in mbuf m
  mbufFree, \* mbufs in the DPDK pool
  mbufNic,  \* mbufs of passed-through packets, owned by the NIC
  mbufLost, \* mbufs of passed-through packets the NIC refused: nobody's
  totFree,  \* tot_free_mbuf
  accepted, \* IPv4 packets taken from the NIC
  passed,   \* other packets taken from the NIC
  txRet,    \* `ret' of ninf_tx_process
  wire,     \* history: the packet in each node the transmit thread took, in order
  brought   \* history: brought[i][k], packets in the first k nodes the MCA gave function i

inVars  == <<inNode, inHead, inTail, freeHead, inCnt>>
outVars == <<outNode, outHead, outTail, mcaHead, outCnt>>
nfVars  == <<nfPc, inCache, outCache>>
rxVars  == <<rxPc, rxMbuf, rxMem, mbufFree, mbufNic, mbufLost, totFree, accepted, passed>>
txVars  == <<txRet, wire, brought>>
vars    == <<inVars, outVars, mem, nfVars, mca, rxVars, txVars>>

NFs   == 1..L
Rings == 0..L
Slots == 0..(N - 1)

\* h & EOS_RING_MASK
Slot(k) == k % N

PktStates == {"EMPTY", "FREE", "RECV_READY", "RECV_DONE",
              "SENT_READY", "SENT_DONE", "TXING"}

\* GET_RING_NODE
In(i, k)  == inNode[i][Slot(k)]
Out(i, k) == outNode[i][Slot(k)]

Node(st, cnt, buf) == [st |-> st, cnt |-> cnt, buf |-> buf]

\* Packet number `id', last written by function `hop' (0: as received).
Packet  == [id : Int, hop : Rings]
Garbage == [id |-> -1, hop |-> 0]

\* The head of the loop in mca_process, for connection c and burst count r.
Look(c, r) == [pc |-> "look", conn |-> c, r |-> r,
               scnt |-> 0, sbuf |-> NoBuf, rbuf |-> NoBuf]

\* eos_rings_init for every segment, and the counters as loaded.
Init ==
  /\ inNode   = [i \in NFs |-> [s \in Slots |-> Node("FREE", 0, s)]]
  /\ inHead   = [i \in NFs |-> 0]
  /\ inTail   = [i \in NFs |-> 0]
  /\ freeHead = [i \in NFs |-> 0]
  /\ inCnt    = [i \in NFs |-> 0]
  /\ outNode  = [i \in Rings |-> [s \in Slots |-> Node("EMPTY", 0, NoBuf)]]
  /\ outHead  = [i \in Rings |-> 0]
  /\ outTail  = [i \in Rings |-> 0]
  /\ mcaHead  = [i \in Rings |-> 0]
  /\ outCnt   = [i \in Rings |-> 0]
  /\ mem      = [i \in NFs |-> [s \in Slots |-> Garbage]]
  /\ nfPc     = [i \in NFs |-> "collect"]
  /\ inCache  = [i \in NFs |-> [cnt |-> 0, idx |-> 0]]
  /\ outCache = [i \in Rings |-> [cnt |-> 0, idx |-> 0, buf |-> NoBuf]]
  /\ mca      = Look(1, 0)
  /\ rxPc     = "poll"
  /\ rxMbuf   = NoBuf
  /\ rxMem    = [m \in Mbufs |-> Garbage]
  /\ mbufFree = Mbufs
  /\ mbufNic  = {}
  /\ mbufLost = {}
  /\ totFree  = Cardinality(Mbufs)
  /\ accepted = 0
  /\ passed   = 0
  /\ txRet    = 0
  /\ wire     = <<>>
  /\ brought  = [i \in NFs |-> <<>>]

-----------------------------------------------------------------------------
(* The flush of a cached node, shared by the receive thread and the network *)
(* functions: write the node at tail, empty the cache.  pkt_cnt is added to *)
(* in a later step.                                                         *)

CanFlush(i) == Out(i, outTail[i]).st = "EMPTY"

flush(i, cnt, buf) ==
  /\ outNode' = [outNode EXCEPT ![i][Slot(outTail[i])] = Node("SENT_READY", cnt, buf)]
  /\ outTail' = [outTail EXCEPT ![i] = @ + 1]

-----------------------------------------------------------------------------
(* A network function: udp_server_run, mc_server_run, ssl_server_run.       *)

NfGoto(i, from, to) ==
  /\ nfPc[i] = from
  /\ nfPc' = [nfPc EXCEPT ![i] = to]

\* The oldest node has been received and transmitted.
Transmitted(i) ==
  /\ In(i, inHead[i]).st \in {"EMPTY", "RECV_DONE"}
  /\ Out(i, outHead[i]).st = "SENT_DONE"

\* The input node it becomes.
MutantRecycledCnt(i) == Node("FREE", In(i, inHead[i]).cnt, Out(i, outHead[i]).buf)
Recycled(i) == Node("FREE", 0, Out(i, outHead[i]).buf)

\* One round of the collect loop: the transmitted node's buffers go back to
\* the input node they came from.
eos_pkt_collect(i) ==
  /\ nfPc[i] = "collect"
  /\ \/ /\ Transmitted(i)
        /\ outNode' = [outNode EXCEPT ![i][Slot(outHead[i])].st = "EMPTY"]
        /\ inNode' = [inNode EXCEPT ![i][Slot(inHead[i])] = Recycled(i)]
        /\ inHead' = [inHead EXCEPT ![i] = @ + 1]
        /\ outHead' = [outHead EXCEPT ![i] = @ + 1]
        /\ UNCHANGED nfPc
     \/ /\ ~Transmitted(i)
        /\ nfPc' = [nfPc EXCEPT ![i] = "recv"]
        /\ UNCHANGED <<outNode, inNode, inHead, outHead>>
  /\ UNCHANGED <<inTail, freeHead, inCnt, outTail, mcaHead, outCnt,
                 mem, inCache, outCache, mca, rxVars, txVars>>

\* The first node at or after tail that is not EMPTY (the while loop of
\* eos_pkt_recv_slow).
MutantNextToRecv(i) == inTail[i] + 1
NextToRecv(i) ==
  CHOOSE k \in inTail[i]..(inTail[i] + N) :
    /\ In(i, k).st # "EMPTY"
    /\ \A j \in inTail[i]..(k - 1) : In(i, j).st = "EMPTY"

\* There are packets of the node in hand that the function has not received.
Unread(i) == inCache[i].cnt # inCache[i].idx

\* The next packet of the node in hand, or the first of the next node.
eos_pkt_recv(i) ==
  LET k  == NextToRecv(i)
      rn == In(i, k)
  IN /\ nfPc[i] = "recv"
     /\ \/ /\ Unread(i)
           /\ inCache' = [inCache EXCEPT ![i].idx = @ + 1]
           /\ nfPc' = [nfPc EXCEPT ![i] = "work"]
           /\ UNCHANGED <<inNode, inTail, outCache>>
        \/ /\ ~Unread(i)
           /\ rn.st = "RECV_READY"
           /\ inCache' = [inCache EXCEPT ![i] = [cnt |-> rn.cnt, idx |-> 1]]
           /\ outCache' = [outCache EXCEPT ![i].buf = rn.buf, ![i].cnt = rn.cnt]
           /\ inNode' = [inNode EXCEPT ![i][Slot(k)].st = "RECV_DONE"]
           /\ inTail' = [inTail EXCEPT ![i] = k + 1]
           /\ nfPc' = [nfPc EXCEPT ![i] = "faa_in"]
        \/ /\ ~Unread(i)
           /\ rn.st = "RECV_DONE"    \* -ECOLLET
           /\ inTail' = [inTail EXCEPT ![i] = k]
           /\ nfPc' = [nfPc EXCEPT ![i] = "collect"]
           /\ UNCHANGED <<inNode, inCache, outCache>>
        \/ /\ ~Unread(i)
           /\ rn.st \notin {"RECV_READY", "RECV_DONE"}    \* -EBLOCK
           /\ inTail' = [inTail EXCEPT ![i] = k]
           /\ nfPc' = [nfPc EXCEPT ![i] = "block"]
           /\ UNCHANGED <<inNode, inCache, outCache>>
     /\ UNCHANGED <<inHead, freeHead, inCnt, outVars, mem, mca, rxVars, txVars>>

\* cos_faa(&ring->pkt_cnt, -(rn->cnt)): the node is the one just received.
recv_faa(i) ==
  /\ NfGoto(i, "faa_in", "work")
  /\ inCnt' = [inCnt EXCEPT ![i] = @ - In(i, inTail[i] - 1).cnt]
  /\ UNCHANGED <<inNode, inHead, inTail, freeHead, outVars, mem,
                 inCache, outCache, mca, rxVars, txVars>>

\* nf_hyp_block returns: EosEdf says when.
nf_hyp_block(i) ==
  /\ NfGoto(i, "block", "recv")
  /\ UNCHANGED <<inVars, outVars, mem, inCache, outCache, mca, rxVars, txVars>>

\* The packets cached for the node once this packet is dealt with: an echo
\* function sends what it received, a server any number of packets that it
\* allocates from the node (the assertions of eos_pkt_allocate).
Answers(i) ==
  LET sent == outCache[i].idx
      room == IF Unread(i) THEN inCache[i].idx ELSE K
  IN  IF i \in Servers THEN sent..room ELSE {sent + 1}

\* Process the packet in place and cache the answers.  A server makes its cache
\* larger than a node, and fits it to its answers at the last packet of a node.
nf_process(i) ==
  /\ NfGoto(i, "work", "flush")
  /\ mem' = IF Unread(i) THEN mem ELSE [mem EXCEPT ![i][outCache[i].buf].hop = i]
  /\ \E n \in Answers(i) :
       outCache' = [outCache EXCEPT ![i].idx = n,
                                    ![i].cnt = IF i \notin Servers THEN @
                                               ELSE IF Unread(i) THEN K + 1 ELSE n]
  /\ UNCHANGED <<inVars, outVars, inCache, mca, rxVars, txVars>>

\* The flush that ends eos_pkt_send (eos_pkt_send_flush_force for a server).
\* A failed flush leaves the cache as it is and its error is not acted on.
eos_pkt_send_flush(i) ==
  /\ nfPc[i] = "flush"
  /\ IF outCache[i].idx >= outCache[i].cnt /\ CanFlush(i)
     THEN /\ flush(i, outCache[i].cnt, outCache[i].buf)
          /\ outCache' = [outCache EXCEPT ![i].cnt = 0, ![i].idx = 0]
          /\ nfPc' = [nfPc EXCEPT ![i] = "faa_out"]
     ELSE /\ nfPc' = [nfPc EXCEPT ![i] = "collect"]
          /\ UNCHANGED <<outNode, outTail, outCache>>
  /\ UNCHANGED <<inVars, outHead, mcaHead, outCnt, mem, inCache, mca, rxVars, txVars>>

\* cos_faa(&ring->pkt_cnt, 1)
MutantFlushFaa(i) ==
  /\ NfGoto(i, "faa_out", "collect")
  /\ outCnt' = [outCnt EXCEPT ![i] = @ + Out(i, outTail[i] - 1).cnt]
  /\ UNCHANGED <<inVars, outNode, outHead, outTail, mcaHead, mem,
                 inCache, outCache, mca, rxVars, txVars>>
flush_faa(i) ==
  /\ NfGoto(i, "faa_out", "collect")
  /\ outCnt' = [outCnt EXCEPT ![i] = @ + 1]
  /\ UNCHANGED <<inVars, outNode, outHead, outTail, mcaHead, mem,
                 inCache, outCache, mca, rxVars, txVars>>

nf_run(i) ==
  \/ eos_pkt_collect(i)
  \/ eos_pkt_recv(i)
  \/ recv_faa(i)
  \/ nf_hyp_block(i)
  \/ nf_process(i)
  \/ eos_pkt_send_flush(i)
  \/ flush_faa(i)

-----------------------------------------------------------------------------
(* The MCA: mca_scan visits the connections in turn, mca_process moves at  *)
(* most Burst nodes of one of them.                                        *)

Src == mca.conn - 1
Dst == mca.conn

\* mca_process returns: go on to the next connection of the list lh, which
\* holds connection 1 and then L, L-1 .. 2 (mca_push_l pushes at the head, and
\* fwp_chain_activate creates the inner connections before connection 1).
NextConn == Look(IF mca.conn = 1 THEN L ELSE mca.conn - 1, 0)

\* There is a node to copy, and a node to copy it to.
MutantCanCopy == Out(Src, mcaHead[Src]).st = "SENT_READY"
CanCopy ==
  /\ Out(Src, mcaHead[Src]).st = "SENT_READY"
  /\ In(Dst, freeHead[Dst]).st = "FREE"

\* The tests at the head of the loop, and the snapshots scache and rcache.
mca_look ==
  LET sn == Out(Src, mcaHead[Src])
      rn == In(Dst, freeHead[Dst])
  IN /\ mca.pc = "look"
     /\ \/ /\ CanCopy /\ sn.cnt = 0    \* assert(0)
           /\ mca' = [mca EXCEPT !.pc = "abort"]
        \/ /\ CanCopy /\ sn.cnt # 0
           /\ mca' = [mca EXCEPT !.pc = "copy", !.scnt = sn.cnt,
                                 !.sbuf = sn.buf, !.rbuf = rn.buf]
        \/ /\ ~CanCopy
           /\ mca' = NextConn
     /\ UNCHANGED <<inVars, outVars, mem, nfVars, rxVars, txVars>>

\* The deadline tests of mca_process send the MCA away: EosEdf says when.
mca_decline ==
  /\ mca.pc = "copy"
  /\ mca' = NextConn
  /\ UNCHANGED <<inVars, outVars, mem, nfVars, rxVars, txVars>>

\* The packet that the pointers of the source node lead to.
MutantSourcePkt == LET b == Out(Src, outHead[Src]).buf
                   IN  IF Src = 0 THEN rxMem[b] ELSE mem[Src][b]
SourcePkt == IF Src = 0 THEN rxMem[mca.sbuf] ELSE mem[Src][mca.sbuf]

\* mca_transfer copies the packets, then the source node is handed back.
mca_transfer ==
  /\ mca.pc = "copy"
  /\ mem' = [mem EXCEPT ![Dst][mca.rbuf] = SourcePkt]
  /\ outNode' = [outNode EXCEPT ![Src][Slot(mcaHead[Src])].st = "SENT_DONE"]
  /\ mca' = [mca EXCEPT !.pc = "publish"]
  /\ UNCHANGED <<inVars, outHead, outTail, mcaHead, outCnt, nfVars, rxVars, txVars>>

\* The packets that the MCA has brought function i in k nodes.
Brought(i, k) == IF k = 0 THEN 0 ELSE brought[i][k]

\* *rn = rcache, and both heads advance.
mca_publish ==
  /\ mca.pc = "publish"
  /\ inNode' = [inNode EXCEPT ![Dst][Slot(freeHead[Dst])] =
                  Node("RECV_READY", mca.scnt, mca.rbuf)]
  /\ freeHead' = [freeHead EXCEPT ![Dst] = @ + 1]
  /\ mcaHead' = [mcaHead EXCEPT ![Src] = @ + 1]
  /\ mca' = [mca EXCEPT !.pc = "faa_src"]
  /\ brought' = [brought EXCEPT ![Dst] = Append(@, Brought(Dst, freeHead[Dst]) + mca.scnt)]
  /\ UNCHANGED <<inHead, inTail, inCnt, outNode, outHead, outTail, outCnt,
                 mem, nfVars, rxVars, txRet, wire>>

\* sn->cnt is read from the ring again, after the node was handed back.
mca_faa_src ==
  /\ mca.pc = "faa_src"
  /\ outCnt' = [outCnt EXCEPT ![Src] = @ - Out(Src, mcaHead[Src] - 1).cnt]
  /\ mca' = [mca EXCEPT !.pc = "faa_dst"]
  /\ UNCHANGED <<inVars, outNode, outHead, outTail, mcaHead, mem, nfVars, rxVars, txVars>>

mca_faa_dst ==
  /\ mca.pc = "faa_dst"
  /\ inCnt' = [inCnt EXCEPT ![Dst] = @ + Out(Src, mcaHead[Src] - 1).cnt]
  /\ mca' = [mca EXCEPT !.pc = "wakeup"]
  /\ UNCHANGED <<inNode, inHead, inTail, freeHead, outVars, mem, nfVars, rxVars, txVars>>

\* The wakeup of the destination (EosEdf), then another node or the next
\* connection.
mca_wakeup ==
  /\ mca.pc = "wakeup"
  /\ mca' = IF mca.r + 1 < Burst
              THEN Look(mca.conn, mca.r + 1)
              ELSE NextConn
  /\ UNCHANGED <<inVars, outVars, mem, nfVars, rxVars, txVars>>

mca_run ==
  \/ mca_look
  \/ mca_decline
  \/ mca_transfer
  \/ mca_publish
  \/ mca_faa_src
  \/ mca_faa_dst
  \/ mca_wakeup

-----------------------------------------------------------------------------
(* The receive thread: ninf_rx_loop.                                       *)

\* The MCA has copied the oldest node.
RxCopied == Out(0, outHead[0]).st = "SENT_DONE"

\* ninf_pkt_collect: free the mbuf of the oldest node the MCA has copied.
MutantPktCollect ==
  IF RxCopied
  THEN /\ mbufFree' = mbufFree \cup {Out(0, outHead[0]).buf}
       /\ outNode' = [outNode EXCEPT ![0][Slot(outHead[0])].st = "EMPTY"]
       /\ outHead' = [outHead EXCEPT ![0] = @ + 1]
       /\ UNCHANGED totFree
  ELSE UNCHANGED <<mbufFree, totFree, outNode, outHead>>
ninf_pkt_collect ==
  IF RxCopied
  THEN /\ mbufFree' = mbufFree \cup {Out(0, outHead[0]).buf}
       /\ totFree' = totFree + Out(0, outHead[0]).cnt
       /\ outNode' = [outNode EXCEPT ![0][Slot(outHead[0])].st = "EMPTY"]
       /\ outHead' = [outHead EXCEPT ![0] = @ + 1]
  ELSE UNCHANGED <<mbufFree, totFree, outNode, outHead>>

rx_loop ==
  /\ rxPc = "poll"
  /\ rxPc' = IF totFree < LowWater THEN "reclaim" ELSE "burst"
  /\ UNCHANGED <<inVars, outVars, mem, nfVars, mca, rxMbuf, rxMem, mbufFree, mbufNic,
                 mbufLost, totFree, accepted, passed, txVars>>

\* rx_collect_all_nf: collect until nothing is left to collect.
rx_collect_all_nf ==
  /\ rxPc = "reclaim"
  /\ rxPc' = IF RxCopied THEN "reclaim" ELSE "burst"
  /\ ninf_pkt_collect
  /\ UNCHANGED <<inVars, outTail, mcaHead, outCnt, mem, nfVars, mca, rxMbuf, rxMem,
                 mbufNic, mbufLost, accepted, passed, txVars>>

\* rte_eth_rx_burst: nothing, a packet that is not IPv4, or an IPv4 packet for the
\* chain.  The former is sent back at once; the NIC may refuse it, and nobody looks.
rx_burst ==
  /\ rxPc = "burst"
  /\ \/ /\ rxPc' = "poll"
        /\ UNCHANGED <<rxMbuf, rxMem, mbufFree, mbufNic, mbufLost, totFree, accepted, passed>>
     \/ \E m \in mbufFree :
          /\ accepted + passed < MaxPkt
          /\ mbufFree' = mbufFree \ {m}
          /\ totFree' = totFree - 1
          /\ \/ /\ \/ mbufNic' = mbufNic \cup {m} /\ UNCHANGED mbufLost
                   \/ mbufLost' = mbufLost \cup {m} /\ UNCHANGED mbufNic
                /\ passed' = passed + 1
                /\ rxPc' = "poll"
                /\ UNCHANGED <<rxMbuf, rxMem, accepted>>
             \/ /\ rxMem' = [rxMem EXCEPT ![m] = [id |-> accepted, hop |-> 0]]
                /\ rxMbuf' = m
                /\ accepted' = accepted + 1
                /\ rxPc' = "collect"
                /\ UNCHANGED <<mbufNic, mbufLost, passed>>
  /\ UNCHANGED <<inVars, outVars, mem, nfVars, mca, txVars>>

\* The head of the do-while loop of ninf_rx_proc_mbuf: cached.cnt = 1.
rx_collect ==
  /\ rxPc = "collect"
  /\ rxPc' = "send"
  /\ ninf_pkt_collect
  /\ outCache' = [outCache EXCEPT ![0].cnt = 1]
  /\ UNCHANGED <<inVars, outTail, mcaHead, outCnt, mem, nfPc, inCache, mca, rxMbuf,
                 rxMem, mbufNic, mbufLost, accepted, passed, txVars>>

\* The packet that waits in the cache.
MutantRxCached == rxMbuf
RxCached == outCache[0].buf

\* eos_pkt_send_test with cached.cnt = 1.  An empty cache takes the packet and
\* is flushed; if that fails the packet stays cached and 0 is returned all the
\* same.  A cache that still holds a packet is flushed first and then takes the
\* new packet, which waits for the next call.
rx_send ==
  LET c == outCache[0]
  IN /\ rxPc = "send"
     /\ \/ /\ c.cnt # c.idx /\ CanFlush(0)
           /\ flush(0, c.cnt, rxMbuf)
           /\ outCache' = [outCache EXCEPT ![0] = [cnt |-> 0, idx |-> 0, buf |-> rxMbuf]]
           /\ rxPc' = "faa"
           /\ rxMbuf' = NoBuf
           /\ UNCHANGED <<mbufFree, totFree>>
        \/ /\ c.cnt # c.idx /\ ~CanFlush(0)
           /\ outCache' = [outCache EXCEPT ![0].idx = 1, ![0].buf = rxMbuf]
           /\ rxPc' = "poll"
           /\ rxMbuf' = NoBuf
           /\ UNCHANGED <<outNode, outTail, mbufFree, totFree>>
        \/ /\ c.cnt = c.idx /\ CanFlush(0)
           /\ flush(0, c.cnt, RxCached)
           /\ outCache' = [outCache EXCEPT ![0] = [cnt |-> 0, idx |-> 1, buf |-> rxMbuf]]
           /\ rxPc' = "faa"
           /\ rxMbuf' = NoBuf
           /\ UNCHANGED <<mbufFree, totFree>>
        \/ /\ c.cnt = c.idx /\ Out(0, outTail[0]).st = "SENT_DONE"    \* -ECOLLET
           /\ rxPc' = "collect"
           /\ UNCHANGED <<outNode, outTail, outCache, rxMbuf, mbufFree, totFree>>
        \/ /\ c.cnt = c.idx                    \* -EBLOCK: drop, then assert(0)
           /\ ~CanFlush(0) /\ Out(0, outTail[0]).st # "SENT_DONE"
           /\ mbufFree' = mbufFree \cup {rxMbuf}
           /\ totFree' = totFree + 1
           /\ rxPc' = "abort"
           /\ rxMbuf' = NoBuf
           /\ UNCHANGED <<outNode, outTail, outCache>>
     /\ UNCHANGED <<inVars, outHead, mcaHead, outCnt, mem, nfPc, inCache, mca, rxMem,
                    mbufNic, mbufLost, accepted, passed, txVars>>

rx_faa ==
  /\ rxPc = "faa"
  /\ rxPc' = "poll"
  /\ outCnt' = [outCnt EXCEPT ![0] = @ + 1]
  /\ UNCHANGED <<inVars, outNode, outHead, outTail, mcaHead, mem, nfVars, mca, rxMbuf,
                 rxMem, mbufFree, mbufNic, mbufLost, totFree, accepted, passed, txVars>>

ninf_rx ==
  \/ rx_loop
  \/ rx_collect_all_nf
  \/ rx_burst
  \/ rx_collect
  \/ rx_send
  \/ rx_faa

-----------------------------------------------------------------------------
(* The transmit thread and the NIC.                                        *)

\* The state of a node whose packets are with the NIC: an empty one is done.
TakenState(cnt) == IF cnt # 0 THEN "TXING" ELSE "SENT_DONE"

\* One round of the loop of ninf_tx_process over the last output ring.
ninf_tx_take ==
  LET sent == Out(L, mcaHead[L])
  IN /\ sent.st = "SENT_READY"
     /\ outNode' = [outNode EXCEPT ![L][Slot(mcaHead[L])].st = TakenState(sent.cnt)]
     /\ mcaHead' = [mcaHead EXCEPT ![L] = @ + 1]
     /\ txRet' = txRet + 1
     /\ wire' = Append(wire, mem[L][sent.buf])
     /\ UNCHANGED <<inVars, outHead, outTail, outCnt, mem, nfVars, mca, rxVars, brought>>

\* Its end, when the next node is not ready.
ninf_tx_faa ==
  /\ Out(L, mcaHead[L]).st # "SENT_READY"
  /\ txRet > 0
  /\ outCnt' = [outCnt EXCEPT ![L] = @ - txRet]
  /\ txRet' = 0
  /\ UNCHANGED <<inVars, outNode, outHead, outTail, mcaHead, mem, nfVars, mca, rxVars, wire,
                 brought>>

\* The NIC has sent one packet of the node: it drops a reference to it.
cos_tx_cb(s) ==
  LET sent == outNode[L][s]
  IN /\ sent.st = "TXING"
     /\ outNode' = [outNode EXCEPT ![L][s] =
          Node(IF sent.cnt = 1 THEN "SENT_DONE" ELSE "TXING", sent.cnt - 1, sent.buf)]
     /\ UNCHANGED <<inVars, outHead, outTail, mcaHead, outCnt, mem, nfVars, mca, rxVars, txVars>>

\* The NIC has sent a passed-through packet: its mbuf returns to the pool.
nic_pass_done(m) ==
  /\ mbufNic' = mbufNic \ {m}
  /\ mbufFree' = mbufFree \cup {m}
  /\ UNCHANGED <<inVars, outVars, mem, nfVars, mca, rxPc, rxMbuf, rxMem, mbufLost,
                 totFree, accepted, passed, txVars>>

-----------------------------------------------------------------------------
Next ==
  \/ \E i \in NFs : nf_run(i)
  \/ mca_run
  \/ ninf_rx
  \/ ninf_tx_take
  \/ ninf_tx_faa
  \/ \E s \in Slots : cos_tx_cb(s)
  \/ \E m \in mbufNic : nic_pass_done(m)

Spec == Init /\ [][Next]_vars

-----------------------------------------------------------------------------
(* Properties.                                                             *)

InNodes  == [st : PktStates, cnt : 0..K, buf : Slots]
Buf      == Slots \cup Mbufs \cup {NoBuf}
OutNodes == [st : PktStates, cnt : 0..K, buf : Buf]
NfPcs    == {"collect", "recv", "faa_in", "block", "work", "flush", "faa_out"}
McaPcs   == {"look", "copy", "publish", "faa_src", "faa_dst", "wakeup", "abort"}
RxPcs    == {"poll", "reclaim", "burst", "collect", "send", "faa", "abort"}

InType ==
  /\ inNode \in [NFs -> [Slots -> InNodes]]
  /\ inHead \in [NFs -> Nat] /\ inTail \in [NFs -> Nat] /\ freeHead \in [NFs -> Nat]
  /\ inCnt \in [NFs -> Int]

OutType ==
  /\ outNode \in [Rings -> [Slots -> OutNodes]]
  /\ outHead \in [Rings -> Nat] /\ outTail \in [Rings -> Nat] /\ mcaHead \in [Rings -> Nat]
  /\ outCnt \in [Rings -> Int]

NfType ==
  /\ mem \in [NFs -> [Slots -> Packet]]
  /\ nfPc \in [NFs -> NfPcs]
  /\ inCache \in [NFs -> [cnt : 0..K, idx : 0..K]]
  /\ outCache \in [Rings -> [cnt : 0..(K + 1), idx : 0..K, buf : Buf]]

McaType == mca \in [pc : McaPcs, conn : NFs, r : 0..(Burst - 1), scnt : 0..K,
                    sbuf : Buf, rbuf : Slots \cup {NoBuf}]

RxType ==
  /\ rxPc \in RxPcs
  /\ rxMbuf \in Mbufs \cup {NoBuf}
  /\ rxMem \in [Mbufs -> Packet]
  /\ mbufFree \subseteq Mbufs
  /\ mbufNic \subseteq Mbufs /\ mbufLost \subseteq Mbufs
  /\ totFree \in Int /\ accepted \in Nat /\ passed \in Nat

TxType == txRet \in Nat /\ wire \in Seq(Packet) /\ brought \in [NFs -> Seq(Nat)]

\* Every variable stays in its type: in particular the count of a node in 0..K
\* and the buffers of an input node those of its own segment.
TypeOK == InType /\ OutType /\ NfType /\ McaType /\ RxType /\ TxType

\* mca_head, counting the node that mca_transfer has handed back already.
Taken(i) == mcaHead[i] + IF mca.pc = "publish" /\ Src = i THEN 1 ELSE 0

\* The function holds a node it has received and not yet flushed.
InHand(i) == nfPc[i] \in {"faa_in", "work", "flush"} \/ Unread(i)

\* The receive thread's cache holds a packet that no flush has taken.
Pending == outCache[0].idx

InOrder(i) ==
  /\ inHead[i] = outHead[i]
  /\ inTail[i] = outTail[i] + IF InHand(i) THEN 1 ELSE 0
  /\ inTail[i] <= freeHead[i]
  /\ freeHead[i] <= inHead[i] + N
  /\ freeHead[i] = mcaHead[i - 1]

OutOrder(i) ==
  /\ outHead[i] <= Taken(i)
  /\ Taken(i) <= outTail[i]
  /\ outTail[i] <= outHead[i] + N

\* The cursors of a segment never pass one another: head, consumer, flush,
\* receive and fill positions are in this order, and no more than a ring apart;
\* a function has one node in hand or none; what the MCA took from one ring it
\* put in the next.
RingOrder == (\A i \in NFs : InOrder(i)) /\ (\A i \in Rings : OutOrder(i))

InStatesOf(i) ==
  \A k \in inHead[i]..(inHead[i] + N - 1) :
    In(i, k).st = IF k < inTail[i] THEN "RECV_DONE"
                  ELSE IF k < freeHead[i] THEN "RECV_READY" ELSE "FREE"

OutStatesOf(i) ==
  \A k \in outHead[i]..(outHead[i] + N - 1) :
    /\ k < Taken(i) => \/ Out(i, k).st = "SENT_DONE"
                       \/ i = L /\ Out(i, k).st = "TXING"
    /\ Taken(i) <= k /\ k < outTail[i] => Out(i, k).st = "SENT_READY"
    /\ outTail[i] <= k => Out(i, k).st = "EMPTY"

\* The state of a node says who owns it: what a thread reads at an index agrees
\* with the cursors of all the others, the ones it cannot see included.
NodeStates == (\A i \in NFs : InStatesOf(i)) /\ (\A i \in Rings : OutStatesOf(i))

BuffersOf(i) ==
  /\ \A s \in Slots : inNode[i][s].buf = s
  /\ \A k \in outHead[i]..(outTail[i] - 1) : Out(i, k).buf = Slot(k)
  /\ InHand(i) => outCache[i].buf = Slot(outTail[i])

\* Buffers do not migrate: an input node keeps its own buffers for ever, and the
\* output node of the same index carries them (the loop of assertions in
\* eos_pkt_collect).
Buffers == \A i \in NFs : BuffersOf(i)

\* The function is done with all packets of the node in hand.
Processed(i) == nfPc[i] = "flush" /\ ~Unread(i)

ContentsOf(i) ==
  /\ \A k \in inTail[i]..(freeHead[i] - 1) :
       mem[i][Slot(k)] = [id |-> k, hop |-> i - 1]
  /\ InHand(i) => mem[i][Slot(outTail[i])] =
                    [id |-> outTail[i], hop |-> IF Processed(i) THEN i ELSE i - 1]
  /\ \A k \in outHead[i]..(outTail[i] - 1) :
       Out(i, k).st \in {"SENT_READY", "TXING"} =>
         mem[i][Slot(k)] = [id |-> k, hop |-> i]

\* Node k of every ring carries packet k, written by the functions before it,
\* for as long as the node belongs to a reader: the MCA, the function, the NIC.
Contents == \A i \in NFs : ContentsOf(i)

\* The nodes the transmit thread takes carry every accepted packet, once, in order
\* and processed by the last function (or a server's answers to it, in its place).
WireInOrder ==
  /\ Len(wire) = mcaHead[L]
  /\ \A k \in 1..Len(wire) : wire[k] = [id |-> k - 1, hop |-> L]

\* There is no server before function i: all its nodes are of one packet.
OneEach(i) == \A j \in Servers : j >= i

InCountsOf(i) ==
  \A k \in inHead[i]..(inHead[i] + N - 1) :
    /\ In(i, k).cnt > 0 <=> k < freeHead[i]
    /\ k < freeHead[i] /\ OneEach(i) => In(i, k).cnt = 1

\* Slot s of the ring has been written, at one lap or another.
OutCountsOf(i) ==
  /\ i < L /\ OneEach(i + 1) => \A s \in Slots : s < outTail[i] => outNode[i][s].cnt = 1
  /\ i < L /\ i \notin Servers => \A s \in Slots : s < outTail[i] => outNode[i][s].cnt > 0
  /\ \A s \in Slots : outNode[i][s].st = "TXING" => outNode[i][s].cnt > 0

\* cnt of a node: an input node holds packets until it is freed and none from then
\* on (assert(ring->cached.cnt), assert(!rn->cnt)); a node of no packets comes from
\* a server; and as long as no server comes before, nodes hold one packet each.
Counts == (\A i \in NFs : InCountsOf(i)) /\ (\A i \in Rings : OutCountsOf(i))

\* The node in hand: an echo function caches as many packets as it has received, a
\* server never more than it has buffers for.
HandOf(i) ==
  LET before == IF nfPc[i] \in {"faa_in", "work"} THEN 1 ELSE 0
  IN /\ 0 < inCache[i].idx /\ inCache[i].idx <= inCache[i].cnt
     /\ inCache[i].cnt = In(i, outTail[i]).cnt
     /\ nfPc[i] = "faa_in" => inCache[i].idx = 1
     /\ IF i \in Servers
        THEN IF Processed(i) THEN outCache[i].cnt = outCache[i].idx
             ELSE /\ outCache[i].idx <= inCache[i].idx - before
                  /\ before = 0 => outCache[i].cnt = K + 1
        ELSE /\ outCache[i].cnt = inCache[i].cnt
             /\ outCache[i].idx = inCache[i].idx - before

CacheOf(i) ==
  /\ InHand(i) => HandOf(i)
  /\ Unread(i) => nfPc[i] \notin {"block", "faa_out"}
  /\ ~InHand(i) => outCache[i].cnt = 0 /\ outCache[i].idx = 0

\* The cached nodes as the assertions of eos_pkt_recv_slow expect them.
Caches == \A i \in NFs : CacheOf(i)

\* The node of its source ring that the MCA is copying, or has copied last.
Held == mcaHead[Src] - IF mca.pc \in {"faa_src", "faa_dst"} THEN 1 ELSE 0

\* The node still has the count it was copied with, also after it was handed back and
\* perhaps collected: the function that could flush another one in its place would
\* have to be given that one by the MCA first.
Recount ==
  mca.pc \in {"copy", "publish", "faa_src", "faa_dst"} =>
    /\ mca.scnt > 0
    /\ OneEach(Dst) => mca.scnt = 1
    /\ Held >= 0
    /\ Out(Src, Held).cnt = mca.scnt
    /\ Src > 0 => freeHead[Src] <= Held + N

\* The snapshots of mca_process still hold when they are used, and so does the count
\* that it reads again.  It stops at an empty node (assert(0)) only behind a server.
Snapshots ==
  /\ Recount
  /\ mca.pc \in {"copy", "publish"} =>
       /\ mca.rbuf = Slot(freeHead[Dst])
       /\ freeHead[Dst] < inHead[Dst] + N
  /\ mca.pc = "copy" =>
       /\ mcaHead[Src] < outTail[Src]
       /\ mca.sbuf = Out(Src, mcaHead[Src]).buf
  /\ mca.pc = "publish" =>
       mem[Dst][mca.rbuf] = [id |-> freeHead[Dst], hop |-> Dst - 1]
  /\ mca.pc = "abort" => Src \in Servers

\* The receive thread accounts for every packet it accepted: in a node it has
\* flushed, in its cache (one flush behind, after a flush has failed), or in its
\* hands.
RxBacklog ==
  /\ outCache[0].cnt \in 0..1 /\ outCache[0].idx \in 0..1
  /\ rxPc = "send" => outCache[0].cnt = 1
  /\ rxPc = "abort" => Pending = 1
  /\ rxPc \in {"collect", "send"} <=> rxMbuf # NoBuf
  /\ accepted = outTail[0] + Pending
                 + IF rxPc \in {"collect", "send", "abort"} THEN 1 ELSE 0

\* Node k of the receive thread's ring carries packet k until the MCA has copied
\* it; the cached packet and the packet in hand come next.
RxContents ==
  /\ \A k \in Taken(0)..(outTail[0] - 1) :
       rxMem[Out(0, k).buf] = [id |-> k, hop |-> 0]
  /\ Pending = 1 => rxMem[outCache[0].buf] = [id |-> outTail[0], hop |-> 0]
  /\ rxMbuf # NoBuf => rxMem[rxMbuf] = [id |-> accepted - 1, hop |-> 0]

\* An mbuf has one owner: the pool, the NIC, one node of the ring, the cache or
\* the packet in hand; or none, for ever, if the NIC refused its packet.  No mbuf
\* is freed while a node still points to it, or freed twice.
MbufOwner ==
  LET busy == Mbufs \ (mbufFree \cup mbufNic \cup mbufLost)
      ring == outHead[0]..(outTail[0] - 1)
  IN /\ mbufFree \cap mbufNic = {} /\ (mbufFree \cup mbufNic) \cap mbufLost = {}
     /\ \A k \in ring : Out(0, k).buf \in busy
     /\ \A j, k \in ring : j # k => Out(0, j).buf # Out(0, k).buf
     /\ Pending = 1 => /\ outCache[0].buf \in busy
                       /\ \A k \in ring : Out(0, k).buf # outCache[0].buf
     /\ rxMbuf # NoBuf => /\ rxMbuf \in busy
                          /\ \A k \in ring : Out(0, k).buf # rxMbuf
                          /\ Pending = 1 => outCache[0].buf # rxMbuf

Dropped == IF rxPc = "abort" THEN 1 ELSE 0

\* The pool balances: free mbufs, those with the NIC, accepted packets not yet collected,
\* and the passed-through packets that the NIC refused, which are the only leak, add up
\* to the pool.  tot_free_mbuf counts every passed-through packet as lost for ever, so
\* it never exceeds the buffers that are free or with the NIC.
PoolAccount ==
  /\ Cardinality(mbufFree) + Cardinality(mbufNic) + Cardinality(mbufLost)
       + accepted - outHead[0] - Dropped = Cardinality(Mbufs)
  /\ totFree = Cardinality(Mbufs) - passed - (accepted - outHead[0] - Dropped)
  /\ Cardinality(mbufNic) + Cardinality(mbufLost) <= passed

BroughtOf(i) ==
  /\ Len(brought[i]) = freeHead[i]
  /\ \A k \in inHead[i]..(freeHead[i] - 1) :
       Brought(i, k + 1) = Brought(i, k) + In(i, k).cnt
  /\ OneEach(i) => \A k \in 0..freeHead[i] : Brought(i, k) = k

\* The pkt_cnt of input ring i: the packets of the nodes that wait in it.
InCntOf(i) ==
  inCnt[i] = Brought(i, freeHead[i]) - Brought(i, inTail[i])
             - (IF mca.pc \in {"faa_src", "faa_dst"} /\ Dst = i THEN mca.scnt ELSE 0)
             + (IF nfPc[i] = "faa_in" THEN inCache[i].cnt ELSE 0)

\* What was taken off the pkt_cnt of output ring i: packets by the MCA, nodes by the
\* transmit thread.
TakenOff(i) ==
  IF i < L THEN Brought(i + 1, mcaHead[i]) - (IF mca.pc = "faa_src" /\ Src = i THEN mca.scnt ELSE 0)
  ELSE mcaHead[i] - txRet

\* The pkt_cnt of output ring i: a flush adds 1 for a node of any size.
OutCntOf(i) ==
  outCnt[i] = outTail[i] - TakenOff(i)
              - (IF i = 0 /\ rxPc = "faa" THEN 1 ELSE 0)
              - (IF i > 0 /\ nfPc[i] = "faa_out" THEN 1 ELSE 0)

\* pkt_cnt, once the adds that are still to come are made: on an input ring the packets
\* waiting, on an output ring the nodes flushed less the packets taken, which is the
\* number of nodes waiting as long as no server comes before the ring, and on the last
\* one always.  Behind a server it drifts by the packets a node has more than one.
PktCnt ==
  /\ \A i \in NFs : BroughtOf(i) /\ InCntOf(i)
  /\ \A i \in Rings : OutCntOf(i)

\* Does not hold (README 3.3).
\* pkt_cnt of an output ring at rest is the number of nodes waiting in it: mca_process
\* takes a zero for an empty ring.
CountsNodes ==
  \A i \in Rings :
    mca.pc = "look" /\ txRet = 0 /\ rxPc # "faa" /\ (i > 0 => nfPc[i] # "faa_out")
      => outCnt[i] = outTail[i] - mcaHead[i]

\* Does not hold (README 3.3).
\* The MCA meets no node without packets (assert(0) in mca_process).
NoEmptyNode == mca.pc # "abort"

\* The flush of a network function never finds the ring full, an error it
\* ignores (ssl_server_run) or asserts away (mc_server_run): the output node has
\* the index of the input node in hand.
FlushSucceeds == \A i \in NFs : nfPc[i] = "flush" => CanFlush(i)

\* Does not hold (README 3.3).
\* A packet that finds the ring of the receive thread full is dropped, and the
\* receive thread goes on ("drop pkts" in ninf_rx_proc_mbuf, counted in
\* rx_drop_cnt).
DropGoesOn == rxPc # "abort"

\* The cursors of all threads keep their order on every ring, and the state of each
\* node is what the cursors say, whoever is between two of its steps.
RingDiscipline == RingOrder /\ NodeStates

\* Buffers stay in their segment, node k of every ring carries packet k while somebody
\* may read it, and the transmit thread takes each accepted packet once, in order.
PacketsInPlace == Buffers /\ Contents /\ WireInOrder

\* The assertions of the ring code on counts, caches and snapshots hold, although the
\* nodes they are about were read some steps before.  The one that can fail is assert(0)
\* of mca_process, at an empty node that a server in the middle of the chain has flushed:
\* no other function makes such a node (NoEmptyNode).
AssertsHold == TypeOK /\ Counts /\ Caches /\ Snapshots

\* The receive thread keeps the packet that a failed flush left in its cache, sends it
\* next, and frees no mbuf that a node still points to.
RxOwnership == RxBacklog /\ RxContents /\ MbufOwner

Fifo == INSTANCE PktFifo WITH Hops <- L

\* The chain, from ninf_rx to ninf_tx and through all the rings between them, is
\* the FIFO that PktFifo describes: it implements its specification.
FifoSpec == Fifo!Spec
=============================================================================
