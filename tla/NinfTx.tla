------------------------------- MODULE NinfTx -------------------------------
(***************************************************************************)
(* The transmit thread of ninf_tx.c on the output ring of the last network *)
(* function of a chain: it copies each ready node to the local `scache',   *)
(* puts the node's packets in a batch per port, sends a batch when it is   *)
(* full and all of them at the end, and marks the node TXING.  The NIC     *)
(* calls cos_tx_cb for every packet it has sent; the last one hands the    *)
(* node back to the function.                                              *)
(*                                                                         *)
(* Nodes are numbered from 0 and node k is in slot k % N.  Packet <<k, j>> *)
(* is the one that entry j of node k points to; a batch entry keeps the    *)
(* address of `scache.pkts[j]', that is j, and its physical address.       *)
(* pkt_cnt is in EosChain.                                                 *)
(***************************************************************************)
EXTENDS Integers, Sequences, FiniteSets, Functions

CONSTANTS
  N,        \* EOS_RING_SIZE
  K,        \* EOS_PKT_PER_ENTRY
  Ports,    \* NIC ports
  B,        \* BURST_SIZE
  Pool,     \* mbufs of tx_mbuf_pool
  MaxNode   \* bound: nodes the network function flushes

ASSUME TxAssumption ==
  /\ N \in Nat \ {0} /\ K \in Nat \ {0} /\ B \in Nat \ {0}
  /\ Pool \in Nat /\ MaxNode \in Nat
  /\ IsFiniteSet(Ports)

VARIABLES
  node,    \* node[s]: state, count and port of each entry
  head,    \* head: the oldest node not yet collected
  tail,    \* tail: the next node to flush
  mcaHead, \* mca_head: the next node to transmit
  pc,      \* where ninf_tx_process is
  scache,  \* the local copy: number of the node, count, ports
  i,       \* its loop index
  batch,   \* batch[p]: send_batch of port p, burst_cnt[p] entries
  burst,   \* ninf_tx_nf_send_burst: port, mbufs left to send, where to return
  nic      \* the mbufs that the NIC has

nfVars == <<head, tail>>
vars   == <<node, nfVars, mcaHead, pc, scache, i, batch, burst, nic>>

Slot(k) == k % N
Slots   == 0..(N - 1)
Entries == 0..(K - 1)
Pkts    == (0..(MaxNode - 1)) \X Entries

\* A tx mbuf: its node, the packet buf_addr and pkt_len describe, and the one at
\* its physical address.
Mbuf(s, meta, phys) == [rn |-> s, meta |-> meta, phys |-> phys]

NoBurst == [port |-> CHOOSE p \in Ports : TRUE, left |-> <<>>, back |-> "scan"]

Init ==
  /\ \E p \in Ports : node = [s \in Slots |-> [st |-> "EMPTY", cnt |-> 0,
                                               port |-> [j \in Entries |-> p]]]
  /\ head = 0 /\ tail = 0 /\ mcaHead = 0
  /\ pc = "scan"
  /\ scache = [num |-> 0, cnt |-> 0, port |-> node[0].port]
  /\ i = 0
  /\ batch = [p \in Ports |-> <<>>]
  /\ burst = NoBurst
  /\ nic = {}

-----------------------------------------------------------------------------
(* The network function: EosChain has the details.                         *)

\* A node of 0..K packets, each for a port.
eos_pkt_send_flush ==
  /\ tail < MaxNode
  /\ node[Slot(tail)].st = "EMPTY"
  /\ \E n \in 0..K, port \in [Entries -> Ports] :
       node' = [node EXCEPT ![Slot(tail)] = [st |-> "SENT_READY", cnt |-> n, port |-> port]]
  /\ tail' = tail + 1
  /\ UNCHANGED <<head, mcaHead, pc, scache, i, batch, burst, nic>>

eos_pkt_collect ==
  /\ node[Slot(head)].st = "SENT_DONE"
  /\ node' = [node EXCEPT ![Slot(head)].st = "EMPTY"]
  /\ head' = head + 1
  /\ UNCHANGED <<tail, mcaHead, pc, scache, i, batch, burst, nic>>

-----------------------------------------------------------------------------
(* ninf_tx_nf_send_burst.                                                  *)

\* Allocate an mbuf for every entry of the batch and fill it in; the entry's
\* meta is read now.
SendBurst(p, back) ==
  LET e == batch[p]
  IN /\ pc' = IF Cardinality(nic) + Len(e) <= Pool THEN "burst" ELSE "abort"
     /\ burst' = [port |-> p, back |-> back,
                  left |-> [n \in 1..Len(e) |->
                              Mbuf(e[n].rn, <<scache.num, e[n].meta>>, e[n].phys)]]

\* One call of rte_eth_tx_burst: the NIC takes some of the mbufs.
rte_eth_tx_burst ==
  /\ pc = "burst"
  /\ \E n \in 1..Len(burst.left) :
       /\ nic' = nic \cup {burst.left[m] : m \in 1..n}
       /\ burst' = [burst EXCEPT !.left = SubSeq(@, n + 1, Len(@))]
       /\ IF n = Len(burst.left)
          THEN pc' = burst.back /\ batch' = [batch EXCEPT ![burst.port] = <<>>]
          ELSE UNCHANGED <<pc, batch>>
  /\ UNCHANGED <<node, nfVars, mcaHead, scache, i>>

\* The NIC has sent the packet of an mbuf and frees it.
MutantTxCb(b) ==
  /\ nic' = nic \ {b}
  /\ node' = [node EXCEPT ![b.rn].cnt = @ - 1, ![b.rn].st = "SENT_DONE"]
  /\ UNCHANGED <<nfVars, mcaHead, pc, scache, i, batch, burst>>
cos_tx_cb(b) ==
  /\ nic' = nic \ {b}
  /\ node' = [node EXCEPT ![b.rn].cnt = @ - 1,
                          ![b.rn].st = IF node[b.rn].cnt = 1 THEN "SENT_DONE" ELSE @]
  /\ UNCHANGED <<nfVars, mcaHead, pc, scache, i, batch, burst>>

-----------------------------------------------------------------------------
(* ninf_tx_process.                                                        *)

\* The head of its loop: copy a ready node, or go and flush the batches.
tx_look ==
  LET sent == node[Slot(mcaHead)]
  IN /\ pc = "scan"
     /\ \/ /\ sent.st = "SENT_READY"
           /\ scache' = [num |-> mcaHead, cnt |-> sent.cnt, port |-> sent.port]
           /\ i' = 0
           /\ pc' = "add"
        \/ /\ sent.st # "SENT_READY"
           /\ pc' = "flush"
           /\ UNCHANGED <<scache, i>>
     /\ UNCHANGED <<node, nfVars, mcaHead, batch, burst, nic>>

\* ninf_tx_add_pkt: send the batch of the port first if it is full.
BatchFull(p) == Len(batch[p]) = B

ninf_tx_add_pkt ==
  LET p == scache.port[i]
  IN /\ pc = "add" /\ i < scache.cnt
     /\ \/ /\ BatchFull(p)
           /\ SendBurst(p, "add")
           /\ UNCHANGED <<i, batch>>
        \/ /\ ~BatchFull(p)
           /\ batch' = [batch EXCEPT ![p] = Append(@,
                          [rn |-> Slot(mcaHead), meta |-> i, phys |-> <<scache.num, i>>])]
           /\ i' = i + 1
           /\ UNCHANGED <<pc, burst>>
     /\ UNCHANGED <<node, nfVars, mcaHead, scache, nic>>

\* The end of the loop's body.
MutantTxMark ==
  /\ pc = "add" /\ i = scache.cnt
  /\ node' = [node EXCEPT ![Slot(mcaHead)].st = "TXING"]
  /\ mcaHead' = mcaHead + 1
  /\ pc' = "scan"
  /\ UNCHANGED <<nfVars, scache, i, batch, burst, nic>>
tx_mark ==
  /\ pc = "add" /\ i = scache.cnt
  /\ node' = [node EXCEPT ![Slot(mcaHead)].st =
                IF scache.cnt # 0 THEN "TXING" ELSE "SENT_DONE"]
  /\ mcaHead' = mcaHead + 1
  /\ pc' = "scan"
  /\ UNCHANGED <<nfVars, scache, i, batch, burst, nic>>

\* ninf_tx_flush, after which ninf_tx_process returns.
MutantTxFlush ==
  /\ pc = "flush"
  /\ pc' = "idle"
  /\ UNCHANGED <<node, nfVars, mcaHead, scache, i, batch, burst, nic>>
ninf_tx_flush ==
  /\ pc = "flush"
  /\ \/ \E p \in Ports : batch[p] # <<>> /\ SendBurst(p, "flush")
     \/ /\ \A p \in Ports : batch[p] = <<>>
        /\ pc' = "idle"
        /\ UNCHANGED burst
  /\ UNCHANGED <<node, nfVars, mcaHead, scache, i, batch, nic>>

\* ninf_tx_scan calls ninf_tx_process again.
ninf_tx_scan ==
  /\ pc = "idle"
  /\ pc' = "scan"
  /\ UNCHANGED <<node, nfVars, mcaHead, scache, i, batch, burst, nic>>

-----------------------------------------------------------------------------
ninf_tx_loop ==
  \/ rte_eth_tx_burst
  \/ tx_look
  \/ ninf_tx_add_pkt
  \/ tx_mark
  \/ ninf_tx_flush
  \/ ninf_tx_scan

Next ==
  \/ eos_pkt_send_flush
  \/ eos_pkt_collect
  \/ ninf_tx_loop
  \/ \E b \in nic : cos_tx_cb(b)

\* The transmit thread has its core, and the NIC sends what it was given.
Fairness ==
  /\ WF_vars(ninf_tx_loop)
  /\ WF_vars(\E b \in nic : cos_tx_cb(b))

Spec == Init /\ [][Next]_vars /\ Fairness

-----------------------------------------------------------------------------
(* Properties.                                                             *)

States == {"EMPTY", "SENT_READY", "TXING", "SENT_DONE"}
Mbufs  == [rn : Slots, meta : Pkts, phys : Pkts]

\* Types: in particular a batch never outgrows send_batch, and the count of a
\* node never leaves 0..K.
TypeOK ==
  /\ node \in [Slots -> [st : States, cnt : 0..K, port : [Entries -> Ports]]]
  /\ head \in Nat /\ tail \in Nat /\ mcaHead \in Nat
  /\ pc \in {"scan", "add", "burst", "flush", "idle", "abort"}
  /\ scache \in [num : Nat, cnt : 0..K, port : [Entries -> Ports]]
  /\ i \in 0..K
  /\ \A p \in Ports :
       /\ Len(batch[p]) <= B
       /\ \A n \in 1..Len(batch[p]) :
            batch[p][n] \in [rn : Slots, meta : Entries, phys : Pkts]
  /\ \A n \in 1..Len(burst.left) : burst.left[n] \in Mbufs
  /\ nic \subseteq Mbufs

\* ninf_tx_process is in the middle of a node.
Adding == pc = "add" \/ (pc = "burst" /\ burst.back = "add")

\* Node and packet of each entry of a batch, or of each mbuf.
PhysOf(es) == {<<e.rn, e.phys>> : e \in es}

\* The packets of slot s that the NIC has still to send: with the NIC, in the rest
\* of a burst, or in the batch of a port that is not being sent; and, of the node
\* in hand, the ones still to be added.
Unsent(s) ==
  LET idle == {p \in Ports : pc # "burst" \/ p # burst.port}
      all  == PhysOf(nic) \cup PhysOf(Range(burst.left))
                \cup UNION {PhysOf(Range(batch[p])) : p \in idle}
      rest == IF Adding /\ s = Slot(mcaHead) THEN scache.cnt - i ELSE 0
  IN Cardinality({q \in all : q[1] = s}) + rest

\* The count of a taken node is the number of its packets that the NIC still has
\* to send: it is handed back when, and only when, the last one is sent, although
\* a full batch may send its first packets before it is marked TXING.
References ==
  \A k \in head..(tail - 1) :
    LET n == node[Slot(k)]
    IN /\ n.st = "TXING" => n.cnt = Unsent(Slot(k)) /\ n.cnt > 0
       /\ n.st = "SENT_DONE" => Unsent(Slot(k)) = 0
       /\ n.st = "SENT_READY" /\ Adding /\ k = mcaHead =>
            n.cnt = Unsent(Slot(k)) /\ (scache.cnt > 0 => n.cnt > 0)

\* The batches point into the stack frame of ninf_tx_process: they are empty
\* when it returns.
FrameLive == pc = "idle" => \A p \in Ports : batch[p] = <<>>

\* A pool with a buffer for every entry of the ring is never exhausted, so the
\* assert(0) of ninf_tx_nf_send_burst is not reached.
PoolEnough == Pool >= N * K => pc # "abort"

\* The NIC reads each packet from where it is: no packet is with it twice, and
\* its node has not been handed back.
NicReads ==
  /\ \A b \in nic : /\ b.rn = Slot(b.phys[1])
                    /\ b.phys[1] \in head..(tail - 1)
                    /\ node[b.rn].st \in {"SENT_READY", "TXING"}
  /\ \A b, c \in nic : b # c => b.phys # c.phys

\* What the batches and the NIC point to is there for as long as they do.
Pointers == TypeOK /\ FrameLive /\ NicReads

\* Every node that is flushed is handed back, the empty ones too.
HandedBack == \A k \in 0..(MaxNode - 1) :
  (tail > k) ~> (head > k \/ node[Slot(k)].st = "SENT_DONE")

\* buf_addr and pkt_len of an mbuf describe the packet at its physical address
\* ("physical address of pkt in this meta", struct tx_pkt_batch).
MetaIsOfPkt == \A b \in nic : b.meta = b.phys
=============================================================================
