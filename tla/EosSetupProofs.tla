--------------------------- MODULE EosSetupProofs ---------------------------
(***************************************************************************)
(* Proofs about EosSetup.  However the manager that puts chains into the   *)
(* caches and the receive thread that takes them interleave, each chain    *)
(* has one owner (OwnChains); wherever the manager stops, because a table  *)
(* is full or a thread is not there in time, a chain in a cache is         *)
(* complete, so that no assertion of the receive thread fails              *)
(* (SetupAsserts) and a packet finds its way through what was linked       *)
(* (LinksRight).  All of it for every value of the constants.              *)
(***************************************************************************)
EXTENDS EosSetup, FiniteSetTheorems, WellFoundedInduction, TLAPS

Cores == 0 .. NCore - 1
Ptr   == 0 .. NumChains

MgrPcs == {"init", "wait", "fork", "ask", "use", "put", "put_cas", "assert", "no_segment", "null"}
RxPcs  == {"wait", "count", "loop", "get_test", "get", "get_cas", "no_chain",
           "tx_add", "activate", "conn", "enter", "assert"}
PcType == [mgr : MgrPcs, mca : {"wait", "loop"}, rx : RxPcs, tx : {"wait", "count", "loop"}]

ChainRec == [core : Cores, nf : Nat, shmem : Nat]
Links  == [chain : Chain, j : Nat, src : Nat, dst : Nat]

\* The types.  What the receive thread keeps in cur is of its flow while it serves one.
Types ==
  /\ init_core_done \in Nat /\ rx_init_done \in BOOLEAN
  /\ pc \in PcType
  /\ ids \in [nf : Nat, chain : Nat, shmem : Nat, template : Nat]
  /\ chains \in Seq(ChainRec) /\ Len(chains) <= NumChains
  /\ head \in [Cores -> Ptr] /\ next \in [Chain -> Ptr]
  /\ put \in Ptr /\ major \in Cores
  /\ cur \in [cid : Cid \union {0}, core : Cores, chain : Ptr, t : Ptr, k : Nat]
  /\ outs \in [Cid -> Ptr]

-----------------------------------------------------------------------------
(* The caches.                                                             *)

\* The receive thread has taken a chain for its flow, and is busy with a flow.
Holding == pc.rx \in {"tx_add", "activate", "conn", "enter", "assert"}
Busy    == pc.rx \notin {"wait", "count", "loop"}

\* Chain c has been put into a cache.
Pushed(c) == c \in 1 .. Len(chains) /\ ~(c = Len(chains) /\ Unfinished)

\* The chains that should be in the cache of core k.
Stack(k) == {c \in Chain : Pushed(c) /\ chains[c].core = k /\ c \notin Taken}

\* x is the greatest of S, or 0 if there is none.
IsTop(x, S) == (x = 0 /\ S = {}) \/ (x \in S /\ \A c \in S : c <= x)

\* Chains are put in the order of their ids, so that a cache is linked downwards.
Shape == \A k \in Cores :
  /\ IsTop(head[k], Stack(k))
  /\ \A c \in Stack(k) : IsTop(next[c], {d \in Stack(k) : d < c})

\* What fwp_chain_put is going to exchange for.
PutLocals ==
  /\ Unfinished => Len(chains) > 0
  /\ pc.mgr = "put_cas" => next[Len(chains)] = put

\* What fwp_chain_get is: nobody else takes from the cache, so that the chain
\* it found first stays there, over the same one.
GetLocals ==
  /\ pc.rx = "get" => head[cur.core] # 0
  /\ pc.rx = "get_cas" => cur.chain \in Stack(cur.core) /\ cur.t = next[cur.chain]

\* A flow, and the one the receive thread is busy with, has a chain of its own.
Flows ==
  /\ Busy => cur.cid \in Cid /\ outs[cur.cid] = 0
  /\ Holding => Pushed(cur.chain)
  /\ \A f \in Cid : outs[f] # 0 => Pushed(outs[f]) /\ (Holding => outs[f] # cur.chain)
  /\ \A f, g \in Cid : f # g /\ outs[f] # 0 => outs[f] # outs[g]

OwnInv == Types /\ Shape /\ PutLocals /\ GetLocals /\ Flows

-----------------------------------------------------------------------------
(* The tables.                                                             *)

\* The ids of the functions of chain c begin here; the template is chain 0.
Base(c) == 2 + ChainLen * c

One(b) == IF b THEN 1 ELSE 0

\* Every core counts itself once, and the manager waits for all.
Boot ==
  /\ init_core_done = One(pc.mgr # "init") + One(pc.mca = "loop")
                      + One(pc.rx \notin {"wait", "count"}) + One(pc.tx = "loop")
  /\ pc.mgr \notin {"init", "wait"} => pc.tx = "loop"
  /\ pc.tx = "wait" => tx = <<>> /\ tpos = 0 /\ txfree = 0
  /\ pc.tx # "wait" => txfree + Len(tx) = EOS_MAX_CHAIN_NUM
  /\ txfree \in Nat

\* Ids are dealt in blocks of ChainLen, those of segments one after the other.
Ids ==
  /\ ids.template = 0 =>
       /\ pc.mgr \in {"init", "wait", "assert"} /\ chains = <<>>
       /\ ids = [nf |-> 2, chain |-> 0, shmem |-> 0, template |-> 0]
  /\ ids.template # 0 => pc.mgr \notin {"init", "wait"} /\ ids.nf = Base(Len(chains) + 1)
  /\ ids.template # 0 /\ ~Unfinished => ids.shmem = Base(Len(chains) + 1) - 2
  /\ \A c \in 1 .. Len(chains) : chains[c].nf = Base(c) /\ chains[c].shmem = Base(c) - 2

\* The first i functions of chain c, and all of them.
Upto(c, i) == Base(c) .. Base(c) + i - 1
Block(c) == Upto(c, ChainLen)

\* The newest chain has i segments.
Segs(i) == ids.shmem = Base(Len(chains)) - 2 + i

\* A chain in a cache has all its threads, the newest those that the manager has seen.
Threads ==
  /\ up \subseteq Cores /\ req \in Nat /\ thds \subseteq Nat
  /\ \A c \in Chain : Pushed(c) => Block(c) \subseteq thds
  /\ pc.mgr = "ask" => \E i \in 0 .. ChainLen - 1 : Segs(i) /\ Upto(Len(chains), i) \subseteq thds
  /\ pc.mgr = "use" => \E i \in 0 .. ChainLen - 1 : Segs(i + 1) /\ Upto(Len(chains), i) \subseteq thds
  /\ pc.mgr \in {"put", "put_cas"} => Segs(ChainLen) /\ Block(Len(chains)) \subseteq thds

\* What the manager has made.
Made == Ids /\ Threads

\* The transmit list has the chains of the flows, each once.
TxList ==
  /\ tx \in Seq(Chain) /\ tpos \in 0 .. Len(tx)
  /\ \A m, n \in 1 .. Len(tx) : tx[m] = tx[n] => m = n
  /\ \A n \in 1 .. Len(tx) :
       \/ \E f \in Cid : outs[f] = tx[n]
       \/ pc.rx \in {"activate", "conn", "enter"} /\ tx[n] = cur.chain
  /\ pc.rx \in {"activate", "conn", "enter"} => Len(tx) > 0

\* The connections of a chain are made one after the other.
ConnCount ==
  /\ conns \in Seq(Links) /\ mpos \in 0 .. Len(conns)
  /\ pc.rx # "assert"
  /\ pc.rx \notin {"activate", "conn"} => Len(conns) = Base(Len(tx)) - 2
  /\ pc.rx = "activate" => cur.k \in 1 .. ChainLen /\ Len(conns) = Base(Len(tx) - 1) + cur.k - 3
  /\ pc.rx = "conn" => Len(conns) = Base(Len(tx)) - 3

\* The entry of a thread of chain c.
Entry(c, j) == FirstTid + Base(c) + j - 1 + EOS_MAX_CHAIN_NUM

\* A connection leads to a function of its chain.
Linked == \A n \in 1 .. Len(conns) : conns[n].j < ChainLen

\* The entries of flows in use.
Infos ==
  /\ infos \subseteq Nat
  /\ \A f \in infos : f < EOS_MAX_CHAIN_NUM =>
       f \in Cid /\ (outs[f] # 0 \/ (pc.rx = "enter" /\ f = cur.cid))

\* The functions of a chain that a packet can be on have their addresses.
Ready ==
  /\ addr \subseteq Nat /\ woken \subseteq Nat
  /\ pkt \in [Chain -> -1 .. 2 * ChainLen]
  /\ pc.rx \in {"conn", "enter"} => Block(cur.chain) \subseteq addr
  /\ \A f \in Cid : outs[f] # 0 => Block(outs[f]) \subseteq addr
  /\ \A c \in Chain : pkt[c] # -1 => \E f \in Cid : outs[f] = c

\* Addressed, by the ids of the functions.
Woken == \A c \in Chain : \A j \in 1 .. ChainLen : pkt[c] = 2 * j - 1 => Base(c) + j - 1 \in woken

\* All of it.
SetupInv ==
  /\ OwnInv
  /\ Boot /\ Made /\ TxList /\ ConnCount
  /\ Linked /\ Infos /\ Ready /\ Woken

-----------------------------------------------------------------------------
(* Facts about the constants and the program counters.                     *)

LEMMA Numbers ==
  /\ NCore \in Nat /\ NCore > 0 /\ PerCore \in Nat /\ PerCore > 0 /\ ChainLen \in Nat /\ ChainLen > 0
  /\ ChainTypes \in Nat /\ NfTypes \in Nat /\ MaxChainLen \in Nat /\ ConnMax \in Nat /\ FirstTid \in Nat
  /\ Cid \subseteq Nat /\ NumChains \in Nat
<1>1. NCore \in Nat \ {0} /\ PerCore \in Nat \ {0} /\ ChainLen \in Nat \ {0}
  BY SetupAssumption
<1>2. /\ ChainTypes \in Nat /\ NfTypes \in Nat /\ MaxChainLen \in Nat /\ ConnMax \in Nat
      /\ FirstTid \in Nat /\ Cid \subseteq Nat
  BY SetupAssumption
<1> QED BY <1>1, <1>2 DEF NumChains

\* Chains and pointers to them.
LEMMA Pointers ==
  /\ \A x : x \in Chain <=> x \in Nat /\ x > 0 /\ x <= NumChains
  /\ \A x : x \in Ptr <=> x = 0 \/ x \in Chain
  /\ 0 \notin Chain /\ 0 \in Ptr /\ Chain \subseteq Ptr /\ 0 \in Cores
  /\ \A k : k \in Cores <=> k \in Nat /\ k < NCore
  BY Numbers DEF Chain, Ptr, Cores

\* The core a chain is forked for.
LEMMA CoreOf ==
  ASSUME NEW n \in Nat, n < NumChains
  PROVE  n \div PerCore \in Cores
<1> DEFINE q == n \div PerCore
<1>1. q \in Int /\ q >= 0 /\ PerCore * q <= n
  BY Numbers
<1>2. CASE q >= NCore
  <2>1. PICK e \in Nat : q = NCore + e
    <3>1. q - NCore \in Nat /\ q = NCore + (q - NCore)
      <4> HIDE DEF q
      <4> QED BY <1>1, <1>2, Numbers
    <3> QED BY <3>1
  <2>2. PerCore * (NCore + e) = NCore * PerCore + PerCore * e
    BY Numbers
  <2>3. PerCore * e \in Nat
    BY Numbers
  <2>4. PerCore * q >= NCore * PerCore
    BY <2>1, <2>2, <2>3, Numbers
  <2> QED BY <1>1, <2>4, Numbers DEF NumChains
<1> HIDE DEF q
<1>3. q \in Cores
  BY <1>1, <1>2, Numbers DEF Cores
<1> QED BY <1>3 DEF q

\* A step of one core leaves the others where they are.
LEMMA PcMoves ==
  ASSUME pc \in PcType
  PROVE  /\ \A l \in MgrPcs : Goto("mgr", l) =>
              pc' \in PcType /\ pc'.mgr = l /\ pc'.mca = pc.mca /\ pc'.rx = pc.rx /\ pc'.tx = pc.tx
         /\ \A l \in {"wait", "loop"} : Goto("mca", l) =>
              pc' \in PcType /\ pc'.mca = l /\ pc'.mgr = pc.mgr /\ pc'.rx = pc.rx /\ pc'.tx = pc.tx
         /\ \A l \in RxPcs : Goto("rx", l) =>
              pc' \in PcType /\ pc'.rx = l /\ pc'.mgr = pc.mgr /\ pc'.mca = pc.mca /\ pc'.tx = pc.tx
         /\ \A l \in {"wait", "count", "loop"} : Goto("tx", l) =>
              pc' \in PcType /\ pc'.tx = l /\ pc'.mgr = pc.mgr /\ pc'.mca = pc.mca /\ pc'.rx = pc.rx
<1>1. ASSUME NEW l \in MgrPcs, Goto("mgr", l)
      PROVE pc' \in PcType /\ pc'.mgr = l /\ pc'.mca = pc.mca /\ pc'.rx = pc.rx /\ pc'.tx = pc.tx
  BY <1>1 DEF Goto, PcType
<1>2. ASSUME NEW l \in {"wait", "loop"}, Goto("mca", l)
      PROVE pc' \in PcType /\ pc'.mca = l /\ pc'.mgr = pc.mgr /\ pc'.rx = pc.rx /\ pc'.tx = pc.tx
  BY <1>2 DEF Goto, PcType
<1>3. ASSUME NEW l \in RxPcs, Goto("rx", l)
      PROVE pc' \in PcType /\ pc'.rx = l /\ pc'.mgr = pc.mgr /\ pc'.mca = pc.mca /\ pc'.tx = pc.tx
  BY <1>3 DEF Goto, PcType
<1>4. ASSUME NEW l \in {"wait", "count", "loop"}, Goto("tx", l)
      PROVE pc' \in PcType /\ pc'.tx = l /\ pc'.mgr = pc.mgr /\ pc'.mca = pc.mca /\ pc'.rx = pc.rx
  BY <1>4 DEF Goto, PcType
<1> QED BY <1>1, <1>2, <1>3, <1>4

-----------------------------------------------------------------------------
(* The caches.                                                             *)

\* Who has a chain.
LEMMA TakenIs ==
  ASSUME NEW c
  PROVE  /\ c \in Taken <=> (\E f \in Cid : outs[f] # 0 /\ outs[f] = c) \/ (Holding /\ c = cur.chain)
         /\ c \in Taken' <=> (\E f \in Cid : outs'[f] # 0 /\ outs'[f] = c) \/ (Holding' /\ c = cur'.chain)
  BY DEF Taken, Holding

\* The least member of a set of numbers.
LEMMA Minimum ==
  ASSUME NEW S, S \subseteq Nat, S # {}
  PROVE  \E x \in S : \A y \in S : x <= y
<1>1. \E x \in S : \A y \in S : ~ (<<y, x>> \in OpToRel(<, Nat))
  BY NatLessThanWellFounded, WFMin
<1>2. PICK x \in S : \A y \in S : ~ (<<y, x>> \in OpToRel(<, Nat))
  BY <1>1
<1>3. ASSUME NEW y \in S PROVE x <= y
  <2>1. ~(y < x)
    BY <1>2 DEF OpToRel
  <2> QED BY <2>1
<1> QED BY <1>3

\* A chain that should be in a cache is.
LEMMA CachedIsStack ==
  ASSUME Types, Shape, NEW k \in Cores
  PROVE  Cached(k) = Stack(k)
<1> USE Numbers
<1>0. /\ IsTop(head[k], Stack(k)) /\ \A c \in Stack(k) : IsTop(next[c], {d \in Stack(k) : d < c})
      /\ Stack(k) \subseteq Chain /\ \A c \in Stack(k) : c \in Nat /\ c > 0 /\ c <= NumChains
      /\ head \in [Cores -> Ptr] /\ next \in [Chain -> Ptr]
  <2>1. IsTop(head[k], Stack(k)) /\ \A c \in Stack(k) : IsTop(next[c], {d \in Stack(k) : d < c})
    BY DEF Shape
  <2>2. Stack(k) \subseteq Chain /\ \A c \in Stack(k) : c \in Nat /\ c > 0 /\ c <= NumChains
    BY DEF Stack, Chain
  <2> QED BY <2>1, <2>2 DEF Types
<1>1. PICK T : T = Stack(k)
  OBVIOUS
<1>2. {head[k]} \union {next[d] : d \in T} \subseteq T \union {0}
  <2>1. head[k] \in T \union {0}
    BY <1>0, <1>1 DEF IsTop
  <2>2. ASSUME NEW d \in T PROVE next[d] \in T \union {0}
    BY <1>0, <1>1 DEF IsTop
  <2> QED BY <2>1, <2>2
<1>3. Cached(k) \subseteq T
  BY <1>0, <1>1, <1>2 DEF Cached
<1>4. ASSUME NEW S \in SUBSET Chain, {head[k]} \union {next[d] : d \in S} \subseteq S \union {0},
             NEW c \in T
      PROVE  c \in S
  <2> DEFINE M == {n \in Nat : \E d \in T : d \notin S /\ n = NumChains - d}
  <2>1. SUFFICES ASSUME c \notin S PROVE FALSE
    OBVIOUS
  <2>2. M \subseteq Nat /\ M # {}
    <3>1. NumChains - c \in Nat
      BY <1>0, <1>1
    <3>2. NumChains - c \in M
      BY <2>1, <3>1
    <3> QED BY <3>2
  <2> HIDE DEF M
  <2>3. PICK m \in M : \A n \in M : m <= n
    BY <2>2, Minimum
  <2>4. PICK d \in T : d \notin S /\ m = NumChains - d
    BY <2>3 DEF M
  <2>5. \A e \in T : e > d => e \in S
    <3> SUFFICES ASSUME NEW e \in T, e > d, e \notin S PROVE FALSE
      OBVIOUS
    <3>1. NumChains - e \in Nat /\ NumChains - e < m
      BY <1>0, <1>1, <2>4
    <3>2. NumChains - e \in M
      BY <3>1 DEF M
    <3> QED BY <2>3, <3>1, <3>2, <2>2
  <2>6. head[k] # d /\ head[k] \in T /\ head[k] > d
    <3>1. head[k] # d
      BY <1>4, <2>4, <1>0, <1>1
    <3>2. head[k] \in T /\ d <= head[k]
      BY <1>0, <1>1 DEF IsTop
    <3> QED BY <1>0, <1>1, <3>1, <3>2
  <2> DEFINE U == {n \in Nat : n \in T /\ n > d}
  <2>7. U \subseteq Nat /\ U # {}
    BY <1>0, <1>1, <2>6
  <2> HIDE DEF U
  <2>8. PICK u \in U : \A n \in U : u <= n
    BY <2>7, Minimum
  <2>9. u \in T /\ u > d /\ u \in S /\ \A n \in T : n > d => u <= n
    BY <1>0, <1>1, <2>5, <2>8 DEF U
  <2>10. next[u] = d
    <3>1. IsTop(next[u], {e \in T : e < u}) /\ d \in {e \in T : e < u}
      BY <1>0, <1>1, <2>9
    <3>2. next[u] \in T /\ next[u] < u /\ d <= next[u]
      BY <3>1 DEF IsTop
    <3> QED BY <1>0, <1>1, <2>9, <3>2
  <2>11. next[u] \in S \union {0}
    BY <1>4, <2>9
  <2> QED BY <2>4, <2>10, <2>11, <1>0, <1>1
<1>5. T \subseteq Cached(k)
  BY <1>0, <1>1, <1>4 DEF Cached
<1> QED BY <1>1, <1>3, <1>5

\* A step that leaves the caches and the owners as they are.
LEMMA OwnFrame ==
  ASSUME OwnInv, Types', UNCHANGED <<chains, head, next, put, outs>>,
         Unfinished' <=> Unfinished, pc'.mgr = "put_cas" => pc.mgr = "put_cas",
         cur'.cid = cur.cid, cur'.core = cur.core, cur'.chain = cur.chain, cur'.t = cur.t,
         Holding' <=> Holding, Busy' => Busy,
         pc'.rx = "get" => pc.rx = "get", pc'.rx = "get_cas" => pc.rx = "get_cas"
  PROVE  OwnInv'
<1>1. \A c : Pushed(c)' <=> Pushed(c)
  BY DEF Pushed
<1>2. Taken' = Taken
  <2>1. \A c : c \in Taken' <=> c \in Taken
    BY TakenIs
  <2> QED BY <2>1
<1>3. \A k : Stack(k)' = Stack(k)
  BY <1>1, <1>2 DEF Stack
<1>4. Shape'
  <2> SUFFICES ASSUME NEW k \in Cores
               PROVE  /\ IsTop(head[k], Stack(k)')
                      /\ \A c \in Stack(k)' : IsTop(next[c], {d \in Stack(k)' : d < c})
    BY DEF Shape, IsTop
  <2>1. IsTop(head[k], Stack(k)) /\ \A c \in Stack(k) : IsTop(next[c], {d \in Stack(k) : d < c})
    BY DEF OwnInv, Shape
  <2> QED BY <1>3, <2>1
<1>5. PutLocals'
  BY DEF OwnInv, PutLocals
<1>6. GetLocals'
  <2>2. ASSUME pc'.rx = "get_cas" PROVE (cur.chain \in Stack(cur.core))'
    <3>1. PICK k : k = cur.core
      OBVIOUS
    <3>2. cur.chain \in Stack(k)
      BY <2>2, <3>1 DEF OwnInv, GetLocals
    <3>3. cur'.chain \in Stack(k)'
      BY <1>3, <3>2
    <3> QED BY <3>1, <3>3 DEF Stack
  <2> QED BY <2>2 DEF OwnInv, GetLocals
<1>7. Flows'
  BY <1>1 DEF OwnInv, Flows
<1> QED BY <1>4, <1>5, <1>6, <1>7 DEF OwnInv

\* The types are kept.
LEMMA TypesStep ==
  ASSUME OwnInv, [Next]_vars
  PROVE  Types'
<1> DEFINE CurType == [cid : Cid \union {0}, core : Cores, chain : Ptr, t : Ptr, k : Nat]
           IdType == [nf : Nat, chain : Nat, shmem : Nat, template : Nat]
<1>t. /\ Types /\ pc \in PcType /\ 0 \in Ptr /\ 0 \in Cores /\ cur \in CurType /\ ids \in IdType
      /\ head \in [Cores -> Ptr] /\ next \in [Chain -> Ptr] /\ outs \in [Cid -> Ptr] /\ Chain \subseteq Ptr
  BY Pointers DEF OwnInv, Types
<1>m. ASSUME UNCHANGED <<ids, chains, put, head, next, major, cur, outs>>,
             init_core_done' \in Nat, rx_init_done' \in BOOLEAN, pc' \in PcType
      PROVE  Types'
  BY <1>m, <1>t DEF Types
<1>i. /\ ids.nf \in Nat /\ ids.chain \in Nat /\ ids.shmem \in Nat /\ ids.template \in Nat
      /\ ids.nf + ChainLen \in Nat /\ ids.chain + 1 \in Nat /\ ids.shmem + ChainLen \in Nat
      /\ ids.template + ChainLen \in Nat
  <2>1. ids.nf \in Nat /\ ids.chain \in Nat /\ ids.shmem \in Nat /\ ids.template \in Nat
    BY <1>t
  <2> QED BY <2>1, Numbers
<1>1. CASE mgr_init \/ mca_start \/ rx_start \/ tx_start
  <2>1. init_core_done' \in Nat
    BY <1>1, <1>t DEF mgr_init, mca_start, rx_start, tx_start, Count, Types
  <2>2. pc' \in PcType
    BY <1>1, <1>t, PcMoves DEF mgr_init, mca_start, rx_start, tx_start, MgrPcs, RxPcs
  <2>3. UNCHANGED <<ids, chains, put, head, next, major, cur, outs, rx_init_done>>
    BY <1>1 DEF mgr_init, mca_start, rx_start, tx_start, mgrVars, rxVars
  <2> QED BY <1>m, <1>t, <2>1, <2>2, <2>3 DEF Types
<1>2. CASE rx_init \/ ninf_tx_init
  <2>1. UNCHANGED <<ids, chains, put, head, next, major, cur, outs, init_core_done>>
    BY <1>2 DEF rx_init, ninf_tx_init, mgrVars, rxVars, bootVars
  <2>2. pc' \in PcType
    BY <1>2, <1>t, PcMoves DEF rx_init, ninf_tx_init, MgrPcs, RxPcs
  <2>3. rx_init_done' \in BOOLEAN
    BY <1>2, <1>t DEF rx_init, ninf_tx_init, bootVars, Types
  <2> QED BY <1>m, <1>t, <2>1, <2>2, <2>3 DEF Types
<1>3. CASE mgr_template
  <2>1. UNCHANGED <<chains, put, head, next, major, cur, outs, init_core_done, rx_init_done>>
    BY <1>3 DEF mgr_template, rxVars, bootVars
  <2>2. pc' \in PcType
    BY <1>3, <1>t, PcMoves DEF mgr_template, MgrPcs
  <2>3. ids' \in IdType
    <3>1. \/ ids' = ids
          \/ ids' = [nf |-> ids.nf + ChainLen, chain |-> ids.chain + 1,
                     shmem |-> ids.shmem + ChainLen, template |-> ids.template + ChainLen]
      BY <1>3 DEF mgr_template
    <3> QED BY <1>t, <1>i, <3>1
  <2> QED BY <1>t, <2>1, <2>2, <2>3 DEF Types
<1>4. CASE fwp_allocate_chain
  <2>1. UNCHANGED <<put, head, next, major, cur, outs, init_core_done, rx_init_done>>
    BY <1>4 DEF fwp_allocate_chain, rxVars, bootVars
  <2>2. pc' \in PcType
    BY <1>4, <1>t, PcMoves DEF fwp_allocate_chain, MgrPcs
  <2>3. ids' \in IdType
    <3>1. ids' = ids \/ ids' = NextIds
      BY <1>4 DEF fwp_allocate_chain
    <3>2. NextIds \in IdType
      BY <1>t, <1>i DEF NextIds
    <3> QED BY <1>t, <3>1, <3>2
  <2>4. chains' \in Seq(ChainRec) /\ Len(chains') <= NumChains
    <3>1. chains \in Seq(ChainRec) /\ Len(chains) \in Nat /\ Len(chains) < NumChains
      BY <1>4, <1>t DEF fwp_allocate_chain, Types
    <3>2. Len(chains) \div PerCore \in Cores
      BY <3>1, CoreOf
    <3>3. [core |-> Len(chains) \div PerCore, nf |-> ids.nf, shmem |-> ids.shmem] \in ChainRec
      BY <1>t, <3>2 DEF ChainRec
    <3>4. PICK e \in ChainRec : chains' = Append(chains, e) \/ chains' = chains
      BY <1>4, <3>3 DEF fwp_allocate_chain
    <3>5. Append(chains, e) \in Seq(ChainRec) /\ Len(Append(chains, e)) = Len(chains) + 1
      BY <3>1
    <3> QED BY <3>1, <3>4, <3>5, Numbers
  <2> QED BY <1>t, <2>1, <2>2, <2>3, <2>4 DEF Types
<1>s. CASE sl_xcpu_initaep_alloc
  <2>1. UNCHANGED <<chains, put, head, next, major, cur, outs, init_core_done, rx_init_done>>
    BY <1>s DEF sl_xcpu_initaep_alloc, rxVars, bootVars
  <2>2. pc' \in PcType
    BY <1>s, <1>t, PcMoves DEF sl_xcpu_initaep_alloc, MgrPcs
  <2>3. ids' \in IdType
    <3>1. PICK n \in Nat : n = ids.shmem + 1
      BY <1>i
    <3>2. ids' = ids \/ ids' = [ids EXCEPT !.shmem = n]
      BY <1>s, <3>1 DEF sl_xcpu_initaep_alloc
    <3> QED BY <1>t, <3>2
  <2> QED BY <1>t, <2>1, <2>2, <2>3 DEF Types
<1>u. CASE _fwp_fork_cont
  <2>1. pc' \in PcType
    <3>1. PICK l \in MgrPcs : Goto("mgr", l)
      BY <1>u DEF _fwp_fork_cont, MgrPcs
    <3> QED BY <3>1, <1>t, PcMoves
  <2> QED BY <1>m, <1>t, <1>u, <2>1 DEF _fwp_fork_cont, mgrVars, rxVars, bootVars, Types
<1>c. Unfinished => chains[Len(chains)] \in ChainRec /\ chains[Len(chains)].core \in Cores /\ Len(chains) \in Chain
  <2> SUFFICES ASSUME Unfinished
               PROVE  chains[Len(chains)] \in ChainRec /\ chains[Len(chains)].core \in Cores /\ Len(chains) \in Chain
    OBVIOUS
  <2>1. Len(chains) > 0 /\ chains \in Seq(ChainRec) /\ Len(chains) <= NumChains
    BY DEF OwnInv, PutLocals, Types
  <2>2. Len(chains) \in Chain /\ chains[Len(chains)] \in ChainRec
    BY <2>1, Pointers
  <2> QED BY <2>2 DEF ChainRec
<1>5. CASE put_load
  <2>1. UNCHANGED <<ids, chains, head, major, cur, outs, init_core_done, rx_init_done>>
    BY <1>5 DEF put_load, rxVars, bootVars
  <2>2. pc' \in PcType
    BY <1>5, <1>t, PcMoves DEF put_load, MgrPcs
  <2>3. put' \in Ptr /\ next' \in [Chain -> Ptr]
    <3>1. put' = head[chains[Len(chains)].core] /\ next' = [next EXCEPT ![Len(chains)] = put'] /\ Unfinished
      BY <1>5 DEF put_load, Unfinished
    <3> QED BY <1>c, <1>t, <3>1
  <2> QED BY <1>t, <2>1, <2>2, <2>3 DEF Types
<1>6. CASE put_cas
  <2>1. UNCHANGED <<ids, chains, put, next, major, cur, outs, init_core_done, rx_init_done>>
    BY <1>6 DEF put_cas, mgrVars, rxVars, bootVars
  <2>2. pc' \in PcType
    BY <1>6, <1>t, PcMoves DEF put_cas, MgrPcs
  <2>3. head' \in [Cores -> Ptr]
    <3>1. (head' = [head EXCEPT ![chains[Len(chains)].core] = Len(chains)] \/ head' = head) /\ Unfinished
      BY <1>6 DEF put_cas, Unfinished
    <3> QED BY <1>c, <1>t, <3>1
  <2> QED BY <1>t, <2>1, <2>2, <2>3 DEF Types
<1>7. ASSUME NEW f \in Cid, rx_send(f)
      PROVE  Types'
  BY <1>m, <1>t, <1>7 DEF rx_send, mgrVars, rxVars, bootVars, Types
<1>8. ASSUME NEW f \in Cid, ninf_flow2_core(f)
      PROVE  Types'
  <2>1. UNCHANGED <<ids, chains, put, head, next, outs, init_core_done, rx_init_done>>
    BY <1>8 DEF ninf_flow2_core, mgrVars, bootVars
  <2>2. pc' \in PcType
    BY <1>8, <1>t, PcMoves DEF ninf_flow2_core, RxPcs
  <2>3. major' \in Cores
    <3>1. major' = NextMajor(major) /\ major \in Cores
      BY <1>8, <1>t DEF ninf_flow2_core, Types
    <3> QED BY <3>1, Pointers, Numbers DEF NextMajor
  <2>4. NoCur \in CurType /\ major \in Cores
    BY <1>t DEF NoCur, Types
  <2>5. cur' \in CurType
    BY <1>8, <2>4 DEF ninf_flow2_core
  <2> QED BY <1>t, <2>1, <2>2, <2>3, <2>5 DEF Types
<1>9. CASE get_test
  <2>1. pc' \in PcType
    <3>1. PICK l \in RxPcs : Goto("rx", l)
      BY <1>9 DEF get_test, RxPcs
    <3> QED BY <3>1, <1>t, PcMoves
  <2> QED BY <1>m, <1>t, <1>9, <2>1 DEF get_test, mgrVars, rxVars, bootVars, Types
<1>10. CASE get_load
  <2>1. UNCHANGED <<ids, chains, put, head, next, major, outs, init_core_done, rx_init_done>>
    BY <1>10 DEF get_load, mgrVars, bootVars
  <2>2. pc' \in PcType
    BY <1>10, <1>t, PcMoves DEF get_load, RxPcs
  <2>3. PICK r : r = head[cur.core] /\ cur' = [cur EXCEPT !.chain = r, !.t = next[r]] /\ r # 0
    BY <1>10 DEF get_load, OwnInv, GetLocals
  <2>4. r \in Chain /\ next[r] \in Ptr
    <3>1. cur.core \in Cores
      BY <1>t
    <3> QED BY <1>t, <2>3, <3>1, Pointers
  <2>5. cur' \in CurType
    BY <1>t, <2>3, <2>4
  <2> QED BY <1>t, <2>1, <2>2, <2>5 DEF Types
<1>11. CASE get_cas
  <2>1. UNCHANGED <<ids, chains, put, next, major, cur, outs, init_core_done, rx_init_done>>
    BY <1>11 DEF get_cas, mgrVars, rxVars, bootVars
  <2>2. pc' \in PcType
    BY <1>11, <1>t, PcMoves DEF get_cas, RxPcs
  <2>3. head' \in [Cores -> Ptr]
    BY <1>11, <1>t DEF get_cas
  <2> QED BY <1>t, <2>1, <2>2, <2>3 DEF Types
<1>12. CASE ninf_tx_add_ring
  <2>1. UNCHANGED <<ids, chains, put, head, next, major, outs, init_core_done, rx_init_done>>
    BY <1>12 DEF ninf_tx_add_ring, mgrVars, bootVars
  <2>2. pc' \in PcType
    BY <1>12, <1>t, PcMoves DEF ninf_tx_add_ring, RxPcs
  <2>3. cur' \in CurType
    BY <1>12, <1>t DEF ninf_tx_add_ring
  <2> QED BY <1>t, <2>1, <2>2, <2>3 DEF Types
<1>13. CASE activate_conn \/ conn_first
  <2>1. PICK j, l : l \in {"activate", "enter"} /\ mca_conn_create(j, l)
    <3>1. CASE activate_conn
      BY <3>1 DEF activate_conn
    <3>2. CASE conn_first
      BY <3>2 DEF conn_first
    <3> QED BY <1>13, <3>1, <3>2
  <2>2. UNCHANGED <<ids, chains, put, head, next, major, outs, init_core_done, rx_init_done>>
    BY <2>1 DEF mca_conn_create, mgrVars, bootVars
  <2>3. pc' \in PcType
    <3>1. PICK m \in RxPcs : Goto("rx", m)
      BY <2>1 DEF mca_conn_create, RxPcs
    <3> QED BY <3>1, <1>t, PcMoves
  <2>4. cur' \in CurType
    BY <1>13, <1>t DEF activate_conn, conn_first
  <2> QED BY <1>t, <2>2, <2>3, <2>4 DEF Types
<1>14. CASE activate_addr
  <2>1. pc' \in PcType
    BY <1>14, <1>t, PcMoves DEF activate_addr, RxPcs
  <2> QED BY <1>m, <1>t, <1>14, <2>1 DEF activate_addr, mgrVars, bootVars, Types
<1>15. CASE rx_enter
  <2>1. UNCHANGED <<ids, chains, put, head, next, major, init_core_done, rx_init_done>>
    BY <1>15 DEF rx_enter, mgrVars, bootVars
  <2>2. pc' \in PcType
    BY <1>15, <1>t, PcMoves DEF rx_enter, RxPcs
  <2>3. cur' \in CurType
    BY <1>15, <1>t DEF rx_enter, NoCur
  <2>4. outs' \in [Cid -> Ptr]
    BY <1>15, <1>t DEF rx_enter
  <2> QED BY <1>t, <2>1, <2>2, <2>3, <2>4 DEF Types
<1>16. CASE mca_scan \/ ninf_tx_scan \/ (\E c \in Chain : nf_run(c)) \/ UNCHANGED vars
  BY <1>m, <1>t, <1>16 DEF mca_scan, ninf_tx_scan, nf_run, vars, mgrVars, rxVars, bootVars, Types
<1>17. CASE nf_core
  BY <1>m, <1>t, <1>17 DEF nf_core, nf_start, sl_xcpu_process_no_cs, mgrVars, rxVars, bootVars, Types
<1> QED BY <1>1, <1>2, <1>3, <1>4, <1>s, <1>u, <1>5, <1>6, <1>7, <1>8, <1>9, <1>10, <1>11, <1>12, <1>13, <1>14,
     <1>15, <1>16, <1>17 DEF Next, mgr, mca, rx_arrives, rx, tx_core

\* The parts of the invariant that follow from the cache of each core.
LEMMA ShapeKept ==
  ASSUME OwnInv, \A k \in Cores : Stack(k)' = Stack(k),
         UNCHANGED head, \A k \in Cores : \A c \in Stack(k) : next'[c] = next[c]
  PROVE  Shape'
<1> SUFFICES ASSUME NEW k \in Cores
             PROVE  /\ IsTop(head'[k], Stack(k)')
                    /\ \A c \in Stack(k)' : IsTop(next'[c], {d \in Stack(k)' : d < c})
  BY DEF Shape, IsTop
<1>1. IsTop(head[k], Stack(k)) /\ \A c \in Stack(k) : IsTop(next[c], {d \in Stack(k) : d < c})
  BY DEF OwnInv, Shape
<1> QED BY <1>1

\* fwp_allocate_chain: the new chain is in no cache yet.
LEMMA OwnFork ==
  ASSUME OwnInv, Types', fwp_allocate_chain
  PROVE  OwnInv'
<1>t. Types /\ pc \in PcType /\ chains \in Seq(ChainRec) /\ Len(chains) \in Nat
  BY DEF OwnInv, Types
<1>1. UNCHANGED <<put, head, next, cur, outs>> /\ pc.mgr = "fork" /\ pc'.rx = pc.rx
  BY <1>t, PcMoves DEF fwp_allocate_chain, rxVars, MgrPcs
<1>2. CASE chains' = chains /\ pc'.mgr = "assert"
  BY <1>1, <1>2, OwnFrame DEF Unfinished, Holding, Busy
<1>3. CASE pc'.mgr = "ask" /\ \E e \in ChainRec : chains' = Append(chains, e)
  <2>0. PICK e \in ChainRec : chains' = Append(chains, e)
    BY <1>3
  <2>1. Len(chains') = Len(chains) + 1 /\ \A c \in 1 .. Len(chains) : chains'[c] = chains[c]
    BY <1>t, <2>0
  <2>2. Unfinished' /\ ~Unfinished /\ (Holding' <=> Holding) /\ (Busy' <=> Busy)
    BY <1>1, <1>3 DEF Unfinished, Holding, Busy
  <2>3. \A c : Pushed(c)' <=> Pushed(c)
    BY <1>t, <2>1, <2>2 DEF Pushed
  <2>4. Taken' = Taken
    <3>1. \A c : c \in Taken' <=> c \in Taken
      BY <1>1, <2>2, TakenIs
    <3> QED BY <3>1
  <2>5. \A k : Stack(k)' = Stack(k)
    BY <2>1, <2>3, <2>4 DEF Stack, Pushed
  <2>6. Shape'
    BY <1>1, <2>5, ShapeKept
  <2>7. PutLocals'
    BY <1>3, <1>t, <2>1 DEF PutLocals
  <2>8. GetLocals'
    <3>1. PICK k : k = cur.core
      OBVIOUS
    <3>2. pc'.rx = "get_cas" => cur.chain \in Stack(k)'
      BY <1>1, <2>5, <3>1 DEF OwnInv, GetLocals
    <3>3. pc'.rx = "get_cas" => (cur.chain \in Stack(cur.core))'
      BY <1>1, <3>1, <3>2 DEF Stack
    <3> QED BY <1>1, <3>3 DEF OwnInv, GetLocals
  <2>9. Flows'
    BY <1>1, <2>2, <2>3 DEF OwnInv, Flows
  <2> QED BY <2>6, <2>7, <2>8, <2>9 DEF OwnInv
<1>4. \/ chains' = chains /\ pc'.mgr = "assert"
      \/ pc'.mgr = "ask" /\ \E e \in ChainRec : chains' = Append(chains, e)
  <2>1. CASE IdsFit
    <3>1. Goto("mgr", "ask") /\ chains' = Append(chains,
            [core |-> Len(chains) \div PerCore, nf |-> ids.nf, shmem |-> ids.shmem])
      BY <2>1 DEF fwp_allocate_chain
    <3>2. Len(chains) \div PerCore \in Cores
      BY <1>t, CoreOf DEF fwp_allocate_chain
    <3>3. [core |-> Len(chains) \div PerCore, nf |-> ids.nf, shmem |-> ids.shmem] \in ChainRec
      BY <1>t, <3>2 DEF Types, ChainRec
    <3> QED BY <1>t, <3>1, <3>3, PcMoves DEF MgrPcs
  <2>2. CASE ~IdsFit
    BY <1>t, <2>2, PcMoves DEF fwp_allocate_chain, MgrPcs
  <2> QED BY <2>1, <2>2
<1> QED BY <1>2, <1>3, <1>4

\* The newest chain while it is put.
LEMMA Newest ==
  ASSUME OwnInv, Unfinished
  PROVE  /\ Len(chains) \in Chain /\ chains[Len(chains)].core \in Cores /\ Len(chains) \in Nat
         /\ ~Pushed(Len(chains)) /\ \A k : Len(chains) \notin Stack(k)
<1>1. chains \in Seq(ChainRec) /\ Len(chains) \in Nat /\ Len(chains) > 0 /\ Len(chains) <= NumChains
  BY DEF OwnInv, Types, PutLocals
<1>2. chains[Len(chains)] \in ChainRec /\ Len(chains) \in Chain
  BY <1>1, Pointers
<1> QED BY <1>1, <1>2 DEF ChainRec, Pushed, Stack

\* put_load: the link of a chain that is not in the cache yet.
LEMMA OwnLoad ==
  ASSUME OwnInv, Types', put_load
  PROVE  OwnInv'
<1>t. Types /\ pc \in PcType /\ next \in [Chain -> Ptr]
  BY DEF OwnInv, Types
<1>1. /\ UNCHANGED <<chains, head, cur, outs>> /\ pc.mgr = "put" /\ pc'.mgr = "put_cas" /\ pc'.rx = pc.rx
      /\ next' = [next EXCEPT ![Len(chains)] = put']
  BY <1>t, PcMoves DEF put_load, rxVars, MgrPcs
<1>2. Unfinished' /\ Unfinished /\ (Holding' <=> Holding) /\ (Busy' <=> Busy)
  BY <1>1 DEF Unfinished, Holding, Busy
<1>3. \A c : Pushed(c)' <=> Pushed(c)
  BY <1>1, <1>2 DEF Pushed
<1>4. Taken' = Taken
  <2>1. \A c : c \in Taken' <=> c \in Taken
    BY <1>1, <1>2, TakenIs
  <2> QED BY <2>1
<1>5. \A k : Stack(k)' = Stack(k)
  BY <1>1, <1>3, <1>4 DEF Stack
<1>n. Len(chains) \in Chain /\ \A k : Len(chains) \notin Stack(k) /\ Stack(k) \subseteq Chain
  BY <1>2, Newest DEF Stack
<1>o. \A k : \A c \in Stack(k) : next'[c] = next[c]
  BY <1>1, <1>n, <1>t
<1>6. Shape'
  BY <1>1, <1>5, <1>o, ShapeKept
<1>7. PutLocals'
  BY <1>1, <1>2, <1>n, <1>t DEF OwnInv, PutLocals
<1>8. GetLocals'
  <2>1. PICK k : k = cur.core
    OBVIOUS
  <2>2. pc'.rx = "get_cas" => cur.chain \in Stack(k) /\ cur.t = next'[cur.chain]
    BY <1>1, <1>o, <2>1 DEF OwnInv, GetLocals
  <2>3. pc'.rx = "get_cas" => (cur.chain \in Stack(cur.core))'
    <3>1. pc'.rx = "get_cas" => cur.chain \in Stack(k)'
      BY <1>5, <2>2
    <3> QED BY <1>1, <2>1, <3>1 DEF Stack
  <2> QED BY <1>1, <2>2, <2>3 DEF OwnInv, GetLocals
<1>9. Flows'
  BY <1>1, <1>2, <1>3 DEF OwnInv, Flows
<1> QED BY <1>6, <1>7, <1>8, <1>9 DEF OwnInv

\* put_cas: the newest chain goes on top, over the one its link leads to.
LEMMA OwnPut ==
  ASSUME OwnInv, Types', put_cas
  PROVE  OwnInv'
<1>t. Types /\ pc \in PcType /\ head \in [Cores -> Ptr]
  BY DEF OwnInv, Types
<1>1. UNCHANGED <<chains, put, next, cur, outs>> /\ pc.mgr = "put_cas" /\ pc'.rx = pc.rx
  BY <1>t, PcMoves DEF put_cas, rxVars, mgrVars, MgrPcs
<1>r. (Holding' <=> Holding) /\ (Busy' <=> Busy)
  BY <1>1 DEF Holding, Busy
<1>2. PICK c : c = Len(chains)
  OBVIOUS
<1>3. PICK q : q = chains[c].core
  OBVIOUS
<1>4. CASE head' = head /\ pc'.mgr = "put"
  <2>1. Unfinished' /\ Unfinished
    BY <1>1, <1>4 DEF Unfinished
  <2> QED BY <1>1, <1>r, <1>4, <2>1, OwnFrame
<1>5. CASE head[q] = put /\ head' = [head EXCEPT ![q] = c] /\ pc'.mgr = "fork"
  <2>1. ~Unfinished' /\ Unfinished
    BY <1>1, <1>5 DEF Unfinished
  <2>2. /\ c \in Chain /\ c \in Nat /\ c > 0 /\ q \in Cores /\ ~Pushed(c) /\ \A k : c \notin Stack(k)
        /\ next[c] = head[q]
    BY <1>1, <1>2, <1>3, <1>5, <2>1, Newest, Pointers DEF OwnInv, PutLocals
  <2>3. \A d : Pushed(d)' <=> Pushed(d) \/ d = c
    BY <1>1, <1>2, <2>1, <2>2 DEF Pushed
  <2>4. Taken' = Taken
    <3>1. \A d : d \in Taken' <=> d \in Taken
      BY <1>1, <1>r, TakenIs
    <3> QED BY <3>1
  <2>5. c \notin Taken
    BY <2>2, TakenIs DEF OwnInv, Flows
  <2>6. \A k : Stack(k)' = IF k = q THEN Stack(k) \union {c} ELSE Stack(k)
    <3>1. \A k : \A d : d \in Stack(k)' <=> d \in Stack(k) \/ (k = q /\ d = c)
      BY <1>1, <1>3, <2>2, <2>3, <2>4, <2>5 DEF Stack
    <3>2. ASSUME NEW k PROVE Stack(k)' = IF k = q THEN Stack(k) \union {c} ELSE Stack(k)
      <4>1. PICK T : T = Stack(k)'
        OBVIOUS
      <4>2. PICK S : S = Stack(k)
        OBVIOUS
      <4>3. \A d : d \in T <=> d \in S \/ (k = q /\ d = c)
        BY <3>1, <4>1, <4>2
      <4>4. T = IF k = q THEN S \union {c} ELSE S
        BY <4>3
      <4> QED BY <4>1, <4>2, <4>4
    <3> QED BY <3>2
  <2>7. \A k : \A d \in Stack(k) : d \in Nat /\ d < c
    BY <1>2, <2>1, <2>2, Pointers DEF Stack, Pushed
  <2>8. Shape'
    <3> SUFFICES ASSUME NEW k \in Cores
                 PROVE  /\ IsTop(head'[k], Stack(k)')
                        /\ \A d \in Stack(k)' : IsTop(next[d], {e \in Stack(k)' : e < d})
      BY <1>1 DEF Shape, IsTop
    <3>0. PICK S : S = Stack(k)
      OBVIOUS
    <3>1. /\ IsTop(head[k], S) /\ \A d \in S : IsTop(next[d], {e \in S : e < d})
          /\ c \notin S /\ \A d \in S : d \in Nat /\ d < c
      BY <2>2, <2>7, <3>0 DEF OwnInv, Shape
    <3>2. CASE k # q
      <4>1. Stack(k)' = S /\ head'[k] = head[k]
        BY <1>5, <1>t, <2>2, <2>6, <3>0, <3>2
      <4> QED BY <3>1, <4>1
    <3>3. CASE k = q
      <4>1. Stack(k)' = S \union {c} /\ head'[k] = c /\ next[c] = head[k]
        BY <1>5, <1>t, <2>2, <2>6, <3>0, <3>3
      <4>2. IsTop(c, S \union {c})
        BY <2>2, <3>1 DEF IsTop
      <4>3. ASSUME NEW d \in S \union {c}
            PROVE  IsTop(next[d], {e \in S \union {c} : e < d})
        <5>1. CASE d = c
          <6>1. {e \in S \union {c} : e < d} = S
            <7>1. \A e : (e \in S \union {c} /\ e < c) <=> e \in S
              BY <2>2, <3>1
            <7> QED BY <5>1, <7>1
          <6> QED BY <3>1, <4>1, <5>1, <6>1
        <5>2. CASE d # c
          <6>1. d \in S /\ {e \in S \union {c} : e < d} = {e \in S : e < d}
            BY <2>2, <3>1, <5>2
          <6> QED BY <3>1, <6>1
        <5> QED BY <5>1, <5>2
      <4> QED BY <4>1, <4>2, <4>3
    <3> QED BY <3>2, <3>3
  <2>9. PutLocals'
    BY <2>1, <1>5 DEF PutLocals
  <2>10. GetLocals'
    <3>1. PICK k : k = cur.core
      OBVIOUS
    <3>2. pc'.rx = "get_cas" => cur.chain \in Stack(k) /\ cur.t = next[cur.chain]
      BY <1>1, <3>1 DEF OwnInv, GetLocals
    <3>3. pc'.rx = "get_cas" => (cur.chain \in Stack(cur.core))'
      <4>1. pc'.rx = "get_cas" => cur.chain \in Stack(k)'
        BY <2>6, <3>2
      <4> QED BY <1>1, <3>1, <4>1 DEF Stack
    <3>4. pc'.rx = "get" => head'[cur.core] # 0
      <4>1. cur.core \in Cores
        BY <1>t DEF Types
      <4> QED BY <1>1, <1>5, <1>t, <2>2, <4>1 DEF OwnInv, GetLocals
    <3> QED BY <1>1, <3>2, <3>3, <3>4 DEF GetLocals
  <2>11. Flows'
    BY <1>1, <1>r, <2>3 DEF OwnInv, Flows
  <2> QED BY <2>8, <2>9, <2>10, <2>11 DEF OwnInv
<1>6. \/ head' = head /\ pc'.mgr = "put"
      \/ head[q] = put /\ head' = [head EXCEPT ![q] = c] /\ pc'.mgr = "fork"
  BY <1>t, <1>2, <1>3, PcMoves DEF put_cas, MgrPcs
<1> QED BY <1>4, <1>5, <1>6

\* get_cas: the top goes to the flow.
LEMMA OwnGet ==
  ASSUME OwnInv, Types', get_cas
  PROVE  OwnInv'
<1>t. Types /\ pc \in PcType /\ head \in [Cores -> Ptr] /\ cur.core \in Cores
  BY DEF OwnInv, Types
<1>1. UNCHANGED <<chains, put, next, cur, outs>> /\ pc.rx = "get_cas" /\ pc'.mgr = pc.mgr
  BY <1>t, PcMoves DEF get_cas, rxVars, mgrVars, RxPcs
<1>2. PICK q : q = cur.core
  OBVIOUS
<1>3. PICK r : r = cur.chain
  OBVIOUS
<1>4. /\ q \in Cores /\ r \in Stack(q) /\ cur.t = next[r]
      /\ (Unfinished' <=> Unfinished) /\ ~Holding /\ Busy
  BY <1>1, <1>t, <1>2, <1>3 DEF OwnInv, GetLocals, Unfinished, Holding, Busy
<1>p. \A d : Pushed(d)' <=> Pushed(d)
  BY <1>1, <1>4 DEF Pushed
<1>5. CASE head' = head /\ pc'.rx = "get"
  <2>1. ~Holding' /\ Busy'
    BY <1>5 DEF Holding, Busy
  <2>2. Taken' = Taken
    <3>1. \A c : c \in Taken' <=> c \in Taken
      BY <1>1, <1>4, <2>1, TakenIs
    <3> QED BY <3>1
  <2>3. \A k : Stack(k)' = Stack(k)
    BY <1>1, <1>p, <2>2 DEF Stack
  <2>4. Shape'
    BY <1>1, <1>5, <2>3, ShapeKept
  <2>5. PutLocals'
    BY <1>1, <1>4 DEF OwnInv, PutLocals
  <2>6. GetLocals'
    <3>1. head[q] # 0
      <4>1. IsTop(head[q], Stack(q)) /\ Stack(q) # {} /\ 0 \notin Stack(q)
        BY <1>4, Pointers DEF OwnInv, Shape, Stack
      <4> QED BY <4>1 DEF IsTop
    <3> QED BY <1>1, <1>2, <1>5, <3>1 DEF GetLocals
  <2>7. Flows'
    BY <1>1, <1>4, <1>p, <2>1 DEF OwnInv, Flows
  <2> QED BY <2>4, <2>5, <2>6, <2>7 DEF OwnInv
<1>6. CASE head[q] = r /\ head' = [head EXCEPT ![q] = cur.t] /\ pc'.rx = "tx_add"
  <2>1. Holding' /\ Busy'
    BY <1>6 DEF Holding, Busy
  <2>2. \A d : d \in Taken' <=> d \in Taken \/ d = r
    BY <1>1, <1>3, <1>4, <2>1, TakenIs
  <2>3. \A k : Stack(k)' = Stack(k) \ {r}
    <3>1. \A k : \A d : d \in Stack(k)' <=> d \in Stack(k) /\ d # r
      BY <1>1, <1>p, <2>2 DEF Stack
    <3>2. ASSUME NEW k PROVE Stack(k)' = Stack(k) \ {r}
      <4>1. PICK T : T = Stack(k)'
        OBVIOUS
      <4>2. PICK S : S = Stack(k)
        OBVIOUS
      <4>3. \A d : d \in T <=> d \in S /\ d # r
        BY <3>1, <4>1, <4>2
      <4>4. T = S \ {r}
        BY <4>3
      <4> QED BY <4>1, <4>2, <4>4
    <3> QED BY <3>2
  <2>4. Shape'
    <3> SUFFICES ASSUME NEW k \in Cores
                 PROVE  /\ IsTop(head'[k], Stack(k)')
                        /\ \A d \in Stack(k)' : IsTop(next[d], {e \in Stack(k)' : e < d})
      BY <1>1 DEF Shape, IsTop
    <3>0. PICK S : S = Stack(k)
      OBVIOUS
    <3>1. /\ IsTop(head[k], S) /\ \A d \in S : IsTop(next[d], {e \in S : e < d})
          /\ \A d \in S : d \in Nat
      <4>1. \A d \in S : d \in Nat
        BY <3>0, Pointers DEF Stack
      <4> QED BY <3>0, <4>1 DEF OwnInv, Shape
    <3>2. CASE k # q
      <4>1. r \notin S
        BY <1>4, <3>0, <3>2 DEF Stack
      <4>2. Stack(k)' = S /\ head'[k] = head[k]
        BY <1>6, <1>t, <2>3, <3>0, <3>2, <4>1
      <4> QED BY <3>1, <4>2
    <3>3. CASE k = q
      <4>1. Stack(k)' = S \ {r} /\ head'[k] = next[r] /\ r \in S /\ r \in Nat
        BY <1>4, <1>6, <1>t, <2>3, <3>0, <3>1, <3>3
      <4>2. \A d \in S : d <= r
        BY <1>6, <3>1, <3>3, <4>1 DEF IsTop
      <4>3. {e \in S : e < r} = S \ {r}
        <5>1. ASSUME NEW e \in S PROVE e < r <=> e # r
          <6>1. e \in Nat /\ e <= r
            BY <3>1, <4>2
          <6> QED BY <4>1, <6>1
        <5> QED BY <5>1
      <4>4. IsTop(next[r], S \ {r})
        BY <3>1, <4>1, <4>3
      <4>5. ASSUME NEW d \in S \ {r}
            PROVE  IsTop(next[d], {e \in S \ {r} : e < d})
        <5>1. {e \in S \ {r} : e < d} = {e \in S : e < d}
          BY <3>1, <4>1, <4>2
        <5> QED BY <3>1, <5>1
      <4> QED BY <4>1, <4>4, <4>5
    <3> QED BY <3>2, <3>3
  <2>5. PutLocals'
    BY <1>1, <1>4 DEF OwnInv, PutLocals
  <2>6. GetLocals'
    BY <1>6 DEF GetLocals
  <2>7. Flows'
    <3>1. Pushed(r) /\ r \notin Taken
      BY <1>4 DEF Stack
    <3>2. \A f \in Cid : outs[f] # 0 => outs[f] # r
      BY <3>1, TakenIs
    <3> QED BY <1>1, <1>3, <1>4, <1>p, <2>1, <3>1, <3>2 DEF OwnInv, Flows
  <2> QED BY <2>4, <2>5, <2>6, <2>7 DEF OwnInv
<1>7. \/ head' = head /\ pc'.rx = "get"
      \/ head[q] = r /\ head' = [head EXCEPT ![q] = cur.t] /\ pc'.rx = "tx_add"
  BY <1>t, <1>2, <1>3, PcMoves DEF get_cas, RxPcs
<1> QED BY <1>5, <1>6, <1>7

\* rx_enter: the chain goes from the receive thread to its flow.
LEMMA OwnEnter ==
  ASSUME OwnInv, Types', rx_enter
  PROVE  OwnInv'
<1>t. Types /\ pc \in PcType /\ outs \in [Cid -> Ptr]
  BY DEF OwnInv, Types
<1>1. /\ UNCHANGED <<chains, put, next, head>> /\ pc.rx = "enter" /\ pc'.rx = "loop" /\ pc'.mgr = pc.mgr
      /\ outs' = [outs EXCEPT ![cur.cid] = cur.chain]
  BY <1>t, PcMoves DEF rx_enter, mgrVars, RxPcs
<1>2. (Unfinished' <=> Unfinished) /\ Holding /\ ~Holding' /\ Busy /\ ~Busy'
  BY <1>1 DEF Unfinished, Holding, Busy
<1>3. PICK f, r : f = cur.cid /\ r = cur.chain
  OBVIOUS
<1>4. /\ f \in Cid /\ outs[f] = 0 /\ Pushed(r) /\ r # 0
      /\ \A g \in Cid : outs[g] # 0 => Pushed(outs[g]) /\ outs[g] # r
      /\ \A g, h \in Cid : g # h /\ outs[g] # 0 => outs[g] # outs[h]
  BY <1>2, <1>3 DEF OwnInv, Flows, Pushed
<1>5. outs'[f] = r /\ \A g \in Cid : g # f => outs'[g] = outs[g]
  BY <1>1, <1>3, <1>4, <1>t
<1>p. \A d : Pushed(d)' <=> Pushed(d)
  BY <1>1, <1>2 DEF Pushed
<1>6. Taken' = Taken
  <2>1. \A c : c \in Taken' <=> c \in Taken
    BY <1>2, <1>3, <1>4, <1>5, TakenIs
  <2> QED BY <2>1
<1>7. \A k : Stack(k)' = Stack(k)
  BY <1>1, <1>p, <1>6 DEF Stack
<1>8. Shape'
  BY <1>1, <1>7, ShapeKept
<1>9. PutLocals'
  BY <1>1, <1>2 DEF OwnInv, PutLocals
<1>10. GetLocals'
  BY <1>1 DEF GetLocals
<1>11. Flows'
  <2>1. \A g \in Cid : outs'[g] # 0 => Pushed(outs'[g])
    BY <1>4, <1>5
  <2>2. \A g \in Cid : outs'[g] # 0 => Pushed(outs[g])'
    BY <1>p, <2>1 DEF Pushed
  <2>3. \A g, h \in Cid : g # h /\ outs'[g] # 0 => outs'[g] # outs'[h]
    BY <1>4, <1>5
  <2> QED BY <1>2, <2>2, <2>3 DEF Flows
<1> QED BY <1>8, <1>9, <1>10, <1>11 DEF OwnInv

\* The steps of the receive thread up to get_cas take nothing yet.
LEMMA OwnAsk ==
  ASSUME OwnInv, Types', get_test \/ get_load \/ \E f \in Cid : ninf_flow2_core(f)
  PROVE  OwnInv'
<1>t. Types /\ pc \in PcType
  BY DEF OwnInv, Types
<1>1. /\ UNCHANGED <<chains, put, next, head, outs>> /\ pc'.mgr = pc.mgr
      /\ pc.rx \in {"loop", "get_test", "get"} /\ pc'.rx \in {"get_test", "no_chain", "get", "get_cas"}
  <2>1. CASE get_test
    <3>1. Goto("rx", "no_chain") \/ Goto("rx", "get")
      BY <2>1 DEF get_test
    <3> QED BY <1>t, <2>1, <3>1, PcMoves DEF get_test, RxPcs, mgrVars, rxVars
  <2>2. CASE get_load
    BY <1>t, <2>2, PcMoves DEF get_load, RxPcs, mgrVars
  <2>3. CASE \E f \in Cid : ninf_flow2_core(f)
    BY <1>t, <2>3, PcMoves DEF ninf_flow2_core, RxPcs, mgrVars
  <2> QED BY <2>1, <2>2, <2>3
<1>2. (Unfinished' <=> Unfinished) /\ ~Holding /\ ~Holding'
  BY <1>1 DEF Unfinished, Holding
<1>p. \A d : Pushed(d)' <=> Pushed(d)
  BY <1>1, <1>2 DEF Pushed
<1>3. Taken' = Taken
  <2>1. \A c : c \in Taken' <=> c \in Taken
    BY <1>1, <1>2, TakenIs
  <2> QED BY <2>1
<1>4. \A k : Stack(k)' = Stack(k)
  BY <1>1, <1>p, <1>3 DEF Stack
<1>5. Shape'
  BY <1>1, <1>4, ShapeKept
<1>6. PutLocals'
  BY <1>1, <1>2 DEF OwnInv, PutLocals
<1>7. GetLocals' /\ cur'.cid \in Cid /\ outs[cur'.cid] = 0
  <2>1. CASE get_test
    <3>1. UNCHANGED cur /\ pc.rx = "get_test" /\ (pc'.rx = "no_chain" \/ (pc'.rx = "get" /\ head[cur.core] # 0))
      BY <1>t, <2>1, PcMoves DEF get_test, rxVars, RxPcs
    <3> QED BY <1>1, <3>1 DEF OwnInv, GetLocals, Flows, Busy
  <2>2. CASE get_load
    <3>1. pc.rx = "get" /\ pc'.rx = "get_cas"
      BY <1>t, <2>2, PcMoves DEF get_load, RxPcs
    <3>2. PICK q, r : q = cur.core /\ r = head[q]
      OBVIOUS
    <3>3. cur' = [cur EXCEPT !.chain = r, !.t = next[r]]
      BY <2>2, <3>2 DEF get_load
    <3>4. cur'.core = q /\ cur'.chain = r /\ cur'.t = next[r] /\ cur'.cid = cur.cid /\ q \in Cores
      BY <1>t, <3>2, <3>3 DEF Types
    <3>5. r # 0 /\ r \in Stack(q)
      <4>1. r # 0 /\ IsTop(r, Stack(q))
        BY <3>1, <3>2, <3>4 DEF OwnInv, GetLocals, Shape
      <4> QED BY <4>1 DEF IsTop
    <3>6. r \in Stack(q)'
      BY <1>4, <3>5
    <3>7. (cur.chain \in Stack(cur.core))'
      BY <3>4, <3>6 DEF Stack
    <3> QED BY <1>1, <3>1, <3>4, <3>7 DEF OwnInv, GetLocals, Flows, Busy
  <2>3. CASE \E f \in Cid : ninf_flow2_core(f)
    <3>1. PICK f \in Cid : ninf_flow2_core(f)
      BY <2>3
    <3>2. cur'.cid = f /\ outs[f] = 0 /\ pc'.rx = "get_test"
      BY <1>t, <3>1, PcMoves DEF ninf_flow2_core, RxPcs, NoCur
    <3> QED BY <3>2 DEF GetLocals
  <2> QED BY <2>1, <2>2, <2>3
<1>8. Flows'
  BY <1>1, <1>2, <1>p, <1>7 DEF OwnInv, Flows
<1> QED BY <1>5, <1>6, <1>7, <1>8 DEF OwnInv

\* The chains of a flow are its own, after every step.
LEMMA OwnInductive == OwnInv /\ [Next]_vars => OwnInv'
<1> SUFFICES ASSUME OwnInv, [Next]_vars PROVE OwnInv'
  OBVIOUS
<1>t. Types /\ pc \in PcType /\ Types'
  BY TypesStep DEF OwnInv, Types
<1>f. ASSUME UNCHANGED <<chains, head, next, put, outs>>, UNCHANGED pc,
             cur'.cid = cur.cid, cur'.core = cur.core, cur'.chain = cur.chain, cur'.t = cur.t
      PROVE  OwnInv'
  BY <1>f, <1>t, OwnFrame DEF Unfinished, Holding, Busy
<1>1. CASE mgr_init \/ mgr_template
  <2>1. /\ UNCHANGED <<chains, head, next, put, outs, cur>>
        /\ pc.mgr \in {"init", "wait"} /\ pc'.mgr \in {"wait", "assert", "fork"} /\ pc'.rx = pc.rx
    BY <1>1, <1>t, PcMoves DEF mgr_init, mgr_template, MgrPcs, mgrVars, rxVars
  <2> QED BY <1>t, <2>1, OwnFrame DEF Unfinished, Holding, Busy
<1>s. CASE sl_xcpu_initaep_alloc \/ _fwp_fork_cont
  <2>1. /\ UNCHANGED <<chains, head, next, put, outs, cur>> /\ pc'.rx = pc.rx
        /\ pc.mgr \in {"ask", "use"} /\ pc'.mgr \in {"no_segment", "ask", "use", "null", "put"}
    <3>1. CASE sl_xcpu_initaep_alloc
      BY <3>1, <1>t, PcMoves DEF sl_xcpu_initaep_alloc, MgrPcs, rxVars
    <3>2. CASE _fwp_fork_cont
      <4>1. PICK l \in {"null", "ask", "put"} : Goto("mgr", l)
        BY <3>2 DEF _fwp_fork_cont
      <4> QED BY <3>2, <4>1, <1>t, PcMoves DEF _fwp_fork_cont, MgrPcs, mgrVars, rxVars
    <3> QED BY <1>s, <3>1, <3>2
  <2> QED BY <1>t, <2>1, OwnFrame DEF Unfinished, Holding, Busy
<1>2. CASE mca_start \/ ninf_tx_init \/ tx_start
  <2>1. UNCHANGED <<chains, head, next, put, outs, cur>> /\ pc'.mgr = pc.mgr /\ pc'.rx = pc.rx
    BY <1>2, <1>t, PcMoves DEF mca_start, ninf_tx_init, tx_start, mgrVars, rxVars
  <2> QED BY <1>t, <2>1, OwnFrame DEF Unfinished, Holding, Busy
<1>3. CASE rx_init \/ rx_start
  <2>1. /\ UNCHANGED <<chains, head, next, put, outs, cur>> /\ pc'.mgr = pc.mgr
        /\ pc.rx \in {"wait", "count"} /\ pc'.rx \in {"count", "loop"}
    BY <1>3, <1>t, PcMoves DEF rx_init, rx_start, mgrVars, rxVars, RxPcs
  <2> QED BY <1>t, <2>1, OwnFrame DEF Unfinished, Holding, Busy
<1>4. CASE ninf_tx_add_ring \/ activate_conn \/ activate_addr \/ conn_first
  <2>1. UNCHANGED <<chains, head, next, put, outs>> /\ pc'.mgr = pc.mgr /\ Holding /\ Holding'
    <3>1. CASE ninf_tx_add_ring
      <4>1. Goto("rx", "assert") \/ Goto("rx", "activate")
        BY <3>1 DEF ninf_tx_add_ring
      <4> QED BY <3>1, <4>1, <1>t, PcMoves DEF ninf_tx_add_ring, mgrVars, RxPcs, Holding
    <3>2. CASE activate_conn \/ conn_first
      <4>1. PICK j, l : l \in {"activate", "enter"} /\ mca_conn_create(j, l) /\ pc.rx \in {"activate", "conn"}
        <5>1. CASE activate_conn
          BY <5>1 DEF activate_conn
        <5>2. CASE conn_first
          BY <5>2 DEF conn_first
        <5> QED BY <3>2, <5>1, <5>2
      <4>2. Goto("rx", "assert") \/ Goto("rx", l)
        BY <4>1 DEF mca_conn_create
      <4>3. pc'.mgr = pc.mgr /\ pc'.rx \in {"assert", "activate", "enter"}
        BY <1>t, <4>1, <4>2, PcMoves DEF RxPcs
      <4> QED BY <4>1, <4>3 DEF mca_conn_create, mgrVars, Holding
    <3>3. CASE activate_addr
      BY <3>3, <1>t, PcMoves DEF activate_addr, mgrVars, RxPcs, Holding
    <3> QED BY <1>4, <3>1, <3>2, <3>3
  <2>2. cur'.cid = cur.cid /\ cur'.core = cur.core /\ cur'.chain = cur.chain /\ cur'.t = cur.t
    <3>1. cur' = cur \/ (\E n : cur' = [cur EXCEPT !.k = n])
      BY <1>4 DEF ninf_tx_add_ring, activate_conn, activate_addr, conn_first
    <3> QED BY <1>t, <3>1 DEF Types
  <2>3. (Unfinished' <=> Unfinished) /\ (Busy' <=> Busy) /\ pc'.rx \notin {"get", "get_cas"}
    BY <2>1 DEF Unfinished, Holding, Busy
  <2> QED BY <1>t, <2>1, <2>2, <2>3, OwnFrame
<1>5. CASE \E f \in Cid : rx_send(f)
  BY <1>5, <1>f DEF rx_send, mgrVars, rxVars
<1>6. CASE mca_scan \/ ninf_tx_scan \/ (\E c \in Chain : nf_run(c)) \/ UNCHANGED vars
  BY <1>f, <1>6 DEF mca_scan, ninf_tx_scan, nf_run, vars, mgrVars, rxVars
<1>7. CASE nf_core
  BY <1>f, <1>7 DEF nf_core, nf_start, sl_xcpu_process_no_cs, mgrVars, rxVars
<1> QED BY <1>t, <1>1, <1>s, <1>2, <1>3, <1>4, <1>5, <1>6, <1>7, OwnFork, OwnLoad, OwnPut, OwnGet, OwnEnter, OwnAsk
     DEF Next, mgr, mca, rx_arrives, rx, tx_core

\* Initially there are no chains.
LEMMA OwnInit == Init => OwnInv
<1> SUFFICES ASSUME Init PROVE OwnInv
  OBVIOUS
<1>1. Types
  <2>1. NoCur \in [cid : Cid \union {0}, core : Cores, chain : Ptr, t : Ptr, k : Nat]
    BY Pointers DEF NoCur
  <2>2. <<>> \in Seq(ChainRec) /\ Len(<<>>) = 0
    OBVIOUS
  <2>3. pc \in PcType
    BY DEF Init, PcType, MgrPcs, RxPcs
  <2>4. head \in [Cores -> Ptr] /\ next \in [Chain -> Ptr] /\ outs \in [Cid -> Ptr]
    BY Pointers DEF Init, Cores
  <2>5. ids \in [nf : Nat, chain : Nat, shmem : Nat, template : Nat]
    BY DEF Init
  <2>6. chains \in Seq(ChainRec) /\ Len(chains) <= NumChains
    BY <2>2, Numbers DEF Init
  <2>7. put \in Ptr /\ major \in Cores /\ init_core_done \in Nat /\ rx_init_done \in BOOLEAN
    BY Pointers DEF Init
  <2> QED BY <2>1, <2>3, <2>4, <2>5, <2>6, <2>7 DEF Init, Types
<1>2. chains = <<>> /\ pc.mgr = "init" /\ pc.rx = "wait" /\ \A f \in Cid : outs[f] = 0
  BY DEF Init
<1>3. \A k : Stack(k) = {}
  BY <1>2 DEF Stack, Pushed
<1>4. \A k \in Cores : head[k] = 0
  BY DEF Init, Cores
<1>5. Shape
  BY <1>3, <1>4 DEF Shape, IsTop
<1> QED BY <1>1, <1>2, <1>5 DEF OwnInv, PutLocals, GetLocals, Flows, Unfinished, Holding, Busy

\* The caches and the owners of the chains, in every reachable state, for every number of cores,
\* chains and flows.
THEOREM OwnInvariance == Spec => []OwnInv
  BY OwnInit, OwnInductive, PTL DEF Spec

\* However fwp_chain_put and fwp_chain_get interleave, a chain that was forked is in the cache of
\* its core or with one flow, and no two flows share one.
THEOREM OwnChains == Spec => []OneOwner
<1>1. OwnInv => OneOwner
  <2> SUFFICES ASSUME OwnInv PROVE OneOwner
    OBVIOUS
  <2>1. \A f, g \in Cid : f # g /\ outs[f] # 0 => outs[f] # outs[g]
    BY DEF OwnInv, Flows
  <2>2. \A k \in Cores : Cached(k) = Stack(k)
    BY CachedIsStack DEF OwnInv
  <2>3. \A k \in 0 .. NCore - 1 : \A c \in Cached(k) : chains[c].core = k /\ c \notin Taken
    BY <2>2 DEF Stack, Cores
  <2>4. ASSUME NEW c \in 1 .. Len(chains), ~(c = Len(chains) /\ Unfinished), c \notin Taken
        PROVE  c \in Cached(chains[c].core)
    <3>1. chains \in Seq(ChainRec) /\ Len(chains) <= NumChains
      BY DEF OwnInv, Types
    <3>2. chains[c] \in ChainRec /\ c \in Chain
      BY <3>1, Pointers, Numbers
    <3>3. PICK k \in Cores : k = chains[c].core
      BY <3>2 DEF ChainRec
    <3>4. c \in Stack(k)
      BY <2>4, <3>2, <3>3 DEF Stack, Pushed
    <3> QED BY <2>2, <3>3, <3>4
  <2> QED BY <2>1, <2>3, <2>4 DEF OneOwner
<1> QED BY <1>1, OwnInvariance, PTL

-----------------------------------------------------------------------------
(* The sizes of the tables.                                                *)

\* Products are monotonic.
LEMMA Monotonic ==
  ASSUME NEW a \in Nat, NEW b \in Nat, NEW n \in Nat, a <= b
  PROVE  n * a <= n * b /\ n * a \in Nat /\ n * b \in Nat
<1>1. PICK e \in Nat : b = a + e
  <2>1. b - a \in Nat /\ b = a + (b - a)
    OBVIOUS
  <2> QED BY <2>1
<1>2. n * (a + e) = n * a + n * e
  OBVIOUS
<1>3. n * e \in Nat /\ n * a \in Nat
  OBVIOUS
<1> QED BY <1>1, <1>2, <1>3

\* The functions of one chain begin where those of the chain before it end.
LEMMA Bases ==
  /\ Base(0) = 2 /\ \A c \in Nat : Base(c) \in Nat /\ Base(c) >= 2 /\ Base(c + 1) = Base(c) + ChainLen
  /\ \A a, b \in Nat : a <= b => Base(a) <= Base(b)
  /\ \A a, b \in Nat : a < b => Base(a) + ChainLen <= Base(b)
<1>1. Base(0) = 2
  BY Numbers DEF Base
<1>2. ASSUME NEW c \in Nat PROVE Base(c) \in Nat /\ Base(c) >= 2 /\ Base(c + 1) = Base(c) + ChainLen
  <2>1. ChainLen * c \in Nat /\ ChainLen * (c + 1) = ChainLen * c + ChainLen
    BY Numbers
  <2> QED BY <2>1, Numbers DEF Base
<1>3. ASSUME NEW a \in Nat, NEW b \in Nat, a <= b PROVE Base(a) <= Base(b)
  <2>1. ChainLen * a <= ChainLen * b /\ ChainLen * a \in Nat /\ ChainLen * b \in Nat
    BY <1>3, Numbers, Monotonic
  <2> QED BY <2>1 DEF Base
<1>4. ASSUME NEW a \in Nat, NEW b \in Nat, a < b PROVE Base(a) + ChainLen <= Base(b)
  <2>1. PICK x \in Nat : x = a + 1 /\ x <= b
    BY <1>4
  <2>2. Base(x) <= Base(b) /\ Base(a + 1) = Base(a) + ChainLen
    BY <1>2, <1>3, <2>1
  <2> QED BY <2>1, <2>2
<1> QED BY <1>1, <1>2, <1>3, <1>4

\* There is an entry for every chain in tx_fl, and one for every connection, thread and flow in
\* the tables of the MCA.
LEMMA Sizes ==
  /\ EOS_MAX_CHAIN_NUM \in Nat /\ EOS_MAX_CHAIN_NUM >= NumChains
  /\ FirstTid + Base(NumChains + 1) <= ConnMax
  /\ \A f \in Cid : f \in Nat /\ f < ConnMax
<1>1. EOS_MAX_CHAIN_NUM = NumChains + ChainTypes
  BY Numbers DEF EOS_MAX_CHAIN_NUM, NumChains
<1>2. FirstTid + 2 + ChainLen * (NumChains + 1) <= ConnMax /\ Cid \subseteq 0 .. ConnMax - 1
  BY ConnAssumption
<1>3. PICK p \in Nat : p = ChainLen * (NumChains + 1)
  <2>1. NumChains + 1 \in Nat
    BY Numbers
  <2> QED BY <2>1, Numbers
<1>4. FirstTid + Base(NumChains + 1) <= ConnMax
  BY <1>2, <1>3, Numbers DEF Base
<1>5. \A f \in Cid : f \in Nat /\ f < ConnMax
  BY <1>2, Numbers
<1> QED BY <1>1, <1>4, <1>5, Numbers

\* A list without repetitions is no longer than there are chains.
LEMMA NoRepeat ==
  ASSUME NEW q \in Seq(Chain), \A m, n \in 1 .. Len(q) : q[m] = q[n] => m = n
  PROVE  Len(q) <= NumChains
<1>1. Len(q) \in Nat /\ \A n \in 1 .. Len(q) : q[n] \in Chain
  OBVIOUS
<1> DEFINE D == 1 .. Len(q)
           g == [n \in D |-> q[n]]
<1>2. g \in Injection(D, Chain)
  BY <1>1 DEF Injection, IsInjective
<1>3. IsFiniteSet(Chain) /\ Cardinality(Chain) = NumChains
  BY Numbers, FS_Interval DEF Chain
<1>4. IsFiniteSet(D) /\ Cardinality(D) = Len(q)
  <2>1. PICK n \in Nat : n = Len(q)
    BY <1>1
  <2>2. IsFiniteSet(1 .. n) /\ Cardinality(1 .. n) = n
    BY FS_Interval
  <2> QED BY <2>1, <2>2
<1> HIDE DEF D, g
<1>5. Cardinality(D) <= Cardinality(Chain)
  BY <1>2, <1>3, FS_Injection
<1> QED BY <1>3, <1>4, <1>5

-----------------------------------------------------------------------------
(* The steps of the receive thread and the manager, under the invariant.   *)

\* A chain in use exists, and so does everything the manager waited for.
LEMMA InUse ==
  ASSUME SetupInv, NEW c, Pushed(c)
  PROVE  /\ c \in Chain /\ c \in Nat /\ c > 0 /\ c <= Len(chains) /\ Len(chains) \in Nat
         /\ chains[c].nf = Base(c) /\ pc.tx = "loop" /\ Len(chains) <= NumChains
         /\ \A j : NfOf(c, j) = Base(c) + j - 1
         /\ Nfs(c) = Block(c) /\ Block(c) \subseteq thds
<1>1. c \in 1 .. Len(chains) /\ chains \in Seq(ChainRec) /\ Len(chains) <= NumChains /\ Len(chains) \in Nat
  BY DEF Pushed, SetupInv, OwnInv, Types
<1>2. c \in Nat /\ c > 0 /\ c <= Len(chains) /\ c <= NumChains
  BY <1>1, Numbers
<1>3. c \in Chain
  BY <1>2, Pointers
<1>4. chains[c].nf = Base(c)
  BY <1>1 DEF SetupInv, Made, Ids
<1>5. chains # <<>>
  BY <1>1, <1>2
<1>6. pc.tx = "loop"
  BY <1>5 DEF SetupInv, Made, Ids, Boot
<1>7. Block(c) \subseteq thds
  BY <1>3 DEF SetupInv, Made, Threads
<1> QED BY <1>1, <1>2, <1>3, <1>4, <1>6, <1>7 DEF NfOf, Nfs, Block, Upto

\* The connection that is made next.
LEMMA ConnIs ==
  ASSUME SetupInv, Holding, NEW j \in 0 .. ChainLen - 1
  PROVE  /\ Conn(j) \in Links /\ Conn(j).chain = cur.chain /\ Conn(j).j = j
         /\ Conn(j).dst = Entry(cur.chain, j + 1)
         /\ j = 0 => Conn(j).src = cur.cid
         /\ j > 0 => Conn(j).src = Entry(cur.chain, j)
         /\ cur.cid \in Cid /\ outs[cur.cid] = 0
<1>1. Pushed(cur.chain) /\ cur.cid \in Cid /\ outs[cur.cid] = 0
  BY DEF SetupInv, OwnInv, Flows, Holding, Busy
<1>2. /\ cur.chain \in Chain /\ cur.chain \in Nat
      /\ \A i : NfOf(cur.chain, i) = Base(cur.chain) + i - 1
  BY <1>1, InUse
<1>3. /\ Base(cur.chain) \in Nat /\ Base(cur.chain) >= 2 /\ j \in Nat /\ FirstTid \in Nat
      /\ EOS_MAX_CHAIN_NUM \in Nat /\ cur.cid \in Nat
  <2>1. Base(cur.chain) \in Nat /\ Base(cur.chain) >= 2
    BY <1>2, Bases
  <2>2. j \in Nat /\ FirstTid \in Nat /\ cur.cid \in Nat
    <3>1. FirstTid \in Nat /\ Cid \subseteq Nat /\ ChainLen \in Nat
      BY Numbers
    <3>2. cur.cid \in Nat
      BY <1>1, <3>1
    <3> QED BY <3>1, <3>2
  <2> QED BY <2>1, <2>2, Sizes
<1>4. ThdInfo(j + 1) = Entry(cur.chain, j + 1) /\ ThdInfo(j) = Entry(cur.chain, j)
  <2>1. ASSUME NEW i \in Nat PROVE ThdInfo(i) = Entry(cur.chain, i)
    <3>1. PICK b \in Nat, m \in Nat : b = Base(cur.chain) /\ m = EOS_MAX_CHAIN_NUM
      BY <1>3
    <3>2. ThdInfo(i) = (FirstTid + (b + i - 1)) + m
      BY <1>2, <3>1 DEF ThdInfo, Tid
    <3> QED BY <1>3, <3>1, <3>2 DEF Entry
  <2> QED BY <1>3, <2>1
<1>5. Entry(cur.chain, j + 1) \in Nat /\ (j > 0 => Entry(cur.chain, j) \in Nat)
  BY <1>3 DEF Entry
<1>6. Conn(j) = [chain |-> cur.chain, j |-> j,
                 src |-> IF j = 0 THEN cur.cid ELSE Entry(cur.chain, j), dst |-> Entry(cur.chain, j + 1)]
  BY <1>4 DEF Conn, FlowInfo
<1>7. (IF j = 0 THEN cur.cid ELSE Entry(cur.chain, j)) \in Nat
  BY <1>3, <1>5
<1> QED BY <1>1, <1>2, <1>3, <1>5, <1>6, <1>7 DEF Links

\* No assertion of mca_conn_create fails.
LEMMA ConnOk ==
  ASSUME SetupInv, NEW j \in 0 .. ChainLen - 1,
         (pc.rx = "activate" /\ cur.k = j /\ j > 0) \/ (pc.rx = "conn" /\ j = 0)
  PROVE  ConnAssert(Conn(j))
<1>h. Holding
  BY DEF Holding
<1>1. Pushed(cur.chain)
  BY <1>h DEF SetupInv, OwnInv, Flows
<1>2. cur.chain \in Nat /\ cur.chain <= Len(chains) /\ Len(chains) \in Nat /\ Len(chains) <= NumChains
  BY <1>1, InUse
<1>3. /\ NumChains \in Nat /\ NumChains + 1 \in Nat /\ ChainLen \in Nat /\ ChainLen > 0 /\ FirstTid \in Nat
      /\ j \in Nat /\ j < ChainLen /\ ConnMax \in Nat
  BY Numbers
<1>4. /\ Base(cur.chain) + ChainLen <= Base(NumChains + 1) /\ Base(cur.chain) \in Nat
      /\ Base(cur.chain) >= 2 /\ Base(NumChains + 1) \in Nat /\ Base(NumChains) + ChainLen <= Base(NumChains + 1)
      /\ Base(NumChains) \in Nat
  <2>1. cur.chain < NumChains + 1 /\ NumChains < NumChains + 1
    BY <1>2, <1>3
  <2> QED BY <1>2, <1>3, <2>1, Bases
<1>5. /\ EOS_MAX_CHAIN_NUM \in Nat /\ FirstTid + Base(NumChains + 1) <= ConnMax
      /\ \A f \in Cid : f \in Nat /\ f < ConnMax
  BY Sizes
<1>6. Len(conns) < ConnMax
  <2>1. Len(tx) \in Nat /\ Len(tx) <= NumChains /\ Len(tx) > 0 /\ Len(conns) \in Nat
    BY NoRepeat DEF SetupInv, TxList, ConnCount
  <2>2. Base(Len(tx)) <= Base(NumChains) /\ Base(Len(tx)) \in Nat
    BY <1>3, <2>1, Bases
  <2>3. Base(Len(tx) - 1) + ChainLen <= Base(Len(tx)) /\ Base(Len(tx) - 1) \in Nat
    <3>1. Len(tx) - 1 \in Nat /\ Len(tx) - 1 < Len(tx)
      BY <2>1
    <3> QED BY <2>1, <3>1, Bases
  <2>4. CASE pc.rx = "activate" /\ cur.k = j /\ j > 0
    <3>1. Len(conns) = Base(Len(tx) - 1) + cur.k - 3
      BY <2>4 DEF SetupInv, ConnCount
    <3>2. PICK a \in Nat, b \in Nat, n \in Nat, m \in Nat :
            a = Base(Len(tx) - 1) /\ b = Base(Len(tx)) /\ n = Base(NumChains) /\ m = Base(NumChains + 1)
      BY <1>4, <2>2, <2>3
    <3>3. a + ChainLen <= b /\ b <= n /\ n + ChainLen <= m /\ FirstTid + m <= ConnMax /\ Len(conns) = a + j - 3
      BY <1>4, <1>5, <2>2, <2>3, <2>4, <3>1, <3>2
    <3> QED BY <1>3, <2>1, <3>3
  <2>5. CASE pc.rx = "conn" /\ j = 0
    <3>1. Len(conns) = Base(Len(tx)) - 3
      BY <2>5 DEF SetupInv, ConnCount
    <3> QED BY <1>3, <1>4, <1>5, <2>1, <2>2, <3>1, SMTT(30)
  <2> QED BY <2>4, <2>5
<1>c. /\ Conn(j).dst = Entry(cur.chain, j + 1) /\ cur.cid \in Cid /\ outs[cur.cid] = 0
      /\ j = 0 => Conn(j).src = cur.cid
      /\ j > 0 => Conn(j).src = Entry(cur.chain, j)
  BY <1>h, ConnIs
<1>7. ASSUME NEW i \in 1 .. ChainLen
      PROVE  Entry(cur.chain, i) \in 0 .. ConnMax + EOS_MAX_CHAIN_NUM - 1 /\ ~(Entry(cur.chain, i) < EOS_MAX_CHAIN_NUM)
  BY <1>3, <1>4, <1>5 DEF Entry
<1>8. Conn(j).dst \in 0 .. ConnMax + EOS_MAX_CHAIN_NUM - 1 /\ ~(Conn(j).dst < EOS_MAX_CHAIN_NUM)
  <2>1. PICK i \in 1 .. ChainLen : i = j + 1
    BY <1>3
  <2> QED BY <1>c, <1>7, <2>1
<1>9. /\ Conn(j).src \in 0 .. ConnMax + EOS_MAX_CHAIN_NUM - 1
      /\ Conn(j).src < EOS_MAX_CHAIN_NUM => Conn(j).src \notin infos
  <2>1. CASE j = 0
    <3>1. Conn(j).src = cur.cid /\ pc.rx = "conn"
      BY <1>c, <2>1
    <3>2. cur.cid < EOS_MAX_CHAIN_NUM => cur.cid \notin infos
      BY <1>c, <1>5, <3>1 DEF SetupInv, Infos
    <3> QED BY <1>c, <1>3, <1>5, <3>1, <3>2
  <2>2. CASE j > 0
    <3>1. j \in 1 .. ChainLen
      BY <1>3, <2>2
    <3> QED BY <1>c, <1>7, <2>2, <3>1
  <2> QED BY <1>3, <2>1, <2>2
<1>10. Ends(j) \subseteq thds
  <2> SUFFICES ASSUME NEW i \in {j, j + 1}, i # 0 PROVE NfOf(cur.chain, i) \in thds
    BY DEF Ends
  <2>1. i \in 1 .. ChainLen
    BY <1>3
  <2>2. NfOf(cur.chain, i) = Base(cur.chain) + i - 1 /\ Block(cur.chain) \subseteq thds
    BY <1>1, InUse
  <2>3. Base(cur.chain) + i - 1 \in Block(cur.chain)
    BY <1>3, <1>4, <2>1 DEF Block, Upto
  <2> QED BY <2>2, <2>3
<1>11. Conn(j).j = j
  BY <1>h, ConnIs
<1> QED BY <1>6, <1>8, <1>9, <1>10, <1>11 DEF ConnAssert

\* The receive thread has not begun to link a chain.
Calm == {"wait", "count", "loop", "get_test", "get", "get_cas", "no_chain", "tx_add"}

\* What the receive thread links, the scans and the packets.
Rest == TxList /\ ConnCount /\ Linked /\ Infos /\ Ready /\ Woken
restVars == <<tx, tpos, outs, conns, mpos, infos, addr, woken, pkt>>

\* Steps of the others, and of the receive thread while it links nothing.
LEMMA RestFrame ==
  ASSUME Rest, UNCHANGED restVars,
         (pc'.rx = pc.rx /\ cur' = cur) \/ (pc.rx \in Calm /\ pc'.rx \in Calm)
  PROVE  Rest'
<1>1. TxList'
  BY DEF Rest, TxList, restVars, Calm
<1>2. ConnCount'
  BY DEF Rest, ConnCount, restVars, Calm
<1>3. Linked'
  BY DEF Rest, Linked, restVars
<1>4. Infos'
  BY DEF Rest, Infos, restVars, Calm
<1>5. Ready' /\ Woken'
  BY DEF Rest, Ready, Woken, restVars, Calm
<1> QED BY <1>1, <1>2, <1>3, <1>4, <1>5 DEF Rest

LEMMA BootFrame ==
  ASSUME Boot, UNCHANGED <<init_core_done, tx, tpos, txfree>>, pc'.mca = pc.mca, pc'.tx = pc.tx,
         pc'.mgr = "init" <=> pc.mgr = "init", pc'.mgr = "wait" <=> pc.mgr = "wait",
         pc'.rx \in {"wait", "count"} <=> pc.rx \in {"wait", "count"}
  PROVE  Boot'
  BY DEF Boot, One

\* The manager does nothing; threads and cores may be added.
LEMMA MadeMore ==
  ASSUME Made, UNCHANGED <<chains, ids>>, pc'.mgr = pc.mgr \/ (pc.mgr = "init" /\ pc'.mgr = "wait"),
         up' \subseteq Cores, req' \in Nat, thds \subseteq thds', thds' \subseteq Nat
  PROVE  Made'
<1>1. Unfinished' <=> Unfinished
  BY DEF Unfinished
<1>2. Ids'
  BY <1>1 DEF Made, Ids
<1>3. \A c \in Chain : Pushed(c)' => Block(c) \subseteq thds'
  BY <1>1 DEF Made, Threads, Pushed
<1>4. \A i : Segs(i)' <=> Segs(i)
  BY DEF Segs
<1>5. ASSUME pc'.mgr = "ask"
      PROVE  \E i \in 0 .. ChainLen - 1 : Segs(i)' /\ Upto(Len(chains'), i) \subseteq thds'
  <2>1. PICK i \in 0 .. ChainLen - 1 : Segs(i) /\ Upto(Len(chains), i) \subseteq thds
    BY <1>5 DEF Made, Threads
  <2>2. Segs(i)' /\ Upto(Len(chains'), i) \subseteq thds'
    BY <1>4, <2>1
  <2> QED BY <2>2
<1>6. ASSUME pc'.mgr = "use"
      PROVE  \E i \in 0 .. ChainLen - 1 : Segs(i + 1)' /\ Upto(Len(chains'), i) \subseteq thds'
  <2>1. PICK i \in 0 .. ChainLen - 1 : Segs(i + 1) /\ Upto(Len(chains), i) \subseteq thds
    BY <1>6 DEF Made, Threads
  <2>2. Segs(i + 1)' /\ Upto(Len(chains'), i) \subseteq thds'
    BY <1>4, <2>1
  <2> QED BY <2>2
<1>7. pc'.mgr \in {"put", "put_cas"} => Segs(ChainLen)' /\ Block(Len(chains')) \subseteq thds'
  BY <1>4 DEF Made, Threads
<1> QED BY <1>2, <1>3, <1>5, <1>6, <1>7 DEF Made, Threads, Segs, Block, Upto

LEMMA MadeFrame ==
  ASSUME Made, UNCHANGED <<chains, ids, thdVars>>, pc'.mgr = pc.mgr \/ (pc.mgr = "init" /\ pc'.mgr = "wait")
  PROVE  Made'
<1>1. UNCHANGED <<up, req, thds>>
  BY DEF thdVars
<1> QED BY <1>1, MadeMore DEF Made, Threads

\* The start of the cores.
LEMMA SetupStart ==
  ASSUME SetupInv, OwnInv', mgr_init \/ mca_start \/ rx_init \/ rx_start \/ ninf_tx_init \/ tx_start
  PROVE  SetupInv'
<1>t. pc \in PcType /\ Boot /\ Made /\ Rest /\ init_core_done \in Nat
  BY DEF SetupInv, OwnInv, Types, Rest
<1>r. UNCHANGED <<outs, conns, mpos, tpos, infos, addr, woken, pkt, cur, chains, ids, thdVars>>
  BY DEF mgr_init, mca_start, rx_init, rx_start, ninf_tx_init, tx_start, mgrVars, rxVars, scanVars
<1>1. CASE mgr_init
  <2>1. /\ pc.mgr = "init" /\ pc'.mgr = "wait" /\ pc'.rx = pc.rx /\ pc'.mca = pc.mca /\ pc'.tx = pc.tx
        /\ init_core_done' = init_core_done + 1 /\ UNCHANGED <<tx, txfree, tpos>>
    BY <1>1, <1>t, PcMoves DEF mgr_init, MgrPcs, Count, scanVars
  <2>2. Boot'
    BY <1>t, <2>1 DEF Boot, One
  <2>3. Made'
    BY <1>t, <1>r, <2>1, MadeFrame
  <2>4. Rest'
    BY <1>t, <1>r, <2>1, RestFrame DEF restVars
  <2> QED BY <2>2, <2>3, <2>4 DEF SetupInv, Rest
<1>2. CASE mca_start
  <2>1. /\ pc.mca = "wait" /\ pc'.mca = "loop" /\ pc'.rx = pc.rx /\ pc'.mgr = pc.mgr /\ pc'.tx = pc.tx
        /\ init_core_done' = init_core_done + 1 /\ UNCHANGED <<tx, txfree, tpos>>
    BY <1>2, <1>t, PcMoves DEF mca_start, Count, scanVars
  <2>2. Boot'
    BY <1>t, <2>1 DEF Boot, One
  <2>3. Made'
    BY <1>t, <1>r, <2>1, MadeFrame
  <2>4. Rest'
    BY <1>t, <1>r, <2>1, RestFrame DEF restVars
  <2> QED BY <2>2, <2>3, <2>4 DEF SetupInv, Rest
<1>3. CASE rx_init
  <2>1. /\ pc.rx = "wait" /\ pc'.rx = "count" /\ pc'.mca = pc.mca /\ pc'.mgr = pc.mgr /\ pc'.tx = pc.tx
        /\ UNCHANGED <<init_core_done, tx, txfree, tpos>>
    BY <1>3, <1>t, PcMoves DEF rx_init, RxPcs, scanVars
  <2>2. Boot'
    BY <1>t, <2>1, BootFrame
  <2>3. Made'
    BY <1>t, <1>r, <2>1, MadeFrame
  <2>4. Rest'
    BY <1>t, <1>r, <2>1, RestFrame DEF restVars, Calm
  <2> QED BY <2>2, <2>3, <2>4 DEF SetupInv, Rest
<1>4. CASE rx_start
  <2>1. /\ pc.rx = "count" /\ pc'.rx = "loop" /\ pc'.mca = pc.mca /\ pc'.mgr = pc.mgr /\ pc'.tx = pc.tx
        /\ init_core_done' = init_core_done + 1 /\ UNCHANGED <<tx, txfree, tpos>>
    BY <1>4, <1>t, PcMoves DEF rx_start, RxPcs, Count, scanVars
  <2>2. Boot'
    BY <1>t, <2>1 DEF Boot, One
  <2>3. Made'
    BY <1>t, <1>r, <2>1, MadeFrame
  <2>4. Rest'
    BY <1>t, <1>r, <2>1, RestFrame DEF restVars, Calm
  <2> QED BY <2>2, <2>3, <2>4 DEF SetupInv, Rest
<1>5. CASE ninf_tx_init
  <2>1. /\ pc.tx = "wait" /\ pc'.tx = "count" /\ pc'.mca = pc.mca /\ pc'.mgr = pc.mgr /\ pc'.rx = pc.rx
        /\ UNCHANGED <<init_core_done, tpos>> /\ tx' = <<>> /\ txfree' = EOS_MAX_CHAIN_NUM
    BY <1>5, <1>t, PcMoves DEF ninf_tx_init, scanVars, bootVars
  <2>2. tx' = tx /\ Len(tx') = 0 /\ EOS_MAX_CHAIN_NUM \in Nat
    BY <1>t, <2>1, Sizes DEF Boot
  <2>3. Boot'
    BY <1>t, <2>1, <2>2 DEF Boot, One
  <2>4. Made'
    BY <1>t, <1>r, <2>1, MadeFrame
  <2>5. Rest'
    BY <1>t, <1>r, <2>1, <2>2, RestFrame DEF restVars
  <2> QED BY <2>3, <2>4, <2>5 DEF SetupInv, Rest
<1>6. CASE tx_start
  <2>1. /\ pc.tx = "count" /\ pc'.tx = "loop" /\ pc'.mca = pc.mca /\ pc'.mgr = pc.mgr /\ pc'.rx = pc.rx
        /\ init_core_done' = init_core_done + 1 /\ UNCHANGED <<tx, txfree, tpos>>
    BY <1>6, <1>t, PcMoves DEF tx_start, Count, scanVars
  <2>2. Boot'
    BY <1>t, <2>1 DEF Boot, One
  <2>3. Made'
    BY <1>t, <1>r, <2>1, MadeFrame
  <2>4. Rest'
    BY <1>t, <1>r, <2>1, RestFrame DEF restVars
  <2> QED BY <2>2, <2>3, <2>4 DEF SetupInv, Rest
<1> QED BY <1>1, <1>2, <1>3, <1>4, <1>5, <1>6

\* The newest chain, by its ids.
LEMMA NewestIds ==
  ASSUME SetupInv, Unfinished
  PROVE  /\ Len(chains) \in Nat /\ Len(chains) > 0 /\ Len(chains) \in Chain
         /\ Base(Len(chains)) \in Nat /\ Base(Len(chains)) >= 2 /\ ids.template # 0
         /\ \A i \in Nat : Segs(i) => Forked = i /\ ids.shmem = Base(Len(chains)) - 2 + i
         /\ \A i \in Nat : NfOf(Len(chains), i) = Base(Len(chains)) + i - 1
<1>1. Len(chains) \in Nat /\ Len(chains) > 0 /\ Len(chains) \in Chain
  BY Newest, Pointers DEF SetupInv, OwnInv
<1>2. chains[Len(chains)].nf = Base(Len(chains)) /\ chains[Len(chains)].shmem = Base(Len(chains)) - 2
  BY <1>1 DEF SetupInv, Made, Ids
<1>3. Base(Len(chains)) \in Nat /\ Base(Len(chains)) >= 2
  BY <1>1, Bases
<1>4. ids.template # 0
  BY <1>1 DEF SetupInv, Made, Ids
<1>5. ASSUME NEW i \in Nat, Segs(i) PROVE Forked = i /\ ids.shmem = Base(Len(chains)) - 2 + i
  BY <1>2, <1>3, <1>5 DEF Forked, Segs
<1>6. \A i \in Nat : NfOf(Len(chains), i) = Base(Len(chains)) + i - 1
  BY <1>2 DEF NfOf
<1> QED BY <1>1, <1>3, <1>4, <1>5, <1>6

\* The template.
LEMMA MadeTemplate ==
  ASSUME SetupInv, mgr_template
  PROVE  Made' /\ pc.tx = "loop" /\ pc'.mgr \notin {"init", "wait"}
<1>t. pc \in PcType /\ Boot /\ Made /\ ChainLen \in Nat /\ ChainLen > 0
  BY Numbers DEF SetupInv, OwnInv, Types
<1>1. pc.mgr = "wait" /\ init_core_done = 4 /\ UNCHANGED <<chains, thdVars>>
  BY DEF mgr_template, AllUp
<1>2. pc.tx = "loop"
  BY <1>t, <1>1 DEF Boot, One
<1>3. /\ chains = <<>> /\ ids = [nf |-> 2, chain |-> 0, shmem |-> 0, template |-> 0]
      /\ ids.shmem = 0 /\ ids.nf = 2 /\ ids.chain = 0 /\ ids.template = 0
  <2>1. ids.template = 0
    BY <1>t, <1>1 DEF Made, Ids
  <2> QED BY <1>t, <2>1 DEF Made, Ids
<1>4. \/ pc'.mgr = "assert" /\ ids' = ids
      \/ pc'.mgr = "fork" /\ ids' = [nf |-> 2 + ChainLen, chain |-> 1, shmem |-> ChainLen, template |-> ChainLen]
  BY <1>t, <1>3, PcMoves DEF mgr_template, MgrPcs
<1>5. Len(chains') = 0 /\ Len(chains') + 1 = 1 /\ Base(1) = 2 + ChainLen
  BY <1>1, <1>3, <1>t DEF Base
<1>6. Ids'
  BY <1>1, <1>3, <1>4, <1>5, <1>t DEF Ids
<1>7. Threads'
  <2>1. \A c : ~Pushed(c)'
    BY <1>5 DEF Pushed
  <2>2. up' = up /\ req' = req /\ thds' = thds
    BY <1>1 DEF thdVars
  <2> QED BY <1>4, <1>t, <2>1, <2>2 DEF Made, Threads
<1> QED BY <1>2, <1>4, <1>6, <1>7 DEF Made

\* fwp_allocate_chain: a chain without segments and threads.
LEMMA MadeChain ==
  ASSUME SetupInv, fwp_allocate_chain
  PROVE  Made' /\ pc'.mgr \notin {"init", "wait"}
<1>t. /\ pc \in PcType /\ Made /\ pc.mgr = "fork" /\ ChainLen \in Nat /\ ChainLen > 0
      /\ chains \in Seq(ChainRec) /\ Len(chains) \in Nat
      /\ ids \in [nf : Nat, chain : Nat, shmem : Nat, template : Nat]
  BY Numbers DEF SetupInv, OwnInv, Types, fwp_allocate_chain
<1>1. UNCHANGED <<up, req, thds>>
  BY DEF fwp_allocate_chain, thdVars
<1>2. PICK n \in Nat, m \in Nat : n = Len(chains) + 1 /\ m = n + 1
  BY <1>t
<1>3. /\ ids.template # 0 /\ ids.nf = Base(n) /\ ids.shmem = Base(n) - 2 /\ ~Unfinished
      /\ Base(n) \in Nat /\ Base(m) = Base(n) + ChainLen
  <2>1. ids.template # 0 /\ ~Unfinished
    BY <1>t DEF Made, Ids, Unfinished
  <2>2. ids.nf = Base(n) /\ ids.shmem = Base(n) - 2
    BY <1>t, <1>2, <2>1 DEF Made, Ids
  <2> QED BY <1>2, <2>1, <2>2, Bases
<1>4. CASE pc'.mgr = "assert" /\ UNCHANGED <<chains, ids>>
  <2>1. ~Unfinished'
    BY <1>4 DEF Unfinished
  <2>2. Ids'
    BY <1>3, <1>4, <1>t, <2>1 DEF Made, Ids
  <2>3. \A c : Pushed(c)' <=> Pushed(c)
    BY <1>3, <1>4, <2>1 DEF Pushed
  <2> QED BY <1>1, <1>4, <1>t, <2>2, <2>3 DEF Made, Threads
<1>5. CASE IdsFit
  <2>1. PICK e : e = [core |-> Len(chains) \div PerCore, nf |-> ids.nf, shmem |-> ids.shmem]
    OBVIOUS
  <2>2. pc'.mgr = "ask" /\ chains' = Append(chains, e) /\ ids' = NextIds
    BY <1>5, <1>t, <2>1, PcMoves DEF fwp_allocate_chain, MgrPcs
  <2>3. /\ Len(chains') = n /\ chains'[n] = e /\ \A c \in 1 .. Len(chains) : chains'[c] = chains[c]
    BY <1>t, <1>2, <2>2
  <2>4. ids'.nf = Base(m) /\ ids'.shmem = Base(n) - 2 /\ ids'.template = ids.template
    <3>1. ids'.nf = ids.nf + ChainLen /\ ids'.shmem = ids.shmem /\ ids'.template = ids.template
      BY <1>t, <2>2 DEF NextIds
    <3> QED BY <1>3, <3>1
  <2>5. Unfinished'
    BY <2>2 DEF Unfinished
  <2>6. \A c \in 1 .. Len(chains') : chains'[c].nf = Base(c) /\ chains'[c].shmem = Base(c) - 2
    <3> SUFFICES ASSUME NEW c \in 1 .. n
                 PROVE  chains'[c].nf = Base(c) /\ chains'[c].shmem = Base(c) - 2
      BY <2>3
    <3>1. CASE c = n
      BY <1>3, <2>1, <2>3, <3>1
    <3>2. CASE c # n
      <4>1. c \in 1 .. Len(chains)
        BY <1>t, <1>2, <3>2
      <4> QED BY <1>t, <2>3, <4>1 DEF Made, Ids
    <3> QED BY <3>1, <3>2
  <2>7. Ids'
    BY <1>2, <1>3, <2>2, <2>3, <2>4, <2>5, <2>6 DEF Ids
  <2>8. \A c : Pushed(c)' <=> Pushed(c)
    BY <1>2, <1>3, <1>t, <2>3, <2>5 DEF Pushed
  <2>9. Segs(0)' /\ Upto(n, 0) = {} /\ 0 \in 0 .. ChainLen - 1
    BY <1>3, <1>t, <2>3, <2>4 DEF Segs, Upto
  <2>10. \E i \in 0 .. ChainLen - 1 : Segs(i)' /\ Upto(Len(chains'), i) \subseteq thds'
    BY <2>3, <2>9
  <2>11. Threads'
    BY <1>1, <1>t, <2>2, <2>8, <2>10 DEF Made, Threads, Segs, Upto
  <2> QED BY <2>2, <2>7, <2>11 DEF Made
<1>6. CASE ~IdsFit
  BY <1>4, <1>6, <1>t, PcMoves DEF fwp_allocate_chain, MgrPcs
<1> QED BY <1>5, <1>6

\* The threads of the newest chain: one more is asked for, or was seen.
LEMMA MadeThread ==
  ASSUME SetupInv, sl_xcpu_initaep_alloc \/ _fwp_fork_cont
  PROVE  Made' /\ pc'.mgr \notin {"init", "wait"} /\ pc.mgr \notin {"init", "wait"}
<1>u. Unfinished
  BY DEF Unfinished, sl_xcpu_initaep_alloc, _fwp_fork_cont
<1>t. /\ pc \in PcType /\ Made /\ ChainLen \in Nat /\ ChainLen > 0
      /\ ids \in [nf : Nat, chain : Nat, shmem : Nat, template : Nat] /\ UNCHANGED <<chains, thds, up>>
  BY Numbers DEF SetupInv, OwnInv, Types, sl_xcpu_initaep_alloc, _fwp_fork_cont, mgrVars, thdVars
<1>n. PICK n \in Nat, b \in Nat : n = Len(chains) /\ b = Base(n)
  BY <1>u, NewestIds
<1>i. /\ b >= 2 /\ ids.template # 0 /\ \A i \in Nat : Segs(i) => Forked = i /\ ids.shmem = b - 2 + i
      /\ \A i \in Nat : NfOf(Len(chains), i) = b + i - 1
  BY <1>n, <1>u, NewestIds
<1>f. ASSUME Unfinished', ids'.template = ids.template, ids'.nf = ids.nf, req' \in Nat, pc'.mgr \in MgrPcs,
             \/ pc'.mgr \in {"no_segment", "null"}
             \/ pc'.mgr = "ask" /\ \E i \in 0 .. ChainLen - 1 : Segs(i)' /\ Upto(n, i) \subseteq thds
             \/ pc'.mgr = "use" /\ \E i \in 0 .. ChainLen - 1 : Segs(i + 1)' /\ Upto(n, i) \subseteq thds
             \/ pc'.mgr = "put" /\ Segs(ChainLen)' /\ Block(n) \subseteq thds
      PROVE  Made'
  <2>1. Ids'
    BY <1>f, <1>i, <1>t DEF Made, Ids
  <2>2. \A c : Pushed(c)' <=> Pushed(c)
    BY <1>f, <1>t, <1>u DEF Pushed
  <2>3. \A c \in Chain : Pushed(c)' => Block(c) \subseteq thds'
    BY <1>t, <2>2 DEF Made, Threads
  <2>4. Threads'
    BY <1>f, <1>n, <1>t, <2>3 DEF Made, Threads, Segs, Block, Upto
  <2> QED BY <2>1, <2>4 DEF Made
<1>1. CASE sl_xcpu_initaep_alloc
  <2>1. pc.mgr = "ask"
    BY <1>1 DEF sl_xcpu_initaep_alloc
  <2>2. PICK i \in 0 .. ChainLen - 1 : Segs(i) /\ Upto(n, i) \subseteq thds
    BY <1>n, <1>t, <2>1 DEF Made, Threads
  <2>3. i \in Nat /\ Forked = i /\ ids.shmem = b - 2 + i
    BY <1>i, <1>t, <2>2
  <2>4. CASE pc'.mgr = "no_segment" /\ UNCHANGED <<ids, req>>
    <3>1. Unfinished' /\ req' \in Nat /\ pc'.mgr \in MgrPcs
      BY <1>t, <2>4 DEF Unfinished, Made, Threads, MgrPcs
    <3> QED BY <1>f, <2>1, <2>4, <3>1
  <2>5. CASE Goto("mgr", "use") /\ ids' = [ids EXCEPT !.shmem = @ + 1] /\ req' = NfOf(Len(chains), Forked + 1)
    <3>1. pc'.mgr = "use" /\ Unfinished' /\ pc'.mgr \in MgrPcs
      BY <1>t, <2>5, PcMoves DEF Unfinished, MgrPcs
    <3>2. ids'.shmem = ids.shmem + 1 /\ ids'.template = ids.template /\ ids'.nf = ids.nf
      BY <1>t, <2>5
    <3>3. req' \in Nat
      <4>1. i + 1 \in Nat /\ b + (i + 1) - 1 \in Nat
        BY <1>n, <2>3
      <4>2. req' = b + (i + 1) - 1
        BY <1>i, <2>3, <2>5, <4>1
      <4> QED BY <4>1, <4>2
    <3>4. Segs(i + 1)'
      BY <1>n, <1>t, <2>3, <3>2 DEF Segs
    <3> QED BY <1>f, <2>1, <2>2, <3>1, <3>2, <3>3, <3>4
  <2> QED BY <1>1, <1>t, <2>4, <2>5, PcMoves DEF sl_xcpu_initaep_alloc, MgrPcs
<1>2. CASE _fwp_fork_cont
  <2>1. pc.mgr = "use" /\ UNCHANGED <<ids, req>>
    BY <1>2 DEF _fwp_fork_cont, mgrVars, thdVars
  <2>2. PICK i \in 0 .. ChainLen - 1 : Segs(i + 1) /\ Upto(n, i) \subseteq thds
    BY <1>n, <1>t, <2>1 DEF Made, Threads
  <2>3. PICK k \in Nat : k = i + 1 /\ k >= 1 /\ k <= ChainLen
    BY <1>t
  <2>4. Forked = k /\ Segs(k) /\ NfOf(Len(chains), Forked) = b + i
    BY <1>i, <1>n, <2>2, <2>3
  <2>5. PICK l \in {"null", "ask", "put"} :
          /\ Goto("mgr", l) /\ (l # "null" => b + i \in thds)
          /\ (l = "ask" => k < ChainLen) /\ (l = "put" => ~(k < ChainLen))
    <3>1. Goto("mgr", IF b + i \notin thds THEN "null" ELSE IF k < ChainLen THEN "ask" ELSE "put")
      BY <1>2, <2>4 DEF _fwp_fork_cont
    <3>2. CASE b + i \notin thds
      BY <3>1, <3>2
    <3>3. CASE b + i \in thds /\ k < ChainLen
      BY <3>1, <3>3
    <3>4. CASE b + i \in thds /\ ~(k < ChainLen)
      BY <3>1, <3>4
    <3> QED BY <3>2, <3>3, <3>4
  <2>6. pc'.mgr = l /\ Unfinished' /\ pc'.mgr \in MgrPcs /\ req' \in Nat
    <3>1. pc'.mgr = l
      BY <1>t, <2>5, PcMoves DEF MgrPcs
    <3> QED BY <1>t, <2>1, <2>5, <3>1 DEF Unfinished, MgrPcs, Made, Threads
  <2>7. Segs(k)'
    BY <1>t, <2>1, <2>4 DEF Segs
  <2>8. l # "null" => Upto(n, k) \subseteq thds
    <3> SUFFICES ASSUME l # "null", NEW x \in Upto(n, k) PROVE x \in thds
      OBVIOUS
    <3>1. x \in Nat /\ (x = b + i \/ x \in Upto(n, i))
      BY <1>n, <2>3 DEF Upto
    <3> QED BY <2>2, <2>5, <3>1
  <2>9. CASE l = "null"
    BY <1>f, <2>1, <2>6, <2>9
  <2>10. CASE l = "ask"
    <3>1. k \in 0 .. ChainLen - 1
      BY <1>t, <2>3, <2>5, <2>10
    <3> QED BY <1>f, <2>1, <2>6, <2>7, <2>8, <2>10, <3>1
  <2>11. CASE l = "put"
    <3>1. k = ChainLen
      BY <1>t, <2>3, <2>5, <2>11
    <3>2. Block(n) \subseteq thds
      BY <2>8, <2>11, <3>1 DEF Block
    <3> QED BY <1>f, <2>1, <2>6, <2>7, <2>11, <3>1, <3>2
  <2> QED BY <2>9, <2>10, <2>11, <2>5, <2>1, <2>6
<1> QED BY <1>1, <1>2

\* fwp_chain_put: the chain is complete.
LEMMA MadePut ==
  ASSUME SetupInv, put_load \/ put_cas
  PROVE  Made' /\ pc'.mgr \notin {"init", "wait"} /\ pc.mgr \notin {"init", "wait"}
<1>1. /\ UNCHANGED <<chains, ids, up, req, thds>> /\ pc.mgr \in {"put", "put_cas"} /\ pc'.mgr \in {"put", "put_cas", "fork"}
      /\ Made /\ Unfinished /\ ChainLen \in Nat
  <2>1. pc \in PcType /\ Made /\ ChainLen \in Nat
    BY Numbers DEF SetupInv, OwnInv, Types
  <2> QED BY <2>1, PcMoves DEF put_load, put_cas, mgrVars, thdVars, MgrPcs, Unfinished
<1>2. PICK n \in Nat : n = Len(chains) /\ n \in Chain
  BY <1>1, NewestIds
<1>3. ids.template # 0 /\ Base(n) \in Nat /\ ids.shmem = Base(n) - 2 + ChainLen /\ Block(n) \subseteq thds
  <2>1. Segs(ChainLen) /\ Block(n) \subseteq thds
    BY <1>1, <1>2 DEF Made, Threads
  <2> QED BY <1>1, <1>2, <2>1, NewestIds
<1>4. ids.shmem = Base(n + 1) - 2
  <2>1. Base(n + 1) = Base(n) + ChainLen
    BY Bases
  <2> QED BY <1>1, <1>3, <2>1
<1>5. Ids'
  BY <1>1, <1>2, <1>3, <1>4 DEF Made, Ids
<1>6. \A c : Pushed(c)' => Pushed(c) \/ c = n
  BY <1>1, <1>2 DEF Pushed
<1>7. \A c \in Chain : Pushed(c)' => Block(c) \subseteq thds'
  BY <1>1, <1>3, <1>6 DEF Made, Threads
<1>8. pc'.mgr \in {"put", "put_cas"} => Segs(ChainLen)' /\ Block(Len(chains')) \subseteq thds'
  BY <1>1, <1>2, <1>3 DEF Segs
<1>9. Threads'
  BY <1>1, <1>7, <1>8 DEF Made, Threads, Segs, Block, Upto
<1> QED BY <1>1, <1>5, <1>9 DEF Made

\* The manager.
LEMMA SetupManager ==
  ASSUME SetupInv, OwnInv', mgr_template \/ fwp_allocate_chain \/ sl_xcpu_initaep_alloc \/ _fwp_fork_cont
                            \/ put_load \/ put_cas
  PROVE  SetupInv'
<1>t. pc \in PcType /\ Boot /\ Made /\ Rest
  BY DEF SetupInv, OwnInv, Types, Rest
<1>r. /\ UNCHANGED <<init_core_done, tx, txfree, outs, conns, mpos, tpos, infos, addr, woken, pkt, cur>>
      /\ pc'.rx = pc.rx /\ pc'.mca = pc.mca /\ pc'.tx = pc.tx
  <2>1. CASE _fwp_fork_cont
    <3>1. PICK l \in MgrPcs : Goto("mgr", l)
      BY <2>1 DEF _fwp_fork_cont, MgrPcs
    <3> QED BY <1>t, <2>1, <3>1, PcMoves DEF _fwp_fork_cont, mgrVars, rxVars, scanVars, bootVars
  <2>2. CASE mgr_template \/ fwp_allocate_chain \/ sl_xcpu_initaep_alloc \/ put_load \/ put_cas
    BY <1>t, <2>2, PcMoves DEF mgr_template, fwp_allocate_chain, sl_xcpu_initaep_alloc, put_load, put_cas,
         mgrVars, rxVars, scanVars, bootVars, MgrPcs
  <2> QED BY <2>1, <2>2
<1>s. Rest'
  BY <1>t, <1>r, RestFrame DEF restVars
<1>1. Made' /\ pc'.mgr \notin {"init", "wait"}
  BY MadeTemplate, MadeChain, MadeThread, MadePut
<1>2. Boot'
  <2>1. CASE mgr_template
    <3>1. pc.mgr = "wait" /\ pc.tx = "loop"
      BY <2>1, MadeTemplate DEF mgr_template
    <3> QED BY <1>1, <1>r, <1>t, <3>1 DEF Boot, One
  <2>2. CASE ~mgr_template
    <3>1. pc.mgr \notin {"init", "wait"}
      BY <2>2, MadeThread, MadePut DEF fwp_allocate_chain
    <3> QED BY <1>1, <1>r, <1>t, <3>1, BootFrame
  <2> QED BY <2>1, <2>2
<1> QED BY <1>1, <1>2, <1>s DEF SetupInv, Rest

\* The cores of the functions.
LEMMA SetupCore ==
  ASSUME SetupInv, OwnInv', nf_core
  PROVE  SetupInv'
<1>t. Boot /\ Made /\ Rest
  BY DEF SetupInv, Rest
<1>1. UNCHANGED <<init_core_done, tx, txfree, outs, conns, mpos, tpos, infos, addr, woken, pkt, cur, pc, chains, ids>>
  BY DEF nf_core, nf_start, sl_xcpu_process_no_cs, mgrVars, rxVars, scanVars, bootVars
<1>2. up' \subseteq Cores /\ req' \in Nat /\ thds \subseteq thds' /\ thds' \subseteq Nat
  <2>1. up \subseteq Cores /\ req \in Nat /\ thds \subseteq Nat
    BY <1>t DEF Made, Threads
  <2>2. CASE \E k \in Cores : up' = up \union {k} /\ UNCHANGED <<req, thds>>
    BY <2>1, <2>2
  <2>3. CASE UNCHANGED up /\ thds' = thds \union {req} /\ req' = 0
    BY <2>1, <2>3
  <2> QED BY <2>2, <2>3 DEF nf_core, nf_start, sl_xcpu_process_no_cs, Cores
<1>3. Made'
  BY <1>1, <1>2, <1>t, MadeMore
<1>4. Boot' /\ Rest'
  BY <1>1, <1>t, BootFrame, RestFrame DEF restVars
<1> QED BY <1>3, <1>4 DEF SetupInv, Rest

\* The receive thread before it has a chain.
LEMMA SetupAsk ==
  ASSUME SetupInv, OwnInv',
         get_test \/ get_load \/ get_cas \/ \E f \in Cid : ninf_flow2_core(f)
  PROVE  SetupInv'
<1>t. pc \in PcType /\ Boot /\ Made /\ Rest
  BY DEF SetupInv, OwnInv, Types, Rest
<1>1. /\ UNCHANGED <<init_core_done, tx, txfree, outs, conns, mpos, tpos, infos, addr, woken, pkt, chains, ids, thdVars>>
      /\ pc'.mgr = pc.mgr /\ pc'.mca = pc.mca /\ pc'.tx = pc.tx
      /\ pc.rx \in Calm \ {"wait", "count"} /\ pc'.rx \in Calm \ {"wait", "count"}
  <2>1. CASE get_test
    <3>1. Goto("rx", "no_chain") \/ Goto("rx", "get")
      BY <2>1 DEF get_test
    <3> QED BY <1>t, <2>1, <3>1, PcMoves DEF get_test, RxPcs, mgrVars, rxVars, scanVars, bootVars, Calm
  <2>2. CASE get_load
    BY <1>t, <2>2, PcMoves DEF get_load, RxPcs, mgrVars, scanVars, bootVars, Calm
  <2>3. CASE get_cas
    BY <1>t, <2>3, PcMoves DEF get_cas, RxPcs, mgrVars, rxVars, scanVars, bootVars, Calm
  <2>4. CASE \E f \in Cid : ninf_flow2_core(f)
    BY <1>t, <2>4, PcMoves DEF ninf_flow2_core, RxPcs, mgrVars, scanVars, bootVars, Calm
  <2> QED BY <2>1, <2>2, <2>3, <2>4
<1>2. Rest'
  BY <1>t, <1>1, RestFrame DEF restVars
<1>3. Boot' /\ Made'
  BY <1>t, <1>1, BootFrame, MadeFrame
<1> QED BY <1>2, <1>3 DEF SetupInv, Rest

\* A chain in the hands of the receive thread.
LEMMA Held ==
  ASSUME SetupInv, Holding
  PROVE  /\ cur.chain \in Chain /\ cur.chain \in Nat /\ cur.chain # 0 /\ Pushed(cur.chain) /\ pc.tx = "loop"
         /\ cur.cid \in Cid /\ outs[cur.cid] = 0 /\ \A f \in Cid : outs[f] # cur.chain
<1>1. Pushed(cur.chain) /\ cur.cid \in Cid /\ outs[cur.cid] = 0
  BY DEF SetupInv, OwnInv, Flows, Holding, Busy
<1>2. cur.chain \in Chain /\ cur.chain \in Nat /\ cur.chain # 0 /\ pc.tx = "loop"
  BY <1>1, InUse, Pointers
<1>3. \A f \in Cid : outs[f] # cur.chain
  BY <1>2 DEF SetupInv, OwnInv, Flows
<1> QED BY <1>1, <1>2, <1>3

\* ninf_tx_add_ring: there is an entry for every chain.
LEMMA SetupTxAdd ==
  ASSUME SetupInv, OwnInv', ninf_tx_add_ring
  PROVE  SetupInv'
<1>t. /\ pc \in PcType /\ Boot /\ Made /\ Rest /\ pc.rx = "tx_add" /\ tx \in Seq(Chain) /\ Len(tx) \in Nat
      /\ txfree \in Nat /\ EOS_MAX_CHAIN_NUM \in Nat /\ NumChains \in Nat /\ EOS_MAX_CHAIN_NUM >= NumChains
  <2>1. tx \in Seq(Chain)
    BY DEF SetupInv, TxList
  <2> QED BY <2>1, Sizes, Numbers DEF SetupInv, OwnInv, Types, Rest, Boot, ninf_tx_add_ring
<1>h. Holding
  BY <1>t DEF Holding
<1>c. /\ cur.chain \in Chain /\ pc.tx = "loop" /\ \A f \in Cid : outs[f] # cur.chain
  BY <1>h, Held
<1>4. PICK r \in Chain : r = cur.chain
  BY <1>c
<1>6. \A n \in 1 .. Len(tx) : \E f \in Cid : outs[f] = tx[n]
  BY <1>t DEF Rest, TxList
<1>7. \A n \in 1 .. Len(tx) : tx[n] # r
  BY <1>6, <1>c, <1>4
<1>q. PICK q : q = Append(tx, r)
  OBVIOUS
<1>5. /\ q \in Seq(Chain) /\ Len(q) = Len(tx) + 1 /\ q[Len(tx) + 1] = r
      /\ \A n \in 1 .. Len(tx) : q[n] = tx[n]
  BY <1>t, <1>q
<1>n. \A m, n \in 1 .. Len(q) : q[m] = q[n] => m = n
  <2> SUFFICES ASSUME NEW m \in 1 .. Len(tx) + 1, NEW n \in 1 .. Len(tx) + 1, q[m] = q[n]
               PROVE  m = n
    BY <1>5
  <2>1. CASE m = Len(tx) + 1 \/ n = Len(tx) + 1
    <3>1. \A i \in 1 .. Len(tx) + 1 : i # Len(tx) + 1 => i \in 1 .. Len(tx)
      BY <1>t
    <3> QED BY <2>1, <3>1, <1>5, <1>7
  <2>2. CASE m # Len(tx) + 1 /\ n # Len(tx) + 1
    <3>1. m \in 1 .. Len(tx) /\ n \in 1 .. Len(tx)
      BY <1>t, <2>2
    <3> QED BY <3>1, <1>5, <1>t DEF Rest, TxList
  <2> QED BY <2>1, <2>2
<1>1. txfree # 0
  <2>1. Len(tx) + 1 <= NumChains
    BY <1>5, <1>n, NoRepeat
  <2> QED BY <1>c, <1>t, <2>1 DEF Boot
<1>2. /\ UNCHANGED <<init_core_done, outs, conns, mpos, tpos, infos, addr, woken, pkt, chains, ids, thdVars>>
      /\ pc'.mgr = pc.mgr /\ pc'.mca = pc.mca /\ pc'.tx = pc.tx /\ pc'.rx = "activate"
      /\ tx' = q /\ txfree' = txfree - 1
  BY <1>t, <1>1, <1>4, <1>q, PcMoves DEF ninf_tx_add_ring, RxPcs, mgrVars, scanVars, bootVars
<1>3. cur'.k = 1 /\ cur'.chain = cur.chain /\ cur'.cid = cur.cid
  BY DEF ninf_tx_add_ring, SetupInv, OwnInv, Types
<1>8. TxList'
  <2>1. \A m, n \in 1 .. Len(tx') : tx'[m] = tx'[n] => m = n
    BY <1>2, <1>n
  <2>2. \A n \in 1 .. Len(tx') : (\E f \in Cid : outs'[f] = tx'[n]) \/ tx'[n] = cur'.chain
    <3> SUFFICES ASSUME NEW n \in 1 .. Len(tx) + 1
                 PROVE  (\E f \in Cid : outs'[f] = tx'[n]) \/ tx'[n] = cur'.chain
      BY <1>2, <1>5
    <3>1. CASE n = Len(tx) + 1
      BY <1>2, <1>3, <1>4, <1>5, <3>1
    <3>2. CASE n # Len(tx) + 1
      <4>1. n \in 1 .. Len(tx)
        BY <1>t, <3>2
      <4> QED BY <1>2, <1>5, <1>6, <4>1
    <3> QED BY <3>1, <3>2
  <2>3. tpos' \in 0 .. Len(tx')
    BY <1>2, <1>5, <1>t DEF Rest, TxList
  <2> QED BY <1>2, <1>5, <1>t, <2>1, <2>2, <2>3 DEF TxList
<1>9. ConnCount'
  <2>1. conns \in Seq(Links) /\ mpos \in 0 .. Len(conns) /\ Len(conns) = Base(Len(tx)) - 2
    BY <1>t DEF Rest, ConnCount
  <2>2. Len(tx') - 1 = Len(tx) /\ Base(Len(tx)) \in Nat
    BY <1>t, <1>2, <1>5, Bases
  <2>3. Base(Len(tx') - 1) + cur'.k - 3 = Base(Len(tx)) - 2
    BY <1>3, <2>2
  <2>4. cur'.k \in 1 .. ChainLen
    BY <1>3, Numbers
  <2> QED BY <1>2, <2>1, <2>3, <2>4 DEF ConnCount
<1>10. Linked' /\ Infos' /\ Ready' /\ Woken'
  <2>2. Linked'
    BY <1>2, <1>t DEF Rest, Linked
  <2> QED BY <1>2, <1>t, <2>2 DEF Rest, Infos, Ready, Woken
<1>11. Boot' /\ Made'
  <2>1. Boot'
    BY <1>t, <1>c, <1>1, <1>2, <1>5 DEF Boot, One
  <2> QED BY <2>1, <1>t, <1>2, MadeFrame
<1> QED BY <1>8, <1>9, <1>10, <1>11 DEF SetupInv

\* mca_conn_create from function j of the chain.
LEMMA SetupConn ==
  ASSUME SetupInv, OwnInv', NEW j \in 0 .. ChainLen - 1,
         \/ pc.rx = "activate" /\ cur.k = j /\ j > 0 /\ mca_conn_create(j, "activate") /\ cur' = [cur EXCEPT !.k = @ + 1]
         \/ pc.rx = "conn" /\ j = 0 /\ mca_conn_create(0, "enter") /\ UNCHANGED cur
  PROVE  SetupInv'
<1>h. Holding
  BY DEF Holding
<1>t. /\ pc \in PcType /\ Boot /\ Made /\ Rest /\ conns \in Seq(Links) /\ Len(conns) \in Nat /\ j \in Nat /\ j < ChainLen
      /\ mpos \in 0 .. Len(conns) /\ ChainLen \in Nat
  <2>1. ChainLen \in Nat
    BY Numbers
  <2>2. j \in Nat /\ j < ChainLen
    BY <2>1
  <2>3. conns \in Seq(Links) /\ mpos \in 0 .. Len(conns)
    BY DEF SetupInv, ConnCount
  <2> QED BY <2>1, <2>2, <2>3 DEF SetupInv, OwnInv, Types, Rest
<1>a. ConnAssert(Conn(j))
  BY ConnOk
<1>1. PICK c : c = Conn(j)
  OBVIOUS
<1>2. /\ c \in Links /\ c.chain = cur.chain /\ c.j = j /\ c.dst = Entry(cur.chain, j + 1)
      /\ (j = 0 => c.src = cur.cid) /\ (j > 0 => c.src = Entry(cur.chain, j)) /\ cur.cid \in Cid
  BY <1>h, <1>1, ConnIs
<1>3. /\ UNCHANGED <<init_core_done, tx, txfree, outs, mpos, tpos, addr, woken, pkt, chains, ids, thdVars>>
      /\ conns' = Append(conns, c) /\ infos' = infos \union {c.src, c.dst}
      /\ Goto("rx", IF j = 0 THEN "enter" ELSE "activate")
  BY <1>a, <1>1 DEF mca_conn_create, mgrVars, scanVars, bootVars
<1>4. /\ pc'.mgr = pc.mgr /\ pc'.mca = pc.mca /\ pc'.tx = pc.tx
      /\ pc.rx = (IF j = 0 THEN "conn" ELSE "activate") /\ pc'.rx = (IF j = 0 THEN "enter" ELSE "activate")
  <2>1. CASE j = 0
    BY <1>t, <1>3, <2>1, PcMoves DEF RxPcs
  <2>2. CASE j > 0
    BY <1>t, <1>3, <2>2, PcMoves DEF RxPcs
  <2> QED BY <1>t, <2>1, <2>2
<1>5. /\ cur'.chain = cur.chain /\ cur'.cid = cur.cid /\ (j > 0 => cur.k = j /\ cur'.k = j + 1)
  BY SMTT(30) DEF SetupInv, OwnInv, Types
<1>6. /\ conns' \in Seq(Links) /\ Len(conns') = Len(conns) + 1 /\ conns'[Len(conns) + 1] = c
      /\ \A n \in 1 .. Len(conns) : conns'[n] = conns[n]
  BY <1>2, <1>3, <1>t
<1>7. Boot' /\ Made'
  BY <1>t, <1>3, <1>4, BootFrame, MadeFrame
<1>8. TxList'
  BY <1>t, <1>3, <1>4, <1>5 DEF Rest, TxList
<1>9. ConnCount'
  <2>1. mpos' \in 0 .. Len(conns')
    BY <1>3, <1>6, <1>t
  <2>2. CASE j = 0
    <3>1. Len(conns) = Base(Len(tx)) - 3 /\ Len(tx) \in Nat
      BY <1>4, <2>2 DEF SetupInv, ConnCount, TxList
    <3>2. Len(conns') = Base(Len(tx')) - 2
      <4>1. Base(Len(tx)) \in Nat
        BY <3>1, Bases
      <4> QED BY <1>3, <1>6, <3>1, <4>1
    <3> QED BY <1>4, <1>6, <2>1, <2>2, <3>2 DEF ConnCount
  <2>3. CASE j > 0
    <3>1. Len(conns) = Base(Len(tx) - 1) + j - 3 /\ Len(tx) \in Nat /\ Len(tx) > 0
      BY <1>4, <1>5, <2>3 DEF SetupInv, ConnCount, TxList
    <3>2. Len(tx) - 1 \in Nat
      BY <3>1
    <3>3. Len(conns') = Base(Len(tx') - 1) + cur'.k - 3
      <4>1. PICK b \in Nat : b = Base(Len(tx) - 1)
        BY <3>2, Bases
      <4> QED BY <1>3, <1>5, <1>6, <1>t, <2>3, <3>1, <4>1
    <3>4. cur'.k \in 1 .. ChainLen
      BY <1>5, <1>t, <2>3
    <3> QED BY <1>4, <1>6, <2>1, <2>3, <3>3, <3>4 DEF ConnCount
  <2> QED BY <1>t, <2>2, <2>3
<1>10. Linked'
  <2> SUFFICES ASSUME NEW n \in 1 .. Len(conns) + 1 PROVE conns'[n].j < ChainLen
    BY <1>6 DEF Linked
  <2>3. CASE n = Len(conns) + 1
    BY <1>2, <1>6, <1>t, <2>3
  <2>4. CASE n # Len(conns) + 1
    <3>1. n \in 1 .. Len(conns) /\ conns'[n] = conns[n]
      BY <1>6, <1>t, <2>4
    <3> QED BY <1>t, <3>1 DEF Rest, Linked
  <2> QED BY <2>3, <2>4
<1>11. Infos'
  <2>1. infos' \subseteq Nat
    BY <1>2, <1>3, <1>t DEF Links, Rest, Infos
  <2>2. \A i \in 1 .. ChainLen : ~(Entry(cur.chain, i) < EOS_MAX_CHAIN_NUM)
    <3>1. Base(cur.chain) \in Nat /\ EOS_MAX_CHAIN_NUM \in Nat /\ FirstTid \in Nat
      BY <1>h, Held, Bases, Sizes, Numbers
    <3> QED BY <3>1, <1>t DEF Entry
  <2>3. ~(c.dst < EOS_MAX_CHAIN_NUM) /\ (j > 0 => ~(c.src < EOS_MAX_CHAIN_NUM))
    <3>1. j + 1 \in 1 .. ChainLen /\ (j > 0 => j \in 1 .. ChainLen)
      BY <1>t
    <3> QED BY <1>2, <2>2, <3>1
  <2> SUFFICES ASSUME NEW f \in infos', f < EOS_MAX_CHAIN_NUM
               PROVE  f \in Cid /\ (outs'[f] # 0 \/ (pc'.rx = "enter" /\ f = cur'.cid))
    BY <2>1 DEF Infos
  <2>4. CASE f \in infos
    BY <1>3, <1>4, <1>t, <2>4 DEF Rest, Infos
  <2>5. CASE f = c.src
    <3>1. j = 0
      BY <1>t, <2>3, <2>5
    <3> QED BY <1>2, <1>4, <1>5, <2>5, <3>1
  <2>6. CASE f = c.dst
    BY <2>3, <2>6
  <2> QED BY <1>3, <2>4, <2>5, <2>6
<1>12. Ready' /\ Woken'
  BY <1>3, <1>4, <1>5, <1>t DEF Rest, Ready, Woken
<1> QED BY <1>7, <1>8, <1>9, <1>10, <1>11, <1>12 DEF SetupInv

\* The rest of ninf_setup_new_chain.
LEMMA SetupAddr ==
  ASSUME SetupInv, OwnInv', activate_addr
  PROVE  SetupInv'
<1>t. pc \in PcType /\ Boot /\ Made /\ Rest /\ pc.rx = "activate" /\ cur.k = ChainLen /\ ChainLen \in Nat
  BY Numbers DEF SetupInv, OwnInv, Types, Rest, activate_addr
<1>h. Holding
  BY <1>t DEF Holding
<1>2. Nfs(cur.chain) = Block(cur.chain) /\ Base(cur.chain) \in Nat /\ Nfs(cur.chain) \subseteq thds
  <2>1. Pushed(cur.chain) /\ cur.chain \in Nat
    BY <1>h, Held
  <2>2. Nfs(cur.chain) = Block(cur.chain) /\ Block(cur.chain) \subseteq thds
    BY <2>1, InUse
  <2> QED BY <2>1, <2>2, Bases
<1>1. /\ UNCHANGED <<init_core_done, tx, txfree, outs, mpos, tpos, woken, pkt, chains, ids, thdVars, conns, infos, cur>>
      /\ addr' = addr \union Nfs(cur.chain)
      /\ pc'.mgr = pc.mgr /\ pc'.mca = pc.mca /\ pc'.tx = pc.tx /\ pc'.rx = "conn"
  BY <1>t, <1>2, PcMoves DEF activate_addr, RxPcs, mgrVars, scanVars, bootVars
<1>3. Boot' /\ Made'
  BY <1>t, <1>1, BootFrame, MadeFrame
<1>4. TxList'
  BY <1>t, <1>1 DEF Rest, TxList
<1>5. ConnCount'
  <2>1. /\ Len(conns) = Base(Len(tx) - 1) + ChainLen - 3 /\ Len(tx) \in Nat /\ Len(tx) > 0
        /\ conns \in Seq(Links) /\ mpos \in 0 .. Len(conns)
    BY <1>t DEF Rest, ConnCount, TxList
  <2>2. PICK n \in Nat : n = Len(tx) - 1 /\ n + 1 = Len(tx)
    BY <2>1
  <2>3. Base(n) \in Nat /\ Base(n + 1) = Base(n) + ChainLen
    BY Bases
  <2>4. Len(conns) = Base(Len(tx)) - 3
    BY <1>t, <2>1, <2>2, <2>3
  <2> QED BY <1>1, <2>1, <2>4 DEF ConnCount
<1>6. Linked' /\ Infos'
  BY <1>1, <1>t DEF Rest, Linked, Infos
<1>7. Ready' /\ Woken'
  <2>1. Block(cur.chain) \subseteq Nat
    BY <1>2, <1>t DEF Block, Upto
  <2> QED BY <1>1, <1>2, <1>t, <2>1 DEF Rest, Ready, Woken
<1> QED BY <1>3, <1>4, <1>5, <1>6, <1>7 DEF SetupInv

\* rx_enter: the chain is the flow's, and its first packet is on the way.
LEMMA SetupEnter ==
  ASSUME SetupInv, OwnInv', rx_enter
  PROVE  SetupInv'
<1>t. pc \in PcType /\ Boot /\ Made /\ Rest /\ pc.rx = "enter" /\ outs \in [Cid -> Ptr] /\ ChainLen \in Nat
      /\ pkt \in [Chain -> -1 .. 2 * ChainLen]
  BY Numbers DEF SetupInv, OwnInv, Types, Rest, rx_enter, Ready
<1>h. Holding
  BY <1>t DEF Holding
<1>1. PICK f \in Cid, r \in Chain : f = cur.cid /\ r = cur.chain
  BY <1>h, Held
<1>2. outs[f] = 0 /\ r # 0 /\ r \in Nat
  BY <1>h, <1>1, Held
<1>3. /\ UNCHANGED <<init_core_done, tx, txfree, mpos, tpos, woken, addr, chains, ids, thdVars, conns, infos>>
      /\ outs' = [outs EXCEPT ![f] = r] /\ pkt' = [pkt EXCEPT ![r] = 0]
      /\ pc'.mgr = pc.mgr /\ pc'.mca = pc.mca /\ pc'.tx = pc.tx /\ pc'.rx = "loop"
  BY <1>t, <1>1, PcMoves DEF rx_enter, RxPcs, mgrVars, scanVars, bootVars
<1>4. /\ outs'[f] = r /\ \A g \in Cid : g # f => outs'[g] = outs[g]
      /\ pkt'[r] = 0 /\ \A c \in Chain : c # r => pkt'[c] = pkt[c]
      /\ \A g \in Cid : outs[g] # 0 => outs'[g] = outs[g]
  BY <1>t, <1>2, <1>3
<1>5. Boot' /\ Made'
  BY <1>t, <1>3, BootFrame, MadeFrame
<1>6. TxList'
  <2>1. \A n \in 1 .. Len(tx) : \E g \in Cid : outs'[g] = tx[n]
    <3> SUFFICES ASSUME NEW n \in 1 .. Len(tx) PROVE \E g \in Cid : outs'[g] = tx[n]
      OBVIOUS
    <3>1. tx[n] \in Chain /\ tx[n] # 0 /\ ((\E g \in Cid : outs[g] = tx[n]) \/ tx[n] = r)
      BY <1>t, <1>1, Pointers DEF Rest, TxList
    <3> QED BY <3>1, <1>4
  <2> QED BY <1>3, <1>t, <2>1 DEF Rest, TxList
<1>7. ConnCount'
  BY <1>3, <1>t DEF Rest, ConnCount
<1>8. Linked'
  BY <1>3, <1>t DEF Rest, Linked
<1>9. Infos'
  BY <1>1, <1>2, <1>3, <1>4, <1>t DEF Rest, Infos
<1>10. Ready'
  <2>1. pkt' \in [Chain -> -1 .. 2 * ChainLen]
    BY <1>3, <1>t
  <2>2. \A g \in Cid : outs'[g] # 0 => Block(outs'[g]) \subseteq addr
    <3>1. Block(r) \subseteq addr /\ \A g \in Cid : outs[g] # 0 => Block(outs[g]) \subseteq addr
      BY <1>1, <1>t DEF Rest, Ready
    <3> QED BY <1>4, <3>1
  <2>3. \A c \in Chain : pkt'[c] # -1 => \E g \in Cid : outs'[g] = c
    <3>1. \A c \in Chain : c # 0 /\ (pkt[c] # -1 => \E g \in Cid : outs[g] = c)
      BY <1>t, Pointers DEF Rest, Ready
    <3> QED BY <1>4, <3>1
  <2> QED BY <1>3, <1>t, <2>1, <2>2, <2>3 DEF Rest, Ready, Block, Upto, Base
<1>11. Woken'
  <2>1. \A j \in 1 .. ChainLen : 0 # 2 * j - 1
    BY <1>t
  <2> QED BY <1>3, <1>4, <1>t, <2>1 DEF Rest, Woken
<1> QED BY <1>5, <1>6, <1>7, <1>8, <1>9, <1>10, <1>11 DEF SetupInv

\* A step that moves packets.
LEMMA PacketFrame ==
  ASSUME SetupInv, OwnInv', UNCHANGED <<init_core_done, tx, txfree, outs, addr, chains, ids, thdVars, conns, infos, cur, pc>>,
         mpos' \in 0 .. Len(conns), tpos' \in 0 .. Len(tx), pc.tx = "wait" => tpos' = 0,
         woken' \subseteq Nat, pkt' \in [Chain -> -1 .. 2 * ChainLen],
         \A c \in Chain : pkt'[c] # -1 => \E f \in Cid : outs[f] = c,
         Woken'
  PROVE  SetupInv'
<1>t. Boot /\ Made /\ Rest
  BY DEF SetupInv, Rest
<1>1. Boot'
  BY <1>t DEF Boot
<1>2. Made'
  BY <1>t, MadeFrame
<1>3. TxList'
  BY <1>t DEF Rest, TxList
<1>4. ConnCount'
  BY <1>t DEF Rest, ConnCount
<1>5. Linked' /\ Infos'
  BY <1>t DEF Rest, Linked, Infos
<1>6. Ready'
  BY <1>t DEF Rest, Ready
<1> QED BY <1>1, <1>2, <1>3, <1>4, <1>5, <1>6 DEF SetupInv

\* The next packet of a flow.
LEMMA SetupSend ==
  ASSUME SetupInv, OwnInv', NEW f \in Cid, rx_send(f)
  PROVE  SetupInv'
<1>1. ChainLen \in Nat /\ pkt \in [Chain -> -1 .. 2 * ChainLen] /\ outs \in [Cid -> Ptr]
  BY Numbers DEF SetupInv, Ready, OwnInv, Types
<1>2. PICK r \in Chain : r = outs[f]
  BY <1>1, Pointers DEF rx_send
<1>3. /\ UNCHANGED <<init_core_done, tx, txfree, outs, addr, chains, ids, thdVars, conns, infos, cur, pc, mpos, tpos, woken>>
      /\ pkt' = [pkt EXCEPT ![r] = 0]
  BY <1>2 DEF rx_send, mgrVars, scanVars, bootVars, rxVars
<1>4. pkt'[r] = 0 /\ \A c \in Chain : c # r => pkt'[c] = pkt[c]
  BY <1>1, <1>3
<1>5. Woken'
  <2>1. \A j \in 1 .. ChainLen : 0 # 2 * j - 1
    BY <1>1
  <2> QED BY <1>3, <1>4, <2>1 DEF SetupInv, Woken
<1>6. \A c \in Chain : pkt'[c] # -1 => \E g \in Cid : outs[g] = c
  BY <1>2, <1>4 DEF SetupInv, Ready
<1>7. pkt' \in [Chain -> -1 .. 2 * ChainLen] /\ woken' \subseteq Nat
  BY <1>1, <1>3 DEF SetupInv, Ready
<1>8. mpos' \in 0 .. Len(conns) /\ tpos' \in 0 .. Len(tx) /\ (pc.tx = "wait" => tpos' = 0)
  BY <1>3 DEF SetupInv, TxList, ConnCount, Boot
<1> QED BY <1>3, <1>5, <1>6, <1>7, <1>8, PacketFrame

\* The ids of functions are those of one chain and one place in it.
LEMMA OneFunction ==
  ASSUME NEW c \in Chain, NEW d \in Chain, NEW i \in 1 .. ChainLen, NEW j \in 1 .. ChainLen,
         Base(c) + i - 1 = Base(d) + j - 1
  PROVE  c = d /\ i = j
<1>1. c \in Nat /\ d \in Nat /\ Base(c) \in Nat /\ Base(d) \in Nat /\ ChainLen \in Nat
  BY Pointers, Bases, Numbers
<1>2. ~(c < d)
  <2>1. c < d => Base(c) + ChainLen <= Base(d)
    BY <1>1, Bases
  <2> QED BY <1>1, <2>1
<1>3. ~(d < c)
  <2>1. d < c => Base(d) + ChainLen <= Base(c)
    BY <1>1, Bases
  <2> QED BY <1>1, <2>1
<1>4. c = d
  BY <1>1, <1>2, <1>3
<1> QED BY <1>1, <1>4

\* mca_scan wakes the function that gets the packet.
LEMMA SetupMca ==
  ASSUME SetupInv, OwnInv', mca_scan
  PROVE  SetupInv'
<1>1. /\ ChainLen \in Nat /\ pkt \in [Chain -> -1 .. 2 * ChainLen] /\ woken \subseteq Nat
      /\ mpos \in 0 .. Len(conns) /\ conns \in Seq(Links) /\ Len(conns) \in Nat
  BY Numbers DEF SetupInv, Ready, ConnCount
<1>2. UNCHANGED <<init_core_done, tx, txfree, outs, addr, chains, ids, thdVars, conns, infos, cur, pc, tpos>>
  BY DEF mca_scan, mgrVars, bootVars, rxVars
<1>3. tpos' \in 0 .. Len(tx) /\ (pc.tx = "wait" => tpos' = 0)
  BY <1>2 DEF SetupInv, TxList, Boot
<1>4. CASE UNCHANGED <<pkt, woken>> /\ mpos' \in 0 .. Len(conns)
  <2>1. Woken' /\ \A c \in Chain : pkt'[c] # -1 => \E f \in Cid : outs[f] = c
    BY <1>4 DEF SetupInv, Woken, Ready
  <2> QED BY <1>1, <1>2, <1>3, <1>4, <2>1, PacketFrame
<1>5. CASE mpos > 0 /\ mpos' = mpos - 1 /\ pkt[conns[mpos].chain] = 2 * conns[mpos].j
  <2>0. mpos \in 1 .. Len(conns) /\ mpos' \in 0 .. Len(conns) /\ conns[mpos] \in Links
    BY <1>1, <1>5
  <2>1. PICK c \in Chain, j \in Nat : c = conns[mpos].chain /\ j = conns[mpos].j
    BY <2>0 DEF Links
  <2>2. j < ChainLen
    BY <2>0, <2>1 DEF SetupInv, Linked
  <2>3. /\ pkt[c] = 2 * j /\ pkt' = [pkt EXCEPT ![c] = 2 * j + 1]
        /\ woken' = woken \union ({NfOf(c, j + 1)} \intersect addr)
    BY <1>5, <2>1 DEF mca_scan
  <2>4. PICK f \in Cid : outs[f] = c
    BY <1>1, <2>3 DEF SetupInv, Ready
  <2>5. c # 0 /\ Pushed(c)
    BY <2>4, Pointers DEF SetupInv, OwnInv, Flows
  <2>6. NfOf(c, j + 1) = Base(c) + j /\ Base(c) \in Nat
    <3>1. NfOf(c, j + 1) = Base(c) + (j + 1) - 1 /\ c \in Nat
      BY <2>5, InUse
    <3> QED BY <3>1, Bases
  <2>7. Base(c) + j \in addr
    <3>1. Block(c) \subseteq addr
      BY <2>4, <2>5 DEF SetupInv, Ready
    <3>2. Base(c) + j \in Block(c)
      BY <1>1, <2>2, <2>6 DEF Block, Upto
    <3> QED BY <3>1, <3>2
  <2>8. woken' = woken \union {Base(c) + j}
    BY <2>3, <2>6, <2>7
  <2>9. /\ pkt' \in [Chain -> -1 .. 2 * ChainLen] /\ woken' \subseteq Nat
        /\ pkt'[c] = 2 * j + 1 /\ \A d \in Chain : d # c => pkt'[d] = pkt[d]
    <3>1. 2 * j + 1 \in -1 .. 2 * ChainLen
      BY <1>1, <2>2
    <3>2. PICK p \in -1 .. 2 * ChainLen : p = 2 * j + 1
      BY <3>1
    <3>3. pkt' \in [Chain -> -1 .. 2 * ChainLen] /\ pkt'[c] = p /\ \A d \in Chain : d # c => pkt'[d] = pkt[d]
      <4>1. pkt' = [pkt EXCEPT ![c] = p]
        BY <2>3, <3>2
      <4> QED BY <1>1, <4>1
    <3>4. woken' \subseteq Nat
      <4>1. PICK b \in Nat : b = Base(c) + j
        BY <2>6
      <4> QED BY <1>1, <2>8, <4>1
    <3> QED BY <3>2, <3>3, <3>4
  <2>10. Woken'
    <3> SUFFICES ASSUME NEW d \in Chain, NEW i \in 1 .. ChainLen, pkt'[d] = 2 * i - 1
                 PROVE  Base(d) + i - 1 \in woken'
      BY DEF Woken
    <3>1. CASE d = c
      <4>1. i = j + 1
        BY <1>1, <2>9, <3>1
      <4>2. Base(d) + i - 1 = Base(c) + j
        BY <2>6, <3>1, <4>1
      <4> QED BY <2>8, <4>2
    <3>2. CASE d # c
      BY <2>8, <2>9, <3>2 DEF SetupInv, Woken
    <3> QED BY <3>1, <3>2
  <2>11. \A d \in Chain : pkt'[d] # -1 => \E g \in Cid : outs[g] = d
    BY <2>4, <2>9 DEF SetupInv, Ready
  <2> QED BY <1>2, <1>3, <2>0, <2>9, <2>10, <2>11, PacketFrame
<1>6. \/ UNCHANGED <<pkt, woken>> /\ mpos' \in 0 .. Len(conns)
      \/ mpos > 0 /\ mpos' = mpos - 1 /\ pkt[conns[mpos].chain] = 2 * conns[mpos].j
  <2>1. CASE mpos = 0
    BY <1>1, <2>1 DEF mca_scan
  <2>2. CASE mpos > 0
    BY <1>1, <2>2 DEF mca_scan
  <2> QED BY <1>1, <2>1, <2>2
<1> QED BY <1>4, <1>5, <1>6

\* A function passes its packet on, and ninf_tx_scan takes it from the last.
LEMMA SetupNf ==
  ASSUME SetupInv, OwnInv', NEW c \in Chain, nf_run(c)
  PROVE  SetupInv'
<1>1. /\ ChainLen \in Nat /\ pkt \in [Chain -> -1 .. 2 * ChainLen] /\ woken \subseteq Nat
  BY Numbers DEF SetupInv, Ready
<1>2. UNCHANGED <<init_core_done, tx, txfree, outs, addr, chains, ids, thdVars, conns, infos, cur, pc, tpos, mpos>>
  BY DEF nf_run, mgrVars, bootVars, rxVars, scanVars
<1>3. PICK j \in 1 .. ChainLen : /\ pkt[c] = 2 * j - 1 /\ pkt' = [pkt EXCEPT ![c] = pkt[c] + 1]
                                 /\ woken' = woken \ {NfOf(c, j)}
  BY DEF nf_run
<1>4. NfOf(c, j) = Base(c) + j - 1
  <2>1. c \in 1 .. Len(chains)
    <3>1. c \in Nat /\ c > 0 /\ c <= Len(chains) /\ chains \in Seq(ChainRec)
      BY Pointers DEF nf_run, SetupInv, OwnInv, Types
    <3> QED BY <3>1
  <2> QED BY <2>1 DEF SetupInv, Made, Ids, NfOf
<1>5. pkt'[c] = 2 * j /\ \A d \in Chain : d # c => pkt'[d] = pkt[d]
  BY <1>1, <1>3
<1>6. Woken'
  <2> SUFFICES ASSUME NEW d \in Chain, NEW i \in 1 .. ChainLen, pkt'[d] = 2 * i - 1
               PROVE  Base(d) + i - 1 \in woken'
    BY DEF Woken
  <2>1. d # c
    BY <1>1, <1>5
  <2>2. Base(d) + i - 1 \in woken
    BY <1>5, <2>1 DEF SetupInv, Woken
  <2>3. Base(d) + i - 1 # Base(c) + j - 1
    BY <2>1, OneFunction
  <2> QED BY <1>3, <1>4, <2>2, <2>3
<1>7. pkt' \in [Chain -> -1 .. 2 * ChainLen] /\ woken' \subseteq Nat
  <2>1. PICK p \in -1 .. 2 * ChainLen : p = pkt[c] + 1
    BY <1>1, <1>3
  <2>2. pkt' = [pkt EXCEPT ![c] = p]
    BY <1>3, <2>1
  <2> QED BY <1>1, <1>3, <2>2
<1>8. \A d \in Chain : pkt'[d] # -1 => \E g \in Cid : outs[g] = d
  <2>1. pkt[c] # -1
    BY <1>1, <1>3
  <2> QED BY <1>5, <2>1 DEF SetupInv, Ready
<1>9. mpos' \in 0 .. Len(conns) /\ tpos' \in 0 .. Len(tx) /\ (pc.tx = "wait" => tpos' = 0)
  BY <1>2 DEF SetupInv, TxList, ConnCount, Boot
<1> QED BY <1>2, <1>6, <1>7, <1>8, <1>9, PacketFrame

LEMMA SetupTx ==
  ASSUME SetupInv, OwnInv', ninf_tx_scan
  PROVE  SetupInv'
<1>1. /\ ChainLen \in Nat /\ pkt \in [Chain -> -1 .. 2 * ChainLen] /\ woken \subseteq Nat
      /\ tpos \in 0 .. Len(tx) /\ tx \in Seq(Chain) /\ Len(tx) \in Nat
  BY Numbers DEF SetupInv, Ready, TxList
<1>2. /\ UNCHANGED <<init_core_done, tx, txfree, outs, addr, chains, ids, thdVars, conns, infos, cur, pc, mpos, woken>>
      /\ pc.tx = "loop"
  BY DEF ninf_tx_scan, mgrVars, bootVars, rxVars
<1>3. tpos' \in 0 .. Len(tx) /\ mpos' \in 0 .. Len(conns)
  BY <1>1, <1>2 DEF ninf_tx_scan, SetupInv, ConnCount
<1>4. UNCHANGED pkt \/ \E c \in Chain : pkt' = [pkt EXCEPT ![c] = -1]
  <2>1. CASE tpos = 0
    BY <2>1 DEF ninf_tx_scan
  <2>2. CASE tpos # 0
    <3>1. tx[tpos] \in Chain
      BY <1>1, <2>2
    <3> QED BY <2>2, <3>1 DEF ninf_tx_scan
  <2> QED BY <2>1, <2>2
<1>5. /\ pkt' \in [Chain -> -1 .. 2 * ChainLen]
      /\ \A d \in Chain : pkt'[d] = pkt[d] \/ pkt'[d] = -1
  BY <1>1, <1>4
<1>6. Woken'
  <2>1. \A j \in 1 .. ChainLen : -1 # 2 * j - 1
    BY <1>1
  <2> QED BY <1>2, <1>5, <2>1 DEF SetupInv, Woken
<1>7. \A d \in Chain : pkt'[d] # -1 => \E g \in Cid : outs[g] = d
  BY <1>5 DEF SetupInv, Ready
<1> QED BY <1>1, <1>2, <1>3, <1>5, <1>6, <1>7, PacketFrame

\* Every step keeps the tables and the links right.
LEMMA SetupInductive ==
  ASSUME SetupInv, OwnInv', [Next]_vars
  PROVE  SetupInv'
<1>1. CASE activate_conn
  <2>1. /\ pc.rx = "activate" /\ cur.k < ChainLen /\ mca_conn_create(cur.k, "activate")
        /\ cur' = [cur EXCEPT !.k = @ + 1]
    BY <1>1 DEF activate_conn
  <2>2. cur.k \in 1 .. ChainLen /\ ChainLen \in Nat
    BY <2>1, Numbers DEF SetupInv, ConnCount
  <2>3. PICK j \in 0 .. ChainLen - 1 : j = cur.k /\ j > 0
    BY <2>1, <2>2
  <2> QED BY <2>1, <2>3, SetupConn
<1>2. CASE conn_first
  <2>1. pc.rx = "conn" /\ mca_conn_create(0, "enter") /\ UNCHANGED cur
    BY <1>2 DEF conn_first
  <2>2. 0 \in 0 .. ChainLen - 1
    BY Numbers
  <2> QED BY <2>1, <2>2, SetupConn
<1>3. CASE UNCHANGED vars
  <2>1. UNCHANGED <<init_core_done, tx, txfree, outs, addr, chains, ids, thdVars, conns, infos, cur, pc, mpos, tpos, woken, pkt>>
    BY <1>3 DEF vars, mgrVars, bootVars, rxVars, scanVars
  <2>2. /\ mpos' \in 0 .. Len(conns) /\ tpos' \in 0 .. Len(tx) /\ (pc.tx = "wait" => tpos' = 0)
        /\ woken' \subseteq Nat /\ pkt' \in [Chain -> -1 .. 2 * ChainLen]
        /\ \A c \in Chain : pkt'[c] # -1 => \E f \in Cid : outs[f] = c
    BY <2>1 DEF SetupInv, TxList, ConnCount, Boot, Ready
  <2>3. Woken'
    BY <2>1 DEF SetupInv, Woken
  <2> QED BY <2>1, <2>2, <2>3, PacketFrame
<1> QED BY <1>1, <1>2, <1>3, SetupStart, SetupManager, SetupAsk, SetupTxAdd, SetupAddr, SetupEnter,
     SetupSend, SetupMca, SetupNf, SetupTx, SetupCore DEF Next, mgr, mca, rx_arrives, rx, tx_core

LEMMA SetupInit ==
  ASSUME Init
  PROVE  SetupInv
<1>1. /\ chains = <<>> /\ pc.mgr = "init" /\ pc.mca = "wait" /\ pc.rx = "wait" /\ pc.tx = "wait"
      /\ init_core_done = 0 /\ tx = <<>> /\ txfree = 0 /\ conns = <<>> /\ mpos = 0 /\ tpos = 0
      /\ infos = {} /\ addr = {} /\ woken = {} /\ \A f \in Cid : outs[f] = 0
      /\ ids = [nf |-> 2, chain |-> 0, shmem |-> 0, template |-> 0]
  BY DEF Init
<1>2. OwnInv
  BY OwnInit
<1>3. Boot /\ Ids
  BY <1>1 DEF Boot, Ids, One
<1>m. Made
  <2>1. up = {} /\ req = 0 /\ thds = {} /\ \A c : ~Pushed(c)
    BY <1>1 DEF Init, Pushed
  <2> QED BY <1>1, <1>3, <2>1 DEF Made, Threads
<1>4. TxList
  BY <1>1 DEF TxList
<1>5. ConnCount
  BY <1>1, Bases DEF ConnCount
<1>6. Linked /\ Infos
  BY <1>1 DEF Linked, Infos
<1>7. pkt = [c \in Chain |-> -1] /\ ChainLen \in Nat
  BY Numbers DEF Init
<1>8. Ready
  BY <1>1, <1>7 DEF Ready
<1>9. Woken
  <2>1. \A j \in 1 .. ChainLen : -1 # 2 * j - 1
    BY <1>7
  <2> QED BY <1>7, <2>1 DEF Woken
<1> QED BY <1>2, <1>3, <1>m, <1>4, <1>5, <1>6, <1>8, <1>9 DEF SetupInv

\* The order of the start, the ids dealt, the threads, the lists and the links, in every reachable
\* state, wherever the manager stopped.
THEOREM SetupInvariance == Spec => []SetupInv
<1>1. Init => SetupInv
  BY SetupInit
<1>2. SetupInv /\ OwnInv' /\ [Next]_vars => SetupInv'
  BY SetupInductive
<1> QED BY <1>1, <1>2, OwnInvariance, PTL DEF Spec

\* No assertion of ninf_setup_new_chain fails and no initaep it reads through is NULL, in whatever
\* order the cores start and wherever the manager stops: a chain in a cache has all its threads,
\* there is an entry for it in every list and table, and no two functions share an id.
THEOREM SetupAsserts == Spec => []Asserts
<1>1. SetupInv => Asserts
  <2> SUFFICES ASSUME SetupInv PROVE Asserts
    OBVIOUS
  <2>0. /\ NumChains \in Nat /\ ChainLen \in Nat /\ ChainLen > 0 /\ Len(chains) \in Nat /\ Len(chains) <= NumChains
    BY Numbers DEF SetupInv, OwnInv, Types
  <2>1. TypeOK
    <3>1. init_core_done \in 0 .. 4
      BY DEF SetupInv, Boot, One
    <3>2. DOMAIN pc = {"mgr", "mca", "rx", "tx"}
      BY DEF SetupInv, OwnInv, Types, PcType
    <3>3. txfree \in 0 .. EOS_MAX_CHAIN_NUM
      <4>1. EOS_MAX_CHAIN_NUM \in Nat /\ txfree \in Nat /\ Len(tx) \in Nat
        BY Sizes DEF SetupInv, Boot, TxList
      <4>2. CASE pc.tx = "wait"
        BY <4>1, <4>2 DEF SetupInv, Boot
      <4>3. CASE pc.tx # "wait"
        <5>1. txfree + Len(tx) = EOS_MAX_CHAIN_NUM
          BY <4>3 DEF SetupInv, Boot
        <5> QED BY <4>1, <5>1
      <4> QED BY <4>2, <4>3
    <3>4. /\ rx_init_done \in BOOLEAN /\ ids \in [nf : Nat, chain : Nat, shmem : Nat, template : Nat]
          /\ chains \in Seq([core : 0 .. NCore - 1, nf : Nat, shmem : Nat]) /\ Len(chains) <= NumChains
          /\ head \in [0 .. NCore - 1 -> 0 .. NumChains] /\ next \in [Chain -> 0 .. NumChains]
          /\ put \in 0 .. NumChains /\ major \in 0 .. NCore - 1 /\ outs \in [Cid -> 0 .. NumChains]
      BY DEF SetupInv, OwnInv, Types, ChainRec, Cores, Ptr
    <3>5. /\ tx \in Seq(Chain) /\ infos \subseteq Nat /\ addr \subseteq Nat /\ woken \subseteq Nat
          /\ mpos \in 0 .. Len(conns) /\ tpos \in 0 .. Len(tx) /\ pkt \in [Chain -> -1 .. 2 * ChainLen]
      BY DEF SetupInv, TxList, ConnCount, Infos, Ready
    <3>6. up \subseteq 0 .. NCore - 1 /\ req \in Nat /\ thds \subseteq Nat
      BY DEF SetupInv, Made, Threads, Cores
    <3> QED BY <3>1, <3>2, <3>3, <3>4, <3>5, <3>6 DEF TypeOK
  <2>2. pc.rx # "assert"
    BY DEF SetupInv, ConnCount
  <2>4. ASSUME NEW a \in 1 .. Len(chains), NEW b \in 1 .. Len(chains), a < b
        PROVE  Nfs(a) \intersect Nfs(b) = {} /\ chains[a].shmem + ChainLen <= chains[b].shmem
    <3>1. a \in Nat /\ b \in Nat
      BY <2>0
    <3>2. PICK x \in Nat, y \in Nat : x = Base(a) /\ y = Base(b)
      BY <3>1, Bases
    <3>3. x + ChainLen <= y
      BY <2>4, <3>1, <3>2, Bases
    <3>4. chains[a].nf = x /\ chains[b].nf = y /\ chains[a].shmem = x - 2 /\ chains[b].shmem = y - 2
      BY <3>2 DEF SetupInv, Made, Ids
    <3>5. Nfs(a) = x .. x + ChainLen - 1 /\ Nfs(b) = y .. y + ChainLen - 1
      BY <3>4 DEF Nfs
    <3>6. \A n : ~(n \in x .. x + ChainLen - 1 /\ n \in y .. y + ChainLen - 1)
      BY <2>0, <3>3
    <3> QED BY <2>0, <3>3, <3>4, <3>5, <3>6
  <2> QED BY <2>1, <2>2, <2>4 DEF Asserts, Apart
<1> QED BY <1>1, SetupInvariance, PTL

\* Every packet on a function has woken the thread that serves its ring: the MCA found its
\* address, although the connections are visible to it before the addresses are set.
THEOREM LinksRight == Spec => []Addressed
<1>1. SetupInv => Addressed
  <2> SUFFICES ASSUME SetupInv, NEW c \in 1 .. Len(chains), NEW j \in 1 .. ChainLen, pkt[c] = 2 * j - 1
               PROVE  NfOf(c, j) \in woken
    BY DEF Addressed
  <2>1. chains \in Seq(ChainRec) /\ Len(chains) <= NumChains
    BY DEF SetupInv, OwnInv, Types
  <2>2. c \in Nat /\ c > 0 /\ c <= NumChains
    BY <2>1, Numbers
  <2>3. c \in Chain
    BY <2>2, Pointers
  <2>4. Base(c) + j - 1 \in woken
    BY <2>3 DEF SetupInv, Woken
  <2> QED BY <2>4 DEF SetupInv, Made, Ids, NfOf
<1> QED BY <1>1, SetupInvariance, PTL
=============================================================================
