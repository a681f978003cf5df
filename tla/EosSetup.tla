------------------------------ MODULE EosSetup ------------------------------
(***************************************************************************)
(* How EOS comes up and how a flow gets its chain: the start of the four    *)
(* system cores and of those of the functions (llbooter.c), the manager     *)
(* that forks the chains, asks the cores of the functions for their threads *)
(* (sl_xcpu.c) and puts the chains into the cache of each core              *)
(* (fwp_manager.c, fwp_chain_cache.c), the receive thread that takes one    *)
(* for a new flow and links it to the MCA and the transmit thread           *)
(* (ninf_rx.c, eos_mca.c, ninf_tx.c), and the first packet on its way       *)
(* through what was linked.                                                 *)
(*                                                                          *)
(* Every access to what two cores share is a step of its own.  The rings    *)
(* are those of EosChain; here a ring holds at most one packet of a chain.  *)
(* All functions of a chain have a ring and a thread, as those of           *)
(* fwp_create_click_mqtt_chain and fwp_create_chain_multi_tency do.         *)
(***************************************************************************)
EXTENDS Integers, Sequences, FiniteSets

CONSTANTS
  NCore,        \* NF_MAX_CORE - NF_MIN_CORE; these cores are 0 .. NCore - 1
  PerCore,      \* EOS_MAX_CHAIN_NUM_PER_CORE
  ChainTypes,   \* EOS_MAX_NF_CHAIN_TYPE_NUM
  NfTypes,      \* EOS_MAX_NF_TYPE_NUM
  MaxChainLen,  \* EOS_MAX_CHAIN_LEN
  ChainLen,     \* the number of functions of the chain that fwp_test builds
  ConnMax,      \* MCA_CONN_MAX_NUM
  FirstTid,     \* no other thread has an id as great
  Cid           \* the flows that clients open: source port - FLOW_START_PORT

NumChains == NCore * PerCore
Chain == 1 .. NumChains

EOS_MAX_CHAIN_NUM == PerCore * NCore + ChainTypes
EOS_MAX_NF_NUM == 2 + NfTypes + MaxChainLen * PerCore * NCore
EOS_MAX_MEMSEGS_NUM == MaxChainLen * EOS_MAX_CHAIN_NUM

ASSUME SetupAssumption ==
  /\ {NCore, PerCore, ChainLen} \subseteq Nat \ {0}
  /\ {ChainTypes, NfTypes, MaxChainLen, ConnMax, FirstTid} \subseteq Nat
  /\ Cid \subseteq Nat

\* MCA_CONN_MAX_NUM is 2048: enough for every thread, every connection and every flow id
\* that ninf_get_nf_ring lets through (EOS_MAX_FLOW_NUM).
ASSUME ConnAssumption ==
  /\ FirstTid + 2 + ChainLen * (NumChains + 1) <= ConnMax
  /\ Cid \subseteq 0 .. ConnMax - 1

VARIABLES
  init_core_done, rx_init_done,
  pc,        \* of the manager, MCA, receive and transmit core
  up,        \* cores of functions whose scheduler runs
  req,       \* function in the SL_XCPU_INITAEP_ALLOC request of the manager, 0 for none
  thds,      \* functions whose initaep is not NULL
  ids,       \* next_nfid, next_chain_id, next_shmem_id, next_template_id
  chains,    \* the chains so far: core, first function, first shared segment
  head, next,\* fwp_chain_cache and nf_chain.next; 0 is NULL
  put,       \* the manager's t in fwp_chain_put
  major,     \* major_core_id
  cur,       \* locals of the receive thread
  outs,      \* fix_rx_outs: the chain whose first ring the flow sends to, 0 for none
  tx, txfree,\* the transmit list, newest last, and the length of tx_fl
  conns,     \* the MCA's list, newest last
  infos,     \* the entries of global_info in use
  addr,      \* functions whose input ring has coreid and thdid
  woken,     \* functions whose thread the MCA woke
  mpos, tpos,\* where mca_scan and ninf_tx_scan are
  pkt        \* where the packet of a chain is: 0 on its receive ring, 2j - 1 and
             \* 2j in and out of function j, -1 if it has none

thdVars == <<up, req, thds>>
mgrVars == <<ids, chains, put>>
bootVars == <<init_core_done, rx_init_done>>
rxVars == <<major, cur, outs, infos, addr>>
scanVars == <<mpos, tpos>>
vars == <<bootVars, pc, thdVars, mgrVars, head, next, rxVars, tx, txfree, conns, woken, scanVars, pkt>>

Nfs(c) == chains[c].nf .. chains[c].nf + ChainLen - 1
NfOf(c, j) == chains[c].nf + j - 1

\* The thread ids of cos_thd_id_alloc: those of the functions are dealt in the order of
\* the functions; other threads, of cores that start meanwhile, only leave gaps.
Tid(nf) == FirstTid + nf

Goto(p, l) == pc' = [pc EXCEPT ![p] = l]
NoCur == [cid |-> 0, core |-> 0, chain |-> 0, t |-> 0, k |-> 0]

Init ==
  /\ init_core_done = 0 /\ rx_init_done = FALSE
  /\ pc = [mgr |-> "init", mca |-> "wait", rx |-> "wait", tx |-> "wait"]
  /\ up = {} /\ req = 0 /\ thds = {}
  /\ ids = [nf |-> 2, chain |-> 0, shmem |-> 0, template |-> 0]
  /\ chains = <<>>
  /\ head = [k \in 0 .. NCore - 1 |-> 0] /\ next = [c \in Chain |-> 0]
  /\ put = 0 /\ major = 0 /\ cur = NoCur
  /\ outs = [f \in Cid |-> 0]
  /\ tx = <<>> /\ txfree = 0        \* tx_fl is NULL until ninf_tx_init
  /\ conns = <<>> /\ infos = {} /\ addr = {} /\ woken = {}
  /\ mpos = 0 /\ tpos = 0
  /\ pkt = [c \in Chain |-> -1]

\* cos_faa(&init_core_done, 1)
Count == init_core_done' = init_core_done + 1

-----------------------------------------------------------------------------
(***************************************************************************)
(* Start (cos_init of llbooter.c, the head of fwp_test).  The manager sets  *)
(* up the lists of the MCA; the others wait for it, and the transmit core   *)
(* for the receive core.  Then the manager waits for all of them.           *)
(***************************************************************************)
mgr_init ==
  /\ pc.mgr = "init"
  /\ Count /\ Goto("mgr", "wait")
  /\ UNCHANGED <<thdVars, rx_init_done, mgrVars, head, next, rxVars, tx, txfree, conns, woken, scanVars, pkt>>

mca_start ==
  /\ pc.mca = "wait" /\ init_core_done > 0
  /\ Count /\ Goto("mca", "loop")
  /\ UNCHANGED <<thdVars, rx_init_done, mgrVars, head, next, rxVars, tx, txfree, conns, woken, scanVars, pkt>>

rx_init ==
  /\ pc.rx = "wait" /\ init_core_done > 0
  /\ rx_init_done' = TRUE
  /\ Goto("rx", "count")
  /\ UNCHANGED <<thdVars, init_core_done, mgrVars, head, next, rxVars, tx, txfree, conns, woken, scanVars, pkt>>

rx_start ==
  /\ pc.rx = "count"
  /\ Count /\ Goto("rx", "loop")
  /\ UNCHANGED <<thdVars, rx_init_done, mgrVars, head, next, rxVars, tx, txfree, conns, woken, scanVars, pkt>>

ninf_tx_init ==
  /\ pc.tx = "wait" /\ rx_init_done
  /\ tx' = <<>> /\ txfree' = EOS_MAX_CHAIN_NUM
  /\ Goto("tx", "count")
  /\ UNCHANGED <<thdVars, bootVars, mgrVars, head, next, rxVars, conns, woken, scanVars, pkt>>

tx_start ==
  /\ pc.tx = "count"
  /\ Count /\ Goto("tx", "loop")
  /\ UNCHANGED <<thdVars, rx_init_done, mgrVars, head, next, rxVars, tx, txfree, conns, woken, scanVars, pkt>>

\* A core of the functions, for which the manager does not wait.
nf_start(k) ==
  /\ k \notin up /\ init_core_done > 0
  /\ up' = up \union {k}
  /\ UNCHANGED <<req, thds, pc, bootVars, mgrVars, head, next, rxVars, tx, txfree, conns, woken, scanVars, pkt>>

-----------------------------------------------------------------------------
(***************************************************************************)
(* The manager: the template chain first, whose threads are its own core's, *)
(* then the chains of each core.                                            *)
(***************************************************************************)
\* Mutant: one core is not waited for.
MutantAllUp == init_core_done >= 3

AllUp == init_core_done = 4

\* fwp_create_click_mqtt_chain and fwp_allocate_chain of the template.
mgr_template ==
  /\ pc.mgr = "wait" /\ AllUp
  /\ IF ids.shmem + ChainLen > EOS_MAX_MEMSEGS_NUM \/ ids.shmem + ChainLen > EOS_MAX_NF_NUM
     THEN Goto("mgr", "assert") /\ UNCHANGED ids
     ELSE /\ ids' = [nf |-> ids.nf + ChainLen, chain |-> ids.chain + 1,
                     shmem |-> ids.shmem + ChainLen, template |-> ids.template + ChainLen]
          /\ Goto("mgr", "fork")
  /\ UNCHANGED <<thdVars, bootVars, chains, put, head, next, rxVars, tx, txfree, conns, woken, scanVars, pkt>>

\* The assertions of fwp_allocate_chain on the ids of a chain and its functions.
IdsFit == ids.chain < EOS_MAX_CHAIN_NUM /\ ids.nf + ChainLen <= EOS_MAX_NF_NUM

NextIds == [ids EXCEPT !.nf = @ + ChainLen, !.chain = @ + 1]

\* The first half: a chain and its functions, without segments and threads yet.
fwp_allocate_chain ==
  /\ pc.mgr = "fork" /\ Len(chains) < NumChains
  /\ IF IdsFit
     THEN /\ chains' = Append(chains, [core |-> Len(chains) \div PerCore, nf |-> ids.nf, shmem |-> ids.shmem])
          /\ ids' = NextIds
          /\ Goto("mgr", "ask")
     ELSE Goto("mgr", "assert") /\ UNCHANGED <<chains, ids>>
  /\ UNCHANGED <<thdVars, bootVars, put, head, next, rxVars, tx, txfree, conns, woken, scanVars, pkt>>

\* The functions of the newest chain that have a segment; the last of them is being forked.
Forked == ids.shmem - chains[Len(chains)].shmem

\* The second half, for one function after the other: fwp_get_shmem, and the request for
\* its thread, which only enters the ring of its core.
sl_xcpu_initaep_alloc ==
  /\ pc.mgr = "ask"
  /\ IF ids.shmem < EOS_MAX_NF_NUM /\ ids.shmem < EOS_MAX_MEMSEGS_NUM
     THEN /\ ids' = [ids EXCEPT !.shmem = @ + 1]
          /\ req' = NfOf(Len(chains), Forked + 1)
          /\ Goto("mgr", "use")
     ELSE Goto("mgr", "no_segment") /\ UNCHANGED <<ids, req>>
  /\ UNCHANGED <<up, thds, bootVars, chains, put, head, next, rxVars, tx, txfree, conns, woken, scanVars, pkt>>

\* The core of the chain handles the request.
sl_xcpu_process_no_cs ==
  /\ req # 0 /\ chains[Len(chains)].core \in up
  /\ thds' = thds \union {req} /\ req' = 0
  /\ UNCHANGED <<up, pc, bootVars, mgrVars, head, next, rxVars, tx, txfree, conns, woken, scanVars, pkt>>

\* The rest of _fwp_fork_cont reads initaep and what it points to, at once: there is
\* nothing at NULL.
_fwp_fork_cont ==
  /\ pc.mgr = "use"
  /\ Goto("mgr", IF NfOf(Len(chains), Forked) \notin thds THEN "null"
                 ELSE IF Forked < ChainLen THEN "ask" ELSE "put")
  /\ UNCHANGED <<thdVars, bootVars, mgrVars, head, next, rxVars, tx, txfree, conns, woken, scanVars, pkt>>

put_load ==
  /\ pc.mgr = "put"
  /\ LET c == Len(chains)
     IN  put' = head[chains[c].core] /\ next' = [next EXCEPT ![c] = put']
  /\ Goto("mgr", "put_cas")
  /\ UNCHANGED <<thdVars, bootVars, ids, chains, head, rxVars, tx, txfree, conns, woken, scanVars, pkt>>

\* Mutant: the head is stored without a comparison.
MutantPutCas ==
  /\ pc.mgr = "put_cas"
  /\ head' = [head EXCEPT ![chains[Len(chains)].core] = Len(chains)]
  /\ Goto("mgr", "fork")
  /\ UNCHANGED <<thdVars, bootVars, mgrVars, next, rxVars, tx, txfree, conns, woken, scanVars, pkt>>

put_cas ==
  /\ pc.mgr = "put_cas"
  /\ LET c == Len(chains)
         k == chains[c].core
     IN  IF head[k] = put
         THEN head' = [head EXCEPT ![k] = c] /\ Goto("mgr", "fork")
         ELSE Goto("mgr", "put") /\ UNCHANGED head
  /\ UNCHANGED <<thdVars, bootVars, mgrVars, next, rxVars, tx, txfree, conns, woken, scanVars, pkt>>

mgr == mgr_init \/ mgr_template \/ fwp_allocate_chain \/ sl_xcpu_initaep_alloc \/ _fwp_fork_cont
       \/ put_load \/ put_cas

-----------------------------------------------------------------------------
(***************************************************************************)
(* The receive thread: ninf_get_nf_ring and ninf_setup_new_chain.           *)
(***************************************************************************)
\* A packet of a flow that has a chain goes to its first ring (one at a time).
rx_send(f) ==
  /\ pc.rx = "loop" /\ outs[f] # 0 /\ pkt[outs[f]] = -1
  /\ pkt' = [pkt EXCEPT ![outs[f]] = 0]
  /\ UNCHANGED <<thdVars, bootVars, pc, mgrVars, head, next, rxVars, tx, txfree, conns, woken, scanVars>>

\* ninf_flow2_core with NF_PER_CORE_BATCH = 1
NextMajor(k) == IF k + 1 = NCore THEN 0 ELSE k + 1

ninf_flow2_core(f) ==
  /\ pc.rx = "loop" /\ outs[f] = 0
  /\ cur' = [NoCur EXCEPT !.cid = f, !.core = major]
  /\ major' = NextMajor(major)
  /\ Goto("rx", "get_test")
  /\ UNCHANGED <<thdVars, bootVars, mgrVars, head, next, outs, infos, addr, tx, txfree, conns, woken, scanVars, pkt>>

\* fwp_chain_get: an empty cache is assert(0).
get_test ==
  /\ pc.rx = "get_test"
  /\ Goto("rx", IF head[cur.core] = 0 THEN "no_chain" ELSE "get")
  /\ UNCHANGED <<thdVars, bootVars, mgrVars, head, next, rxVars, tx, txfree, conns, woken, scanVars, pkt>>

get_load ==
  /\ pc.rx = "get"
  /\ LET r == head[cur.core] IN cur' = [cur EXCEPT !.chain = r, !.t = next[r]]
  /\ Goto("rx", "get_cas")
  /\ UNCHANGED <<thdVars, bootVars, mgrVars, head, next, major, outs, infos, addr, tx, txfree, conns, woken, scanVars, pkt>>

get_cas ==
  /\ pc.rx = "get_cas"
  /\ IF head[cur.core] = cur.chain
     THEN head' = [head EXCEPT ![cur.core] = cur.t] /\ Goto("rx", "tx_add")
     ELSE Goto("rx", "get") /\ UNCHANGED head
  /\ UNCHANGED <<thdVars, bootVars, mgrVars, next, rxVars, tx, txfree, conns, woken, scanVars, pkt>>

\* Mutant: the entry is taken from tx_fl and not put into the list.
MutantTxAdd ==
  /\ pc.rx = "tx_add"
  /\ IF txfree = 0 THEN Goto("rx", "assert") /\ UNCHANGED txfree
     ELSE txfree' = txfree - 1 /\ Goto("rx", "activate")
  /\ cur' = [cur EXCEPT !.k = 1]
  /\ UNCHANGED <<thdVars, tx, bootVars, mgrVars, head, next, major, outs, infos, addr, conns, woken, scanVars, pkt>>

\* The receive thread alone takes from tx_fl and adds to tx.
ninf_tx_add_ring ==
  /\ pc.rx = "tx_add"
  /\ IF txfree = 0 THEN Goto("rx", "assert") /\ UNCHANGED <<tx, txfree>>
     ELSE /\ tx' = Append(tx, cur.chain) /\ txfree' = txfree - 1
          /\ Goto("rx", "activate")
  /\ cur' = [cur EXCEPT !.k = 1]
  /\ UNCHANGED <<thdVars, bootVars, mgrVars, head, next, major, outs, infos, addr, conns, woken, scanVars, pkt>>

\* mca_conn_create from function j of the chain (0: the receive ring) to the next:
\* the reads through initaep at both ends, the assertions of mca_conn_alloc and
\* mca_info_get, then the push.
FlowInfo == cur.cid
ThdInfo(j) == Tid(NfOf(cur.chain, j)) + EOS_MAX_CHAIN_NUM
Conn(j) == [chain |-> cur.chain, j |-> j, src |-> IF j = 0 THEN FlowInfo ELSE ThdInfo(j),
            dst |-> ThdInfo(j + 1)]
Ends(j) == {NfOf(cur.chain, i) : i \in {j, j + 1} \ {0}}
ConnAssert(c) ==
  /\ Ends(c.j) \subseteq thds
  /\ Len(conns) < ConnMax
  /\ {c.src, c.dst} \subseteq 0 .. ConnMax + EOS_MAX_CHAIN_NUM - 1
  /\ \A i \in {c.src, c.dst} : i < EOS_MAX_CHAIN_NUM => i \notin infos

mca_conn_create(j, l) ==
  /\ LET c == Conn(j)
     IN  IF ConnAssert(c)
         THEN /\ conns' = Append(conns, c)
              /\ infos' = infos \union {c.src, c.dst}
              /\ Goto("rx", l)
         ELSE Goto("rx", "assert") /\ UNCHANGED <<conns, infos>>
  /\ UNCHANGED <<thdVars, bootVars, mgrVars, head, next, major, outs, addr, tx, txfree, woken, scanVars, pkt>>

\* fwp_chain_activate: first the connections between the functions, then the
\* address of each input ring, for which it asserts that there is a thread.
activate_conn ==
  /\ pc.rx = "activate" /\ cur.k < ChainLen
  /\ mca_conn_create(cur.k, "activate")
  /\ cur' = [cur EXCEPT !.k = @ + 1]

\* Mutant: the last function of the chain gets no address.
MutantActivateAddr ==
  /\ pc.rx = "activate" /\ cur.k = ChainLen
  /\ addr' = addr \union (Nfs(cur.chain) \ {NfOf(cur.chain, ChainLen)})
  /\ Goto("rx", "conn")
  /\ UNCHANGED <<thdVars, bootVars, mgrVars, head, next, major, cur, outs, infos, tx, txfree, conns, woken, scanVars, pkt>>

activate_addr ==
  /\ pc.rx = "activate" /\ cur.k = ChainLen
  /\ IF Nfs(cur.chain) \subseteq thds
     THEN addr' = addr \union Nfs(cur.chain) /\ Goto("rx", "conn")
     ELSE Goto("rx", "assert") /\ UNCHANGED addr
  /\ UNCHANGED <<thdVars, bootVars, mgrVars, head, next, major, cur, outs, infos, tx, txfree, conns, woken, scanVars, pkt>>

conn_first == pc.rx = "conn" /\ mca_conn_create(0, "enter") /\ UNCHANGED cur

\* fix_rx_outs[cid] is set and the packet goes out.
rx_enter ==
  /\ pc.rx = "enter"
  /\ outs' = [outs EXCEPT ![cur.cid] = cur.chain]
  /\ pkt' = [pkt EXCEPT ![cur.chain] = 0]
  /\ cur' = NoCur
  /\ Goto("rx", "loop")
  /\ UNCHANGED <<thdVars, bootVars, mgrVars, head, next, major, infos, addr, tx, txfree, conns, woken, scanVars>>

rx_arrives == \E f \in Cid : rx_send(f) \/ ninf_flow2_core(f)
rx == rx_init \/ rx_start \/ get_test \/ get_load \/ get_cas \/ ninf_tx_add_ring
      \/ activate_conn \/ activate_addr \/ conn_first \/ rx_enter

-----------------------------------------------------------------------------
(***************************************************************************)
(* The packet's way.  A scan goes from the newest entry to the oldest; one  *)
(* that is added meanwhile is met by the next scan.                         *)
(***************************************************************************)
\* A wakeup goes to the coreid and thdid of the destination ring.
mca_scan ==
  /\ pc.mca = "loop"
  /\ IF mpos = 0 THEN mpos' = Len(conns) /\ UNCHANGED <<pkt, woken>>
     ELSE LET c == conns[mpos]
          IN  /\ mpos' = mpos - 1
              /\ IF pkt[c.chain] = 2 * c.j
                 THEN /\ pkt' = [pkt EXCEPT ![c.chain] = @ + 1]
                      /\ woken' = woken \union ({NfOf(c.chain, c.j + 1)} \intersect addr)
                 ELSE UNCHANGED <<pkt, woken>>
  /\ UNCHANGED <<thdVars, bootVars, pc, mgrVars, head, next, rxVars, tx, txfree, conns, tpos>>

nf_run(c) ==
  /\ c <= Len(chains)
  /\ \E j \in 1 .. ChainLen :
       /\ pkt[c] = 2 * j - 1 /\ NfOf(c, j) \in woken
       /\ pkt' = [pkt EXCEPT ![c] = @ + 1]
       /\ woken' = woken \ {NfOf(c, j)}
  /\ UNCHANGED <<thdVars, bootVars, pc, mgrVars, head, next, rxVars, tx, txfree, conns, scanVars>>

ninf_tx_scan ==
  /\ pc.tx = "loop"
  /\ IF tpos = 0 THEN tpos' = Len(tx) /\ UNCHANGED pkt
     ELSE /\ tpos' = tpos - 1
          /\ IF pkt[tx[tpos]] = 2 * ChainLen THEN pkt' = [pkt EXCEPT ![tx[tpos]] = -1]
             ELSE UNCHANGED pkt
  /\ UNCHANGED <<thdVars, bootVars, pc, mgrVars, head, next, rxVars, tx, txfree, conns, woken, mpos>>

mca == mca_start \/ mca_scan
tx_core == ninf_tx_init \/ tx_start \/ ninf_tx_scan
nf_core == (\E k \in 0 .. NCore - 1 : nf_start(k)) \/ sl_xcpu_process_no_cs
Next == mgr \/ mca \/ rx_arrives \/ rx \/ tx_core \/ nf_core \/ \E c \in Chain : nf_run(c)

\* Each system core runs, and the functions that were woken; whether a packet arrives is
\* up to the clients.
Spec == /\ Init /\ [][Next]_vars
        /\ WF_vars(mgr) /\ WF_vars(mca) /\ WF_vars(rx) /\ WF_vars(tx_core)
        /\ \A c \in Chain : WF_vars(nf_run(c))
-----------------------------------------------------------------------------
\* Types of all variables.
TypeOK ==
  /\ init_core_done \in 0 .. 4 /\ rx_init_done \in BOOLEAN
  /\ DOMAIN pc = {"mgr", "mca", "rx", "tx"}
  /\ up \subseteq 0 .. NCore - 1 /\ req \in Nat /\ thds \subseteq Nat
  /\ ids \in [nf : Nat, chain : Nat, shmem : Nat, template : Nat]
  /\ chains \in Seq([core : 0 .. NCore - 1, nf : Nat, shmem : Nat]) /\ Len(chains) <= NumChains
  /\ head \in [0 .. NCore - 1 -> 0 .. NumChains] /\ next \in [Chain -> 0 .. NumChains]
  /\ put \in 0 .. NumChains /\ major \in 0 .. NCore - 1
  /\ outs \in [Cid -> 0 .. NumChains]
  /\ tx \in Seq(Chain) /\ txfree \in 0 .. EOS_MAX_CHAIN_NUM
  /\ infos \subseteq Nat /\ addr \subseteq Nat /\ woken \subseteq Nat
  /\ mpos \in 0 .. Len(conns) /\ tpos \in 0 .. Len(tx)
  /\ pkt \in [Chain -> -1 .. 2 * ChainLen]

\* The chains in the cache of a core, following next: the least set that has the head and
\* the successors of its members.
Cached(k) ==
  {c \in Chain :
     \A S \in SUBSET Chain : {head[k]} \union {next[d] : d \in S} \subseteq S \union {0} => c \in S}
Taken == {outs[f] : f \in {g \in Cid : outs[g] # 0}}
         \union (IF pc.rx \in {"tx_add", "activate", "conn", "enter", "assert"} THEN {cur.chain} ELSE {})

\* The newest chain is not in a cache yet, or never will be.
Unfinished == pc.mgr \in {"ask", "use", "put", "put_cas", "no_segment", "null"}

\* However fwp_chain_put and fwp_chain_get interleave, a chain that was forked is
\* in the cache of its core or with one flow, and no two flows share one.
OneOwner ==
  /\ \A f, g \in Cid : f # g /\ outs[f] # 0 => outs[f] # outs[g]
  /\ \A k \in 0 .. NCore - 1 : \A c \in Cached(k) : chains[c].core = k /\ c \notin Taken
  /\ \A c \in 1 .. Len(chains) :
       \/ c = Len(chains) /\ Unfinished
       \/ c \in Taken \/ c \in Cached(chains[c].core)

\* No two functions share an id or a shared segment.
Apart == \A a, b \in 1 .. Len(chains) : a < b =>
  /\ Nfs(a) \intersect Nfs(b) = {}
  /\ chains[a].shmem + ChainLen <= chains[b].shmem

\* In whatever order the cores start, and wherever the manager stops, the receive thread,
\* which may have a packet before there is a chain, finds the chain it takes complete: its
\* functions are its own and have threads, and there is an entry for it in the lists and
\* tables of the transmit thread and the MCA.  No assertion of ninf_setup_new_chain fails,
\* and no initaep it reads through is NULL.
Asserts == TypeOK /\ Apart /\ pc.rx # "assert"

\* A packet that reaches a function finds it with an address: the MCA's wakeup goes
\* to the thread that serves the ring.
Addressed == \A c \in 1 .. Len(chains) : \A j \in 1 .. ChainLen : pkt[c] = 2 * j - 1 => NfOf(c, j) \in woken

\* A packet that was received is transmitted in the end.
Served == \A c \in Chain : pkt[c] # -1 ~> pkt[c] = -1

\* Do not hold (README 3.3):

\* fwp_chain_get asserts that a flow finds a chain; a packet may arrive before they are forked.
ChainFound == pc.rx # "no_chain"

\* The tables hold the functions and segments of all chains: no assertion of fwp_allocate_chain
\* and fwp_get_shmem fails, and templates, which __copy_nf does not check, stay inside theirs.
TablesFit ==
  /\ pc.mgr \notin {"assert", "no_segment"}
  /\ ids.nf <= EOS_MAX_NF_NUM /\ ids.template <= NfTypes

\* A function has its thread when _fwp_fork_cont reads its initaep.
ThreadsInTime == pc.mgr # "null"

\* The deadline entry of a flow is its own: no thread, and no other flow, uses it.
Parties ==
  LET C == {conns[i] : i \in 1 .. Len(conns)}
  IN  {[who |-> <<c.chain, c.j>>, info |-> c.src] : c \in C}
      \union {[who |-> <<c.chain, c.j + 1>>, info |-> c.dst] : c \in C}
InfoOwn == \A a, b \in Parties : a.info = b.info => a.who = b.who
=============================================================================
