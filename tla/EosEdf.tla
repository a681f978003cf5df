------------------------------- MODULE EosEdf -------------------------------
(***************************************************************************)
(* Deadlines and blocking of a chain under EOS_EDF.  The MCA gives each    *)
(* function the deadline of the packets it hands to it, holds back packets *)
(* of a later deadline until the function has drained (eos_mca.c), and     *)
(* wakes it through the request ring of its core (eos_sched.c, sl_xcpu.c). *)
(* A function with nothing to receive asks the MCA to reset its deadline   *)
(* and blocks on its wakeup count (fwp_sinv.c, sl_sched.c); the functions  *)
(* of a chain share a core, which runs one with the earliest deadline      *)
(* (sl_mod_edf.c).                                                         *)
(*                                                                         *)
(* EosChain shows that the state of every node follows from the cursors,   *)
(* so here the cursors are the rings: packet k is in node k of each.  Two  *)
(* things are coarser: the MCA moves a node and adds to both counts in one *)
(* step (no other thread reads them), and a node that the transmit thread  *)
(* takes is handed back at once.                                           *)
(***************************************************************************)
EXTENDS Integers, Sequences, FiniteSets, FiniteSetsExt

CONSTANTS
  L,       \* network functions in the chain
  N,       \* EOS_RING_SIZE
  Burst,   \* MCA_BURST_CNT
  Offset,  \* OFFSET_US
  OpSize,  \* entries of the MCA's request ring
  MaxDl,   \* bound: the greatest deadline
  MaxPkt   \* bound: packets received

ASSUME EdfAssumption ==
  /\ L \in Nat \ {0} /\ N \in Nat \ {0} /\ Burst \in Nat \ {0}
  /\ Offset \in Nat /\ OpSize \in Nat
  /\ MaxDl \in Nat \ {0} /\ MaxPkt \in Nat

VARIABLES
  dls,    \* dls[k + 1]: the deadline of packet k; the receive thread flushed these
  taken,  \* taken[i]: mca_head of output ring i, and free_head of input ring i+1
  freed,  \* freed[i]: head of both rings of function i
  recvd,  \* recvd[i]: tail of its input ring
  sent,   \* sent[i]: tail of its output ring
  inCnt,  \* inCnt[i]: pkt_cnt of its input ring
  outCnt, \* outCnt[i]: pkt_cnt of its output ring
  nfPc,   \* where function i is in its server loop
  thd,    \* thd[i]: state of its thread
  wakeup, \* wakeup[i]: wakeup_cnt of its thread
  prio,   \* prio[i]: the deadline its core schedules it with
  opq,    \* requests of the functions to the MCA
  xq,     \* requests of the MCA to the core
  dl,     \* dl[i]: deadline of mca_info i (0: of the chain)
  empty,  \* empty[i]: empty_flag of mca_info i
  mca,    \* the MCA: step, connection, burst count
  txRet   \* `ret' of ninf_tx_process

ringVars == <<taken, freed, recvd, sent>>
cntVars  == <<inCnt, outCnt, txRet>>
thdVars  == <<thd, wakeup, prio>>
infoVars == <<dl, empty>>
vars     == <<dls, ringVars, cntVars, nfPc, thdVars, opq, xq, infoVars, mca>>

NFs   == 1..L
Rings == 0..L

\* EOS_MAX_DEADLINE
Never == MaxDl + 1

\* tail of output ring i
Sent(i) == IF i = 0 THEN Len(dls) ELSE sent[i]

\* The deadline of the node with packet k: the receive thread and
\* eos_pkt_send_test stamp it on every node they flush, mca_transfer copies it.
Dl(k) == dls[k + 1]

Look(c, r) == [pc |-> "look", conn |-> c, r |-> r]

\* mca_init, mca_info_get, and threads created by SCHEDP_PRIO_BLOCK.
Init ==
  /\ dls    = <<>>
  /\ taken  = [i \in Rings |-> 0]
  /\ freed  = [i \in NFs |-> 0]
  /\ recvd  = [i \in NFs |-> 0]
  /\ sent   = [i \in NFs |-> 0]
  /\ inCnt  = [i \in NFs |-> 0]
  /\ outCnt = [i \in NFs |-> 0]
  /\ nfPc   = [i \in NFs |-> "collect"]
  /\ thd    = [i \in NFs |-> "BLOCKED"]
  /\ wakeup = [i \in NFs |-> 0]
  /\ prio   = [i \in NFs |-> Never]
  /\ opq    = <<>>
  /\ xq     = <<>>
  /\ dl     = [i \in Rings |-> Never]
  /\ empty  = [i \in NFs |-> FALSE]
  /\ mca    = Look(1, 0)
  /\ txRet  = 0

-----------------------------------------------------------------------------
(* The receive and the transmit thread: EosChain has the details.          *)

\* The deadline of a packet is its arrival time plus the constant of the flow.
ninf_rx_proc_mbuf ==
  /\ Len(dls) < MaxPkt
  /\ Len(dls) < taken[0] + N
  /\ \E d \in 1..MaxDl :
       /\ \A k \in DOMAIN dls : dls[k] <= d
       /\ dls' = Append(dls, d)
  /\ UNCHANGED <<ringVars, cntVars, nfPc, thdVars, opq, xq, infoVars, mca>>

ninf_tx_process ==
  /\ \/ /\ taken[L] < sent[L]
        /\ taken' = [taken EXCEPT ![L] = @ + 1]
        /\ txRet' = txRet + 1
        /\ UNCHANGED outCnt
     \/ /\ taken[L] = sent[L] /\ txRet > 0
        /\ outCnt' = [outCnt EXCEPT ![L] = @ - txRet]
        /\ txRet' = 0
        /\ UNCHANGED taken
  /\ UNCHANGED <<dls, freed, recvd, sent, inCnt, nfPc, thdVars, opq, xq, infoVars, mca>>

-----------------------------------------------------------------------------
(* A network function, when its core runs it.                              *)

NfGoto(i, from, to) ==
  /\ nfPc[i] = from
  /\ nfPc' = [nfPc EXCEPT ![i] = to]

eos_pkt_collect(i) ==
  /\ NfGoto(i, "collect", "recv")
  /\ freed' = [freed EXCEPT ![i] = taken[i]]
  /\ UNCHANGED <<dls, taken, recvd, sent, cntVars, thdVars, opq, xq, infoVars, mca>>

eos_pkt_recv(i) ==
  /\ \/ /\ recvd[i] < taken[i - 1]
        /\ NfGoto(i, "recv", "faa_in")
        /\ recvd' = [recvd EXCEPT ![i] = @ + 1]
     \/ /\ recvd[i] = taken[i - 1] /\ recvd[i] < freed[i] + N    \* -EBLOCK
        /\ NfGoto(i, "recv", "reset")
        /\ UNCHANGED recvd
     \/ /\ recvd[i] = taken[i - 1] /\ recvd[i] = freed[i] + N    \* -ECOLLET
        /\ NfGoto(i, "recv", "collect")
        /\ UNCHANGED recvd
  /\ UNCHANGED <<dls, taken, freed, sent, cntVars, thdVars, opq, xq, infoVars, mca>>

recv_faa(i) ==
  /\ NfGoto(i, "faa_in", "work")
  /\ inCnt' = [inCnt EXCEPT ![i] = @ - 1]
  /\ UNCHANGED <<dls, ringVars, outCnt, txRet, thdVars, opq, xq, infoVars, mca>>

eos_pkt_send(i) ==
  /\ NfGoto(i, "work", "faa_out")
  /\ sent' = [sent EXCEPT ![i] = @ + 1]
  /\ UNCHANGED <<dls, taken, freed, recvd, cntVars, thdVars, opq, xq, infoVars, mca>>

flush_faa(i) ==
  /\ NfGoto(i, "faa_out", "collect")
  /\ outCnt' = [outCnt EXCEPT ![i] = @ + 1]
  /\ UNCHANGED <<dls, ringVars, inCnt, txRet, thdVars, opq, xq, infoVars, mca>>

\* The first half of NF_BLOCK: ask for a reset; a full ring is an assert(0).
mca_xcpu_thd_dl_reset(i) ==
  /\ \/ /\ Len(opq) < OpSize
        /\ NfGoto(i, "reset", "block")
        /\ opq' = Append(opq, i)
     \/ /\ Len(opq) = OpSize
        /\ NfGoto(i, "reset", "abort")
        /\ UNCHANGED opq
  /\ UNCHANGED <<dls, ringVars, cntVars, thdVars, xq, infoVars, mca>>

\* Whether sl_thd_block gives up the core, cnt being the wakeup count it found.
MutantBlocks(cnt) == TRUE
Blocks(cnt) == cnt = 1

\* The second half.
MutantThdBlock(i) ==
  /\ NfGoto(i, "block", "recv")
  /\ thd' = [thd EXCEPT ![i] = IF Blocks(wakeup[i]) THEN "BLOCKED" ELSE @]
  /\ UNCHANGED <<dls, ringVars, cntVars, wakeup, prio, opq, xq, infoVars, mca>>
sl_thd_block(i) ==
  /\ NfGoto(i, "block", "recv")
  /\ wakeup' = [wakeup EXCEPT ![i] = @ - 1]
  /\ thd' = [thd EXCEPT ![i] = IF Blocks(wakeup[i]) THEN "BLOCKED" ELSE @]
  /\ UNCHANGED <<dls, ringVars, cntVars, prio, opq, xq, infoVars, mca>>

\* NF_BLOCK of nf_entry: first the one, then the other.
NF_BLOCK(i) == mca_xcpu_thd_dl_reset(i) \/ sl_thd_block(i)

nf_run(i) ==
  \/ eos_pkt_collect(i)
  \/ eos_pkt_recv(i)
  \/ recv_faa(i)
  \/ eos_pkt_send(i)
  \/ flush_faa(i)
  \/ NF_BLOCK(i)

\* sl_mod_schedule: the thread at the top of the heap of runnable threads.
Runs(i) ==
  /\ thd[i] = "RUNNABLE"
  /\ \A j \in NFs : thd[j] = "RUNNABLE" => prio[i] <= prio[j]

core_run == \E i \in NFs : Runs(i) /\ nf_run(i)

\* The requests to the core about function i.
Requests(i) == {n \in DOMAIN xq : xq[n].nf = i}

\* Each of them sets its deadline: the last one stays.
sl_mod_thd_param_set(i) == IF Requests(i) = {} THEN prio[i] ELSE xq[Max(Requests(i))].dl

\* Each of them makes its thread runnable, and is a wakeup.
sl_thd_wakeup(i) ==
  [thd    |-> IF Requests(i) = {} THEN thd[i] ELSE "RUNNABLE",
   wakeup |-> wakeup[i] + Cardinality(Requests(i))]

\* The scheduler of the core handles all the requests it has.
sl_xcpu_process ==
  /\ xq # <<>>
  /\ prio' = [i \in NFs |-> sl_mod_thd_param_set(i)]
  /\ thd' = [i \in NFs |-> sl_thd_wakeup(i).thd]
  /\ wakeup' = [i \in NFs |-> sl_thd_wakeup(i).wakeup]
  /\ xq' = <<>>
  /\ UNCHANGED <<dls, ringVars, cntVars, nfPc, opq, infoVars, mca>>

-----------------------------------------------------------------------------
(* The MCA.                                                                *)

Src == mca.conn - 1
Dst == mca.conn

\* The next connection of the list (see EosChain).
NextConn == Look(IF mca.conn = 1 THEN L ELSE mca.conn - 1, 0)

McaGoto(from, to) == mca.pc = from /\ mca' = [mca EXCEPT !.pc = to]

\* There is a node to copy, and a node to copy it to.
CanCopy == taken[Src] < Sent(Src) /\ taken[Src] < freed[Dst] + N

mca_look ==
  /\ \/ CanCopy /\ McaGoto("look", "xcpu")
     \/ mca.pc = "look" /\ ~CanCopy /\ mca' = NextConn
  /\ UNCHANGED <<dls, ringVars, cntVars, nfPc, thdVars, opq, xq, infoVars>>

\* One request: a function with packets to send keeps its deadline for now.
MutantReset(i) ==
  /\ empty' = [empty EXCEPT ![i] = outCnt[i] > 0]
  /\ UNCHANGED dl
Reset(i) ==
  \/ /\ outCnt[i] > 0
     /\ empty' = [empty EXCEPT ![i] = TRUE]
     /\ UNCHANGED dl
  \/ /\ outCnt[i] <= 0
     /\ dl' = [dl EXCEPT ![i] = Never]
     /\ UNCHANGED empty

mca_xcpu_process ==
  /\ \/ /\ mca.pc = "xcpu" /\ opq # <<>>
        /\ Reset(Head(opq))
        /\ opq' = Tail(opq)
        /\ UNCHANGED mca
     \/ /\ opq = <<>>
        /\ McaGoto("xcpu", "flag")
        /\ UNCHANGED <<opq, infoVars>>
  /\ UNCHANGED <<dls, ringVars, cntVars, nfPc, thdVars, xq>>

\* The two reads of the test of empty_flag.
mca_flag_out ==
  /\ McaGoto("flag", IF empty[Dst] /\ outCnt[Dst] = 0 THEN "flag_in" ELSE "gate")
  /\ UNCHANGED <<dls, ringVars, cntVars, nfPc, thdVars, opq, xq, infoVars>>

mca_flag_in ==
  /\ McaGoto("flag_in", "gate")
  /\ \/ /\ inCnt[Dst] = 0
        /\ dl' = [dl EXCEPT ![Dst] = Never]
        /\ empty' = [empty EXCEPT ![Dst] = FALSE]
     \/ /\ inCnt[Dst] # 0
        /\ UNCHANGED infoVars
  /\ UNCHANGED <<dls, ringVars, cntVars, nfPc, thdVars, opq, xq>>

\* The deadline of the source: of the packet for the receive thread's ring, and
\* for a function that was reset while it held the packet (`this is a hack').
MutantSrcDl == IF Src = 0 THEN Dl(taken[0]) ELSE dl[Src]
SrcDl == IF Src = 0 \/ dl[Src] = Never THEN Dl(taken[Src]) ELSE dl[Src]

\* Not before the destination has drained.
TooLate(d) ==
  \/ Src > 0 /\ d > dl[Dst]
  \/ d - Offset > dl[Dst]

mca_gate ==
  /\ mca.pc = "gate"
  /\ dl' = [dl EXCEPT ![Src] = SrcDl]
  /\ \/ /\ TooLate(SrcDl) \/ mca.r > 1
        /\ mca' = NextConn
     \/ /\ ~TooLate(SrcDl) /\ mca.r <= 1
        /\ McaGoto("gate", "copy")
  /\ UNCHANGED <<dls, ringVars, cntVars, nfPc, thdVars, opq, xq, empty>>

mca_transfer ==
  /\ McaGoto("copy", "wakeup")
  /\ taken' = [taken EXCEPT ![Src] = @ + 1]
  /\ inCnt' = [inCnt EXCEPT ![Dst] = @ + 1]
  /\ outCnt' = [i \in NFs |-> IF i = Src THEN outCnt[i] - 1 ELSE outCnt[i]]
  /\ UNCHANGED <<dls, freed, recvd, sent, txRet, nfPc, thdVars, opq, xq, infoVars>>

\* The deadline the destination is to have from now on.
DstDl == IF dl[Dst] > dl[Src] THEN dl[Src] ELSE dl[Dst]

\* The burst of mca_process is not over.
BurstLeft == mca.r + 1 < Burst

\* The request to wake function i with deadline d.
sl_xcpu_thd_wakeup_with_dl(i, d) == xq' = Append(xq, [nf |-> i, dl |-> d])

\* Every packet is a wakeup, with the deadline of the destination.
mca_wakeup ==
  /\ mca.pc = "wakeup"
  /\ dl' = [dl EXCEPT ![Dst] = DstDl]
  /\ sl_xcpu_thd_wakeup_with_dl(Dst, DstDl)
  /\ mca' = IF BurstLeft THEN Look(mca.conn, mca.r + 1) ELSE NextConn
  /\ UNCHANGED <<dls, ringVars, cntVars, nfPc, thdVars, opq, empty>>

mca_run ==
  \/ mca_look
  \/ mca_xcpu_process
  \/ mca_flag_out
  \/ mca_flag_in
  \/ mca_gate
  \/ mca_transfer
  \/ mca_wakeup

-----------------------------------------------------------------------------
Next ==
  \/ ninf_rx_proc_mbuf
  \/ ninf_tx_process
  \/ core_run
  \/ sl_xcpu_process
  \/ mca_run

\* The MCA and the transmit thread have cores of their own, and the NF core always
\* runs one of its runnable threads, or its scheduler on a request.
Fairness ==
  /\ WF_vars(ninf_tx_process)
  /\ WF_vars(core_run)
  /\ WF_vars(sl_xcpu_process)
  /\ WF_vars(mca_run)

Spec == Init /\ [][Next]_vars /\ Fairness

-----------------------------------------------------------------------------
(* Properties.                                                             *)

Deadlines == 1..Never

\* Types.
TypeOK ==
  /\ dls \in Seq(1..MaxDl)
  /\ taken \in [Rings -> Nat]
  /\ freed \in [NFs -> Nat] /\ recvd \in [NFs -> Nat] /\ sent \in [NFs -> Nat]
  /\ inCnt \in [NFs -> Int] /\ outCnt \in [NFs -> Int] /\ txRet \in Nat
  /\ nfPc \in [NFs -> {"collect", "recv", "faa_in", "work", "faa_out",
                       "reset", "block", "abort"}]
  /\ thd \in [NFs -> {"BLOCKED", "RUNNABLE"}]
  /\ wakeup \in [NFs -> Int]
  /\ prio \in [NFs -> Deadlines]
  /\ opq \in Seq(NFs) /\ xq \in Seq([nf : NFs, dl : Deadlines])
  /\ dl \in [Rings -> Deadlines] /\ empty \in [NFs -> BOOLEAN]
  /\ mca \in [pc : {"look", "xcpu", "flag", "flag_in", "gate", "copy", "wakeup"},
              conn : NFs, r : 0..(Burst - 1)]

\* The MCA has handed function i a packet and is about to wake it.
Waking(i) == mca.pc = "wakeup" /\ Dst = i

\* wakeup_cnt is positive just when the thread is runnable: the count
\* sl_thd_block finds is at least 1, as it asserts, and a thread that blocks owes
\* no wakeup.
WakeupCnt == \A i \in NFs :
  /\ thd[i] = "RUNNABLE" => wakeup[i] >= 1
  /\ thd[i] = "BLOCKED" => wakeup[i] = 0

\* No wakeup is lost: a packet that waits for a blocked function has its wakeup on
\* the way, whatever the function had read before it blocked.
NoLostWakeup == \A i \in NFs :
  thd[i] = "BLOCKED" /\ recvd[i] < taken[i - 1] => Waking(i) \/ Requests(i) # {}

\* The count and the state of a thread agree, and no packet is left without a wakeup.
Wakeups == WakeupCnt /\ NoLostWakeup

\* The assertions on deadlines of mca_process and sl_mod_wakeup: the source of a copy
\* has a deadline, no thread is woken or scheduled with EOS_MAX_DEADLINE, and that of
\* the first function only ever gets earlier from EOS_MAX_DEADLINE.
DeadlineAsserts ==
  /\ TypeOK
  /\ mca.pc = "wakeup" =>
       /\ dl[Src] # Never
       /\ Src = 0 /\ dl[Dst] > dl[Src] => dl[Dst] = Never
  /\ \A n \in DOMAIN xq : xq[n].dl # Never
  /\ \A i \in NFs : thd[i] = "RUNNABLE" => prio[i] # Never

\* Does not hold but for the first function of a chain (README 3.3).
\* What mca_process asserts of every function: when the MCA gives it an earlier
\* deadline, it had none, assert(dst_info->deadline == EOS_MAX_DEADLINE).
OnlyFromNever == mca.pc = "wakeup" /\ dl[Dst] > dl[Src] => dl[Dst] = Never

\* Requests of function i to the MCA.
Ops(i) == Cardinality({n \in DOMAIN opq : opq[n] = i})

\* The reset requests a function has made and can still make before it blocks are
\* no more than the packets handed to it: each costs it a wakeup.  Nothing else
\* bounds the entries of the MCA's request ring.
OpsBounded == \A i \in NFs :
  Ops(i) + wakeup[i] + Cardinality(Requests(i))
    <= taken[i - 1] + (IF nfPc[i] = "block" THEN 1 ELSE 0) - (IF Waking(i) THEN 1 ELSE 0)

\* Does not hold (README 3.3).
\* The request ring of the MCA never overflows (assert(0) in __mca_xcpu_op_exit).
OpRingFits == \A i \in NFs : nfPc[i] # "abort"

\* Does not hold for chains of two functions or more (README 3.3).
\* Every packet gets through.
AllDelivered == \A k \in 0..(MaxPkt - 1) : (Len(dls) > k) ~> (taken[L] > k)

\* Every node of function i is sent and waits for the MCA: eos_pkt_recv answers -ECOLLET,
\* on which the function collects and tries again without giving up the core, and the
\* next function, runnable too, is not more urgent.
Hogs(i) ==
  /\ recvd[i] = taken[i] + N
  /\ thd[i] = "RUNNABLE" /\ thd[i + 1] = "RUNNABLE"
  /\ prio[i] <= prio[i + 1]

\* Every packet gets through, none being held back by the gate or left with a blocked
\* function for ever, unless some function ends up hogging the core it shares with the
\* next one, for ever: the only way a chain can stop.
Delivered == AllDelivered \/ \E i \in 1..(L - 1) : <>[]Hogs(i)
=============================================================================
