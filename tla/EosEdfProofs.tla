---------------------------- MODULE EosEdfProofs ----------------------------
(***************************************************************************)
(* Proofs about EosEdf, for every chain length, ring size, burst, offset   *)
(* and set of deadlines: the wakeup count of a thread is right, and a      *)
(* packet never waits for a function that sleeps on it.                    *)
(***************************************************************************)
EXTENDS EosEdf, FiniteSetTheorems, NaturalsInduction, WellFoundedInduction, TLAPS

\* The function has received a node that it has not flushed.
InHand(i) == nfPc[i] \in {"faa_in", "work"}

\* What the argument needs of the types.  The deadline a thread is scheduled with
\* is not among it.
Types ==
  /\ dls \in Seq(1..MaxDl)
  /\ taken \in [Rings -> Nat] /\ recvd \in [NFs -> Nat] /\ sent \in [NFs -> Nat]
  /\ nfPc \in [NFs -> {"collect", "recv", "faa_in", "work", "faa_out",
                       "reset", "block", "abort"}]
  /\ thd \in [NFs -> {"BLOCKED", "RUNNABLE"}]
  /\ wakeup \in [NFs -> Int]
  /\ opq \in Seq(NFs) /\ xq \in Seq([nf : NFs, dl : Deadlines])
  /\ dl \in [Rings -> Deadlines]
  /\ mca \in [pc : {"look", "xcpu", "flag", "flag_in", "gate", "copy", "wakeup"},
              conn : NFs, r : 0..(Burst - 1)]

\* The MCA has seen a node to copy and has not copied it.
Copying == mca.pc \in {"xcpu", "flag", "flag_in", "gate", "copy"}

\* Each cursor is behind the one before it on the path, and the node that the MCA
\* is about to copy is there.
Cursors ==
  /\ \A i \in Rings : taken[i] <= Sent(i) /\ taken[i] <= Len(dls)
  /\ \A i \in NFs : /\ recvd[i] = sent[i] + IF InHand(i) THEN 1 ELSE 0
                    /\ recvd[i] <= taken[i - 1]
  /\ Copying => taken[Src] < Sent(Src)

\* A wakeup of function i is on its way.
Coming(i) == Waking(i) \/ Requests(i) # {}

\* A function that is going to block has not yet spent the wakeup of a packet that
\* came after its receive, or has it coming; a blocked one is past its block call.
Blocking == \A i \in NFs :
  /\ thd[i] = "BLOCKED" => nfPc[i] \in {"collect", "recv"}
  /\ nfPc[i] \in {"reset", "block"} /\ recvd[i] < taken[i - 1] =>
       wakeup[i] >= 2 \/ Coming(i)

\* The inductive invariant.
IInv == Types /\ Cursors /\ WakeupCnt /\ Blocking /\ NoLostWakeup

-----------------------------------------------------------------------------
(* The constants and the sets of requests.                                 *)

\* Rings and functions are numbered next to one another.
LEMMA Numbers ==
  /\ L \in Nat /\ L > 0 /\ Burst \in Nat /\ Burst > 0
  /\ Never \in Deadlines /\ 1..MaxDl \subseteq Deadlines
  /\ 1 \in NFs /\ L \in NFs /\ L \in Rings
  /\ \A i \in NFs : i \in Int /\ i \in Rings /\ i - 1 \in Rings /\ i > 0 /\ i - 1 # L
  /\ \A i \in Rings : i \in Int /\ (i # 0 => i \in NFs)
  BY EdfAssumption DEF NFs, Rings, Never, Deadlines

\* The requests for a function are finitely many, and none is their number when
\* there are none.
LEMMA RequestsCount ==
  ASSUME Types, NEW i \in NFs
  PROVE  /\ Cardinality(Requests(i)) \in Nat
         /\ Requests(i) # {} => Cardinality(Requests(i)) >= 1
         /\ Requests(i) = {} => Cardinality(Requests(i)) = 0
<1>1. Len(xq) \in Nat /\ DOMAIN xq = 1..Len(xq)
  BY DEF Types
<1>2. IsFiniteSet(1..Len(xq))
  BY <1>1, FS_Interval
<1>3. IsFiniteSet(Requests(i))
  BY <1>1, <1>2, FS_Subset DEF Requests
<1>4. Cardinality(Requests(i)) \in Nat
  BY <1>3, FS_CardinalityType
<1>5. Cardinality(Requests(i)) = 0 <=> Requests(i) = {}
  BY <1>3, FS_EmptySet
<1> QED BY <1>4, <1>5

\* A request that is added stays beside the ones there are.
LEMMA RequestsAppend ==
  ASSUME Types, NEW c \in NFs, NEW d \in Deadlines,
         xq' = Append(xq, [nf |-> c, dl |-> d]), NEW i \in NFs
  PROVE  /\ Requests(i) # {} => Requests(i)' # {}
         /\ Requests(c)' # {}
<1>1. Len(xq) \in Nat /\ DOMAIN xq = 1..Len(xq) /\ xq \in Seq([nf : NFs, dl : Deadlines])
  BY DEF Types
<1>2. [nf |-> c, dl |-> d] \in [nf : NFs, dl : Deadlines]
  OBVIOUS
<1>3. /\ DOMAIN xq' = 1..(Len(xq) + 1)
      /\ \A n \in 1..Len(xq) : xq'[n] = xq[n]
      /\ xq'[Len(xq) + 1] = [nf |-> c, dl |-> d]
  BY <1>1, <1>2
<1>4. Len(xq) + 1 \in Requests(c)'
  BY <1>1, <1>3 DEF Requests
<1>5. ASSUME NEW n \in Requests(i) PROVE n \in Requests(i)'
  BY <1>1, <1>3, <1>5 DEF Requests
<1> QED BY <1>4, <1>5

\* The part of the invariant about the thread of one function.
Thread(i) ==
  /\ thd[i] = "RUNNABLE" => wakeup[i] >= 1
  /\ thd[i] = "BLOCKED" => wakeup[i] = 0
  /\ thd[i] = "BLOCKED" => nfPc[i] \in {"collect", "recv"}
  /\ nfPc[i] \in {"reset", "block"} /\ recvd[i] < taken[i - 1] =>
       wakeup[i] >= 2 \/ Coming(i)
  /\ thd[i] = "BLOCKED" /\ recvd[i] < taken[i - 1] => Coming(i)

\* The invariant, thread by thread.
LEMMA IInvByThread == IInv <=> Types /\ Cursors /\ \A i \in NFs : Thread(i)
  BY DEF IInv, WakeupCnt, Blocking, NoLostWakeup, Thread, Coming

\* A thread is as it was if nothing of it changed and no wakeup was taken away.
LEMMA ThreadFrame ==
  ASSUME NEW i \in NFs, Thread(i), Coming(i) => Coming(i)',
         recvd'[i] = recvd[i], taken'[i - 1] = taken[i - 1],
         thd'[i] = thd[i], wakeup'[i] = wakeup[i], nfPc'[i] = nfPc[i]
  PROVE  Thread(i)'
<1>1. /\ thd[i] = "RUNNABLE" => wakeup[i] >= 1
      /\ thd[i] = "BLOCKED" => wakeup[i] = 0
      /\ thd[i] = "BLOCKED" => nfPc[i] \in {"collect", "recv"}
      /\ nfPc[i] \in {"reset", "block"} /\ recvd[i] < taken[i - 1] =>
           wakeup[i] >= 2 \/ Coming(i)
      /\ thd[i] = "BLOCKED" /\ recvd[i] < taken[i - 1] => Coming(i)
  BY DEF Thread
<1>2. /\ thd'[i] = "RUNNABLE" => wakeup'[i] >= 1
      /\ thd'[i] = "BLOCKED" => wakeup'[i] = 0
      /\ thd'[i] = "BLOCKED" => nfPc'[i] \in {"collect", "recv"}
      /\ nfPc'[i] \in {"reset", "block"} /\ recvd'[i] < taken'[i - 1] =>
           wakeup'[i] >= 2 \/ Coming(i)'
      /\ thd'[i] = "BLOCKED" /\ recvd'[i] < taken'[i - 1] => Coming(i)'
  BY <1>1
<1> QED BY <1>2 DEF Thread

\* A wakeup on its way stays there if the MCA and the requests do not change.
LEMMA ComingFrame ==
  ASSUME UNCHANGED <<xq, mca>>, NEW i \in NFs
  PROVE  Coming(i)' <=> Coming(i)
  BY DEF Coming, Waking, Requests, Dst

-----------------------------------------------------------------------------
(* The initial states, and the receive and the transmit thread.            *)

\* The initial states satisfy the invariant.
LEMMA Initially == Init => IInv
<1> SUFFICES ASSUME Init PROVE IInv
  OBVIOUS
<1>1. Types
  BY Numbers DEF Init, Types, Look
<1>2. Cursors
  BY Numbers DEF Init, Cursors, Sent, InHand, Copying, Look
<1>3. ASSUME NEW i \in NFs PROVE Thread(i)
  BY Numbers DEF Init, Thread
<1> QED BY <1>1, <1>2, <1>3, IInvByThread

\* A packet is received: the path has one more packet at its start.
LEMMA StepRx == IInv /\ ninf_rx_proc_mbuf => IInv'
<1> SUFFICES ASSUME IInv, ninf_rx_proc_mbuf PROVE IInv'
  OBVIOUS
<1> USE Numbers
<1>0. /\ Types /\ Cursors /\ \A i \in NFs : Thread(i)
      /\ UNCHANGED <<ringVars, cntVars, nfPc, thdVars, opq, xq, infoVars, mca>>
  BY IInvByThread DEF ninf_rx_proc_mbuf
<1>1. PICK d \in 1..MaxDl : dls' = Append(dls, d)
  BY DEF ninf_rx_proc_mbuf
<1>2. dls \in Seq(1..MaxDl) /\ dls' \in Seq(1..MaxDl) /\ Len(dls') = Len(dls) + 1 /\ Len(dls) \in Nat
  BY <1>0, <1>1 DEF Types
<1>3. Types'
  BY <1>0, <1>2 DEF Types, ringVars, thdVars, infoVars
<1>4. Cursors'
  <2>1. \A i \in Rings : taken'[i] <= Sent(i)' /\ taken'[i] <= Len(dls')
    <3> SUFFICES ASSUME NEW i \in Rings PROVE taken'[i] <= Sent(i)' /\ taken'[i] <= Len(dls')
      OBVIOUS
    <3>1. taken[i] \in Nat /\ taken[i] <= Sent(i) /\ taken[i] <= Len(dls)
      BY <1>0 DEF Types, Cursors
    <3> QED BY <1>0, <1>2, <3>1 DEF Sent, ringVars
  <2>2. \A i \in NFs : /\ recvd'[i] = sent'[i] + IF InHand(i)' THEN 1 ELSE 0
                       /\ recvd'[i] <= taken'[i - 1]
    BY <1>0 DEF Cursors, InHand, ringVars
  <2>3. Copying' => taken'[Src'] < Sent(Src)'
    <3>1. Src \in Rings /\ Src' = Src /\ (Copying' <=> Copying)
      BY <1>0 DEF Types, Src, Copying
    <3>2. taken[Src] \in Nat /\ (Copying => taken[Src] < Sent(Src))
      BY <1>0, <3>1 DEF Types, Cursors
    <3>3. taken'[Src'] = taken[Src] /\ Sent(Src)' \in Int /\ Sent(Src) \in Int /\ Sent(Src)' >= Sent(Src)
      <4>1. taken' = taken /\ sent' = sent /\ sent \in [NFs -> Nat]
        BY <1>0 DEF Types, ringVars
      <4>2. Src # 0 => Src \in NFs
        BY <3>1
      <4> QED BY <1>2, <3>1, <4>1, <4>2 DEF Sent
    <3> QED BY <3>1, <3>2, <3>3
  <2> QED BY <2>1, <2>2, <2>3 DEF Cursors
<1>5. ASSUME NEW i \in NFs PROVE Thread(i)'
  BY <1>0, ComingFrame, ThreadFrame DEF ringVars, thdVars
<1> QED BY <1>3, <1>4, <1>5 DEF IInv, WakeupCnt, Blocking, NoLostWakeup, Thread, Coming

\* A node leaves the chain: nobody on it sees that.
LEMMA StepTx == IInv /\ ninf_tx_process => IInv'
<1> SUFFICES ASSUME IInv, ninf_tx_process PROVE IInv'
  OBVIOUS
<1> USE Numbers
<1>0. /\ Types /\ Cursors /\ \A i \in NFs : Thread(i)
      /\ UNCHANGED <<dls, recvd, sent, nfPc, thdVars, opq, xq, infoVars, mca>>
  BY IInvByThread DEF ninf_tx_process
<1>1. \/ taken' = taken
      \/ taken[L] < sent[L] /\ taken' = [taken EXCEPT ![L] = @ + 1]
  BY DEF ninf_tx_process
<1>2. Types'
  <2>1. taken' \in [Rings -> Nat]
    <3>1. taken \in [Rings -> Nat]
      BY <1>0 DEF Types
    <3>2. L \in Rings
      BY DEF Rings
    <3> QED BY ONLY <1>1, <3>1, <3>2
  <2> QED BY <1>0, <2>1 DEF Types, thdVars, infoVars
<1>3. \A i \in NFs : taken'[i - 1] = taken[i - 1]
  BY <1>0, <1>1 DEF Types
<1>4. Cursors'
  <2>1. \A i \in Rings : taken'[i] <= Sent(i)' /\ taken'[i] <= Len(dls')
    <3> SUFFICES ASSUME NEW i \in Rings PROVE taken'[i] <= Sent(i)' /\ taken'[i] <= Len(dls')
      OBVIOUS
    <3>1. CASE taken'[i] = taken[i]
      BY <1>0, <3>1 DEF Cursors, Sent
    <3>2. CASE i = L /\ taken[L] < sent[L] /\ taken'[L] = taken[L] + 1
      <4>1. /\ taken[L] \in Nat /\ sent[L] \in Nat /\ recvd[L] \in Nat /\ taken[L - 1] \in Nat
            /\ Len(dls) \in Nat /\ L \in NFs /\ L - 1 \in Rings
        BY <1>0, <3>2, SMTT(30) DEF Types
      <4>2. sent[L] <= recvd[L] /\ recvd[L] <= taken[L - 1] /\ taken[L - 1] <= Len(dls)
        BY <1>0, <4>1 DEF Cursors
      <4> QED BY <1>0, <3>2, <4>1, <4>2 DEF Sent
    <3> QED BY <1>0, <1>1, <3>1, <3>2 DEF Types
  <2>2. \A i \in NFs : /\ recvd'[i] = sent'[i] + IF InHand(i)' THEN 1 ELSE 0
                       /\ recvd'[i] <= taken'[i - 1]
    BY <1>0, <1>3 DEF Cursors, InHand
  <2>3. Copying' => taken'[Src'] < Sent(Src)'
    BY <1>0, <1>3 DEF Types, Cursors, Copying, Sent, Src
  <2> QED BY <2>1, <2>2, <2>3 DEF Cursors
<1>5. ASSUME NEW i \in NFs PROVE Thread(i)'
  BY <1>0, <1>3, ComingFrame, ThreadFrame DEF thdVars
<1> QED BY <1>2, <1>4, <1>5 DEF IInv, WakeupCnt, Blocking, NoLostWakeup, Thread, Coming
-----------------------------------------------------------------------------
(* The network functions.                                                  *)

Pcs == {"collect", "recv", "faa_in", "work", "faa_out", "reset", "block", "abort"}

\* A step of function i disturbs no thread but its own: it is enough to look at its
\* cursors and its thread.
LEMMA NfFrame ==
  ASSUME IInv, NEW i \in NFs, UNCHANGED <<dls, taken, xq, dl, mca>>, opq' \in Seq(NFs),
         NEW p \in Pcs, nfPc' = [nfPc EXCEPT ![i] = p],
         NEW r \in Nat, recvd' = [recvd EXCEPT ![i] = r],
         NEW s \in Nat, sent' = [sent EXCEPT ![i] = s],
         NEW t \in {"BLOCKED", "RUNNABLE"}, thd' = [thd EXCEPT ![i] = t],
         NEW w \in Int, wakeup' = [wakeup EXCEPT ![i] = w],
         s >= sent[i], r <= taken[i - 1],
         r = s + IF p \in {"faa_in", "work"} THEN 1 ELSE 0,
         Thread(i)'
  PROVE  IInv'
<1> USE Numbers
<1>0. Types /\ Cursors /\ \A j \in NFs : Thread(j)
  BY IInvByThread
<1>1. /\ recvd \in [NFs -> Nat] /\ sent \in [NFs -> Nat] /\ wakeup \in [NFs -> Int]
      /\ thd \in [NFs -> {"BLOCKED", "RUNNABLE"}] /\ nfPc \in [NFs -> Pcs]
      /\ taken \in [Rings -> Nat]
  BY <1>0 DEF Types, Pcs
<1>2. /\ recvd' \in [NFs -> Nat] /\ sent' \in [NFs -> Nat] /\ wakeup' \in [NFs -> Int]
      /\ thd' \in [NFs -> {"BLOCKED", "RUNNABLE"}] /\ nfPc' \in [NFs -> Pcs]
  BY <1>1
<1>3. Types'
  BY <1>0, <1>2 DEF Types, Pcs
<1>6. Sent(i) = sent[i] /\ Sent(i)' = s /\ sent[i] \in Nat
  BY <1>1 DEF Sent
<1>4. Cursors'
  <2>1. ASSUME NEW j \in Rings PROVE taken'[j] <= Sent(j)' /\ taken'[j] <= Len(dls')
    <3>1. taken[j] \in Nat /\ taken[j] <= Sent(j) /\ taken[j] <= Len(dls)
      BY <1>0, <1>1 DEF Cursors
    <3>2. CASE j = i
      BY <1>6, <3>1, <3>2
    <3>3. CASE j # i
      BY <1>1, <3>1, <3>3 DEF Sent
    <3> QED BY <3>2, <3>3
  <2>2. ASSUME NEW j \in NFs
        PROVE  /\ recvd'[j] = sent'[j] + IF InHand(j)' THEN 1 ELSE 0
               /\ recvd'[j] <= taken'[j - 1]
    <3>1. CASE j = i
      BY <1>1, <3>1 DEF InHand
    <3>2. CASE j # i
      BY <1>0, <1>1, <3>2 DEF Cursors, InHand
    <3> QED BY <3>1, <3>2
  <2>3. Copying' => taken'[Src'] < Sent(Src)'
    <3>1. Src \in Rings /\ Src' = Src /\ (Copying' <=> Copying)
      BY <1>0 DEF Types, Src, Copying
    <3>2. taken[Src] \in Nat /\ (Copying => taken[Src] < Sent(Src))
      BY <1>0, <3>1 DEF Types, Cursors
    <3>3. CASE Src = i
      BY <1>6, <3>1, <3>2, <3>3
    <3>4. CASE Src # i
      BY <1>1, <3>1, <3>2, <3>4 DEF Sent
    <3> QED BY <3>3, <3>4
  <2> QED BY <2>1, <2>2, <2>3 DEF Cursors
<1>5. ASSUME NEW j \in NFs, j # i PROVE Thread(j)'
  BY <1>0, <1>1, <1>5, ComingFrame, ThreadFrame
<1> QED BY <1>3, <1>4, <1>5 DEF IInv, WakeupCnt, Blocking, NoLostWakeup, Thread, Coming

\* A step of a function that runs.  Only two matter: a receive that finds nothing,
\* after which no packet waits, and the block, which finds the wakeup of any packet
\* that came since.
LEMMA StepNf ==
  ASSUME IInv, NEW i \in NFs, thd[i] = "RUNNABLE", nf_run(i)
  PROVE  IInv'
<1> USE Numbers
<1>0. /\ Types /\ Cursors /\ Thread(i)
      /\ UNCHANGED <<dls, taken, xq, dl, mca>>
  BY IInvByThread DEF nf_run, eos_pkt_collect, eos_pkt_recv, recv_faa, eos_pkt_send,
       flush_faa, NF_BLOCK, mca_xcpu_thd_dl_reset, sl_thd_block, ringVars, infoVars
<1>1. /\ recvd \in [NFs -> Nat] /\ sent \in [NFs -> Nat] /\ wakeup \in [NFs -> Int]
      /\ thd \in [NFs -> {"BLOCKED", "RUNNABLE"}] /\ nfPc \in [NFs -> Pcs]
      /\ taken \in [Rings -> Nat] /\ opq \in Seq(NFs)
  BY <1>0 DEF Types, Pcs
<1>2. /\ recvd[i] = sent[i] + IF nfPc[i] \in {"faa_in", "work"} THEN 1 ELSE 0
      /\ recvd[i] <= taken[i - 1]
  BY <1>0 DEF Cursors, InHand
<1>3. /\ wakeup[i] >= 1
      /\ nfPc[i] = "block" /\ recvd[i] < taken[i - 1] => wakeup[i] >= 2 \/ Coming(i)
      /\ nfPc[i] = "reset" /\ recvd[i] < taken[i - 1] => wakeup[i] >= 2 \/ Coming(i)
  BY <1>0 DEF Thread
<1>4. Coming(i)' <=> Coming(i)
  BY <1>0, ComingFrame
<1>8. /\ recvd = [recvd EXCEPT ![i] = recvd[i]] /\ recvd[i] \in Nat
      /\ sent = [sent EXCEPT ![i] = sent[i]] /\ sent[i] \in Nat /\ sent[i] >= sent[i]
      /\ thd = [thd EXCEPT ![i] = thd[i]] /\ thd[i] \in {"BLOCKED", "RUNNABLE"}
      /\ wakeup = [wakeup EXCEPT ![i] = wakeup[i]] /\ wakeup[i] \in Int
  BY <1>1
<1> DEFINE Quiet == UNCHANGED <<recvd, sent, thd, wakeup, opq>>
           Goto(p) == nfPc' = [nfPc EXCEPT ![i] = p]
<1>5. ASSUME Quiet, NEW p \in Pcs \ {"faa_in", "work", "reset", "block"}, Goto(p),
             nfPc[i] \notin {"faa_in", "work"}
      PROVE  IInv'
  <2>1. Thread(i)'
    BY <1>0, <1>1, <1>3, <1>5 DEF Thread
  <2> QED BY <1>0, <1>1, <1>2, <1>5, <1>8, <2>1, NfFrame, ZenonT(60)
<1>6. CASE eos_pkt_collect(i)
  BY <1>5, <1>6 DEF eos_pkt_collect, NfGoto, thdVars, Pcs
<1>7. CASE eos_pkt_recv(i)
  <2>0. /\ nfPc[i] = "recv" /\ UNCHANGED <<sent, thd, wakeup, opq>>
    BY <1>7 DEF eos_pkt_recv, NfGoto, thdVars
  <2>1. CASE recvd[i] < taken[i - 1] /\ Goto("faa_in") /\ recvd' = [recvd EXCEPT ![i] = @ + 1]
    <3>1. Thread(i)'
      BY <1>0, <1>1, <1>3, <2>0, <2>1 DEF Thread
    <3>2. /\ recvd[i] + 1 \in Nat /\ recvd' = [recvd EXCEPT ![i] = recvd[i] + 1]
          /\ recvd[i] + 1 = sent[i] + 1 /\ recvd[i] + 1 <= taken[i - 1] /\ "faa_in" \in Pcs
      <4>1. recvd[i] = sent[i]
        BY <1>2, <1>8, <2>0
      <4>2. taken[i - 1] \in Nat
        BY <1>1
      <4> QED BY <1>8, <2>1, <4>1, <4>2 DEF Pcs
    <3>3. recvd[i] + 1 = sent[i] + IF "faa_in" \in {"faa_in", "work"} THEN 1 ELSE 0
      BY <3>2
    <3> QED BY <1>0, <1>1, <1>8, <2>0, <2>1, <3>1, <3>2, <3>3, NfFrame, ZenonT(60)
  <2>2. CASE recvd[i] = taken[i - 1] /\ Goto("reset") /\ UNCHANGED recvd
    <3>1. Thread(i)'
      BY <1>0, <1>1, <1>3, <2>0, <2>2, SMTT(30) DEF Thread
    <3> QED BY <1>0, <1>1, <1>2, <1>8, <2>0, <2>2, <3>1, NfFrame DEF Pcs
  <2>3. CASE Goto("collect") /\ UNCHANGED recvd
    BY <1>5, <2>0, <2>3 DEF Pcs
  <2> QED BY <1>7, <2>1, <2>2, <2>3 DEF eos_pkt_recv, NfGoto
<1>9. CASE recv_faa(i)
  <2>1. nfPc[i] = "faa_in" /\ Goto("work") /\ Quiet
    BY <1>9 DEF recv_faa, NfGoto, thdVars, ringVars
  <2>2. Thread(i)'
    BY <1>0, <1>1, <1>3, <2>1 DEF Thread
  <2> QED BY <1>0, <1>1, <1>2, <1>8, <2>1, <2>2, NfFrame DEF Pcs
<1>10. CASE eos_pkt_send(i)
  <2>1. /\ nfPc[i] = "work" /\ Goto("faa_out") /\ sent' = [sent EXCEPT ![i] = sent[i] + 1]
        /\ UNCHANGED <<recvd, thd, wakeup, opq>>
    BY <1>10 DEF eos_pkt_send, NfGoto, thdVars
  <2>2. Thread(i)'
    BY <1>0, <1>1, <1>3, <2>1 DEF Thread
  <2>3. sent[i] + 1 \in Nat /\ sent[i] + 1 >= sent[i] /\ "faa_out" \in Pcs
    BY <1>8 DEF Pcs
  <2>4. recvd[i] = sent[i] + 1
    BY <1>2, <2>1
  <2>5. recvd[i] = (sent[i] + 1) + IF "faa_out" \in {"faa_in", "work"} THEN 1 ELSE 0
    BY <1>8, <2>4
  <2>6. /\ recvd' = [recvd EXCEPT ![i] = recvd[i]] /\ thd' = [thd EXCEPT ![i] = thd[i]]
        /\ wakeup' = [wakeup EXCEPT ![i] = wakeup[i]] /\ opq' \in Seq(NFs) /\ recvd[i] <= taken[i - 1]
    BY <1>1, <1>2, <1>8, <2>1
  <2> QED BY <1>0, <1>8, <2>1, <2>2, <2>3, <2>5, <2>6, NfFrame
<1>11. CASE flush_faa(i)
  BY <1>5, <1>11 DEF flush_faa, NfGoto, thdVars, ringVars, Pcs
<1>12. CASE mca_xcpu_thd_dl_reset(i)
  <2>0. nfPc[i] = "reset" /\ UNCHANGED <<recvd, sent, thd, wakeup>>
    BY <1>12 DEF mca_xcpu_thd_dl_reset, NfGoto, ringVars, thdVars
  <2>1. PICK p \in {"block", "abort"} : Goto(p) /\ opq' \in {opq, Append(opq, i)}
    BY <1>12 DEF mca_xcpu_thd_dl_reset, NfGoto
  <2>2. Thread(i)'
    BY <1>0, <1>1, <1>3, <1>4, <2>0, <2>1 DEF Thread
  <2>3. opq' \in Seq(NFs) /\ p \in Pcs
    <3>1. Append(opq, i) \in Seq(NFs)
      BY <1>1
    <3> QED BY <1>1, <2>1, <3>1 DEF Pcs
  <2>4. recvd[i] = sent[i] + IF p \in {"faa_in", "work"} THEN 1 ELSE 0
    BY <1>2, <2>0, <2>1
  <2>5. /\ recvd' = [recvd EXCEPT ![i] = recvd[i]] /\ sent' = [sent EXCEPT ![i] = sent[i]]
        /\ thd' = [thd EXCEPT ![i] = thd[i]] /\ wakeup' = [wakeup EXCEPT ![i] = wakeup[i]]
        /\ recvd[i] <= taken[i - 1]
    BY <1>2, <1>8, <2>0
  <2> QED BY <1>0, <1>8, <2>1, <2>2, <2>3, <2>4, <2>5, NfFrame
<1>13. CASE sl_thd_block(i)
  <2> DEFINE t == IF wakeup[i] = 1 THEN "BLOCKED" ELSE "RUNNABLE"
  <2>1. /\ nfPc[i] = "block" /\ Goto("recv") /\ UNCHANGED <<recvd, sent, opq>>
        /\ wakeup' = [wakeup EXCEPT ![i] = wakeup[i] - 1]
        /\ thd' = [thd EXCEPT ![i] = t]
    BY <1>13 DEF sl_thd_block, NfGoto, Blocks, ringVars
  <2>2. Thread(i)'
    <3>1. wakeup'[i] = wakeup[i] - 1 /\ thd'[i] = t /\ nfPc'[i] = "recv" /\ wakeup[i] \in Int
      BY <1>1, <2>1
    <3>2. wakeup[i] = 1 /\ recvd[i] < taken[i - 1] => Coming(i)
      BY <1>1, <1>3, <2>1
    <3> QED BY <1>0, <1>3, <1>4, <2>1, <3>1, <3>2 DEF Thread
  <2>3. wakeup[i] - 1 \in Int /\ t \in {"BLOCKED", "RUNNABLE"} /\ "recv" \in Pcs
    BY <1>1, SMTT(30) DEF Pcs
  <2> HIDE DEF t
  <2> QED BY <1>0, <1>1, <1>2, <1>8, <2>1, <2>2, <2>3, NfFrame, ZenonT(60)
<1> QED BY <1>6, <1>7, <1>9, <1>10, <1>11, <1>12, <1>13 DEF nf_run, NF_BLOCK

\* The core runs a function: it is runnable.
LEMMA StepCore == IInv /\ core_run => IInv'
  BY StepNf DEF core_run, Runs

\* The scheduler counts every request as a wakeup and makes the thread runnable; a
\* thread about to block was runnable and has two wakeups then.
LEMMA StepXcpu == IInv /\ sl_xcpu_process => IInv'
<1> SUFFICES ASSUME IInv, sl_xcpu_process PROVE IInv'
  OBVIOUS
<1> USE Numbers
<1>0. /\ Types /\ Cursors /\ \A i \in NFs : Thread(i)
      /\ UNCHANGED <<dls, taken, recvd, sent, nfPc, opq, dl, mca>>
      /\ xq' = <<>>
  BY IInvByThread DEF sl_xcpu_process, ringVars, infoVars
<1>1. /\ thd' = [i \in NFs |-> IF Requests(i) = {} THEN thd[i] ELSE "RUNNABLE"]
      /\ wakeup' = [i \in NFs |-> wakeup[i] + Cardinality(Requests(i))]
  BY DEF sl_xcpu_process, sl_thd_wakeup
<1>2. wakeup \in [NFs -> Int] /\ thd \in [NFs -> {"BLOCKED", "RUNNABLE"}]
  BY <1>0 DEF Types
<1>3. wakeup' \in [NFs -> Int]
  <2>1. \A i \in NFs : wakeup[i] + Cardinality(Requests(i)) \in Int
    BY <1>0, <1>2, RequestsCount
  <2> QED BY <1>1, <2>1
<1>4. thd' \in [NFs -> {"BLOCKED", "RUNNABLE"}]
  BY <1>1, <1>2
<1>5. Types'
  <2>1. xq' \in Seq([nf : NFs, dl : Deadlines])
    BY <1>0
  <2> QED BY <1>0, <1>3, <1>4, <2>1 DEF Types
<1>6. Cursors'
  BY <1>0 DEF Cursors, Sent, InHand, Copying, Src
<1>7. ASSUME NEW i \in NFs PROVE Thread(i)'
  <2>1. /\ wakeup[i] \in Int /\ Thread(i) /\ Cardinality(Requests(i)) \in Nat
        /\ Requests(i) # {} => Cardinality(Requests(i)) >= 1
        /\ Requests(i) = {} => Cardinality(Requests(i)) = 0
        /\ thd[i] \in {"BLOCKED", "RUNNABLE"}
    BY <1>0, <1>2, RequestsCount
  <2>2. CASE Requests(i) = {}
    <3>1. Coming(i) => Coming(i)'
      BY <1>0, <2>2 DEF Coming, Waking, Dst
    <3>2. wakeup'[i] = wakeup[i] /\ thd'[i] = thd[i]
      BY <1>1, <2>1, <2>2
    <3> QED BY <1>0, <2>1, <3>1, <3>2, ThreadFrame
  <2>3. CASE Requests(i) # {}
    <3>1. thd'[i] = "RUNNABLE" /\ wakeup'[i] >= wakeup[i] + 1 /\ wakeup'[i] \in Int
      BY <1>1, <2>1, <2>3
    <3>2. wakeup[i] >= 0 /\ (nfPc[i] \in {"reset", "block"} => wakeup[i] >= 1)
      BY <2>1 DEF Thread
    <3>3. wakeup'[i] >= 1 /\ (nfPc'[i] \in {"reset", "block"} => wakeup'[i] >= 2)
      BY <1>0, <2>1, <3>1, <3>2
    <3> QED BY <3>1, <3>3 DEF Thread
  <2> QED BY <2>2, <2>3
<1> QED BY <1>5, <1>6, <1>7 DEF IInv, WakeupCnt, Blocking, NoLostWakeup, Thread, Coming
-----------------------------------------------------------------------------
(* The MCA.                                                                *)

\* The values `mca' can have.
McaStates == [pc : {"look", "xcpu", "flag", "flag_in", "gate", "copy", "wakeup"},
              conn : NFs, r : 0..(Burst - 1)]

\* The rings of the connection in hand, and the connection after it.
LEMMA ConnType ==
  ASSUME Types
  PROVE  /\ Src \in Rings /\ Dst \in NFs /\ Dst - 1 = Src /\ Src + 1 = Dst /\ Src # L
         /\ mca \in McaStates
         /\ NextConn \in McaStates /\ NextConn.pc = "look"
<1>1. mca \in McaStates
  BY DEF Types, McaStates
<1>2. mca.conn \in 1..L /\ L \in Nat
  BY <1>1, Numbers DEF McaStates, NFs
<1>3. /\ Src \in Rings /\ Dst \in NFs /\ Dst - 1 = Src /\ Src + 1 = Dst /\ Src # L
  BY <1>2 DEF Src, Dst, NFs, Rings
<1> DEFINE c == IF mca.conn = 1 THEN L ELSE mca.conn - 1
<1>4. c \in NFs
  BY <1>2 DEF NFs
<1>5. 0 \in 0..(Burst - 1)
  BY Numbers
<1>6. NextConn = [pc |-> "look", conn |-> c, r |-> 0]
  BY DEF NextConn, Look
<1> HIDE DEF c
<1>7. NextConn \in McaStates /\ NextConn.pc = "look"
  BY <1>4, <1>5, <1>6 DEF McaStates
<1> QED BY <1>1, <1>3, <1>7

\* A step of the MCA before its copy leaves every thread as it is.
LEMMA McaFrame ==
  ASSUME IInv, UNCHANGED <<dls, ringVars, nfPc, thdVars, xq>>, mca.pc # "wakeup",
         opq' \in Seq(NFs), dl' \in [Rings -> Deadlines], mca' \in McaStates,
         mca'.pc = "look" \/ (Src' = Src /\ taken[Src] < Sent(Src))
  PROVE  mca'.pc # "wakeup" => IInv'
<1> SUFFICES ASSUME mca'.pc # "wakeup" PROVE IInv'
  OBVIOUS
<1> USE Numbers
<1>0. Types /\ Cursors /\ \A i \in NFs : Thread(i)
  BY IInvByThread
<1>1. Types'
  BY <1>0 DEF Types, McaStates, ringVars, thdVars
<1>2. Cursors'
  <2>1. Copying' => taken'[Src'] < Sent(Src)'
    BY DEF Copying, Sent, ringVars
  <2> QED BY <1>0, <2>1 DEF Cursors, Sent, InHand, ringVars
<1>3. ASSUME NEW i \in NFs PROVE Thread(i)'
  <2>1. Coming(i) => Coming(i)'
    BY DEF Coming, Waking, Requests
  <2> QED BY <1>0, <2>1, ThreadFrame DEF ringVars, thdVars
<1> QED BY <1>1, <1>2, <1>3 DEF IInv, WakeupCnt, Blocking, NoLostWakeup, Thread, Coming

\* Changing the step keeps the connection and the burst count.
LEMMA GotoType ==
  ASSUME Types, NEW from, NEW to \in {"xcpu", "flag", "flag_in", "gate", "copy", "wakeup"},
         McaGoto(from, to)
  PROVE  mca' \in McaStates /\ mca'.pc = to /\ Src' = Src /\ Dst' = Dst /\ mca.pc = from
  BY ConnType DEF McaGoto, McaStates, Src, Dst

\* Nothing is sent on a ring that was not received at the start of the path.
LEMMA SentLen ==
  ASSUME Types, Cursors, NEW i \in Rings
  PROVE  /\ taken[i] \in Nat /\ Len(dls) \in Nat /\ Sent(i) \in Nat
         /\ Sent(i) <= Len(dls)
         /\ i # 0 => Sent(i) <= taken[i - 1] /\ taken[i - 1] \in Nat
<1> USE Numbers
<1>1. taken[i] \in Nat /\ Len(dls) \in Nat
  BY DEF Types
<1>2. CASE i = 0
  BY <1>1, <1>2 DEF Sent
<1>3. CASE i # 0
  <2>1. /\ i \in NFs /\ i - 1 \in Rings /\ sent[i] \in Nat /\ recvd[i] \in Nat
        /\ taken[i - 1] \in Nat
    BY <1>3 DEF Types
  <2>2. sent[i] <= recvd[i] /\ recvd[i] <= taken[i - 1] /\ taken[i - 1] <= Len(dls)
    BY <2>1 DEF Cursors
  <2> QED BY <1>1, <1>3, <2>1, <2>2 DEF Sent
<1> QED BY <1>2, <1>3

\* An element of a sequence.
LEMMA SeqElement ==
  ASSUME NEW S, NEW q \in Seq(S), NEW n \in 1..Len(q)
  PROVE  q[n] \in S
  OBVIOUS

\* Looking for a node, handling resets, the tests: nothing a thread can see.
LEMMA StepLook ==
  ASSUME IInv, mca_look \/ mca_xcpu_process \/ mca_flag_out \/ mca_flag_in \/ mca_gate
  PROVE  IInv'
<1> USE Numbers
<1>0. Types /\ Cursors /\ opq \in Seq(NFs) /\ dl \in [Rings -> Deadlines]
  BY IInvByThread DEF Types
<1>1. Copying => taken[Src] < Sent(Src)
  BY <1>0 DEF Cursors
<1> USE ConnType
<1>2. CASE mca_look
  <2>1. UNCHANGED <<dls, ringVars, nfPc, thdVars, xq, opq, dl>>
    BY <1>2 DEF mca_look, infoVars
  <2>2. CASE CanCopy /\ McaGoto("look", "xcpu")
    <3>1. taken[Src] < Sent(Src)
      BY <2>2 DEF CanCopy
    <3>2. mca' \in McaStates /\ mca'.pc = "xcpu" /\ Src' = Src /\ mca.pc = "look"
      BY <1>0, <2>2, GotoType
    <3> QED BY <1>0, <2>1, <3>1, <3>2, McaFrame
  <2>3. CASE mca.pc = "look" /\ mca' = NextConn
    <3>1. mca' \in McaStates /\ mca'.pc = "look"
      BY <1>0, <2>3
    <3> QED BY <1>0, <2>1, <2>3, <3>1, McaFrame
  <2> QED BY <1>2, <2>2, <2>3 DEF mca_look
<1>3. CASE mca_xcpu_process
  <2>0. UNCHANGED <<dls, ringVars, nfPc, thdVars, xq>>
    BY <1>3 DEF mca_xcpu_process
  <2>1. CASE mca.pc = "xcpu" /\ opq # <<>> /\ Reset(Head(opq)) /\ opq' = Tail(opq) /\ UNCHANGED mca
    <3>1. opq' \in Seq(NFs) /\ Head(opq) \in NFs
      BY <1>0, <2>1
    <3>2. dl' \in [Rings -> Deadlines]
      BY <1>0, <2>1, <3>1 DEF Reset
    <3>3. Src' = Src /\ taken[Src] < Sent(Src) /\ mca' \in McaStates
      BY <1>0, <1>1, <2>1 DEF Src, Copying
    <3> QED BY <2>0, <2>1, <3>1, <3>2, <3>3, McaFrame
  <2>2. CASE McaGoto("xcpu", "flag") /\ UNCHANGED <<opq, infoVars>>
    <3>1. mca' \in McaStates /\ mca'.pc = "flag" /\ Src' = Src /\ mca.pc = "xcpu"
      BY <1>0, <2>2, GotoType
    <3>2. taken[Src] < Sent(Src)
      BY <1>1, <3>1 DEF Copying
    <3>3. opq' \in Seq(NFs) /\ dl' \in [Rings -> Deadlines]
      BY <1>0, <2>2 DEF infoVars
    <3> QED BY <2>0, <3>1, <3>2, <3>3, McaFrame
  <2> QED BY <1>3, <2>1, <2>2 DEF mca_xcpu_process
<1>4. CASE mca_flag_out
  <2>1. PICK to \in {"flag_in", "gate"} : McaGoto("flag", to)
    BY <1>4 DEF mca_flag_out
  <2>2. mca' \in McaStates /\ mca'.pc = to /\ Src' = Src /\ mca.pc = "flag"
    BY <1>0, <2>1, GotoType
  <2>3. taken[Src] < Sent(Src)
    BY <1>1, <2>2 DEF Copying
  <2>4. UNCHANGED <<dls, ringVars, nfPc, thdVars, xq, opq, dl>>
    BY <1>4 DEF mca_flag_out, infoVars
  <2> QED BY <1>0, <2>2, <2>3, <2>4, McaFrame
<1>5. CASE mca_flag_in
  <2>1. mca' \in McaStates /\ mca'.pc = "gate" /\ Src' = Src /\ mca.pc = "flag_in"
    BY <1>0, <1>5, GotoType DEF mca_flag_in
  <2>2. taken[Src] < Sent(Src)
    BY <1>1, <2>1 DEF Copying
  <2>3. UNCHANGED <<dls, ringVars, nfPc, thdVars, xq, opq>>
    BY <1>5 DEF mca_flag_in
  <2>4. dl' \in [Rings -> Deadlines]
    BY <1>0, <1>5 DEF mca_flag_in, infoVars
  <2> QED BY <1>0, <2>1, <2>2, <2>3, <2>4, McaFrame
<1>6. CASE mca_gate
  <2>1. mca.pc = "gate" /\ UNCHANGED <<dls, ringVars, nfPc, thdVars, xq, opq>>
    BY <1>6 DEF mca_gate
  <2>2. taken[Src] < Sent(Src)
    BY <1>1, <2>1 DEF Copying
  <2>3. SrcDl \in Deadlines
    <3>1. taken[Src] \in Nat /\ taken[Src] < Len(dls) /\ Len(dls) \in Nat
      <4>1. Src \in Rings
        BY <1>0
      <4>2. /\ taken[Src] \in Nat /\ Len(dls) \in Nat /\ Sent(Src) \in Nat
            /\ Sent(Src) <= Len(dls)
        BY <1>0, <4>1, SentLen
      <4> QED BY <2>2, <4>2
    <3>2. Dl(taken[Src]) \in 1..MaxDl
      <4>1. dls \in Seq(1..MaxDl)
        BY <1>0 DEF Types
      <4>2. taken[Src] + 1 \in 1..Len(dls)
        BY <3>1
      <4> QED BY <4>1, <4>2, SeqElement DEF Dl
    <3>3. dl[Src] \in Deadlines
      BY <1>0
    <3>4. SrcDl \in {Dl(taken[Src]), dl[Src]}
      BY DEF SrcDl
    <3> QED BY <3>2, <3>3, <3>4
  <2>4. dl' \in [Rings -> Deadlines]
    BY <1>0, <1>6, <2>3 DEF mca_gate
  <2>5. CASE mca' = NextConn
    <3>1. mca' \in McaStates /\ mca'.pc = "look"
      BY <1>0, <2>5
    <3> QED BY <1>0, <2>1, <2>4, <3>1, McaFrame
  <2>6. CASE McaGoto("gate", "copy")
    <3>1. mca' \in McaStates /\ mca'.pc = "copy" /\ Src' = Src
      BY <1>0, <2>6, GotoType
    <3> QED BY <1>0, <2>1, <2>2, <2>4, <3>1, McaFrame
  <2> QED BY <1>6, <2>5, <2>6 DEF mca_gate
<1> QED BY <1>2, <1>3, <1>4, <1>5, <1>6
\* The copy hands function Dst a packet, and its wakeup is coming from then on.
LEMMA StepTransfer == IInv /\ mca_transfer => IInv'
<1> SUFFICES ASSUME IInv, mca_transfer PROVE IInv'
  OBVIOUS
<1> USE Numbers
<1>0. /\ Types /\ Cursors /\ \A i \in NFs : Thread(i)
      /\ UNCHANGED <<dls, recvd, sent, nfPc, thdVars, opq, xq, infoVars>>
      /\ taken' = [taken EXCEPT ![Src] = @ + 1]
  BY IInvByThread DEF mca_transfer
<1>1. /\ mca' \in McaStates /\ mca'.pc = "wakeup" /\ Src' = Src /\ Dst' = Dst /\ mca.pc = "copy"
      /\ Src \in Rings /\ Dst \in NFs /\ Dst - 1 = Src
  BY <1>0, GotoType, ConnType DEF mca_transfer
<1>2. /\ taken \in [Rings -> Nat] /\ taken' \in [Rings -> Nat]
      /\ taken'[Src] = taken[Src] + 1 /\ taken[Src] \in Nat
      /\ \A i \in Rings : i # Src => taken'[i] = taken[i]
  <2>1. taken \in [Rings -> Nat] /\ Src \in Rings /\ taken' = [taken EXCEPT ![Src] = taken[Src] + 1]
    BY <1>0, <1>1 DEF Types
  <2> QED BY <2>1
<1>3. Types'
  BY <1>0, <1>1, <1>2 DEF Types, McaStates, thdVars, infoVars
<1>4. Cursors'
  <2>1. ASSUME NEW i \in Rings PROVE taken'[i] <= Sent(i)' /\ taken'[i] <= Len(dls')
    <3>1. Sent(i)' = Sent(i) /\ Sent(i) \in Nat /\ Len(dls) \in Nat /\ Sent(i) <= Len(dls)
      BY <1>0, SentLen DEF Sent
    <3>2. CASE i = Src
      <4>1. taken[Src] < Sent(Src)
        BY <1>0, <1>1 DEF Cursors, Copying
      <4> QED BY <1>0, <1>2, <3>1, <3>2, <4>1
    <3>3. CASE i # Src
      BY <1>0, <1>2, <3>1, <3>3 DEF Cursors
    <3> QED BY <3>2, <3>3
  <2>2. ASSUME NEW i \in NFs
        PROVE  /\ recvd'[i] = sent'[i] + IF InHand(i)' THEN 1 ELSE 0
               /\ recvd'[i] <= taken'[i - 1]
    <3>1. /\ recvd[i] = sent[i] + IF InHand(i) THEN 1 ELSE 0
          /\ recvd[i] <= taken[i - 1] /\ recvd[i] \in Nat
      BY <1>0 DEF Cursors, Types
    <3>2. taken'[i - 1] \in Nat /\ taken[i - 1] \in Nat /\ taken'[i - 1] >= taken[i - 1]
      <4>1. i - 1 \in Rings
        OBVIOUS
      <4>2. CASE i - 1 = Src
        BY <1>2, <4>2
      <4>3. CASE i - 1 # Src
        BY <1>2, <4>1, <4>3
      <4> QED BY <4>2, <4>3
    <3> QED BY <1>0, <3>1, <3>2 DEF InHand
  <2>3. ~Copying'
    BY <1>1 DEF Copying
  <2> QED BY <2>1, <2>2, <2>3 DEF Cursors
<1>5. ASSUME NEW i \in NFs PROVE Thread(i)'
  <2>1. CASE i = Dst
    <3>1. Coming(i)'
      BY <1>1, <2>1 DEF Coming, Waking
    <3> QED BY <1>0, <3>1 DEF Thread, thdVars
  <2>2. CASE i # Dst
    <3>1. taken'[i - 1] = taken[i - 1]
      BY <1>1, <1>2, <2>2
    <3>2. Coming(i) => Coming(i)'
      BY <1>0, <1>1 DEF Coming, Waking, Requests
    <3> QED BY <1>0, <3>1, <3>2, ThreadFrame DEF thdVars
  <2> QED BY <2>1, <2>2
<1> QED BY <1>3, <1>4, <1>5 DEF IInv, WakeupCnt, Blocking, NoLostWakeup, Thread, Coming

\* The wakeup becomes a request to the core.
LEMMA StepWakeup == IInv /\ mca_wakeup => IInv'
<1> SUFFICES ASSUME IInv, mca_wakeup PROVE IInv'
  OBVIOUS
<1> USE Numbers
<1>0. /\ Types /\ Cursors /\ \A i \in NFs : Thread(i)
      /\ UNCHANGED <<dls, ringVars, nfPc, thdVars, opq>>
      /\ dl' = [dl EXCEPT ![Dst] = DstDl]
      /\ xq' = Append(xq, [nf |-> Dst, dl |-> DstDl])
      /\ mca.pc = "wakeup"
  BY IInvByThread DEF mca_wakeup, sl_xcpu_thd_wakeup_with_dl
<1>1. Src \in Rings /\ Dst \in NFs /\ Dst \in Rings
  BY <1>0, ConnType
<1>2. DstDl \in Deadlines
  BY <1>0, <1>1 DEF Types, DstDl
<1>3. mca' \in McaStates /\ mca'.pc = "look"
  <2>1. CASE BurstLeft /\ mca' = Look(mca.conn, mca.r + 1)
    <3>1. mca \in McaStates
      BY <1>0, ConnType
    <3>2. mca.conn \in NFs /\ mca.r \in 0..(Burst - 1)
      BY <3>1 DEF McaStates
    <3>3. mca.r + 1 \in 0..(Burst - 1)
      BY <2>1, <3>2 DEF BurstLeft
    <3> QED BY <2>1, <3>2, <3>3 DEF Look, McaStates
  <2>2. CASE mca' = NextConn
    BY <1>0, <2>2, ConnType
  <2> QED BY <2>1, <2>2 DEF mca_wakeup
<1>4. Types'
  <2>1. xq' \in Seq([nf : NFs, dl : Deadlines])
    <3>1. xq \in Seq([nf : NFs, dl : Deadlines])
      BY <1>0 DEF Types
    <3>2. [nf |-> Dst, dl |-> DstDl] \in [nf : NFs, dl : Deadlines]
      BY <1>1, <1>2
    <3> QED BY <1>0, <3>1, <3>2
  <2>2. dl' \in [Rings -> Deadlines]
    BY <1>0, <1>2 DEF Types
  <2> QED BY <1>0, <1>3, <2>1, <2>2 DEF Types, McaStates, ringVars, thdVars
<1>5. Cursors'
  <2>1. ~Copying'
    BY <1>3 DEF Copying
  <2> QED BY <1>0, <2>1 DEF Cursors, Sent, InHand, ringVars
<1>6. ASSUME NEW i \in NFs PROVE Thread(i)'
  <2>1. PICK c \in NFs : c = Dst
    BY <1>1
  <2>2. PICK d \in Deadlines : d = DstDl
    BY <1>2
  <2>3. xq' = Append(xq, [nf |-> c, dl |-> d])
    BY <1>0, <2>1, <2>2
  <2>4. (Requests(i) # {} => Requests(i)' # {}) /\ Requests(c)' # {}
    BY <1>0, <2>3, RequestsAppend
  <2>5. Coming(i) => Coming(i)'
    <3>1. CASE i = c
      BY <2>4, <3>1 DEF Coming
    <3>2. CASE i # c
      BY <2>1, <2>4, <3>2 DEF Coming, Waking
    <3> QED BY <3>1, <3>2
  <2> QED BY <1>0, <2>5, ThreadFrame DEF ringVars, thdVars
<1> QED BY <1>4, <1>5, <1>6 DEF IInv, WakeupCnt, Blocking, NoLostWakeup, Thread, Coming

-----------------------------------------------------------------------------
(* The theorems.                                                           *)

\* Every step of every thread preserves the invariant.
THEOREM EdfInductive == IInv /\ [Next]_vars => IInv'
<1> SUFFICES ASSUME IInv, [Next]_vars PROVE IInv'
  OBVIOUS
<1>1. CASE Next
  BY <1>1, StepRx, StepTx, StepCore, StepXcpu, StepLook, StepTransfer, StepWakeup
    DEF Next, mca_run
<1>2. CASE UNCHANGED vars
  <2>1. UNCHANGED <<dls, taken, recvd, sent, nfPc, thd, wakeup, opq, xq, dl, mca>>
    BY <1>2 DEF vars, ringVars, thdVars, infoVars
  <2>2. Types' /\ Cursors'
    BY <2>1 DEF IInv, Types, Cursors, Sent, InHand, Copying, Src
  <2>3. WakeupCnt' /\ Blocking' /\ NoLostWakeup'
    BY <2>1 DEF IInv, WakeupCnt, Blocking, NoLostWakeup, Coming, Waking, Requests, Dst
  <2> QED BY <2>2, <2>3 DEF IInv
<1> QED BY <1>1, <1>2

\* The invariant holds in every reachable state.
THEOREM EdfInvariance == Spec => []IInv
<1>1. Init => IInv
  BY Initially
<1>2. IInv /\ [Next]_vars => IInv'
  BY EdfInductive
<1> QED BY <1>1, <1>2, PTL DEF Spec

\* sl_thd_block finds a wakeup count of at least one, as it asserts, and a thread is
\* blocked exactly when the count is used up.
THEOREM WakeupsCounted == Spec => []WakeupCnt
<1>1. IInv => WakeupCnt
  BY DEF IInv
<1> QED BY <1>1, EdfInvariance, PTL

\* The count is right, and a packet that waits for a blocked function always has its wakeup on the way,
\* however the receive, the block, the copy and the requests interleave.
THEOREM NoWakeupIsLost == Spec => []Wakeups
<1>1. IInv => Wakeups
  BY DEF IInv, Wakeups
<1> QED BY <1>1, EdfInvariance, PTL

-----------------------------------------------------------------------------
(* The request ring of the MCA.                                            *)

\* OpsBounded, for one function: one request of it may not have cost a wakeup yet, and one
\* packet not given one.
Owed(i)  == IF nfPc[i] = "block" THEN 1 ELSE 0
Given(i) == IF Waking(i) THEN 1 ELSE 0
Bounded(i) ==
  Ops(i) + wakeup[i] + Cardinality(Requests(i)) <= taken[i - 1] + Owed(i) - Given(i)

\* The entries of the ring that are of function i.
OpsOf(q, i) == {n \in DOMAIN q : q[n] = i}

\* There are finitely many.
LEMMA OpsFinite ==
  ASSUME NEW q \in Seq(NFs), NEW i
  PROVE  IsFiniteSet(OpsOf(q, i)) /\ Cardinality(OpsOf(q, i)) \in Nat
<1>1. Len(q) \in Nat /\ DOMAIN q = 1..Len(q)
  OBVIOUS
<1>2. IsFiniteSet(1..Len(q))
  BY <1>1, FS_Interval
<1>3. IsFiniteSet(OpsOf(q, i))
  BY <1>1, <1>2, FS_Subset DEF OpsOf
<1> QED BY <1>3, FS_CardinalityType

\* A request that is added is one more of its function, and none of another.
LEMMA OpsAppend ==
  ASSUME NEW q \in Seq(NFs), NEW c \in NFs, NEW i \in NFs
  PROVE  Cardinality(OpsOf(Append(q, c), i))
           = Cardinality(OpsOf(q, i)) + IF i = c THEN 1 ELSE 0
<1>1. PICK w : w = Append(q, c)
  OBVIOUS
<1>2. /\ Len(q) \in Nat /\ DOMAIN q = 1..Len(q) /\ DOMAIN w = 1..(Len(q) + 1)
      /\ w[Len(q) + 1] = c /\ \A n \in 1..Len(q) : w[n] = q[n]
  BY <1>1
<1>3. IsFiniteSet(OpsOf(q, i)) /\ Cardinality(OpsOf(q, i)) \in Nat
  BY OpsFinite
<1>4. CASE i = c
  <2>1. OpsOf(w, i) = OpsOf(q, i) \cup {Len(q) + 1} /\ Len(q) + 1 \notin OpsOf(q, i)
    BY <1>2, <1>4 DEF OpsOf
  <2>2. PICK S : S = OpsOf(q, i)
    OBVIOUS
  <2>3. Cardinality(S \cup {Len(q) + 1}) = Cardinality(S) + 1
    BY <2>1, <2>2, <1>3, FS_AddElement
  <2> QED BY <1>1, <1>4, <2>1, <2>2, <2>3
<1>5. CASE i # c
  <2>1. OpsOf(w, i) = OpsOf(q, i)
    BY <1>2, <1>5 DEF OpsOf
  <2> QED BY <1>1, <1>3, <1>5, <2>1
<1> QED BY <1>4, <1>5

\* Taking one away leaves no more.
LEMMA OpsTail ==
  ASSUME NEW q \in Seq(NFs), q # <<>>, NEW i \in NFs
  PROVE  Cardinality(OpsOf(Tail(q), i)) <= Cardinality(OpsOf(q, i))
<1>1. PICK w : w = Tail(q)
  OBVIOUS
<1>2. /\ Len(q) \in Nat /\ Len(q) > 0 /\ DOMAIN q = 1..Len(q) /\ DOMAIN w = 1..(Len(q) - 1)
      /\ \A n \in 1..(Len(q) - 1) : w[n] = q[n + 1] /\ n + 1 \in 1..Len(q)
  BY <1>1
<1> DEFINE S == OpsOf(w, i)
           T == OpsOf(q, i)
           f == [n \in S |-> n + 1]
<1>3. IsFiniteSet(T)
  BY OpsFinite
<1>4. \A n \in S : n \in Int /\ n + 1 \in T
  BY <1>2 DEF OpsOf
<1>5. f \in Injection(S, T)
  <2> HIDE DEF S, T
  <2> QED BY <1>4 DEF Injection, IsInjective
<1> HIDE DEF f, S, T
<1>6. Cardinality(S) <= Cardinality(T)
  BY <1>3, <1>5, FS_Injection
<1> QED BY <1>1, <1>6 DEF S, T

\* A wakeup that becomes a request is one more of its function, and none of another.
LEMMA RequestAdded ==
  ASSUME Types, NEW c \in NFs, NEW d \in Deadlines,
         xq' = Append(xq, [nf |-> c, dl |-> d]), NEW i \in NFs
  PROVE  Cardinality(Requests(i))' = Cardinality(Requests(i)) + IF i = c THEN 1 ELSE 0
<1>1. Len(xq) \in Nat /\ DOMAIN xq = 1..Len(xq) /\ xq \in Seq([nf : NFs, dl : Deadlines])
  BY DEF Types
<1>2. [nf |-> c, dl |-> d] \in [nf : NFs, dl : Deadlines]
  OBVIOUS
<1>3. /\ DOMAIN xq' = 1..(Len(xq) + 1)
      /\ \A n \in 1..Len(xq) : xq'[n] = xq[n]
      /\ xq'[Len(xq) + 1] = [nf |-> c, dl |-> d]
  BY <1>1, <1>2
<1>4. IsFiniteSet(Requests(i)) /\ Cardinality(Requests(i)) \in Nat
  <2>1. IsFiniteSet(1..Len(xq))
    BY <1>1, FS_Interval
  <2>2. IsFiniteSet(Requests(i))
    BY <1>1, <2>1, FS_Subset DEF Requests
  <2> QED BY <2>2, RequestsCount
<1>5. CASE i = c
  <2>1. Requests(i)' = Requests(i) \cup {Len(xq) + 1} /\ Len(xq) + 1 \notin Requests(i)
    BY <1>1, <1>3, <1>5 DEF Requests
  <2>2. PICK S : S = Requests(i)
    OBVIOUS
  <2>3. Cardinality(S \cup {Len(xq) + 1}) = Cardinality(S) + 1
    BY <2>1, <2>2, <1>4, FS_AddElement
  <2> QED BY <1>5, <2>1, <2>2, <2>3
<1>6. CASE i # c
  <2>1. Requests(i)' = Requests(i)
    BY <1>1, <1>3, <1>6 DEF Requests
  <2> QED BY <1>4, <1>6, <2>1
<1> QED BY <1>5, <1>6

\* The numbers of the bound.
LEMMA BoundTypes ==
  ASSUME IInv, NEW i \in NFs
  PROVE  /\ Ops(i) \in Nat /\ wakeup[i] \in Int /\ Cardinality(Requests(i)) \in Nat
         /\ taken[i - 1] \in Nat /\ Ops(i) = Cardinality(OpsOf(opq, i))
         /\ Owed(i) \in Nat /\ Given(i) \in Nat
  BY OpsFinite, RequestsCount, Numbers DEF IInv, Types, Ops, OpsOf, Owed, Given

\* A function whose counts do not change, or whose ring entries get fewer, stays in bounds.
LEMMA BoundedFrame ==
  ASSUME IInv, NEW i \in NFs, Bounded(i), Ops(i)' \in Nat, Ops(i)' <= Ops(i),
         Cardinality(Requests(i))' = Cardinality(Requests(i)),
         wakeup'[i] = wakeup[i], taken'[i - 1] = taken[i - 1],
         nfPc'[i] = "block" <=> nfPc[i] = "block", Waking(i)' <=> Waking(i)
  PROVE  Bounded(i)'
<1>1. Owed(i)' = Owed(i) /\ Given(i)' = Given(i)
  BY DEF Owed, Given
<1> QED BY <1>1, BoundTypes DEF Bounded

\* The arithmetic of the bound: its two sides, and what each number gains.
LEMMA BoundSum ==
  ASSUME NEW o \in Int, NEW w \in Int, NEW r \in Int, NEW t \in Int, NEW d \in Int, NEW g \in Int,
         o + w + r <= t + d - g
  PROVE  /\ (o + 1) + w + r <= t + (d + 1) - g
         /\ o + (w - 1) + r <= t + (d - 1) - g
         /\ o + w + r <= (t + 1) + d - (g + 1)
         /\ o + w + (r + 1) <= t + d - (g - 1)
  OBVIOUS

\* Every reset request costs its function a wakeup, every wakeup is that of a packet.
LEMMA OpsInductive ==
  ASSUME IInv, \A i \in NFs : Bounded(i), [Next]_vars, NEW i \in NFs
  PROVE  Bounded(i)'
<1> USE Numbers
<1>0. /\ Types /\ opq \in Seq(NFs) /\ taken \in [Rings -> Nat] /\ wakeup \in [NFs -> Int]
      /\ nfPc \in [NFs -> Pcs] /\ Bounded(i)
  BY DEF IInv, Types, Pcs
<1>b. /\ Ops(i) \in Nat /\ wakeup[i] \in Int /\ Cardinality(Requests(i)) \in Nat
      /\ taken[i - 1] \in Nat /\ Ops(i) = Cardinality(OpsOf(opq, i))
      /\ Ops(i)' = Cardinality(OpsOf(opq', i)) /\ Owed(i) \in Nat /\ Given(i) \in Nat
  BY BoundTypes DEF Ops, OpsOf
<1>m. /\ (Ops(i) + 1) + wakeup[i] + Cardinality(Requests(i)) <= taken[i - 1] + (Owed(i) + 1) - Given(i)
      /\ Ops(i) + (wakeup[i] - 1) + Cardinality(Requests(i)) <= taken[i - 1] + (Owed(i) - 1) - Given(i)
      /\ Ops(i) + wakeup[i] + Cardinality(Requests(i)) <= (taken[i - 1] + 1) + Owed(i) - (Given(i) + 1)
      /\ Ops(i) + wakeup[i] + (Cardinality(Requests(i)) + 1) <= taken[i - 1] + Owed(i) - (Given(i) - 1)
  <2>1. Ops(i) + wakeup[i] + Cardinality(Requests(i)) <= taken[i - 1] + Owed(i) - Given(i)
    BY <1>0 DEF Bounded
  <2> QED BY <1>b, <2>1, BoundSum
<1>f. ASSUME UNCHANGED <<opq, xq, wakeup, mca>>, taken'[i - 1] = taken[i - 1],
             nfPc'[i] = "block" <=> nfPc[i] = "block"
      PROVE  Bounded(i)'
  <2>1. Ops(i)' = Ops(i) /\ Requests(i)' = Requests(i) /\ (Waking(i)' <=> Waking(i))
    BY <1>f DEF Ops, Requests, Waking, Dst
  <2> QED BY <1>0, <1>b, <1>f, <2>1, BoundedFrame, SMTT(30)
<1>1. CASE ninf_rx_proc_mbuf
  BY <1>1, <1>f DEF ninf_rx_proc_mbuf, ringVars, thdVars
<1>2. CASE ninf_tx_process
  <2>1. UNCHANGED <<opq, xq, wakeup, mca, nfPc>> /\ taken'[i - 1] = taken[i - 1]
    BY <1>0, <1>2 DEF ninf_tx_process, thdVars
  <2> QED BY <1>f, <2>1
<1>3. CASE core_run
  <2>1. PICK j \in NFs : nf_run(j)
    BY <1>3 DEF core_run
  <2>2. UNCHANGED <<taken, xq, mca>>
    BY <2>1 DEF nf_run, eos_pkt_collect, eos_pkt_recv, recv_faa, eos_pkt_send,
       flush_faa, NF_BLOCK, mca_xcpu_thd_dl_reset, sl_thd_block, ringVars, infoVars
  <2>w. Requests(i)' = Requests(i) /\ Given(i)' = Given(i)
    BY <2>2 DEF Requests, Waking, Dst, Given
  <2>3. CASE eos_pkt_collect(j) \/ eos_pkt_recv(j) \/ recv_faa(j) \/ eos_pkt_send(j) \/ flush_faa(j)
    <3>1. UNCHANGED <<opq, wakeup>>
      BY <2>3 DEF eos_pkt_collect, eos_pkt_recv, recv_faa, eos_pkt_send, flush_faa, thdVars
    <3>2. PICK p \in Pcs \ {"block"} : nfPc[j] # "block" /\ nfPc' = [nfPc EXCEPT ![j] = p]
      BY <2>3 DEF eos_pkt_collect, eos_pkt_recv, recv_faa, eos_pkt_send, flush_faa, NfGoto, Pcs
    <3>3. nfPc'[i] = "block" <=> nfPc[i] = "block"
      BY <1>0, <3>2
    <3> QED BY <1>f, <2>2, <3>1, <3>3
  <2>4. CASE mca_xcpu_thd_dl_reset(j)
    <3>1. UNCHANGED wakeup
      BY <2>4 DEF mca_xcpu_thd_dl_reset, thdVars
    <3>2. CASE nfPc[j] = "reset" /\ nfPc' = [nfPc EXCEPT ![j] = "abort"] /\ UNCHANGED opq
      <4>1. nfPc'[i] = "block" <=> nfPc[i] = "block"
        BY <1>0, <3>2
      <4> QED BY <1>f, <2>2, <3>1, <3>2, <4>1
    <3>3. CASE nfPc[j] = "reset" /\ nfPc' = [nfPc EXCEPT ![j] = "block"] /\ opq' = Append(opq, j)
      <4>1. Ops(i)' = Ops(i) + IF i = j THEN 1 ELSE 0
        <5>1. Cardinality(OpsOf(Append(opq, j), i))
                = Cardinality(OpsOf(opq, i)) + IF i = j THEN 1 ELSE 0
          BY <1>0, OpsAppend
        <5>2. OpsOf(opq', i) = OpsOf(Append(opq, j), i)
          BY <3>3
        <5> QED BY <5>1, <5>2, <1>b
      <4>2. Owed(i)' = Owed(i) + IF i = j THEN 1 ELSE 0
        <5>1. CASE i = j
          BY <1>0, <3>3, <5>1 DEF Owed
        <5>2. CASE i # j
          BY <1>0, <1>b, <3>3, <5>2 DEF Owed
        <5> QED BY <5>1, <5>2
      <4>3. taken'[i - 1] = taken[i - 1] /\ wakeup'[i] = wakeup[i]
        BY <2>2, <3>1
      <4>4. CASE i = j
        <5>1. Ops(i)' = Ops(i) + 1 /\ Owed(i)' = Owed(i) + 1
          BY <4>1, <4>2, <4>4
        <5>2. /\ wakeup'[i] = wakeup[i] /\ taken'[i - 1] = taken[i - 1]
              /\ Cardinality(Requests(i))' = Cardinality(Requests(i)) /\ Given(i)' = Given(i)
          BY <2>w, <4>3
        <5> QED BY <1>m, <5>1, <5>2 DEF Bounded
      <4>5. CASE i # j
        <5>1. Ops(i)' = Ops(i) /\ Owed(i)' = Owed(i)
          BY <4>1, <4>2, <4>5, <1>b
        <5> QED BY <1>0, <1>b, <2>w, <4>3, <5>1 DEF Bounded
      <4> QED BY <4>4, <4>5
    <3> QED BY <2>4, <3>2, <3>3 DEF mca_xcpu_thd_dl_reset, NfGoto
  <2>5. CASE sl_thd_block(j)
    <3>1. /\ nfPc[j] = "block" /\ nfPc' = [nfPc EXCEPT ![j] = "recv"] /\ UNCHANGED opq
          /\ wakeup' = [wakeup EXCEPT ![j] = wakeup[j] - 1]
      BY <2>5 DEF sl_thd_block, NfGoto
    <3>2. Ops(i)' = Ops(i)
      BY <3>1, <1>b
    <3>3. CASE i = j
      <4>1. Owed(i) = 1 /\ Owed(i)' = 0 /\ wakeup'[i] = wakeup[i] - 1
        BY <1>0, <3>1, <3>3 DEF Owed
      <4>2. /\ Ops(i)' = Ops(i) /\ wakeup'[i] = wakeup[i] - 1
            /\ Cardinality(Requests(i))' = Cardinality(Requests(i))
            /\ taken'[i - 1] = taken[i - 1] /\ Owed(i)' = Owed(i) - 1 /\ Given(i)' = Given(i)
        BY <1>b, <2>2, <2>w, <3>2, <4>1
      <4> QED BY <1>m, <4>2 DEF Bounded
    <3>4. CASE i # j
      <4>1. Owed(i)' = Owed(i) /\ wakeup'[i] = wakeup[i]
        BY <1>0, <3>1, <3>4 DEF Owed
      <4> QED BY <1>0, <1>b, <2>2, <2>w, <3>2, <4>1 DEF Bounded
    <3> QED BY <3>3, <3>4
  <2> QED BY <2>1, <2>3, <2>4, <2>5 DEF nf_run, NF_BLOCK
<1>4. CASE sl_xcpu_process
  <2>1. UNCHANGED <<taken, nfPc, opq, mca>> /\ xq' = <<>>
    BY <1>4 DEF sl_xcpu_process, ringVars
  <2>2. wakeup'[i] = wakeup[i] + Cardinality(Requests(i))
    BY <1>4 DEF sl_xcpu_process, sl_thd_wakeup
  <2>3. /\ Requests(i)' = {} /\ Ops(i)' = Ops(i) /\ Given(i)' = Given(i) /\ Owed(i)' = Owed(i)
        /\ taken'[i - 1] = taken[i - 1]
    BY <2>1 DEF Requests, Ops, Waking, Dst, Given, Owed
  <2>4. Cardinality(Requests(i))' = 0
    BY <2>3, FS_EmptySet
  <2> QED BY <1>0, <1>b, <2>2, <2>3, <2>4, SMTT(30) DEF Bounded
<1>5. CASE mca_look \/ mca_xcpu_process \/ mca_flag_out \/ mca_flag_in \/ mca_gate
  <2>1. UNCHANGED <<taken, nfPc, wakeup, xq>>
    BY <1>5 DEF mca_look, mca_xcpu_process, mca_flag_out, mca_flag_in, mca_gate, ringVars, thdVars
  <2>2. mca.pc # "wakeup" /\ mca'.pc # "wakeup"
    <3>1. mca \in McaStates /\ NextConn.pc = "look"
      BY <1>0, ConnType
    <3>2. \/ mca' = NextConn /\ mca.pc \in {"look", "gate"}
          \/ mca' = mca /\ mca.pc = "xcpu"
          \/ \E to \in {"xcpu", "flag", "flag_in", "gate", "copy"} :
               /\ mca' = [mca EXCEPT !.pc = to]
               /\ mca.pc \in {"look", "xcpu", "flag", "flag_in", "gate"}
      BY <1>5 DEF mca_look, mca_xcpu_process, mca_flag_out, mca_flag_in, mca_gate, McaGoto
    <3> QED BY <3>1, <3>2 DEF McaStates
  <2>3. Requests(i)' = Requests(i) /\ (Waking(i)' <=> Waking(i))
    BY <2>1, <2>2 DEF Requests, Waking
  <2>4. Ops(i)' <= Ops(i) /\ Ops(i)' \in Nat
    <3>1. UNCHANGED opq \/ (opq # <<>> /\ opq' = Tail(opq))
      BY <1>5 DEF mca_look, mca_xcpu_process, mca_flag_out, mca_flag_in, mca_gate
    <3>2. opq # <<>> => Tail(opq) \in Seq(NFs)
      BY <1>0
    <3>3. CASE UNCHANGED opq
      BY <3>3, <1>b
    <3>4. CASE opq # <<>> /\ opq' = Tail(opq)
      <4>1. /\ Cardinality(OpsOf(Tail(opq), i)) <= Cardinality(OpsOf(opq, i))
            /\ Cardinality(OpsOf(Tail(opq), i)) \in Nat
        BY <1>0, <3>2, <3>4, OpsTail, OpsFinite
      <4>2. OpsOf(opq', i) = OpsOf(Tail(opq), i)
        BY <3>4
      <4> QED BY <1>b, <4>1, <4>2
    <3> QED BY <3>1, <3>3, <3>4
  <2> QED BY <1>0, <1>b, <2>1, <2>3, <2>4, BoundedFrame
<1>6. CASE mca_transfer
  <2>1. /\ UNCHANGED <<nfPc, wakeup, xq, opq>> /\ taken' = [taken EXCEPT ![Src] = taken[Src] + 1]
    BY <1>6 DEF mca_transfer, thdVars
  <2>2. /\ mca'.pc = "wakeup" /\ Src' = Src /\ Dst' = Dst /\ mca.pc = "copy"
        /\ Src \in Rings /\ Dst \in NFs /\ Dst - 1 = Src
    BY <1>0, <1>6, GotoType, ConnType DEF mca_transfer
  <2>3. /\ Ops(i)' = Ops(i) /\ Requests(i)' = Requests(i) /\ Owed(i)' = Owed(i)
        /\ wakeup'[i] = wakeup[i] /\ Given(i) = 0 /\ Given(i)' = IF i = Dst THEN 1 ELSE 0
    BY <2>1, <2>2 DEF Ops, Requests, Waking, Given, Owed
  <2>4. CASE i = Dst
    <3>1. taken'[i - 1] = taken[i - 1] + 1 /\ Given(i)' = 1
      BY <1>0, <2>1, <2>2, <2>3, <2>4
    <3>2. /\ Ops(i)' = Ops(i) /\ wakeup'[i] = wakeup[i]
          /\ Cardinality(Requests(i))' = Cardinality(Requests(i))
          /\ Owed(i)' = Owed(i) /\ Given(i)' = Given(i) + 1
      BY <1>b, <2>3, <3>1
    <3> QED BY <1>m, <3>1, <3>2 DEF Bounded
  <2>5. CASE i # Dst
    <3>1. taken'[i - 1] = taken[i - 1] /\ Given(i)' = 0
      BY <1>0, <2>1, <2>2, <2>3, <2>5
    <3> QED BY <1>0, <1>b, <2>3, <3>1 DEF Bounded
  <2> QED BY <2>4, <2>5
<1>7. CASE mca_wakeup
  <2>1. /\ UNCHANGED <<taken, nfPc, wakeup, opq>> /\ mca.pc = "wakeup"
        /\ xq' = Append(xq, [nf |-> Dst, dl |-> DstDl])
    BY <1>7 DEF mca_wakeup, sl_xcpu_thd_wakeup_with_dl, ringVars, thdVars
  <2>2. PICK c \in NFs, d \in Deadlines : c = Dst /\ d = DstDl
    <3>1. Src \in Rings /\ Dst \in NFs /\ Dst \in Rings
      BY <1>0, ConnType
    <3>2. DstDl \in Deadlines
      BY <1>0, <3>1 DEF Types, DstDl
    <3> QED BY <3>1, <3>2
  <2>3. Cardinality(Requests(i))' = Cardinality(Requests(i)) + IF i = c THEN 1 ELSE 0
    BY <1>0, <2>1, <2>2, RequestAdded
  <2>4. mca'.pc = "look"
    <3>1. NextConn.pc = "look"
      BY <1>0, ConnType
    <3> QED BY <1>7, <3>1 DEF mca_wakeup, Look
  <2>5. /\ Ops(i)' = Ops(i) /\ Given(i)' = 0 /\ Given(i) = IF i = c THEN 1 ELSE 0
        /\ Owed(i)' = Owed(i) /\ wakeup'[i] = wakeup[i] /\ taken'[i - 1] = taken[i - 1]
    BY <2>1, <2>2, <2>4 DEF Ops, Waking, Given, Owed
  <2>6. CASE i = c
    <3>1. Given(i) = 1 /\ Cardinality(Requests(i))' = Cardinality(Requests(i)) + 1
      BY <2>3, <2>5, <2>6
    <3>2. /\ Ops(i)' = Ops(i) /\ wakeup'[i] = wakeup[i] /\ taken'[i - 1] = taken[i - 1]
          /\ Owed(i)' = Owed(i) /\ Given(i)' = Given(i) - 1
      BY <1>b, <2>5, <3>1
    <3> QED BY <1>m, <3>1, <3>2 DEF Bounded
  <2>7. CASE i # c
    <3>1. Given(i) = 0 /\ Cardinality(Requests(i))' = Cardinality(Requests(i))
      BY <2>3, <2>5, <2>7, <1>b
    <3> QED BY <1>0, <1>b, <2>5, <3>1 DEF Bounded
  <2> QED BY <2>6, <2>7
<1>8. CASE UNCHANGED vars
  BY <1>8, <1>f DEF vars, ringVars, thdVars
<1> QED BY <1>1, <1>2, <1>3, <1>4, <1>5, <1>6, <1>7, <1>8 DEF Next, mca_run

\* The requests in the MCA's ring, and those a function can still make before it blocks, are
\* no more than the packets that were handed to it.
THEOREM ResetsBounded == Spec => []OpsBounded
<1>1. OpsBounded <=> \A i \in NFs : Bounded(i)
  BY DEF OpsBounded, Bounded, Owed, Given
<1>2. Init => OpsBounded
  <2> SUFFICES ASSUME Init, NEW i \in NFs PROVE Bounded(i)
    BY <1>1
  <2>1. Ops(i) = 0 /\ Cardinality(Requests(i)) = 0
    <3>1. {n \in DOMAIN opq : opq[n] = i} = {} /\ Requests(i) = {}
      BY DEF Init, Requests
    <3> QED BY <3>1, FS_EmptySet DEF Ops
  <2>2. wakeup[i] = 0 /\ taken[i - 1] = 0 /\ nfPc[i] # "block" /\ ~Waking(i)
    BY Numbers DEF Init, Waking, Look
  <2> QED BY <2>1, <2>2 DEF Bounded, Owed, Given
<1>3. IInv /\ OpsBounded /\ [Next]_vars => OpsBounded'
  <2> SUFFICES ASSUME IInv, OpsBounded, [Next]_vars, NEW i \in NFs PROVE Bounded(i)'
    BY DEF OpsBounded, Bounded, Owed, Given
  <2> QED BY <1>1, OpsInductive
<1> QED BY <1>2, <1>3, EdfInvariance, PTL DEF Spec

-----------------------------------------------------------------------------
(* Deadlines.                                                              *)

\* The types that the argument about wakeups does not need.
MoreTypes ==
  /\ freed \in [NFs -> Nat] /\ inCnt \in [NFs -> Int] /\ outCnt \in [NFs -> Int]
  /\ txRet \in Nat /\ prio \in [NFs -> Deadlines] /\ empty \in [NFs -> BOOLEAN]

\* Packets arrive in the order of their deadlines.
Sorted == \A k, m \in DOMAIN dls : k <= m => dls[k] <= dls[m]

\* The deadline of the first function is no later than that of a packet it was given.
FirstDl == dl[1] # Never => \E k \in 1..taken[0] : dl[1] <= dls[k]

\* From the gate to the wakeup the source has a deadline: for the ring of the receive
\* thread it is that of the packet that is copied.
SrcHasDl ==
  mca.pc \in {"copy", "wakeup"} =>
    /\ dl[Src] # Never
    /\ Src = 0 /\ mca.pc = "copy" => dl[0] = dls[taken[0] + 1]
    /\ Src = 0 /\ mca.pc = "wakeup" => taken[0] > 0 /\ dl[0] = dls[taken[0]]

\* Nobody is woken, or runs, without a deadline.
AwakeHasDl ==
  /\ \A n \in DOMAIN xq : xq[n].dl # Never
  /\ \A i \in NFs : thd[i] = "RUNNABLE" => prio[i] # Never

\* The inductive invariant, on top of IInv.
DInv == MoreTypes /\ Sorted /\ FirstDl /\ SrcHasDl /\ AwakeHasDl

\* A set of requests that is not empty has a last one.
LEMMA LastOne ==
  ASSUME NEW n \in Nat, NEW S \in SUBSET (1..n), S # {}
  PROVE  Max(S) \in S
<1> DEFINE D == {d \in Nat : n - d \in S}
<1>1. PICK x \in S : TRUE
  OBVIOUS
<1>2. n - x \in D
  <2>1. x \in 1..n
    OBVIOUS
  <2>2. n - x \in Nat /\ n - (n - x) = x
    BY <2>1
  <2> QED BY <2>2
<1>3. PICK d \in D : \A e \in D : ~(<<e, d>> \in OpToRel(<, Nat))
  <2>1. IsWellFoundedOn(OpToRel(<, Nat), Nat)
    BY NatLessThanWellFounded
  <2>2. D \subseteq Nat /\ D # {}
    BY <1>2
  <2> HIDE DEF D
  <2> QED BY <2>1, <2>2, WFMin
<1>4. d \in Nat /\ n - d \in S /\ \A e \in D : ~(e < d)
  BY <1>3 DEF OpToRel
<1>5. \A y \in S : n - d >= y
  <2> SUFFICES ASSUME NEW y \in S PROVE n - d >= y
    OBVIOUS
  <2>1. y \in 1..n
    OBVIOUS
  <2>2. n - y \in Nat /\ n - (n - y) = y
    BY <2>1
  <2>3. n - y \in D
    BY <2>2
  <2>4. ~(n - y < d)
    BY <1>4, <2>3
  <2> QED BY <1>4, <2>1, <2>2, <2>4
<1> HIDE DEF D
<1> QED BY <1>4, <1>5 DEF Max

\* The packets that the first function was given are there, and so is the packet that
\* the MCA is about to copy.
LEMMA DlNumbers ==
  ASSUME IInv
  PROVE  /\ dls \in Seq(1..MaxDl) /\ Len(dls) \in Nat /\ DOMAIN dls = 1..Len(dls)
         /\ taken \in [Rings -> Nat] /\ taken[0] \in Nat /\ taken[0] <= Len(dls)
         /\ dl \in [Rings -> Deadlines] /\ dl[0] \in Int /\ dl[1] \in Int
         /\ 0 \in Rings /\ 1 \in Rings /\ MaxDl \in Nat /\ Never = MaxDl + 1
         /\ \A k \in 1..Len(dls) : dls[k] \in 1..MaxDl
         /\ Src \in Rings /\ Dst \in NFs /\ Dst = Src + 1 /\ Src \in Int
         /\ mca \in McaStates
<1> USE Numbers
<1>1. Types /\ Cursors
  BY DEF IInv
<1>2. Src \in Rings /\ Dst \in NFs /\ Dst - 1 = Src /\ mca \in McaStates
  BY <1>1, ConnType
<1>3. dls \in Seq(1..MaxDl) /\ taken \in [Rings -> Nat] /\ dl \in [Rings -> Deadlines]
  BY <1>1 DEF Types
<1>4. 0 \in Rings /\ 1 \in Rings /\ MaxDl \in Nat /\ Never = MaxDl + 1
  BY EdfAssumption DEF Rings, Never
<1>5. taken[0] <= Len(dls)
  BY <1>1, <1>4 DEF Cursors
<1>6. dl[0] \in Int /\ dl[1] \in Int
  BY <1>3, <1>4 DEF Deadlines
<1>7. Len(dls) \in Nat /\ DOMAIN dls = 1..Len(dls) /\ \A k \in 1..Len(dls) : dls[k] \in 1..MaxDl
  <2>1. PICK S : S = 1..MaxDl
    OBVIOUS
  <2>2. dls \in Seq(S)
    BY <1>3, <2>1
  <2>3. Len(dls) \in Nat /\ DOMAIN dls = 1..Len(dls) /\ \A k \in 1..Len(dls) : dls[k] \in S
    BY <2>2
  <2> QED BY <2>1, <2>3
<1>8. taken[0] \in Nat
  BY <1>3, <1>4
<1>9. Src \in Int /\ Dst \in Int
  BY <1>2
<1>10. Dst = Src + 1
  BY <1>2, <1>9
<1> QED BY <1>2, <1>3, <1>4, <1>5, <1>6, <1>7, <1>8, <1>9, <1>10

\* A step that leaves the packets, the deadlines and the MCA alone.
LEMMA DlFrame ==
  ASSUME IInv, DInv, MoreTypes', AwakeHasDl', UNCHANGED <<dls, dl, mca>>, taken'[0] = taken[0]
  PROVE  DInv'
<1>1. Sorted' /\ FirstDl'
  BY DEF DInv, Sorted, FirstDl
<1>2. SrcHasDl'
  BY DEF DInv, SrcHasDl, Src
<1> QED BY <1>1, <1>2 DEF DInv

\* A step that leaves the threads and the requests to the core alone.
LEMMA AwakeFrame ==
  ASSUME AwakeHasDl, UNCHANGED <<xq, thd, prio>>
  PROVE  AwakeHasDl'
  BY DEF AwakeHasDl

\* A packet arrives with a deadline no earlier than those before it.
LEMMA DlRx == IInv /\ DInv /\ ninf_rx_proc_mbuf => DInv'
<1> SUFFICES ASSUME IInv, DInv, ninf_rx_proc_mbuf PROVE DInv'
  OBVIOUS
<1>0. UNCHANGED <<taken, freed, inCnt, outCnt, txRet, thd, prio, xq, dl, empty, mca>>
  BY DEF ninf_rx_proc_mbuf, ringVars, cntVars, thdVars, infoVars
<1>1. PICK d \in 1..MaxDl : dls' = Append(dls, d) /\ \A k \in DOMAIN dls : dls[k] <= d
  BY DEF ninf_rx_proc_mbuf
<1>2. /\ dls \in Seq(1..MaxDl) /\ Len(dls) \in Nat /\ DOMAIN dls = 1..Len(dls)
      /\ taken[0] \in Nat /\ taken[0] <= Len(dls) /\ MaxDl \in Nat
      /\ \A k \in 1..Len(dls) : dls[k] \in 1..MaxDl
  BY DlNumbers
<1>3. /\ DOMAIN dls' = 1..(Len(dls) + 1) /\ dls'[Len(dls) + 1] = d
      /\ \A k \in 1..Len(dls) : dls'[k] = dls[k]
  BY <1>1, <1>2
<1>4. MoreTypes'
  BY <1>0 DEF DInv, MoreTypes
<1>5. Sorted'
  <2> SUFFICES ASSUME NEW k \in 1..(Len(dls) + 1), NEW m \in 1..(Len(dls) + 1), k <= m
               PROVE  dls'[k] <= dls'[m]
    BY <1>3 DEF Sorted
  <2>1. CASE m \in 1..Len(dls)
    <3>1. k \in 1..Len(dls)
      BY <1>2, <2>1
    <3>2. dls[k] <= dls[m]
      BY <1>2, <2>1, <3>1 DEF DInv, Sorted
    <3> QED BY <1>3, <2>1, <3>1, <3>2
  <2>2. CASE m = Len(dls) + 1 /\ k \in 1..Len(dls)
    BY <1>1, <1>2, <1>3, <2>2
  <2>3. CASE m = Len(dls) + 1 /\ k = Len(dls) + 1
    BY <1>3, <2>3
  <2> QED BY <1>2, <2>1, <2>2, <2>3
<1>6. FirstDl'
  <2> SUFFICES ASSUME dl[1] # Never PROVE \E k \in 1..taken[0] : dl[1] <= dls'[k]
    BY <1>0 DEF FirstDl
  <2>1. PICK k \in 1..taken[0] : dl[1] <= dls[k]
    BY DEF DInv, FirstDl
  <2>2. k \in 1..Len(dls)
    BY <1>2
  <2> QED BY <1>3, <2>1, <2>2
<1>7. SrcHasDl'
  <2>1. Src' = Src
    BY <1>0 DEF Src
  <2> SUFFICES ASSUME mca.pc \in {"copy", "wakeup"}
               PROVE  /\ dl[Src] # Never
                      /\ Src = 0 /\ mca.pc = "copy" => dl[0] = dls'[taken[0] + 1]
                      /\ Src = 0 /\ mca.pc = "wakeup" => taken[0] > 0 /\ dl[0] = dls'[taken[0]]
    BY <1>0, <2>1 DEF SrcHasDl
  <2>2. /\ dl[Src] # Never
        /\ Src = 0 /\ mca.pc = "copy" => dl[0] = dls[taken[0] + 1]
        /\ Src = 0 /\ mca.pc = "wakeup" => taken[0] > 0 /\ dl[0] = dls[taken[0]]
    BY DEF DInv, SrcHasDl
  <2>3. mca.pc = "copy" /\ Src = 0 => taken[0] + 1 \in 1..Len(dls)
    BY <1>2 DEF IInv, Cursors, Copying, Sent
  <2>4. mca.pc = "wakeup" /\ Src = 0 => taken[0] \in 1..Len(dls)
    BY <1>2, <2>2
  <2> QED BY <1>3, <2>2, <2>3, <2>4
<1>8. AwakeHasDl'
  BY <1>0, AwakeFrame DEF DInv
<1> QED BY <1>4, <1>5, <1>6, <1>7, <1>8 DEF DInv

\* The transmit thread.
LEMMA DlTx == IInv /\ DInv /\ ninf_tx_process => DInv'
<1> SUFFICES ASSUME IInv, DInv, ninf_tx_process PROVE DInv'
  OBVIOUS
<1>0. UNCHANGED <<dls, freed, inCnt, thd, prio, xq, dl, empty, mca>>
  BY DEF ninf_tx_process, thdVars, infoVars
<1>1. taken'[0] = taken[0]
  <2>1. L # 0 /\ taken \in [Rings -> Nat] /\ 0 \in Rings
    BY Numbers, DlNumbers
  <2> QED BY <2>1 DEF ninf_tx_process
<1>2. MoreTypes'
  <2>1. outCnt \in [NFs -> Int] /\ txRet \in Nat /\ L \in NFs
    BY Numbers DEF DInv, MoreTypes
  <2>2. outCnt' \in [NFs -> Int] /\ txRet' \in Nat
    BY <2>1 DEF ninf_tx_process
  <2> QED BY <1>0, <2>2 DEF DInv, MoreTypes
<1> QED BY <1>0, <1>1, <1>2, DlFrame, AwakeFrame DEF DInv

\* A function.
LEMMA DlCore == IInv /\ DInv /\ core_run => DInv'
<1> SUFFICES ASSUME IInv, DInv, core_run PROVE DInv'
  OBVIOUS
<1>1. PICK i \in NFs : thd[i] = "RUNNABLE" /\ nf_run(i)
  BY DEF core_run, Runs
<1>0. UNCHANGED <<dls, taken, txRet, prio, xq, dl, empty, mca>>
  BY <1>1 DEF nf_run, eos_pkt_collect, eos_pkt_recv, recv_faa, eos_pkt_send, cntVars,
       flush_faa, NF_BLOCK, mca_xcpu_thd_dl_reset, sl_thd_block, ringVars, infoVars, thdVars
<1>2. MoreTypes'
  <2>1. /\ freed \in [NFs -> Nat] /\ inCnt \in [NFs -> Int] /\ outCnt \in [NFs -> Int]
        /\ taken[i] \in Nat /\ inCnt[i] - 1 \in Int /\ outCnt[i] + 1 \in Int
    <3>1. freed \in [NFs -> Nat] /\ inCnt \in [NFs -> Int] /\ outCnt \in [NFs -> Int]
      BY DEF DInv, MoreTypes
    <3>2. taken \in [Rings -> Nat] /\ i \in Rings
      BY Numbers, DlNumbers
    <3> QED BY <3>1, <3>2
  <2>2. \/ UNCHANGED <<freed, inCnt, outCnt>>
        \/ freed' = [freed EXCEPT ![i] = taken[i]] /\ UNCHANGED <<inCnt, outCnt>>
        \/ inCnt' = [inCnt EXCEPT ![i] = inCnt[i] - 1] /\ UNCHANGED <<freed, outCnt>>
        \/ outCnt' = [outCnt EXCEPT ![i] = outCnt[i] + 1] /\ UNCHANGED <<freed, inCnt>>
    BY <1>1, <2>1 DEF nf_run, eos_pkt_collect, eos_pkt_recv, recv_faa, eos_pkt_send, cntVars,
       flush_faa, NF_BLOCK, mca_xcpu_thd_dl_reset, sl_thd_block, ringVars
  <2>3. freed' \in [NFs -> Nat] /\ inCnt' \in [NFs -> Int] /\ outCnt' \in [NFs -> Int]
    BY <2>1, <2>2
  <2> QED BY <1>0, <2>3 DEF DInv, MoreTypes
<1>3. AwakeHasDl'
  <2>1. thd \in [NFs -> {"BLOCKED", "RUNNABLE"}]
    BY DEF IInv, Types
  <2>2. thd' = thd \/ thd' = [thd EXCEPT ![i] = IF Blocks(wakeup[i]) THEN "BLOCKED" ELSE thd[i]]
    BY <1>1 DEF nf_run, eos_pkt_collect, eos_pkt_recv, recv_faa, eos_pkt_send,
       flush_faa, NF_BLOCK, mca_xcpu_thd_dl_reset, sl_thd_block, thdVars
  <2>3. \A j \in NFs : thd'[j] = "RUNNABLE" => thd[j] = "RUNNABLE"
    BY <2>1, <2>2
  <2> QED BY <1>0, <2>3 DEF DInv, AwakeHasDl
<1> QED BY <1>0, <1>2, <1>3, DlFrame

\* The scheduler of the core: a request brings its deadline with the wakeup.
LEMMA DlXcpu == IInv /\ DInv /\ sl_xcpu_process => DInv'
<1> SUFFICES ASSUME IInv, DInv, sl_xcpu_process PROVE DInv'
  OBVIOUS
<1>0. /\ UNCHANGED <<dls, taken, freed, inCnt, outCnt, txRet, dl, empty, mca>>
      /\ xq' = <<>>
      /\ prio' = [i \in NFs |-> sl_mod_thd_param_set(i)]
      /\ thd' = [i \in NFs |-> sl_thd_wakeup(i).thd]
  BY DEF sl_xcpu_process, ringVars, cntVars, infoVars
<1>1. /\ xq \in Seq([nf : NFs, dl : Deadlines]) /\ prio \in [NFs -> Deadlines]
      /\ Len(xq) \in Nat /\ DOMAIN xq = 1..Len(xq)
  BY DEF IInv, Types, DInv, MoreTypes
<1>2. ASSUME NEW i \in NFs, Requests(i) # {}
      PROVE  xq[Max(Requests(i))].dl \in Deadlines /\ xq[Max(Requests(i))].dl # Never
  <2>1. Requests(i) \in SUBSET (1..Len(xq))
    BY <1>1 DEF Requests
  <2>2. Max(Requests(i)) \in Requests(i)
    BY <1>1, <1>2, <2>1, LastOne
  <2>3. PICK m \in 1..Len(xq) : m = Max(Requests(i))
    BY <2>1, <2>2
  <2>4. xq[m] \in [nf : NFs, dl : Deadlines] /\ xq[m].dl # Never
    BY <1>1, SeqElement DEF DInv, AwakeHasDl
  <2> QED BY <2>3, <2>4
<1>3. MoreTypes'
  <2>1. \A i \in NFs : sl_mod_thd_param_set(i) \in Deadlines
    BY <1>1, <1>2 DEF sl_mod_thd_param_set
  <2>2. prio' \in [NFs -> Deadlines]
    BY <1>0, <2>1
  <2> QED BY <1>0, <2>2 DEF DInv, MoreTypes
<1>4. AwakeHasDl'
  <2>1. DOMAIN xq' = {}
    BY <1>0
  <2>2. ASSUME NEW i \in NFs, thd'[i] = "RUNNABLE" PROVE prio'[i] # Never
    <3>1. prio'[i] = sl_mod_thd_param_set(i) /\ thd'[i] = sl_thd_wakeup(i).thd
      BY <1>0
    <3>2. CASE Requests(i) = {}
      BY <2>2, <3>1, <3>2 DEF sl_mod_thd_param_set, sl_thd_wakeup, DInv, AwakeHasDl
    <3>3. CASE Requests(i) # {}
      BY <1>2, <3>1, <3>3 DEF sl_mod_thd_param_set
    <3> QED BY <3>2, <3>3
  <2> QED BY <2>1, <2>2 DEF AwakeHasDl
<1> QED BY <1>0, <1>3, <1>4, DlFrame

\* The steps of the MCA before the gate: a deadline may be taken away.
LEMMA DlReset ==
  ASSUME IInv, DInv, mca_look \/ mca_xcpu_process \/ mca_flag_out \/ mca_flag_in
  PROVE  DInv'
<1>0. UNCHANGED <<dls, taken, freed, inCnt, outCnt, txRet, thd, prio, xq>>
  BY DEF mca_look, mca_xcpu_process, mca_flag_out, mca_flag_in, ringVars, cntVars, thdVars
<1>1. /\ dl \in [Rings -> Deadlines] /\ 1 \in Rings /\ mca \in McaStates
      /\ empty \in [NFs -> BOOLEAN] /\ opq \in Seq(NFs) /\ Dst \in NFs
  BY DlNumbers DEF DInv, MoreTypes, IInv, Types
<1>2. mca'.pc \notin {"copy", "wakeup"}
  <2>1. NextConn.pc = "look"
    BY DEF NextConn, Look
  <2>2. \A from : \A to : McaGoto(from, to) => mca'.pc = to
    BY <1>1 DEF McaGoto, McaStates
  <2>3. CASE mca_look
    BY <2>1, <2>2, <2>3 DEF mca_look
  <2>4. CASE mca_xcpu_process
    BY <2>2, <2>4 DEF mca_xcpu_process
  <2>5. CASE mca_flag_out
    <3>1. PICK to \in {"flag_in", "gate"} : McaGoto("flag", to)
      BY <2>5 DEF mca_flag_out
    <3> QED BY <2>2, <3>1
  <2>6. CASE mca_flag_in
    BY <2>2, <2>6 DEF mca_flag_in
  <2> QED BY <2>3, <2>4, <2>5, <2>6
<1>3. PICK i \in NFs : /\ dl' = dl \/ dl' = [dl EXCEPT ![i] = Never]
                       /\ \/ empty' = empty
                          \/ empty' = [empty EXCEPT ![i] = TRUE]
                          \/ empty' = [empty EXCEPT ![i] = FALSE]
  <2>1. CASE mca_look \/ mca_flag_out
    BY <1>1, <2>1 DEF mca_look, mca_flag_out, infoVars
  <2>2. CASE mca_flag_in
    BY <1>1, <2>2 DEF mca_flag_in, infoVars
  <2>3. CASE mca_xcpu_process
    <3>1. opq # <<>> => Head(opq) \in NFs
      BY <1>1
    <3> QED BY <1>1, <2>3, <3>1 DEF mca_xcpu_process, Reset, infoVars
  <2> QED BY <2>1, <2>2, <2>3
<1>4. MoreTypes'
  <2>1. empty' \in [NFs -> BOOLEAN]
    BY <1>1, <1>3
  <2> QED BY <1>0, <2>1 DEF DInv, MoreTypes
<1>5. FirstDl'
  <2>1. dl'[1] = dl[1] \/ dl'[1] = Never
    BY <1>1, <1>3
  <2> QED BY <1>0, <2>1 DEF DInv, FirstDl
<1>6. SrcHasDl'
  BY <1>2 DEF SrcHasDl
<1>7. Sorted' /\ AwakeHasDl'
  BY <1>0, AwakeFrame DEF DInv, Sorted
<1> QED BY <1>4, <1>5, <1>6, <1>7 DEF DInv

\* The gate gives the source a deadline: its own, or that of the packet.
LEMMA DlGate == IInv /\ DInv /\ mca_gate => DInv'
<1> SUFFICES ASSUME IInv, DInv, mca_gate PROVE DInv'
  OBVIOUS
<1>0. /\ UNCHANGED <<dls, taken, freed, inCnt, outCnt, txRet, thd, prio, xq, empty>>
      /\ mca.pc = "gate" /\ dl' = [dl EXCEPT ![Src] = SrcDl]
      /\ mca' = NextConn \/ McaGoto("gate", "copy")
  BY DEF mca_gate, ringVars, cntVars, thdVars
<1>1. /\ Len(dls) \in Nat /\ taken \in [Rings -> Nat] /\ taken[0] \in Nat /\ taken[0] <= Len(dls)
      /\ dl \in [Rings -> Deadlines] /\ 0 \in Rings /\ 1 \in Rings
      /\ MaxDl \in Nat /\ Never = MaxDl + 1 /\ Src \in Rings /\ Src \in Int
      /\ \A k \in 1..Len(dls) : dls[k] \in 1..MaxDl
  BY DlNumbers
<1>2. /\ taken[Src] \in Nat /\ taken[Src] + 1 \in 1..Len(dls)
      /\ Src = 1 => taken[1] + 1 \in 1..taken[0]
  <2>1. taken[Src] < Sent(Src)
    BY <1>0 DEF IInv, Cursors, Copying
  <2>2. /\ Sent(Src) <= Len(dls) /\ Sent(Src) \in Nat /\ taken[Src] \in Nat
    BY <1>1, SentLen DEF IInv
  <2>3. Src = 1 => Sent(1) <= taken[0]
    <3>1. /\ recvd[1] = sent[1] + IF InHand(1) THEN 1 ELSE 0
          /\ recvd[1] <= taken[1 - 1] /\ sent[1] \in Nat /\ recvd[1] \in Nat
      BY Numbers DEF IInv, Cursors, Types
    <3> QED BY <1>1, <3>1 DEF Sent
  <2> QED BY <1>1, <2>1, <2>2, <2>3
<1>3. PICK p \in 1..MaxDl : p = dls[taken[Src] + 1]
  BY <1>1, <1>2
<1>4. /\ SrcDl # Never
      /\ Src = 0 => SrcDl = dls[taken[0] + 1]
      /\ SrcDl = dl[Src] \/ SrcDl = dls[taken[Src] + 1]
  BY <1>1, <1>3 DEF SrcDl, Dl
<1>5. dl'[Src] = SrcDl /\ \A i \in Rings : i # Src => dl'[i] = dl[i]
  BY <1>0, <1>1
<1>6. FirstDl'
  <2> SUFFICES ASSUME dl'[1] # Never PROVE \E k \in 1..taken[0] : dl'[1] <= dls[k]
    BY <1>0 DEF FirstDl
  <2>1. CASE dl'[1] = dl[1]
    BY <2>1 DEF DInv, FirstDl
  <2>2. CASE Src = 1 /\ dl'[1] = p
    <3>1. taken[1] + 1 \in 1..taken[0] /\ dl'[1] <= dls[taken[1] + 1]
      BY <1>2, <1>3, <2>2
    <3> QED BY <3>1
  <2> QED BY <1>1, <1>3, <1>4, <1>5, <2>1, <2>2
<1>7. SrcHasDl'
  <2>1. CASE mca' = NextConn
    BY <2>1 DEF SrcHasDl, NextConn, Look
  <2>2. CASE McaGoto("gate", "copy")
    <3>1. mca'.pc = "copy" /\ Src' = Src
      BY <2>2, GotoType DEF IInv
    <3> QED BY <1>0, <1>4, <1>5, <3>1 DEF SrcHasDl
  <2> QED BY <1>0, <2>1, <2>2
<1>8. MoreTypes' /\ Sorted' /\ AwakeHasDl'
  BY <1>0, AwakeFrame DEF DInv, MoreTypes, Sorted
<1> QED BY <1>6, <1>7, <1>8 DEF DInv

\* The copy.
LEMMA DlTransfer == IInv /\ DInv /\ mca_transfer => DInv'
<1> SUFFICES ASSUME IInv, DInv, mca_transfer PROVE DInv'
  OBVIOUS
<1>0. /\ UNCHANGED <<dls, freed, txRet, thd, prio, xq, dl, empty>>
      /\ taken' = [taken EXCEPT ![Src] = @ + 1]
      /\ inCnt' = [inCnt EXCEPT ![Dst] = @ + 1]
      /\ outCnt' = [i \in NFs |-> IF i = Src THEN outCnt[i] - 1 ELSE outCnt[i]]
      /\ McaGoto("copy", "wakeup")
  BY DEF mca_transfer, thdVars, infoVars
<1>1. mca.pc = "copy" /\ mca'.pc = "wakeup" /\ Src' = Src
  BY <1>0, GotoType DEF IInv
<1>2. taken \in [Rings -> Nat] /\ taken[0] \in Nat /\ Src \in Rings /\ 0 \in Rings /\ Dst \in NFs
  BY DlNumbers
<1>3. (Src = 0 => taken'[0] = taken[0] + 1) /\ (Src # 0 => taken'[0] = taken[0])
  BY <1>0, <1>2
<1>4. MoreTypes'
  <2>1. inCnt \in [NFs -> Int] /\ outCnt \in [NFs -> Int]
    BY DEF DInv, MoreTypes
  <2>2. inCnt' \in [NFs -> Int] /\ outCnt' \in [NFs -> Int]
    BY <1>0, <1>2, <2>1
  <2> QED BY <1>0, <2>2 DEF DInv, MoreTypes
<1>5. FirstDl'
  <2>1. PICK t \in Nat : t = taken[0]
    BY <1>2
  <2>2. PICK u \in Nat : u = taken'[0] /\ u >= t
    BY <1>2, <1>3, <2>1
  <2>3. 1..t \subseteq 1..u
    BY <2>2
  <2> QED BY <1>0, <2>1, <2>2, <2>3 DEF DInv, FirstDl
<1>6. SrcHasDl'
  <2>1. dl[Src] # Never /\ (Src = 0 => dl[0] = dls[taken[0] + 1])
    BY <1>1 DEF DInv, SrcHasDl
  <2>2. Src = 0 => taken'[0] > 0 /\ dl[0] = dls[taken'[0]]
    BY <1>2, <1>3, <2>1
  <2> QED BY <1>0, <1>1, <2>1, <2>2 DEF SrcHasDl
<1>7. Sorted' /\ AwakeHasDl'
  BY <1>0, AwakeFrame DEF DInv, Sorted
<1> QED BY <1>4, <1>5, <1>6, <1>7 DEF DInv

\* The wakeup: the deadline of the destination is no later than that of the source.
LEMMA DlWakeup == IInv /\ DInv /\ mca_wakeup => DInv'
<1> SUFFICES ASSUME IInv, DInv, mca_wakeup PROVE DInv'
  OBVIOUS
<1>0. /\ UNCHANGED <<dls, taken, freed, inCnt, outCnt, txRet, thd, prio, empty>>
      /\ mca.pc = "wakeup" /\ dl' = [dl EXCEPT ![Dst] = DstDl]
      /\ xq' = Append(xq, [nf |-> Dst, dl |-> DstDl])
      /\ mca'.pc = "look"
  BY DEF mca_wakeup, ringVars, cntVars, thdVars, sl_xcpu_thd_wakeup_with_dl, Look, NextConn
<1>1. /\ taken[0] \in Nat /\ dl \in [Rings -> Deadlines] /\ 1 \in Rings /\ 0 \in Rings
      /\ MaxDl \in Nat /\ Never = MaxDl + 1 /\ Src \in Rings /\ Dst \in NFs /\ Dst = Src + 1
      /\ Src \in Int /\ Dst \in Rings
  BY DlNumbers, Numbers
<1>2. dl[Src] \in 1..Never /\ dl[Dst] \in 1..Never /\ dl[Src] # Never
  BY <1>0, <1>1 DEF DInv, SrcHasDl, Deadlines
<1>3. DstDl \in Deadlines /\ DstDl # Never
  BY <1>1, <1>2 DEF DstDl, Deadlines
<1>4. FirstDl'
  <2> SUFFICES ASSUME dl'[1] # Never PROVE \E k \in 1..taken[0] : dl'[1] <= dls[k]
    BY <1>0 DEF FirstDl
  <2>1. CASE dl'[1] = dl[1]
    BY <2>1 DEF DInv, FirstDl
  <2>2. CASE Dst = 1 /\ dl'[1] = dl[Src]
    <3>1. taken[0] > 0 /\ dl[0] = dls[taken[0]] /\ Src = 0 /\ dl[0] \in Int
      BY <1>0, <1>1, <1>2, <2>2 DEF DInv, SrcHasDl
    <3>2. taken[0] \in 1..taken[0] /\ dl'[1] <= dls[taken[0]]
      BY <1>1, <2>2, <3>1
    <3> QED BY <3>2
  <2> QED BY <1>0, <1>1, <2>1, <2>2 DEF DstDl
<1>5. SrcHasDl'
  BY <1>0 DEF SrcHasDl
<1>6. AwakeHasDl'
  <2>1. xq \in Seq([nf : NFs, dl : Deadlines])
    BY DEF IInv, Types
  <2>2. PICK e \in [nf : NFs, dl : Deadlines] : e = [nf |-> Dst, dl |-> DstDl] /\ e.dl # Never
    <3>1. [nf |-> Dst, dl |-> DstDl] \in [nf : NFs, dl : Deadlines]
      BY <1>1, <1>3
    <3>2. [nf |-> Dst, dl |-> DstDl].dl # Never
      BY <1>3
    <3> QED BY <3>1, <3>2
  <2>3. /\ DOMAIN xq' = 1..(Len(xq) + 1) /\ Len(xq) \in Nat /\ DOMAIN xq = 1..Len(xq)
        /\ xq'[Len(xq) + 1] = e /\ \A n \in 1..Len(xq) : xq'[n] = xq[n]
    BY <1>0, <2>1, <2>2
  <2>4. ASSUME NEW n \in 1..(Len(xq) + 1) PROVE xq'[n].dl # Never
    <3>1. CASE n = Len(xq) + 1
      BY <2>2, <2>3, <3>1
    <3>2. CASE n \in 1..Len(xq)
      BY <2>3, <3>2 DEF DInv, AwakeHasDl
    <3> QED BY <2>3, <3>1, <3>2
  <2> QED BY <1>0, <2>3, <2>4 DEF DInv, AwakeHasDl
<1>7. MoreTypes' /\ Sorted'
  BY <1>0 DEF DInv, MoreTypes, Sorted
<1> QED BY <1>4, <1>5, <1>6, <1>7 DEF DInv

\* What the MCA and the schedulers assert of deadlines follows.
LEMMA DlAsserts == IInv /\ DInv => DeadlineAsserts
<1> SUFFICES ASSUME IInv, DInv PROVE DeadlineAsserts
  OBVIOUS
<1>1. TypeOK
  BY DEF IInv, Types, DInv, MoreTypes, TypeOK
<1>2. ASSUME mca.pc = "wakeup"
      PROVE  dl[Src] # Never /\ (Src = 0 /\ dl[Dst] > dl[Src] => dl[Dst] = Never)
  <2>1. dl[Src] # Never
    BY <1>2 DEF DInv, SrcHasDl
  <2>2. ASSUME Src = 0, dl[Dst] > dl[Src], dl[Dst] # Never PROVE FALSE
    <3>1. /\ Len(dls) \in Nat /\ DOMAIN dls = 1..Len(dls) /\ taken[0] \in Nat /\ taken[0] <= Len(dls)
          /\ dl[0] \in Int /\ dl[1] \in Int /\ Dst = 1 /\ MaxDl \in Nat
          /\ \A k \in 1..Len(dls) : dls[k] \in 1..MaxDl
      BY <2>2, DlNumbers
    <3>2. taken[0] > 0 /\ dl[0] = dls[taken[0]]
      BY <1>2, <2>2 DEF DInv, SrcHasDl
    <3>3. PICK k \in 1..taken[0] : dl[1] <= dls[k]
      BY <2>2, <3>1 DEF DInv, FirstDl
    <3>4. k \in 1..Len(dls) /\ taken[0] \in 1..Len(dls) /\ k <= taken[0]
      BY <3>1, <3>2
    <3>5. dls[k] <= dls[taken[0]] /\ dls[k] \in Int /\ dls[taken[0]] \in Int
      BY <3>1, <3>4 DEF DInv, Sorted
    <3> QED BY <2>2, <3>1, <3>2, <3>3, <3>5
  <2> QED BY <2>1, <2>2
<1> QED BY <1>1, <1>2 DEF DeadlineAsserts, DInv, AwakeHasDl

\* The deadlines are right in every reachable state.
THEOREM DeadlinesInvariant == Spec => [](IInv /\ DInv)
<1>1. Init => IInv /\ DInv
  <2> SUFFICES ASSUME Init PROVE DInv
    BY Initially
  <2>1. MoreTypes
    BY Numbers DEF Init, MoreTypes
  <2>2. Sorted /\ SrcHasDl /\ AwakeHasDl
    BY DEF Init, Sorted, SrcHasDl, AwakeHasDl, Look
  <2>3. FirstDl
    <3>1. 1 \in Rings
      BY Numbers
    <3> QED BY <3>1 DEF Init, FirstDl
  <2> QED BY <2>1, <2>2, <2>3 DEF DInv
<1>2. IInv /\ DInv /\ [Next]_vars => (IInv /\ DInv)'
  <2> SUFFICES ASSUME IInv, DInv, [Next]_vars PROVE DInv'
    BY EdfInductive
  <2>1. CASE Next
    BY <2>1, DlRx, DlTx, DlCore, DlXcpu, DlReset, DlGate, DlTransfer, DlWakeup DEF Next, mca_run
  <2>2. CASE UNCHANGED vars
    <3>1. UNCHANGED <<dls, taken, freed, inCnt, outCnt, txRet, thd, prio, xq, dl, empty, mca>>
      BY <2>2 DEF vars, ringVars, cntVars, thdVars, infoVars
    <3>2. MoreTypes'
      BY <3>1 DEF DInv, MoreTypes
    <3>3. AwakeHasDl'
      BY <3>1, AwakeFrame DEF DInv
    <3> QED BY <3>1, <3>2, <3>3, DlFrame
  <2> QED BY <2>1, <2>2
<1> QED BY <1>1, <1>2, PTL DEF Spec

\* Whatever the MCA and the functions interleave: a packet is copied from a source with a deadline,
\* a thread is woken and scheduled with one, and the deadline of the first function gets
\* earlier only when it had none.
THEOREM DeadlinesAsserted == Spec => []DeadlineAsserts
<1>1. IInv /\ DInv => DeadlineAsserts
  BY DlAsserts
<1> QED BY <1>1, DeadlinesInvariant, PTL
=============================================================================
