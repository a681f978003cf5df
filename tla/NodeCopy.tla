------------------------------- MODULE NodeCopy ------------------------------
(***************************************************************************)
(* The nodes of a ring, word by word.  The producer publishes a node by a   *)
(* copy of the whole struct (eos_pkt_send_flush; eos_pkt_collect and        *)
(* mca_process do the same on an input ring); the consumer polls the state, *)
(* copies the struct and hands the node back by a store to the state alone. *)
(* The words of a copy are stored, and loaded, in any order: the C          *)
(* library's memcpy is a rep movsl, whose stores x86 does not order for     *)
(* other cores, and an assignment of structs is up to the compiler.  What   *)
(* comes after a copy is ordered after all of it.                           *)
(*                                                                          *)
(* In the 32 bit build the state has the offsets 118 to 121 of 128 bytes:   *)
(* the byte of it that is ever other than 0 shares a word with the end of   *)
(* the last packet's metadata.  The padding after it is left out.           *)
(***************************************************************************)
EXTENDS Integers

CONSTANTS
  N,       \* EOS_RING_SIZE
  W,       \* words of a node up to the one with the state
  MaxPub   \* bound: batches that the producer has

ASSUME NodeAssumption == N \in Nat \ {0} /\ W \in Nat \ {0} /\ MaxPub \in Nat

VARIABLES
  word,    \* word[n][i]: word i of node n, named by the batch it was written for
  state,   \* state[n]: the state of node n, part of its word StateWord
  prod,    \* the producer: what it does and the words it has left to copy
  cons,    \* the consumer
  tail,    \* tail: batches the producer has published
  head,    \* head: nodes it has collected
  taken,   \* mca_head: nodes the consumer has handed back
  local    \* scache: the words that each side has copied

copyVars == <<word, state, prod, cons, tail, head, taken, local>>

Nodes == 0 .. N - 1
Words == 1 .. W

\* GET_RING_NODE
Node(k) == k % N

\* struct eos_ring_node: the word with the state
StateWord == W

AtStep(l) == <<l, {}>>
Copying(l) == <<l, Words>>
\* rep movsl: one word fewer is left, and l follows when all are copied.
Moved(pc, i, l) == IF pc[2] = {i} THEN AtStep(l) ELSE <<pc[1], pc[2] \ {i}>>

\* eos_rings_init
CopyInit ==
  /\ word = [n \in Nodes |-> [i \in Words |-> 0]] /\ state = [n \in Nodes |-> "EMPTY"]
  /\ prod = AtStep("look") /\ cons = AtStep("look")
  /\ tail = 0 /\ head = 0 /\ taken = 0
  /\ local = [s \in {"prod", "cons"} |-> [i \in Words |-> 0]]

-----------------------------------------------------------------------------
(* The producer.                                                            *)

\* eos_pkt_send_flush: the node is free.
flush ==
  /\ prod = AtStep("look") /\ state[Node(tail)] = "EMPTY" /\ tail < MaxPub
  /\ prod' = Copying("write")
  /\ UNCHANGED <<word, state, cons, tail, head, taken, local>>

\* A word of memcpy(rn, &cached)
write ==
  /\ prod[1] = "write"
  /\ \E i \in prod[2] :
       /\ prod' = Moved(prod, i, "look")
       /\ word' = [word EXCEPT ![Node(tail)][i] = tail + 1]
       /\ state' = IF i = StateWord THEN [state EXCEPT ![Node(tail)] = "READY"] ELSE state
       /\ tail' = IF prod[2] = {i} THEN tail + 1 ELSE tail
  /\ UNCHANGED <<cons, head, taken, local>>

\* eos_pkt_collect: the consumer has handed the node back.
collect ==
  /\ prod = AtStep("look") /\ state[Node(head)] = "DONE"
  /\ prod' = Copying("read")
  /\ UNCHANGED <<word, state, cons, tail, head, taken, local>>

\* A word of memcpy(&scache, sn)
collect_copy ==
  /\ prod[1] = "read"
  /\ \E i \in prod[2] :
       /\ prod' = Moved(prod, i, "empty")
       /\ local' = [local EXCEPT !["prod"][i] = word[Node(head)][i]]
  /\ UNCHANGED <<word, state, cons, tail, head, taken>>

\* sn->state = PKT_EMPTY
collect_done ==
  /\ prod = AtStep("empty") /\ prod' = AtStep("look")
  /\ state' = [state EXCEPT ![Node(head)] = "EMPTY"] /\ head' = head + 1
  /\ UNCHANGED <<word, cons, tail, taken, local>>

-----------------------------------------------------------------------------
(* The consumer.                                                            *)

\* Mutant: the node is handed back before it is copied.
MutantLook ==
  /\ cons = AtStep("look") /\ state[Node(taken)] = "READY" /\ cons' = Copying("read")
  /\ state' = [state EXCEPT ![Node(taken)] = "DONE"]
  /\ UNCHANGED <<word, prod, tail, head, taken, local>>

\* mca_process
look ==
  /\ cons = AtStep("look") /\ state[Node(taken)] = "READY" /\ cons' = Copying("read")
  /\ UNCHANGED <<word, state, prod, tail, head, taken, local>>

\* A word of scache = *sn
copy ==
  /\ cons[1] = "read"
  /\ \E i \in cons[2] :
       /\ cons' = Moved(cons, i, "done")
       /\ local' = [local EXCEPT !["cons"][i] = word[Node(taken)][i]]
  /\ UNCHANGED <<word, state, prod, tail, head, taken>>

\* mca_transfer, and sn->state = PKT_SENT_DONE
done ==
  /\ cons = AtStep("done") /\ cons' = AtStep("look")
  /\ state' = [state EXCEPT ![Node(taken)] = "DONE"] /\ taken' = taken + 1
  /\ UNCHANGED <<word, prod, tail, head, local>>

Producer == flush \/ write \/ collect \/ collect_copy \/ collect_done
Consumer == look \/ copy \/ done

CopyNext == Producer \/ Consumer

CopySpec == CopyInit /\ [][CopyNext]_copyVars

-----------------------------------------------------------------------------
\* The batch that was in the node of batch k a ring before, 0 for none
LapBefore(k) == IF k > N THEN k - N ELSE 0

\* What a side has copied when it is done with the words: the producer gets back the batch it
\* published, whole.  The consumer gets no word of a later batch, although the producer may
\* still be at the node when the state says READY: a word that it misses is that of the batch
\* a ring before.
OneLap ==
  /\ prod = AtStep("empty") => \A i \in Words : local["prod"][i] = head + 1
  /\ cons = AtStep("done") =>
       /\ local["cons"][StateWord] = taken + 1
       /\ \A i \in Words : local["cons"][i] \in {taken + 1, LapBefore(taken + 1)}

\* The consumer copies one batch, whole, which is what EosChain takes a node for.  Holds if
\* the word with the state is the last that the producer's copy stores, and not in any order
\* (README 3.3).
Whole == cons = AtStep("done") => \A i \in Words : local["cons"][i] = taken + 1
=============================================================================
