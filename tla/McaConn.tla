------------------------------ MODULE McaConn ------------------------------
(***************************************************************************)
(* The connection lists of the MCA (eos_mca.c): a free list fl and a live   *)
(* list lh, both linked through next.  A thread creates connections: it     *)
(* pops fl and pushes to lh by compare-and-swap.  Whoever has a connection  *)
(* gives it up by clearing its used flag; the MCA, which scans lh for ever, *)
(* unlinks it by a plain store and pushes it to fl.  ninf_tx.c keeps its    *)
(* rings in the same way (__ring_push, __ring_pop, ninf_tx_scan).           *)
(*                                                                          *)
(* Every load, store and swap of a shared word is a step.                   *)
(***************************************************************************)
EXTENDS Integers

CONSTANT NConn      \* MCA_CONN_MAX_NUM; connections are 1 .. NConn, 0 is NULL

ASSUME ConnAssumption == NConn \in Nat \ {0}

Connection == 1 .. NConn
Pointer == 0 .. NConn

VARIABLES
  lh, fl,      \* the heads
  next, used,  \* fields of a connection
  filled,      \* its rings and infos are those of its present use
  held,        \* connections that mca_conn_create returned and nobody gave up
  cpc, conn, t,\* the creator and its locals
  spc, p, c, u,\* the scan, its place (0 for &lh, else &p->next), its connection, and
               \* t of its push
  dropped      \* history: connections that a removal at the head cut off

creator == <<cpc, conn, t>>
scan == <<spc, p, c, u>>
vars == <<lh, fl, next, used, filled, held, creator, scan, dropped>>

Linked == [i \in Connection |-> IF i = NConn THEN 0 ELSE i + 1]

\* mca_init
Init ==
  /\ lh = 0 /\ fl = 1
  /\ next = Linked
  /\ used = [i \in Connection |-> FALSE]
  /\ filled = [i \in Connection |-> FALSE]
  /\ held = {} /\ dropped = {}
  /\ cpc = "idle" /\ conn = 0 /\ t = 0
  /\ spc = "head" /\ p = 0 /\ c = 0 /\ u = 0

\* The connections from h up to s, by the links nx: the least set that has h and the
\* successors of its members.
Between(nx, h, s) ==
  {x \in Connection :
     \A S \in SUBSET Connection : {h} \union {nx[y] : y \in S} \subseteq S \union {0, s} => x \in S}
\* The connections on the list that starts at h, and those of them before s
Walk(h) == Between(next, h, 0)
Before(h, s) == Between(next, h, s)

-----------------------------------------------------------------------------
(***************************************************************************)
(* mca_conn_create: mca_conn_alloc, the fields, mca_push_l(&lh, conn).      *)
(***************************************************************************)
\* The list is not empty (assert(fl)); r = ps_load(&fl).
alloc_load ==
  /\ cpc \in {"idle", "alloc"} /\ fl # 0
  /\ conn' = fl /\ cpc' = "alloc_next"
  /\ UNCHANGED <<lh, fl, next, used, filled, held, t, scan, dropped>>

alloc_next ==
  /\ cpc = "alloc_next"
  /\ t' = next[conn] /\ cpc' = "alloc_cas"
  /\ UNCHANGED <<lh, fl, next, used, filled, held, conn, scan, dropped>>

alloc_cas ==
  /\ cpc = "alloc_cas"
  /\ IF fl = conn
     THEN fl' = t /\ cpc' = "fill" /\ filled' = [filled EXCEPT ![conn] = FALSE]
     ELSE cpc' = "alloc" /\ UNCHANGED <<fl, filled>>
  /\ UNCHANGED <<lh, next, used, held, conn, t, scan, dropped>>

fill ==
  /\ cpc = "fill"
  /\ filled' = [filled EXCEPT ![conn] = TRUE]
  /\ cpc' = "use"
  /\ UNCHANGED <<lh, fl, next, used, held, conn, t, scan, dropped>>

use ==
  /\ cpc = "use"
  /\ used' = [used EXCEPT ![conn] = TRUE]
  /\ cpc' = "push"
  /\ UNCHANGED <<lh, fl, next, filled, held, conn, t, scan, dropped>>

push_load ==
  /\ cpc = "push"
  /\ t' = lh /\ cpc' = "push_next"
  /\ UNCHANGED <<lh, fl, next, used, filled, held, conn, scan, dropped>>

\* Mutant: the new connection does not point to the rest of the list.
MutantPushNext ==
  /\ cpc = "push_next"
  /\ next' = [next EXCEPT ![conn] = 0]
  /\ cpc' = "push_cas"
  /\ UNCHANGED <<lh, fl, used, filled, held, conn, t, scan, dropped>>

push_next ==
  /\ cpc = "push_next"
  /\ next' = [next EXCEPT ![conn] = t]
  /\ cpc' = "push_cas"
  /\ UNCHANGED <<lh, fl, used, filled, held, conn, t, scan, dropped>>

\* Mutant: the head is stored without a comparison.
MutantPushCas ==
  /\ cpc = "push_cas"
  /\ lh' = conn /\ held' = held \union {conn} /\ cpc' = "idle"
  /\ UNCHANGED <<fl, next, used, filled, conn, t, scan, dropped>>

push_cas ==
  /\ cpc = "push_cas"
  /\ IF lh = t THEN lh' = conn /\ held' = held \union {conn} /\ cpc' = "idle"
     ELSE cpc' = "push" /\ UNCHANGED <<lh, held>>
  /\ UNCHANGED <<fl, next, used, filled, conn, t, scan, dropped>>

mca_conn_create == alloc_load \/ alloc_next \/ alloc_cas \/ fill \/ use \/ push_load \/ push_next \/ push_cas

mca_conn_free(x) ==
  /\ x \in held
  /\ used' = [used EXCEPT ![x] = FALSE]
  /\ held' = held \ {x}
  /\ UNCHANGED <<lh, fl, next, filled, creator, scan, dropped>>

-----------------------------------------------------------------------------
(***************************************************************************)
(* mca_scan, and mca_push_l(&fl, c) for a connection that was given up.     *)
(***************************************************************************)
At(q) == IF q = 0 THEN lh ELSE next[q]

scan_head ==
  /\ spc = "head"
  /\ p' = 0 /\ c' = lh
  /\ spc' = IF lh = 0 THEN "head" ELSE "test"
  /\ UNCHANGED <<lh, fl, next, used, filled, held, creator, u, dropped>>

scan_test ==
  /\ spc = "test"
  /\ IF used[c] THEN p' = c /\ spc' = "next" ELSE spc' = "unlink" /\ UNCHANGED p
  /\ UNCHANGED <<lh, fl, next, used, filled, held, creator, c, u, dropped>>

\* *p = c->next
scan_unlink ==
  /\ spc = "unlink"
  /\ IF p = 0 THEN /\ lh' = next[c] /\ UNCHANGED next
                   /\ dropped' = dropped \union Before(lh, c)
     ELSE next' = [next EXCEPT ![p] = next[c]] /\ UNCHANGED <<lh, dropped>>
  /\ spc' = "push"
  /\ UNCHANGED <<fl, used, filled, held, creator, p, c, u>>

collect_load ==
  /\ spc = "push"
  /\ u' = fl /\ next' = [next EXCEPT ![c] = fl] /\ spc' = "push_cas"
  /\ UNCHANGED <<lh, fl, used, filled, held, creator, p, c, dropped>>

\* Mutant: a swap that fails is not tried again.
MutantCollectCas ==
  /\ spc = "push_cas"
  /\ fl' = IF fl = u THEN c ELSE fl
  /\ spc' = "next"
  /\ UNCHANGED <<lh, next, used, filled, held, creator, p, c, u, dropped>>

collect_cas ==
  /\ spc = "push_cas"
  /\ IF fl = u THEN fl' = c /\ spc' = "next" ELSE spc' = "push" /\ UNCHANGED fl
  /\ UNCHANGED <<lh, next, used, filled, held, creator, p, c, u, dropped>>

\* c = *p
scan_next ==
  /\ spc = "next"
  /\ c' = At(p)
  /\ spc' = IF At(p) = 0 THEN "head" ELSE "test"
  /\ UNCHANGED <<lh, fl, next, used, filled, held, creator, p, u, dropped>>

mca_scan == scan_head \/ scan_test \/ scan_unlink \/ collect_load \/ collect_cas \/ scan_next

Next == mca_conn_create \/ mca_scan \/ \E x \in Connection : mca_conn_free(x)

\* The MCA has a core to itself, and so has the thread that creates connections.
Spec == Init /\ [][Next]_vars /\ WF_vars(mca_scan) /\ WF_vars(cpc # "idle" /\ mca_conn_create)
-----------------------------------------------------------------------------
\* Types of all variables.
TypeOK ==
  /\ {lh, fl, conn, t, p, c, u} \subseteq Pointer
  /\ next \in [Connection -> Pointer]
  /\ used \in [Connection -> BOOLEAN] /\ filled \in [Connection -> BOOLEAN]
  /\ held \subseteq Connection /\ dropped \subseteq Connection
  /\ cpc \in {"idle", "alloc", "alloc_next", "alloc_cas", "fill", "use", "push", "push_next", "push_cas"}
  /\ spc \in {"head", "test", "unlink", "push", "push_cas", "next"}

Creating == IF cpc \in {"fill", "use", "push", "push_next", "push_cas"} THEN {conn} ELSE {}
Collecting == IF spc \in {"push", "push_cas"} THEN {c} ELSE {}

\* A connection is in one place: on the free list, on the live list, in the hands
\* of the creator or of the scan, or cut off.  A pop whose swap succeeds has read
\* the link of a connection that was on the free list all the time, because only
\* one thread pops.
OnePlace ==
  /\ Walk(fl) \intersect Walk(lh) = {}
  /\ Creating \union Collecting \subseteq Connection \ (Walk(fl) \union Walk(lh))
  /\ Creating \intersect Collecting = {}
  /\ Connection = Walk(fl) \union Walk(lh) \union Creating \union Collecting \union dropped

\* A connection that somebody holds is scanned, unless the removal of another one
\* at the head cut it off: mca_scan stores to lh without a comparison.
Kept == held \subseteq Walk(lh) \union dropped

\* What the scan processes was set up for its present use.
Complete == spc = "next" /\ p = c /\ c # 0 => filled[c]

\* The lists and the scan see each connection once and only when it is set up.
ListsSound == TypeOK /\ OnePlace /\ Complete

\* Once no more connections are created, those that are given up get back to the
\* free list.  (While they are, the scan may stay at the head for ever, removing
\* what is created and given up at once.)
Collected ==
  <>[](cpc = "idle") =>
    \A x \in Connection : x \in Walk(lh) /\ ~used[x] ~> x \in Walk(fl) \union dropped
=============================================================================
