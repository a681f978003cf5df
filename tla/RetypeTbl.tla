----------------------------- MODULE RetypeTbl -----------------------------
(***************************************************************************)
(* The retype table of the Composite kernel (kernel/retype_tbl.c), which    *)
(* says what a set of physical frames is used for, with the operations of   *)
(* the page table that reference a frame (kernel/include/pgtbl.h) and the   *)
(* flush of the translation caches that a frame waits for before it may     *)
(* become untyped again (kernel/capinv.c, kernel/pgtbl.c).                  *)
(*                                                                          *)
(* One memory set is modelled: sets share no state.  Every core runs one    *)
(* kernel operation at a time, without preemption, and every read and every *)
(* compare-and-swap on shared state is a step of its own.                   *)
(***************************************************************************)
EXTENDS Integers, FiniteSets

CONSTANTS
  NCpu,       \* NUM_CPU; cores are 0 .. NCpu - 1
  Pte,        \* the page-table entries that may map a frame of the set
  RefBits,    \* RETYPE_ENT_REFCNT_SZ, the width of the signed ref_cnt field
  MaxRef,     \* bound: no operation starts on a core whose count is further from 0
  MaxLost     \* bound on the releases that fail

ASSUME RetypeAssumption ==
  /\ NCpu \in Nat \ {0} /\ IsFiniteSet(Pte) /\ Pte # {}
  /\ RefBits \in Nat \ {0} /\ MaxRef \in Nat /\ MaxLost \in Nat

Cpu == 0 .. NCpu - 1
\* NUM_CPU_COS: all but the last, which the Linux platform keeps for itself.  On the
\* platform that EOS runs on, the last core runs programs like the others.
CosCpu == IF NCpu > 1 THEN 0 .. NCpu - 2 ELSE Cpu

VARIABLES
  glb,        \* glb_retype_tbl[idx].type
  ent,        \* retype_tbl[cpu].mem_set[idx].refcnt_atom, a word per core
  flushed,    \* flushed[c]: the cores whose last_mandatory_flush is not
              \* older than last_unmap of core c
  pte,        \* the entries that map a frame of the set
  tlb,        \* the cores whose translation cache may still hold a mapping
  pc, loc,    \* where each core is in its operation, and its locals
  lost        \* history: references whose release failed

vars == <<glb, ent, flushed, pte, tlb, pc, loc, lost>>

Types == {"UNTYPED", "USER", "KERN", "RETYPING"}
Typed == {"USER", "KERN"}

\* ref_cnt is a signed bit field: it wraps.  RETYPE_REFCNT_MAX is computed as
\* if the field were unsigned.
Half == 2 ^ (RefBits - 1)
Wrap(n) == ((n + Half) % (2 * Half)) - Half
REFCNT_MAX == 2 * Half - 1

NoLoc == [old |-> [type |-> "UNTYPED", ref |-> 0], type |-> "UNTYPED", k |-> 0,
          sum |-> 0, seen |-> {}, p |-> CHOOSE p \in Pte : TRUE, freed |-> FALSE]

\* A core leaves the kernel.
Return(c) == /\ pc'  = [pc EXCEPT ![c] = "idle"]
             /\ loc' = [loc EXCEPT ![c] = NoLoc]
Goto(c, l) == pc' = [pc EXCEPT ![c] = l]

\* retype_tbl_init
Init ==
  /\ glb = "UNTYPED"
  /\ ent = [c \in Cpu |-> [type |-> "UNTYPED", ref |-> 0]]
  /\ flushed = [c \in Cpu |-> Cpu]       \* last_unmap is 0
  /\ pte = {} /\ tlb = {}
  /\ pc = [c \in Cpu |-> "idle"]
  /\ loc = [c \in Cpu |-> NoLoc]
  /\ lost = 0

-----------------------------------------------------------------------------
(***************************************************************************)
(* mod_ref_cnt: reads the word of the own core, tests it, and swaps in the  *)
(* changed count.  A release notes the time first.                          *)
(***************************************************************************)
Refusable(c) == ent[c].type \notin Typed \/ ent[c].ref = REFCNT_MAX

\* pgtbl_mapping_add: the entry is free, and its address quiescent.
map_look(c) ==
  /\ pc[c] = "idle" /\ ent[c].ref < MaxRef /\ lost < MaxLost
  /\ \E p \in Pte \ pte : loc' = [loc EXCEPT ![c].p = p]
  /\ Goto(c, "ref")
  /\ UNCHANGED <<glb, ent, flushed, pte, tlb, lost>>

ref_read(c) ==
  /\ pc[c] = "ref"
  /\ IF Refusable(c) THEN Return(c)
     ELSE loc' = [loc EXCEPT ![c].old = ent[c]] /\ Goto(c, "ref_cas")
  /\ UNCHANGED <<glb, ent, flushed, pte, tlb, lost>>

\* Mutant: the count is incremented with a plain store.
MutantRefCas(c) ==
  /\ pc[c] = "ref_cas"
  /\ ent' = [ent EXCEPT ![c] = [loc[c].old EXCEPT !.ref = Wrap(@ + 1)]]
  /\ Goto(c, "leaf")
  /\ UNCHANGED <<glb, flushed, pte, tlb, loc, lost>>

ref_cas(c) ==
  /\ pc[c] = "ref_cas"
  /\ IF ent[c] = loc[c].old
     THEN /\ ent' = [ent EXCEPT ![c].ref = Wrap(@ + 1)]
          /\ Goto(c, "leaf") /\ UNCHANGED loc
     ELSE Return(c) /\ UNCHANGED ent
  /\ UNCHANGED <<glb, flushed, pte, tlb, lost>>

\* __pgtbl_update_leaf: another core may have filled the entry.  (One that was
\* filled and emptied again holds another liveness id the first time, and the
\* swap then fails too; that case is the one of a filled entry.)
map_leaf(c) ==
  /\ pc[c] = "leaf"
  /\ IF loc[c].p \in pte THEN Goto(c, "deref") /\ UNCHANGED <<pte, loc>>
     ELSE pte' = pte \union {loc[c].p} /\ Return(c)
  /\ UNCHANGED <<glb, ent, flushed, tlb, lost>>

\* pgtbl_mapping_del: the entry goes first, then the reference.
map_del(c) ==
  /\ pc[c] = "idle" /\ ent[c].ref > -MaxRef /\ lost < MaxLost
  /\ \E p \in pte : pte' = pte \ {p}
  /\ Goto(c, "deref")
  /\ UNCHANGED <<glb, ent, flushed, tlb, loc, lost>>

\* The callers of retypetbl_deref have already removed the mapping; whatever
\* they return, nobody releases this reference again.
deref_read(c) ==
  /\ pc[c] = "deref"
  /\ IF Refusable(c)
     THEN Return(c) /\ lost' = lost + 1
     ELSE /\ loc' = [loc EXCEPT ![c].old = ent[c]]
          /\ Goto(c, "stamp") /\ UNCHANGED lost
  /\ UNCHANGED <<glb, ent, flushed, pte, tlb>>

\* A stamp in the past of no flush: neither of a finished one nor of one that
\* has read the time already.
Stamp(c) == /\ flushed' = [flushed EXCEPT ![c] = {}]
            /\ loc' = [i \in Cpu |-> IF pc[i] \in {"flush", "commit_flush"}
                                     THEN [loc[i] EXCEPT !.seen = @ \ {c}] ELSE loc[i]]

deref_stamp(c) ==
  /\ pc[c] = "stamp"
  /\ Stamp(c) /\ Goto(c, "deref_cas")
  /\ UNCHANGED <<glb, ent, pte, tlb, lost>>

deref_cas(c) ==
  /\ pc[c] = "deref_cas"
  /\ IF ent[c] = loc[c].old
     THEN ent' = [ent EXCEPT ![c].ref = Wrap(@ - 1)] /\ UNCHANGED lost
     ELSE lost' = lost + 1 /\ UNCHANGED ent
  /\ Return(c)
  /\ UNCHANGED <<glb, flushed, pte, tlb>>

-----------------------------------------------------------------------------
(***************************************************************************)
(* mod_mem_type: retypetbl_retype2user and retypetbl_retype2kern.           *)
(***************************************************************************)
retype_look(c) ==
  /\ pc[c] = "idle" /\ glb = "UNTYPED"
  /\ \E t \in Typed : loc' = [loc EXCEPT ![c].type = t]
  /\ Goto(c, "type_lock")
  /\ UNCHANGED <<glb, ent, flushed, pte, tlb, lost>>

type_lock(c) ==
  /\ pc[c] = "type_lock"
  /\ IF glb = "UNTYPED" THEN glb' = "RETYPING" /\ Goto(c, "type_cpu") /\ UNCHANGED loc
     ELSE Return(c) /\ UNCHANGED glb
  /\ UNCHANGED <<ent, flushed, pte, tlb, lost>>

type_cpu(c) ==
  /\ pc[c] = "type_cpu" /\ loc[c].k < NCpu
  /\ ent' = [ent EXCEPT ![loc[c].k].type = loc[c].type]
  /\ loc' = [loc EXCEPT ![c].k = @ + 1]
  /\ UNCHANGED <<glb, flushed, pte, tlb, pc, lost>>

type_commit(c) ==
  /\ pc[c] = "type_cpu" /\ loc[c].k = NCpu
  /\ glb' = loc[c].type
  /\ Return(c)
  /\ UNCHANGED <<ent, flushed, pte, tlb, lost>>

-----------------------------------------------------------------------------
(***************************************************************************)
(* retypetbl_retype2frame: locks the global word, then the word of each     *)
(* core, sums their counts, and either frees the set or restores all.       *)
(***************************************************************************)
frame_look(c) ==
  /\ pc[c] = "idle" /\ glb \in Typed
  /\ loc' = [loc EXCEPT ![c].type = glb]
  /\ Goto(c, "frame_lock")
  /\ UNCHANGED <<glb, ent, flushed, pte, tlb, lost>>

\* A lost race returns the result of the swap, which is 0.
frame_lock(c) ==
  /\ pc[c] = "frame_lock"
  /\ IF glb = loc[c].type THEN glb' = "RETYPING" /\ Goto(c, "frame_read")
     ELSE Goto(c, "returns_0") /\ UNCHANGED glb
  /\ UNCHANGED <<ent, flushed, pte, tlb, loc, lost>>

frame_read(c) ==
  /\ pc[c] = "frame_read" /\ loc[c].k < NCpu
  /\ loc' = [loc EXCEPT ![c].old = ent[loc[c].k]]
  /\ Goto(c, "frame_cas")
  /\ UNCHANGED <<glb, ent, flushed, pte, tlb, lost>>

frame_cas(c) ==
  /\ pc[c] = "frame_cas"
  /\ LET k == loc[c].k
     IN  IF ent[k] = loc[c].old
         THEN /\ ent' = [ent EXCEPT ![k].type = "RETYPING"]
              /\ loc' = [loc EXCEPT ![c].k = k + 1, ![c].sum = @ + ent[k].ref]
              /\ Goto(c, "frame_read")
         ELSE Goto(c, "restore") /\ UNCHANGED <<ent, loc>>
  /\ UNCHANGED <<glb, flushed, pte, tlb, lost>>

\* tlb_quiescence_check of the latest stamp.  The code gathers the stamps core by
\* core; one that changes after it was read belongs to a release that fails, and
\* then the sum is not zero.
\* On this platform there is no periodic flush.
tlb_quiescence_check == \A k \in Cpu : CosCpu \subseteq flushed[k]

frame_sum(c) ==
  /\ pc[c] = "frame_read" /\ loc[c].k = NCpu
  /\ IF loc[c].sum = 0 /\ tlb_quiescence_check
     THEN Goto(c, "frame_clear") /\ loc' = [loc EXCEPT ![c].k = 0]
     ELSE Goto(c, "restore") /\ UNCHANGED loc
  /\ UNCHANGED <<glb, ent, flushed, pte, tlb, lost>>

frame_clear(c) ==
  /\ pc[c] = "frame_clear" /\ loc[c].k < NCpu
  /\ ent' = [ent EXCEPT ![loc[c].k] = [type |-> "UNTYPED", ref |-> 0]]
  /\ loc' = [loc EXCEPT ![c].k = @ + 1]
  /\ UNCHANGED <<glb, flushed, pte, tlb, pc, lost>>

frame_commit(c) ==
  /\ pc[c] = "frame_clear" /\ loc[c].k = NCpu
  /\ glb' = "UNTYPED"
  /\ loc' = [loc EXCEPT ![c].freed = TRUE]
  /\ Goto(c, "returns_0")
  /\ UNCHANGED <<ent, flushed, pte, tlb, lost>>

frame_restore(c) ==
  /\ pc[c] = "restore" /\ loc[c].k > 0
  /\ ent' = [ent EXCEPT ![loc[c].k - 1].type = loc[c].type]
  /\ loc' = [loc EXCEPT ![c].k = @ - 1]
  /\ UNCHANGED <<glb, flushed, pte, tlb, pc, lost>>

\* Mutants: the word of core 0 is not restored; a failed attempt leaves the lock.
MutantRestoreLast(c) ==
  /\ pc[c] = "restore" /\ loc[c].k <= 1
  /\ glb' = loc[c].type
  /\ Return(c)
  /\ UNCHANGED <<ent, flushed, pte, tlb, lost>>

MutantRestoreNot(c) ==
  /\ pc[c] = "restore" /\ loc[c].k = 0
  /\ Return(c)
  /\ UNCHANGED <<glb, ent, flushed, pte, tlb, lost>>

frame_restore_glb(c) ==
  /\ pc[c] = "restore" /\ loc[c].k = 0
  /\ glb' = loc[c].type
  /\ Return(c)
  /\ UNCHANGED <<ent, flushed, pte, tlb, lost>>

frame_return(c) ==
  /\ pc[c] = "returns_0"
  /\ Return(c)
  /\ UNCHANGED <<glb, ent, flushed, pte, tlb, lost>>

-----------------------------------------------------------------------------
(***************************************************************************)
(* tlb_mandatory_flush: the time first, then the flush, then the note.      *)
(***************************************************************************)
flush_tsc(c) ==
  /\ pc[c] = "idle" /\ \E k \in Cpu : c \notin flushed[k]
  /\ loc' = [loc EXCEPT ![c].seen = Cpu]
  /\ Goto(c, "flush")
  /\ UNCHANGED <<glb, ent, flushed, pte, tlb, lost>>

flush_tlb(c) ==
  /\ pc[c] = "flush"
  /\ tlb' = tlb \ {c}
  /\ Goto(c, "commit_flush")
  /\ UNCHANGED <<glb, ent, flushed, pte, loc, lost>>

\* Mutant: the time is read after the flush.
MutantFlushCommit(c) ==
  /\ pc[c] = "commit_flush"
  /\ flushed' = [k \in Cpu |-> flushed[k] \union {c}]
  /\ Return(c)
  /\ UNCHANGED <<glb, ent, pte, tlb, lost>>

flush_commit(c) ==
  /\ pc[c] = "commit_flush"
  /\ flushed' = [k \in Cpu |-> IF k \in loc[c].seen THEN flushed[k] \union {c} ELSE flushed[k]]
  /\ Return(c)
  /\ UNCHANGED <<glb, ent, pte, tlb, lost>>

\* The processor of core c walks the page table, in the kernel too: it may do so
\* ahead of the program.
tlb_fill(c) ==
  /\ pte # {} /\ c \notin tlb
  /\ tlb' = tlb \union {c}
  /\ UNCHANGED <<glb, ent, flushed, pte, pc, loc, lost>>

mapping(c) == map_look(c) \/ ref_read(c) \/ ref_cas(c) \/ map_leaf(c) \/ map_del(c)
              \/ deref_read(c) \/ deref_stamp(c) \/ deref_cas(c)
retype2mem(c) == retype_look(c) \/ type_lock(c) \/ type_cpu(c) \/ type_commit(c)
retype2frame(c) == frame_look(c) \/ frame_lock(c) \/ frame_read(c) \/ frame_cas(c)
                   \/ frame_sum(c) \/ frame_clear(c) \/ frame_commit(c)
                   \/ frame_restore(c) \/ frame_restore_glb(c) \/ frame_return(c)
tlb_flush(c) == flush_tsc(c) \/ flush_tlb(c) \/ flush_commit(c)

Kernel(c) == mapping(c) \/ retype2mem(c) \/ retype2frame(c) \/ tlb_flush(c)
Next == \E c \in Cpu : Kernel(c) \/ tlb_fill(c)

\* A core that has entered the kernel finishes its operation.
Spec == Init /\ [][Next]_vars /\ \A c \in Cpu : WF_vars(pc[c] # "idle" /\ Kernel(c))
-----------------------------------------------------------------------------
\* Types of all variables.
TypeOK ==
  /\ glb \in Types
  /\ ent \in [Cpu -> [type : Types, ref : -Half .. Half - 1]]
  /\ flushed \in [Cpu -> SUBSET Cpu]
  /\ pte \subseteq Pte /\ tlb \subseteq Cpu
  /\ \A c \in Cpu : loc[c].k \in 0 .. NCpu /\ loc[c].seen \subseteq Cpu
  /\ lost \in Nat

\* Cores that hold a reference without an entry: between the reference and the
\* entry of pgtbl_mapping_add, or between the entry and the release of
\* pgtbl_mapping_del.
Holding == {c \in Cpu : pc[c] \in {"leaf", "deref", "stamp", "deref_cas"}}

\* The cores between the lock of the global word and its release.
Retyping == {c \in Cpu : pc[c] \in {"type_cpu", "frame_read", "frame_cas", "frame_clear", "restore"}}
Clearing == {c \in Cpu : pc[c] = "frame_clear"}

\* The sum of f over the cores below n
Sum(f, n) == LET s[m \in 0 .. NCpu] == IF m = 0 THEN 0 ELSE s[m - 1] + f[m - 1] IN s[n]
Counts == [c \in Cpu |-> ent[c].ref]

\* The counts of single cores may be negative and are meaningless (a mapping is
\* added on one core and removed on another); their sum over all cores is the
\* number of mappings and of operations under way, plus the releases that failed.
RefAccount ==
  Clearing = {} =>
    Sum(Counts, NCpu) = Cardinality(pte) + Cardinality(Holding) + lost

\* Memory that retypetbl_retype2frame gives back is not mapped, and no core is
\* about to map it on the strength of an older reference.
FreeUnmapped == (glb = "UNTYPED" \/ Clearing # {}) => pte = {} /\ Holding = {}

\* The cores that tlb_quiescence_check asks have no mapping of it in their translation
\* caches: the release stamps the time after the entry is gone, and tlb_mandatory_flush
\* reads the time before it flushes.  The last core is not asked and may still have one
\* (FlushedOnAllCores), so this alone does not make the memory safe to use again.
AskedFlushed == (glb = "UNTYPED" \/ Clearing # {}) => tlb \intersect CosCpu = {}

\* One core retypes at a time, the word of each core has the global type unless
\* one does, and the assertion of retypetbl_retype2frame holds on what it reads.
TypeAgreement ==
  /\ (glb = "RETYPING") = (Retyping # {}) /\ Cardinality(Retyping) <= 1
  /\ glb # "RETYPING" => \A c \in Cpu : ent[c].type = glb
  /\ \A c \in Cpu : pc[c] = "frame_cas" => loc[c].old.type \in {loc[c].type, "RETYPING"}


\* The words of the cores add up to the mappings and agree on the type.
WordsAgree == TypeOK /\ RefAccount /\ TypeAgreement

\* The global word does not stay locked.
Unlocked == glb = "RETYPING" ~> glb # "RETYPING"

\* Does not hold (README 3.3).
\* retype_tbl.h: "The ref_cnt is the # of mappings in user space for user memory."
RefIsMappings ==
  (\A c \in Cpu : pc[c] = "idle") =>
    Sum(Counts, NCpu) = Cardinality(pte)

\* Does not hold (README 3.3).
\* "if (local_u.ref_cnt == RETYPE_REFCNT_MAX) return -EOVERFLOW": a count never
\* passes from one end of its field to the other.
CountNeverWraps == [][\A c \in Cpu : ent'[c].ref - ent[c].ref \in -Half .. Half]_vars

\* Does not hold (README 3.3).
\* tlb_quiescence_check: "did the mandatory flush happen on all cores?"
FlushedOnAllCores == (glb = "UNTYPED" \/ Clearing # {}) => tlb = {}

\* Does not hold (README 3.3).
\* retypetbl_retype2frame returns 0 when it has made the memory untyped.
ReturnsZero == \A c \in Cpu : pc[c] = "returns_0" => loc[c].freed
=============================================================================
