-------------------------- MODULE RetypeTblProofs --------------------------
(***************************************************************************)
(* Proofs about RetypeTbl, for any number of cores and of page-table        *)
(* entries: the words of the cores agree with each other and with the       *)
(* mappings, and memory that is given back is not mapped, nor in the        *)
(* translation cache of a core that is asked for a flush.                   *)
(***************************************************************************)
EXTENDS RetypeTbl, FiniteSetTheorems, WellFoundedInduction, TLAPS

Busy == {"type_cpu", "frame_read", "frame_cas", "frame_clear", "restore"}
Holds == {"leaf", "deref", "stamp", "deref_cas"}
Labels == Busy \cup Holds \cup
          {"idle", "ref", "ref_cas", "type_lock", "frame_lock", "returns_0", "flush", "commit_flush"}
Word == [type : Types, ref : Int]
LocType == [old : Word, type : Types, k : 0 .. NCpu, sum : Int, seen : SUBSET Cpu, p : Pte, freed : BOOLEAN]

VarTypes ==
  /\ glb \in Types /\ ent \in [Cpu -> Word]
  /\ flushed \in [Cpu -> SUBSET Cpu] /\ pte \subseteq Pte /\ tlb \subseteq Cpu
  /\ pc \in [Cpu -> Labels]
  /\ loc \in [Cpu -> LocType]
  /\ lost \in Nat

\* The counts stay away from the ends of their field: a core starts an operation only within
\* MaxRef, and only the core itself and the core that frees the set write its count.
Bounded(c) ==
  /\ ent[c].ref >= -(MaxRef + 1) /\ ent[c].ref <= MaxRef + 1
  /\ pc[c] \in {"ref", "ref_cas"} => ent[c].ref <= MaxRef
  /\ pc[c] \in Holds => ent[c].ref >= -MaxRef

\* What an operation knows.
Locals(c) ==
  /\ pc[c] \in {"idle", "type_lock", "frame_lock"} => loc[c].k = 0 /\ loc[c].sum = 0
  /\ pc[c] \in Busy \cup {"type_lock", "frame_lock"} => loc[c].type \in Typed
  /\ pc[c] \in {"ref_cas", "stamp", "deref_cas"} => loc[c].old.type \in Typed
  /\ pc[c] = "frame_cas" => loc[c].k < NCpu /\ loc[c].old.type = loc[c].type

\* The core that has the global word is the only one that retypes.
One ==
  /\ glb = "RETYPING" <=> \E c \in Cpu : pc[c] \in Busy
  /\ \A c, d \in Cpu : pc[c] \in Busy /\ pc[d] \in Busy => c = d

\* How far it has come: the words below k are done.
WordType(l, t, k, j) ==
  CASE l = "type_cpu"    -> IF j < k THEN t ELSE "UNTYPED"
    [] l = "frame_clear" -> IF j < k THEN "UNTYPED" ELSE "RETYPING"
    [] OTHER             -> IF j < k THEN "RETYPING" ELSE t
Progress(c) ==
  /\ pc[c] \in Busy => \A j \in Cpu : ent[j].type = WordType(pc[c], loc[c].type, loc[c].k, j)
  /\ pc[c] \in {"frame_read", "frame_cas"} => loc[c].sum = Sum(Counts, loc[c].k)
  /\ pc[c] = "frame_clear" => \A j \in Cpu : j < loc[c].k => ent[j].ref = 0
Settled == glb # "RETYPING" => \A j \in Cpu : ent[j].type = glb

\* Once it is decided, nobody has a mapping or a reference, and no release has failed.
Free == (glb = "UNTYPED" \/ Clearing # {}) => pte = {} /\ Holding = {} /\ lost = 0

\* A core whose translation cache may hold a mapping that is gone has not flushed since the
\* release of it, unless that is still to come or has failed.
Stale(c) ==
  c \in tlb =>
    \/ pte # {} \/ lost > 0 \/ \E h \in Cpu : pc[h] \in {"deref", "stamp"}
    \/ \E h \in Cpu : c \notin flushed[h] /\ (pc[c] = "commit_flush" => h \notin loc[c].seen)

\* No count reaches an end of its field as long as operations start within MaxRef.
CountsFit == Half \in Nat /\ MaxRef + 1 < Half

TblInv ==
  /\ VarTypes /\ \A c \in Cpu : Bounded(c) /\ Locals(c) /\ Progress(c) /\ Stale(c)
  /\ One /\ Settled /\ RefAccount /\ Free /\ AskedFlushed

-----------------------------------------------------------------------------
(* Sums.                                                                    *)

\* The least member of a set of numbers.
LEMMA Minimum ==
  ASSUME NEW S, S \subseteq Nat, S # {}
  PROVE  \E x \in S : \A y \in S : x <= y
<1>1. \E x \in S : \A y \in S : ~ (<<y, x>> \in OpToRel(<, Nat))
  BY NatLessThanWellFounded, WFMin
<1>2. PICK x \in S : \A y \in S : ~ (<<y, x>> \in OpToRel(<, Nat))
  BY <1>1
<1>3. ASSUME NEW y \in S PROVE x <= y
  <2>1. ~(y < x)
    BY <1>2 DEF OpToRel
  <2> QED BY <2>1
<1> QED BY <1>3

\* If something goes wrong up to n, and not at 0, it goes wrong somewhere for the first time.
LEMMA First ==
  ASSUME NEW n \in Nat, NEW Bad, Bad \subseteq 0 .. n, Bad # {}, 0 \notin Bad
  PROVE  \E m \in Bad : m \in 1 .. n /\ m - 1 \in 0 .. n /\ m - 1 \notin Bad
<1>1. Bad \subseteq Nat
  OBVIOUS
<1>2. PICK m \in Bad : \A y \in Bad : m <= y
  BY <1>1, Minimum
<1>3. m \in 1 .. n
  BY <1>2
<1> QED BY <1>2, <1>3

\* Partial sums exist.
LEMMA SumExists ==
  ASSUME NEW f \in [Cpu -> Int]
  PROVE  \E g \in [0 .. NCpu -> Int] : g = [m \in 0 .. NCpu |-> IF m = 0 THEN 0 ELSE g[m - 1] + f[m - 1]]
<1> DEFINE Part(g, n) == g[0] = 0 /\ \A m \in 1 .. n : g[m] = g[m - 1] + f[m - 1]
           Bad == {n \in 0 .. NCpu : ~ \E g \in [0 .. n -> Int] : Part(g, n)}
<1>0. NCpu \in Nat
  BY RetypeAssumption
<1>1. Bad = {}
  <2> SUFFICES ASSUME Bad # {} PROVE FALSE
    OBVIOUS
  <2>1. Bad \subseteq 0 .. NCpu
    OBVIOUS
  <2>2. 0 \notin Bad
    <3> DEFINE z == [m \in 0 .. 0 |-> 0]
    <3>1. z \in [0 .. 0 -> Int]
      OBVIOUS
    <3>2. Part(z, 0)
      OBVIOUS
    <3> HIDE DEF z
    <3> QED BY <3>1, <3>2
  <2> HIDE DEF Bad
  <2>a. PICK n \in Bad : n \in 1 .. NCpu /\ n - 1 \in 0 .. NCpu /\ n - 1 \notin Bad
    BY <1>0, <2>1, <2>2, First
  <2> USE DEF Bad
  <2>3. n \in Nat /\ n - 1 \in 0 .. NCpu /\ n - 1 \notin Bad /\ n - 1 \in Cpu
    BY <1>0, <2>a DEF Cpu
  <2>4. PICK g \in [0 .. n - 1 -> Int] : Part(g, n - 1)
    BY <2>3
  <2> DEFINE h == [m \in 0 .. n |-> IF m = n THEN g[n - 1] + f[n - 1] ELSE g[m]]
  <2>5. h \in [0 .. n -> Int]
    BY <2>3
  <2>6. Part(h, n)
    BY <2>3, <2>4, SMTT(30)
  <2> HIDE DEF h
  <2> QED BY <2>a, <2>5, <2>6
<1>2. NCpu \notin Bad
  BY <1>1
<1>3. PICK g \in [0 .. NCpu -> Int] : Part(g, NCpu)
  BY <1>0, <1>2
<1>4. g = [m \in 0 .. NCpu |-> IF m = 0 THEN 0 ELSE g[m - 1] + f[m - 1]]
  BY <1>0, <1>3
<1> QED BY <1>4

\* They are what Sum computes.
LEMMA SumStep ==
  ASSUME NEW f \in [Cpu -> Int]
  PROVE  /\ Sum(f, 0) = 0
         /\ \A n \in Cpu : Sum(f, n + 1) = Sum(f, n) + f[n]
         /\ \A n \in 0 .. NCpu : Sum(f, n) \in Int
<1> DEFINE Eq(g) == g = [m \in 0 .. NCpu |-> IF m = 0 THEN 0 ELSE g[m - 1] + f[m - 1]]
           s == CHOOSE g : Eq(g)
<1>0. NCpu \in Nat /\ NCpu > 0
  BY RetypeAssumption
<1>1. \A n : Sum(f, n) = s[n]
  BY DEF Sum
<1>2. PICK g \in [0 .. NCpu -> Int] : Eq(g)
  BY SumExists
<1>3. Eq(s)
  BY <1>2
<1> HIDE DEF s
<1>4. s[0] = 0 /\ \A n \in Cpu : s[n + 1] = s[n] + f[n]
  BY <1>0, <1>3 DEF Cpu
<1>5. \A n \in 0 .. NCpu : s[n] \in Int
  <2> DEFINE Bad == {n \in 0 .. NCpu : s[n] \notin Int}
  <2> SUFFICES ASSUME Bad # {} PROVE FALSE
    OBVIOUS
  <2>0. Bad \subseteq 0 .. NCpu /\ 0 \notin Bad
    BY <1>4
  <2> HIDE DEF Bad
  <2>1. PICK n \in Bad : n \in 1 .. NCpu /\ n - 1 \in 0 .. NCpu /\ n - 1 \notin Bad
    BY <1>0, <2>0, First
  <2> USE DEF Bad
  <2>3. n \in Nat /\ n - 1 \in 0 .. NCpu /\ n - 1 \notin Bad /\ n - 1 \in Cpu
    BY <1>0, <2>1 DEF Cpu
  <2>4. s[n] = s[n - 1] + f[n - 1]
    BY <1>4, <2>3
  <2> QED BY <2>1, <2>3, <2>4
<1> QED BY <1>1, <1>4, <1>5

\* What changes at core k changes the sums beyond it, by as much.
LEMMA SumChange ==
  ASSUME NEW f \in [Cpu -> Int], NEW g \in [Cpu -> Int], NEW k \in Cpu,
         \A j \in Cpu : j # k => g[j] = f[j]
  PROVE  \A n \in 0 .. NCpu : Sum(g, n) = Sum(f, n) + IF n > k THEN g[k] - f[k] ELSE 0
<1> DEFINE Right(n) == Sum(g, n) = Sum(f, n) + IF n > k THEN g[k] - f[k] ELSE 0
           Bad == {n \in 0 .. NCpu : ~Right(n)}
<1>0. NCpu \in Nat /\ k \in Nat /\ k < NCpu
  BY RetypeAssumption DEF Cpu
<1>1. /\ Sum(f, 0) = 0 /\ \A n \in Cpu : Sum(f, n + 1) = Sum(f, n) + f[n]
      /\ \A n \in 0 .. NCpu : Sum(f, n) \in Int
  BY SumStep
<1>2. /\ Sum(g, 0) = 0 /\ \A n \in Cpu : Sum(g, n + 1) = Sum(g, n) + g[n]
      /\ \A n \in 0 .. NCpu : Sum(g, n) \in Int
  BY SumStep
<1> SUFFICES ASSUME Bad # {} PROVE FALSE
  OBVIOUS
<1>3. Bad \subseteq 0 .. NCpu /\ 0 \notin Bad
  BY <1>0, <1>1, <1>2
<1> HIDE DEF Bad
<1>4. PICK n \in Bad : n \in 1 .. NCpu /\ n - 1 \in 0 .. NCpu /\ n - 1 \notin Bad
  BY <1>0, <1>3, First
<1> USE DEF Bad
<1>5. n \in Nat /\ n - 1 \in 0 .. NCpu /\ n - 1 \notin Bad /\ n - 1 \in Cpu /\ n \in 0 .. NCpu
  BY <1>0, <1>4 DEF Cpu
<1>6. Sum(g, n) = Sum(g, n - 1) + g[n - 1] /\ Sum(f, n) = Sum(f, n - 1) + f[n - 1]
  BY <1>1, <1>2, <1>5
<1>7. Right(n - 1)
  BY <1>5
<1>8. /\ Sum(g, n - 1) \in Int /\ Sum(f, n - 1) \in Int /\ g[n - 1] \in Int /\ f[n - 1] \in Int
      /\ g[k] \in Int /\ f[k] \in Int
  BY <1>1, <1>2, <1>5
<1>9. Right(n)
  <2>1. CASE n - 1 = k
    BY <1>0, <1>5, <1>6, <1>7, <1>8, <2>1
  <2>2. CASE n - 1 # k
    <3>1. g[n - 1] = f[n - 1] /\ (n > k <=> n - 1 > k)
      BY <1>0, <1>5, <2>2
    <3> QED BY <1>0, <1>5, <1>6, <1>7, <1>8, <3>1
  <2> QED BY <2>1, <2>2
<1> QED BY <1>4, <1>9

\* Equal counts below n have equal sums.
LEMMA SumSame ==
  ASSUME NEW f \in [Cpu -> Int], NEW g \in [Cpu -> Int], NEW n \in 0 .. NCpu,
         \A j \in Cpu : j < n => g[j] = f[j]
  PROVE  Sum(g, n) = Sum(f, n)
<1> DEFINE Bad == {m \in 0 .. n : Sum(g, m) # Sum(f, m)}
<1>0. NCpu \in Nat /\ n \in Nat /\ n <= NCpu
  BY RetypeAssumption
<1>1. Sum(f, 0) = 0 /\ \A m \in Cpu : Sum(f, m + 1) = Sum(f, m) + f[m]
  BY SumStep
<1>2. Sum(g, 0) = 0 /\ \A m \in Cpu : Sum(g, m + 1) = Sum(g, m) + g[m]
  BY SumStep
<1> SUFFICES ASSUME Bad # {} PROVE FALSE
  BY <1>0
<1>3. Bad \subseteq 0 .. n /\ 0 \notin Bad
  BY <1>1, <1>2
<1> HIDE DEF Bad
<1>4. PICK m \in Bad : m \in 1 .. n /\ m - 1 \in 0 .. n /\ m - 1 \notin Bad
  BY <1>0, <1>3, First
<1> USE DEF Bad
<1>5. m \in Nat /\ m - 1 \in 0 .. n /\ m - 1 \notin Bad /\ m - 1 \in Cpu /\ m - 1 < n
  BY <1>0, <1>4 DEF Cpu
<1>6. Sum(g, m) = Sum(g, m - 1) + g[m - 1] /\ Sum(f, m) = Sum(f, m - 1) + f[m - 1]
  BY <1>1, <1>2, <1>5
<1> QED BY <1>4, <1>5, <1>6

\* Counts that are all 0 add up to 0.
LEMMA SumZero ==
  ASSUME NEW f \in [Cpu -> Int], \A j \in Cpu : f[j] = 0
  PROVE  Sum(f, NCpu) = 0
<1> DEFINE Bad == {m \in 0 .. NCpu : Sum(f, m) # 0}
<1>0. NCpu \in Nat
  BY RetypeAssumption
<1>1. Sum(f, 0) = 0 /\ \A m \in Cpu : Sum(f, m + 1) = Sum(f, m) + f[m]
  BY SumStep
<1> SUFFICES ASSUME Bad # {} PROVE FALSE
  BY <1>0
<1>3. Bad \subseteq 0 .. NCpu /\ 0 \notin Bad
  BY <1>1
<1> HIDE DEF Bad
<1>4. PICK m \in Bad : m \in 1 .. NCpu /\ m - 1 \in 0 .. NCpu /\ m - 1 \notin Bad
  BY <1>0, <1>3, First
<1> USE DEF Bad
<1>5. m \in Nat /\ m - 1 \in 0 .. NCpu /\ m - 1 \notin Bad /\ m - 1 \in Cpu
  BY <1>0, <1>4 DEF Cpu
<1>6. Sum(f, m) = Sum(f, m - 1) + f[m - 1]
  BY <1>1, <1>5
<1> QED BY <1>4, <1>5, <1>6

-----------------------------------------------------------------------------
(* Frames: what a step of one core leaves of the others.                    *)

\* Core d is where it was, with the same locals up to what a stamp takes from them.
Same(d) ==
  /\ pc'[d] = pc[d] /\ loc'[d].k = loc[d].k /\ loc'[d].sum = loc[d].sum
  /\ loc'[d].type = loc[d].type /\ loc'[d].old = loc[d].old
Others(c) == \A d \in Cpu : d # c => Same(d)

\* 1 for a core that holds a reference without an entry
Hold(l) == IF l \in Holds THEN 1 ELSE 0

\* The types, one by one.
LEMMA Sorts ==
  ASSUME VarTypes, NEW c \in Cpu
  PROVE  /\ pc[c] \in Labels /\ ent[c].type \in Types /\ ent[c].ref \in Int
         /\ loc[c].k \in 0 .. NCpu /\ loc[c].k \in Nat /\ loc[c].k <= NCpu /\ loc[c].sum \in Int
         /\ loc[c].type \in Types /\ loc[c].old \in Word /\ loc[c].p \in Pte /\ loc[c].seen \subseteq Cpu
         /\ c \in Nat /\ c < NCpu /\ NCpu \in Nat /\ NCpu > 0
<1>1. c \in Nat /\ c < NCpu /\ NCpu \in Nat /\ NCpu > 0
  BY RetypeAssumption DEF Cpu
<1>2. pc[c] \in Labels /\ ent[c].type \in Types /\ ent[c].ref \in Int
  BY DEF VarTypes, Word
<1>3. loc[c] \in [old : Word, type : Types, k : 0 .. NCpu, sum : Int, seen : SUBSET Cpu, p : Pte, freed : BOOLEAN]
  BY DEF VarTypes, LocType
<1>4. loc[c].k \in Nat /\ loc[c].k <= NCpu
  BY <1>1, <1>3
<1> QED BY <1>1, <1>2, <1>3, <1>4

\* The counts are numbers.
LEMMA CountsType ==
  ASSUME VarTypes
  PROVE  Counts \in [Cpu -> Int] /\ \A j \in Cpu : Counts[j] = ent[j].ref
  BY DEF VarTypes, Word, Counts

\* A core leaves the kernel with fresh locals.
LEMMA Returns ==
  ASSUME VarTypes, NEW c \in Cpu, Return(c)
  PROVE  /\ pc' \in [Cpu -> Labels]
         /\ loc' \in [Cpu -> LocType]
         /\ pc'[c] = "idle" /\ loc'[c].k = 0 /\ loc'[c].sum = 0
         /\ \A d \in Cpu : d # c => pc'[d] = pc[d] /\ loc'[d] = loc[d]
         /\ Others(c)
<1>1. NoLoc \in LocType
  <2>1. PICK q : q \in Pte
    BY RetypeAssumption
  <2>2. (CHOOSE p \in Pte : TRUE) \in Pte
    BY <2>1
  <2>3. NCpu \in Nat
    BY RetypeAssumption
  <2>4. FALSE \in BOOLEAN
    BY Zenon
  <2> QED BY <2>2, <2>3, <2>4 DEF NoLoc, LocType, Word, Types
<1>2. "idle" \in Labels
  BY DEF Labels
<1>3. pc' = [pc EXCEPT ![c] = "idle"] /\ loc' = [loc EXCEPT ![c] = NoLoc]
  BY DEF Return
<1>4. loc'[c] = NoLoc /\ pc'[c] = "idle" /\ \A d \in Cpu : d # c => pc'[d] = pc[d] /\ loc'[d] = loc[d]
  BY <1>3 DEF VarTypes
<1> QED BY <1>1, <1>2, <1>3, <1>4 DEF VarTypes, Others, Same, NoLoc

\* A core goes on.
LEMMA Goes ==
  ASSUME VarTypes, NEW c \in Cpu, NEW l \in Labels, Goto(c, l)
  PROVE  pc' \in [Cpu -> Labels] /\ pc'[c] = l /\ \A d \in Cpu : d # c => pc'[d] = pc[d]
  BY DEF VarTypes, Goto

\* The cores that hold a reference, after a step of c
LEMMA HoldingStep ==
  ASSUME VarTypes, VarTypes', NEW c \in Cpu, Others(c)
  PROVE  /\ IsFiniteSet(Holding) /\ Cardinality(Holding) \in Nat /\ Cardinality(Holding') \in Nat
         /\ Cardinality(Holding') = Cardinality(Holding) + Hold(pc'[c]) - Hold(pc[c])
         /\ pc[c] \notin Holds /\ pc'[c] \notin Holds => Holding' = Holding
<1>1. IsFiniteSet(Cpu)
  BY FS_Interval, RetypeAssumption DEF Cpu
<1>2. Holding \subseteq Cpu /\ Holding' \subseteq Cpu
  BY DEF Holding
<1>3. /\ IsFiniteSet(Holding) /\ IsFiniteSet(Holding')
      /\ Cardinality(Holding) \in Nat /\ Cardinality(Holding') \in Nat
  BY <1>1, <1>2, FS_Subset, FS_CardinalityType
<1>4. Holding \ {c} = Holding' \ {c} /\ (c \in Holding <=> pc[c] \in Holds) /\ (c \in Holding' <=> pc'[c] \in Holds)
  BY DEF Holding, Holds, Others, Same
<1>5. ASSUME NEW H, IsFiniteSet(H), Cardinality(H) \in Nat
      PROVE  Cardinality(H \ {c}) = Cardinality(H) - IF c \in H THEN 1 ELSE 0
  <2>1. CASE c \in H
    BY <1>5, <2>1, FS_RemoveElement
  <2>2. CASE c \notin H
    <3>1. H \ {c} = H
      BY <2>2
    <3> QED BY <1>5, <2>2, <3>1
  <2> QED BY <2>1, <2>2
<1>6. Hold(pc[c]) = IF c \in Holding THEN 1 ELSE 0
  BY <1>4 DEF Hold
<1>7. Hold(pc'[c]) = IF c \in Holding' THEN 1 ELSE 0
  BY <1>4 DEF Hold
<1>8. Cardinality(Holding \ {c}) = Cardinality(Holding) - Hold(pc[c])
  BY <1>3, <1>5, <1>6
<1>9. Cardinality(Holding' \ {c}) = Cardinality(Holding') - Hold(pc'[c])
  BY <1>3, <1>5, <1>7
<1>10. Hold(pc[c]) \in Nat /\ Hold(pc'[c]) \in Nat
  BY DEF Hold
<1>11. Cardinality(Holding') = Cardinality(Holding) + Hold(pc'[c]) - Hold(pc[c])
  <2>1. Cardinality(Holding) - Hold(pc[c]) = Cardinality(Holding') - Hold(pc'[c])
    BY <1>4, <1>8, <1>9
  <2> QED BY <1>3, <1>10, <2>1
<1>12. pc[c] \notin Holds /\ pc'[c] \notin Holds => Holding' = Holding
  BY <1>4
<1> QED BY <1>3, <1>11, <1>12

\* The entries are finitely many.
LEMMA Entries ==
  ASSUME NEW S, S \subseteq Pte
  PROVE  /\ IsFiniteSet(S) /\ Cardinality(S) \in Nat /\ (Cardinality(S) = 0 <=> S = {})
         /\ \A p \in Pte : p \notin S => Cardinality(S \cup {p}) = Cardinality(S) + 1
         /\ \A p \in S : Cardinality(S \ {p}) = Cardinality(S) - 1
<1>1. IsFiniteSet(S)
  BY RetypeAssumption, FS_Subset
<1> QED BY <1>1, FS_CardinalityType, FS_EmptySet, FS_AddElement, FS_RemoveElement

\* A core that does not retype, in a step that changes no type and no count of a word that is
\* locked or cleared, leaves the retyping core where it is.
LEMMA RetypeFrame ==
  ASSUME TblInv, VarTypes', NEW c \in Cpu, Others(c), glb' = glb, pc[c] \notin Busy, pc'[c] \notin Busy,
         \A j \in Cpu : ent'[j].type = ent[j].type,
         \A j \in Cpu : ent[j].type \notin Typed => ent'[j].ref = ent[j].ref
  PROVE  (\A d \in Cpu : Progress(d)') /\ One' /\ Settled' /\ Clearing' = Clearing
<1> USE DEF TblInv
<1>1. \A d \in Cpu : pc'[d] \in Busy => d # c /\ Same(d) /\ pc[d] \in Busy
  BY DEF Others, Same
<1>2. \A d \in Cpu : pc[d] \in Busy => d # c /\ Same(d) /\ pc'[d] \in Busy
  BY DEF Others, Same
<1>3. One'
  BY <1>1, <1>2 DEF One
<1>4. Settled'
  BY DEF Settled
<1>5. Clearing' = Clearing
  BY <1>1, <1>2 DEF Clearing, Busy, Same
<1>6. ASSUME NEW d \in Cpu PROVE Progress(d)'
  <2> SUFFICES ASSUME pc'[d] \in Busy PROVE Progress(d)'
    BY DEF Progress, Busy
  <2>1. pc'[d] = pc[d] /\ loc'[d].k = loc[d].k /\ loc'[d].type = loc[d].type /\ loc'[d].sum = loc[d].sum /\ pc[d] \in Busy
    BY <1>1 DEF Same
  <2>2. \A j \in Cpu : ent'[j].type = WordType(pc'[d], loc'[d].type, loc'[d].k, j)
    BY <2>1 DEF Progress
  <2>3. ASSUME pc[d] \in {"frame_read", "frame_cas"} PROVE Sum(Counts', loc[d].k) = Sum(Counts, loc[d].k)
    <3>1. Counts \in [Cpu -> Int] /\ \A j \in Cpu : Counts[j] = ent[j].ref
      BY CountsType
    <3>2. Counts' \in [Cpu -> Int] /\ \A j \in Cpu : Counts'[j] = ent'[j].ref
      BY DEF VarTypes, Word, Counts
    <3>3. ASSUME NEW j \in Cpu, j < loc[d].k PROVE Counts'[j] = Counts[j]
      <4>1. ent[j].type = "RETYPING"
        BY <2>1, <2>3, <3>3 DEF Progress, WordType
      <4> QED BY <3>1, <3>2, <4>1 DEF Typed
    <3>4. loc[d].k \in 0 .. NCpu
      BY Sorts
    <3> HIDE DEF TblInv
    <3> QED BY <3>1, <3>2, <3>3, <3>4, SumSame
  <2>4. ASSUME pc[d] = "frame_clear", NEW j \in Cpu, j < loc[d].k PROVE ent'[j].ref = 0
    <3>1. ent[j].type = "UNTYPED" /\ ent[j].ref = 0
      BY <2>1, <2>4 DEF Progress, WordType
    <3> QED BY <3>1 DEF Typed
  <2> QED BY <2>1, <2>2, <2>3, <2>4 DEF Progress
<1> QED BY <1>3, <1>4, <1>5, <1>6

\* ... and what it counts agrees if what it adds to its word is what it adds to the entries,
\* the operations under way and the failures.
LEMMA CoreStep ==
  ASSUME TblInv, VarTypes', NEW c \in Cpu, Others(c), glb' = glb, pc[c] \notin Busy, pc'[c] \notin Busy,
         \A j \in Cpu : ent'[j].type = ent[j].type,
         \A j \in Cpu : j # c => ent'[j].ref = ent[j].ref,
         ent[c].type \notin Typed => ent'[c].ref = ent[c].ref,
         ent'[c].ref - ent[c].ref = Cardinality(pte') - Cardinality(pte) + Hold(pc'[c]) - Hold(pc[c]) + lost' - lost,
         Locals(c)', Bounded(c)', \A d \in Cpu : Stale(d)',
         pte = {} /\ pc[c] \notin Holds /\ lost = 0 /\ ent[c].type \notin Typed =>
           pte' = {} /\ pc'[c] \notin Holds /\ lost' = 0,
         tlb' \subseteq tlb
  PROVE  TblInv'
<1>1. VarTypes /\ RefAccount /\ Free /\ AskedFlushed /\ Settled /\ \A d \in Cpu : Bounded(d) /\ Locals(d) /\ Progress(d)
  BY DEF TblInv
<1>2. (\A d \in Cpu : Progress(d)') /\ One' /\ Settled' /\ Clearing' = Clearing
  BY RetypeFrame
<1>3. ASSUME NEW d \in Cpu PROVE Locals(d)' /\ Bounded(d)'
  <2>1. CASE d = c
    BY <2>1
  <2>2. CASE d # c
    <3>1. Same(d) /\ ent'[d].ref = ent[d].ref
      BY <2>2 DEF Others
    <3> QED BY <1>1, <3>1 DEF Same, Locals, Bounded
  <2> QED BY <2>1, <2>2
<1>4. glb = "UNTYPED" \/ Clearing # {} => ent[c].type \notin Typed
  <2>1. CASE glb = "UNTYPED"
    BY <1>1, <2>1 DEF Settled, Typed
  <2>2. ASSUME NEW d \in Clearing PROVE ent[c].type \notin Typed
    BY <1>1, <2>2 DEF Clearing, Progress, Busy, WordType, Typed
  <2> QED BY <2>1, <2>2
<1>5. /\ Cardinality(Holding) \in Nat /\ Cardinality(Holding') \in Nat
      /\ Cardinality(Holding') = Cardinality(Holding) + Hold(pc'[c]) - Hold(pc[c])
      /\ pc[c] \notin Holds /\ pc'[c] \notin Holds => Holding' = Holding
  BY <1>1, HoldingStep
<1>6. Free'
  <2> SUFFICES ASSUME glb = "UNTYPED" \/ Clearing # {} PROVE pte' = {} /\ Holding' = {} /\ lost' = 0
    BY <1>2 DEF Free
  <2>1. pte = {} /\ Holding = {} /\ lost = 0
    BY <1>1 DEF Free
  <2>2. pc[c] \notin Holds
    BY <2>1 DEF Holding, Holds
  <2> QED BY <1>4, <1>5, <2>1, <2>2
<1>7. AskedFlushed'
  BY <1>1, <1>2 DEF AskedFlushed
<1>8. RefAccount'
  <2> SUFFICES ASSUME Clearing = {}
               PROVE  Sum(Counts', NCpu) = Cardinality(pte') + Cardinality(Holding') + lost'
    BY <1>2 DEF RefAccount
  <2>1. Counts \in [Cpu -> Int] /\ \A j \in Cpu : Counts[j] = ent[j].ref
    BY <1>1, CountsType
  <2>2. Counts' \in [Cpu -> Int] /\ \A j \in Cpu : Counts'[j] = ent'[j].ref
    BY DEF VarTypes, Word, Counts
  <2>3. \A j \in Cpu : j # c => Counts'[j] = Counts[j]
    BY <2>1, <2>2
  <2>4. \A n \in 0 .. NCpu : Sum(Counts', n) = Sum(Counts, n) + IF n > c THEN Counts'[c] - Counts[c] ELSE 0
    BY ONLY <2>1, <2>2, <2>3, c \in Cpu, SumChange
  <2>5. NCpu \in 0 .. NCpu /\ NCpu > c
    BY <1>1, Sorts
  <2>6. Sum(Counts', NCpu) = Sum(Counts, NCpu) + ent'[c].ref - ent[c].ref /\ Sum(Counts, NCpu) \in Int
    <3>1. Sum(Counts, NCpu) \in Int
      BY ONLY <2>1, <2>5, SumStep
    <3>2. ent'[c].ref \in Int /\ ent[c].ref \in Int
      BY <1>1 DEF VarTypes, Word
    <3> QED BY <2>1, <2>2, <2>4, <2>5, <3>1, <3>2
  <2>7. /\ Cardinality(pte) \in Nat /\ Cardinality(pte') \in Nat /\ lost \in Nat /\ lost' \in Nat
        /\ ent'[c].ref \in Int /\ ent[c].ref \in Int /\ Hold(pc[c]) \in Nat /\ Hold(pc'[c]) \in Nat
    BY <1>1, Entries DEF VarTypes, Word, Hold
  <2>8. Sum(Counts, NCpu) = Cardinality(pte) + Cardinality(Holding) + lost
    BY <1>1 DEF RefAccount
  <2> QED BY <1>5, <2>6, <2>7, <2>8
<1> QED BY <1>2, <1>3, <1>6, <1>7, <1>8 DEF TblInv

\* Translation caches that hold no more than before are as stale as before if no release has
\* become over without a stamp, and no flush is.
LEMMA StaleFrame ==
  ASSUME TblInv, NEW c \in Cpu, UNCHANGED <<pte, lost, flushed>>, tlb' \subseteq tlb,
         \A d \in Cpu : d # c => pc'[d] = pc[d] /\ loc'[d].seen = loc[d].seen,
         pc[c] \in {"deref", "stamp"} => pc'[c] \in {"deref", "stamp"},
         pc'[c] # "commit_flush"
  PROVE  \A d \in Cpu : Stale(d)'
<1> SUFFICES ASSUME NEW d \in Cpu, d \in tlb' PROVE Stale(d)'
  BY DEF Stale
<1>1. Stale(d)
  BY DEF TblInv
<1>2. ASSUME NEW h \in Cpu, pc[h] \in {"deref", "stamp"} PROVE pc'[h] \in {"deref", "stamp"}
  BY <1>2
<1>3. pc'[d] = "commit_flush" => pc[d] = "commit_flush" /\ loc'[d].seen = loc[d].seen
  OBVIOUS
<1>4. CASE pte # {} \/ lost > 0
  BY <1>4 DEF Stale
<1>5. CASE \E h \in Cpu : pc[h] \in {"deref", "stamp"}
  BY <1>2, <1>5 DEF Stale
<1>6. CASE \E h \in Cpu : d \notin flushed[h] /\ (pc[d] = "commit_flush" => h \notin loc[d].seen)
  BY <1>3, <1>6 DEF Stale
<1> QED BY <1>1, <1>4, <1>5, <1>6 DEF Stale

\* A step of one core that touches no word, no entry and no count of failures
LEMMA QuietStep ==
  ASSUME TblInv, VarTypes', NEW c \in Cpu, Others(c), UNCHANGED <<glb, ent, pte, lost>>,
         pc[c] \notin Busy, pc'[c] \notin Busy, pc[c] \in Holds <=> pc'[c] \in Holds, Locals(c)',
         pc'[c] \in {"ref", "ref_cas"} => ent[c].ref <= MaxRef,
         \A d \in Cpu : Stale(d)', tlb' \subseteq tlb
  PROVE  TblInv'
<1>1. VarTypes /\ Bounded(c)
  BY DEF TblInv
<1>2. Bounded(c)'
  BY <1>1 DEF Bounded
<1>3. Hold(pc'[c]) = Hold(pc[c]) /\ Hold(pc[c]) \in Nat
  BY DEF Hold
<1>4. Cardinality(pte) \in Nat /\ lost \in Nat /\ ent[c].ref \in Int
  BY <1>1, Entries, Sorts DEF VarTypes
<1>5. ent'[c].ref - ent[c].ref = Cardinality(pte') - Cardinality(pte) + Hold(pc'[c]) - Hold(pc[c]) + lost' - lost
  BY <1>3, <1>4
<1> QED BY <1>2, <1>5, CoreStep

-----------------------------------------------------------------------------
(* Mappings.                                                                *)

\* A mapping begins on a core whose count is within bounds.
LEMMA MapLook ==
  ASSUME TblInv, NEW c \in Cpu, map_look(c)
  PROVE  TblInv'
<1>1. VarTypes /\ Locals(c) /\ pc[c] = "idle" /\ UNCHANGED <<glb, ent, flushed, pte, tlb, lost>>
  BY DEF TblInv, map_look
<1>2. PICK q \in Pte : loc' = [loc EXCEPT ![c].p = q]
  BY DEF map_look
<1>3. pc' \in [Cpu -> Labels] /\ pc'[c] = "ref" /\ \A d \in Cpu : d # c => pc'[d] = pc[d]
  BY <1>1, Goes DEF map_look, Labels, Holds
<1>4. loc' \in [Cpu -> LocType] /\ \A d \in Cpu : d # c => loc'[d] = loc[d]
  BY <1>1, <1>2, SMTT(30) DEF VarTypes, LocType
<1>5. VarTypes'
  BY <1>1, <1>3, <1>4 DEF VarTypes
<1>6. Others(c)
  BY <1>3, <1>4 DEF Others, Same
<1>7. Locals(c)'
  BY <1>3 DEF Locals, Busy
<1>8. \A d \in Cpu : Stale(d)'
  BY <1>1, <1>3, <1>4, StaleFrame
<1>9. ent[c].ref <= MaxRef
  BY <1>1, Sorts, RetypeAssumption DEF map_look
<1> QED BY <1>1, <1>3, <1>5, <1>6, <1>7, <1>8, <1>9, QuietStep DEF Busy, Holds

\* A core reads its own word and keeps it, if it is typed.
LEMMA RefRead ==
  ASSUME TblInv, NEW c \in Cpu, ref_read(c)
  PROVE  TblInv'
<1>1. VarTypes /\ Locals(c) /\ Bounded(c) /\ pc[c] = "ref" /\ UNCHANGED <<glb, ent, flushed, pte, tlb, lost>>
  BY DEF TblInv, ref_read
<1>2. CASE Refusable(c)
  <2>1. Return(c)
    BY <1>2 DEF ref_read
  <2>2. /\ pc' \in [Cpu -> Labels] /\ loc' \in [Cpu -> LocType]
        /\ pc'[c] = "idle" /\ loc'[c].k = 0 /\ loc'[c].sum = 0
        /\ \A d \in Cpu : d # c => pc'[d] = pc[d] /\ loc'[d] = loc[d]
        /\ Others(c)
    BY <1>1, <2>1, Returns
  <2>3. VarTypes'
    BY <1>1, <2>2 DEF VarTypes
  <2>4. Locals(c)'
    BY <2>2 DEF Locals, Busy
  <2>5. \A d \in Cpu : Stale(d)'
    BY <1>1, <2>2, StaleFrame
  <2> QED BY <1>1, <2>2, <2>3, <2>4, <2>5, QuietStep DEF Busy, Holds
<1>3. CASE ~Refusable(c)
  <2>1. loc' = [loc EXCEPT ![c].old = ent[c]] /\ Goto(c, "ref_cas")
    BY <1>3 DEF ref_read
  <2>2. pc' \in [Cpu -> Labels] /\ pc'[c] = "ref_cas" /\ \A d \in Cpu : d # c => pc'[d] = pc[d]
    BY <1>1, <2>1, Goes DEF Labels, Holds
  <2>3. ent[c] \in Word
    BY <1>1 DEF VarTypes
  <2>4. loc' \in [Cpu -> LocType] /\ loc'[c].old = ent[c] /\ \A d \in Cpu : d # c => loc'[d] = loc[d]
    BY <1>1, <2>1, <2>3, SMTT(30) DEF VarTypes, LocType
  <2>5. VarTypes'
    BY <1>1, <2>2, <2>4 DEF VarTypes
  <2>6. Others(c)
    BY <2>2, <2>4 DEF Others, Same
  <2>7. Locals(c)'
    BY <1>3, <2>2, <2>4 DEF Locals, Busy, Refusable
  <2>8. \A d \in Cpu : Stale(d)'
    BY <1>1, <2>2, <2>4, StaleFrame
  <2>9. ent[c].ref <= MaxRef
    BY <1>1 DEF Bounded
  <2> QED BY <1>1, <2>2, <2>5, <2>6, <2>7, <2>8, <2>9, QuietStep DEF Busy, Holds
<1> QED BY <1>2, <1>3

\* A count inside its field is not changed by the field's width.
LEMMA WrapFits ==
  ASSUME CountsFit, NEW n \in Int, n >= -(MaxRef + 1), n <= MaxRef + 1
  PROVE  Wrap(n) = n
<1> DEFINE M == 2 * Half
           a == n + Half
           q == a \div M
<1>1. Half \in Nat /\ MaxRef \in Nat /\ MaxRef + 1 < Half
  BY RetypeAssumption DEF CountsFit
<1>2. M \in Nat /\ M > 0 /\ a \in Nat /\ a < M
  BY <1>1
<1>3. a % M = a
  <2> HIDE DEF M, a
  <2>1. q \in Int /\ a = M * q + (a % M) /\ a % M \in 0 .. M - 1
    BY <1>2
  <2>2. q < 1 /\ q > -1
    BY <1>2, <2>1
  <2>3. q = 0
    BY <2>1, <2>2
  <2> QED BY <1>2, <2>1, <2>3
<1> QED BY <1>1, <1>3 DEF Wrap

\* A reference is counted only if the word is still what was read, and so typed.
LEMMA RefCas ==
  ASSUME CountsFit, TblInv, NEW c \in Cpu, ref_cas(c)
  PROVE  TblInv'
<1>1. VarTypes /\ Locals(c) /\ Bounded(c) /\ pc[c] = "ref_cas" /\ UNCHANGED <<glb, flushed, pte, tlb, lost>>
  BY DEF TblInv, ref_cas
<1>2. CASE ent[c] = loc[c].old
  <2>1. ent' = [ent EXCEPT ![c].ref = Wrap(@ + 1)] /\ Goto(c, "leaf") /\ loc' = loc
    BY <1>2 DEF ref_cas
  <2>2. pc' \in [Cpu -> Labels] /\ pc'[c] = "leaf" /\ \A d \in Cpu : d # c => pc'[d] = pc[d]
    BY <1>1, <2>1, Goes DEF Labels, Holds
  <2>3. ent[c].ref \in Int /\ ent[c].ref <= MaxRef /\ ent[c].ref >= -(MaxRef + 1) /\ MaxRef \in Nat
    BY <1>1, Sorts, RetypeAssumption DEF Bounded
  <2>4. Wrap(ent[c].ref + 1) = ent[c].ref + 1
    BY <2>3, WrapFits
  <2>5. /\ ent' \in [Cpu -> Word] /\ ent'[c].ref = ent[c].ref + 1
        /\ \A j \in Cpu : ent'[j].type = ent[j].type
        /\ \A j \in Cpu : j # c => ent'[j].ref = ent[j].ref
    BY <1>1, <2>1, <2>3, <2>4 DEF VarTypes, Word
  <2>6. VarTypes'
    BY <1>1, <2>1, <2>2, <2>5 DEF VarTypes
  <2>7. Others(c) /\ Locals(c)'
    BY <2>1, <2>2 DEF Others, Same, Locals, Busy
  <2>8. Bounded(c)'
    BY <2>2, <2>3, <2>5 DEF Bounded, Holds
  <2>9. \A d \in Cpu : Stale(d)'
    BY <1>1, <2>1, <2>2, StaleFrame
  <2>10. ent[c].type \in Typed
    BY <1>1, <1>2 DEF Locals
  <2>11. ent'[c].ref - ent[c].ref = Cardinality(pte') - Cardinality(pte) + Hold(pc'[c]) - Hold(pc[c]) + lost' - lost
    <3>1. Hold(pc'[c]) = 1 /\ Hold(pc[c]) = 0
      BY <1>1, <2>2 DEF Hold, Holds
    <3>2. Cardinality(pte) \in Nat /\ lost \in Nat
      BY <1>1, Entries DEF VarTypes
    <3> QED BY <1>1, <2>3, <2>5, <3>1, <3>2
  <2>12. pc[c] \notin Busy /\ pc'[c] \notin Busy
    BY <1>1, <2>2 DEF Busy
  <2> QED BY <1>1, <2>5, <2>6, <2>7, <2>8, <2>9, <2>10, <2>11, <2>12, CoreStep
<1>3. CASE ent[c] # loc[c].old
  <2>1. Return(c) /\ ent' = ent
    BY <1>3 DEF ref_cas
  <2>2. /\ pc' \in [Cpu -> Labels] /\ loc' \in [Cpu -> LocType]
        /\ pc'[c] = "idle" /\ loc'[c].k = 0 /\ loc'[c].sum = 0
        /\ \A d \in Cpu : d # c => pc'[d] = pc[d] /\ loc'[d] = loc[d]
        /\ Others(c)
    BY <1>1, <2>1, Returns
  <2>3. VarTypes'
    BY <1>1, <2>1, <2>2 DEF VarTypes
  <2>4. Locals(c)'
    BY <2>2 DEF Locals, Busy
  <2>5. \A d \in Cpu : Stale(d)'
    BY <1>1, <2>2, StaleFrame
  <2> QED BY <1>1, <2>1, <2>2, <2>3, <2>4, <2>5, QuietStep DEF Busy, Holds
<1> QED BY <1>2, <1>3

\* The reference becomes that of an entry, or is to be released.
LEMMA MapLeaf ==
  ASSUME TblInv, NEW c \in Cpu, map_leaf(c)
  PROVE  TblInv'
<1>1. VarTypes /\ Locals(c) /\ Bounded(c) /\ pc[c] = "leaf" /\ UNCHANGED <<glb, ent, flushed, tlb, lost>>
  BY DEF TblInv, map_leaf
<1>2. CASE loc[c].p \in pte
  <2>1. Goto(c, "deref") /\ pte' = pte /\ loc' = loc
    BY <1>2 DEF map_leaf
  <2>2. pc' \in [Cpu -> Labels] /\ pc'[c] = "deref" /\ \A d \in Cpu : d # c => pc'[d] = pc[d]
    BY <1>1, <2>1, Goes DEF Labels, Holds
  <2>3. VarTypes'
    BY <1>1, <2>1, <2>2 DEF VarTypes
  <2>4. Others(c) /\ Locals(c)'
    BY <2>1, <2>2 DEF Others, Same, Locals, Busy
  <2>5. \A d \in Cpu : Stale(d)'
    BY <1>1, <2>1, <2>2, StaleFrame
  <2> QED BY <1>1, <2>1, <2>2, <2>3, <2>4, <2>5, QuietStep DEF Busy, Holds
<1>3. CASE loc[c].p \notin pte
  <2>1. Return(c) /\ pte' = pte \cup {loc[c].p}
    BY <1>3 DEF map_leaf
  <2>2. /\ pc' \in [Cpu -> Labels] /\ loc' \in [Cpu -> LocType]
        /\ pc'[c] = "idle" /\ loc'[c].k = 0 /\ loc'[c].sum = 0
        /\ \A d \in Cpu : d # c => pc'[d] = pc[d] /\ loc'[d] = loc[d]
        /\ Others(c)
    BY <1>1, <2>1, Returns
  <2>3. loc[c].p \in Pte /\ pte \subseteq Pte
    BY <1>1, Sorts DEF VarTypes
  <2>4. VarTypes'
    BY <1>1, <2>1, <2>2, <2>3 DEF VarTypes
  <2>5. Locals(c)'
    BY <2>2 DEF Locals, Busy
  <2>6. Bounded(c)'
    BY <1>1, <2>2 DEF Bounded, Holds
  <2>7. \A d \in Cpu : Stale(d)'
    BY <2>1 DEF Stale
  <2>8. Cardinality(pte') = Cardinality(pte) + 1 /\ Cardinality(pte) \in Nat
    BY <1>3, <2>1, <2>3, Entries
  <2>9. ent'[c].ref - ent[c].ref = Cardinality(pte') - Cardinality(pte) + Hold(pc'[c]) - Hold(pc[c]) + lost' - lost
    <3>1. Hold(pc'[c]) = 0 /\ Hold(pc[c]) = 1
      BY <1>1, <2>2 DEF Hold, Holds
    <3>2. lost \in Nat /\ ent[c].ref \in Int
      BY <1>1, Sorts DEF VarTypes
    <3> QED BY <1>1, <2>8, <3>1, <3>2
  <2>10. pc[c] \notin Busy /\ pc'[c] \notin Busy /\ pc[c] \in Holds
    BY <1>1, <2>2 DEF Busy, Holds
  <2> QED BY <1>1, <2>2, <2>4, <2>5, <2>6, <2>7, <2>9, <2>10, CoreStep
<1> QED BY <1>2, <1>3

\* An entry goes, and its reference is to be released.
LEMMA MapDel ==
  ASSUME TblInv, NEW c \in Cpu, map_del(c)
  PROVE  TblInv'
<1>1. /\ VarTypes /\ Locals(c) /\ Bounded(c) /\ pc[c] = "idle" /\ ent[c].ref > -MaxRef
      /\ UNCHANGED <<glb, ent, flushed, tlb, loc, lost>>
  BY DEF TblInv, map_del
<1>2. PICK q \in pte : pte' = pte \ {q}
  BY DEF map_del
<1>3. pc' \in [Cpu -> Labels] /\ pc'[c] = "deref" /\ \A d \in Cpu : d # c => pc'[d] = pc[d]
  BY <1>1, Goes DEF map_del, Labels, Holds
<1>4. VarTypes'
  BY <1>1, <1>2, <1>3 DEF VarTypes
<1>5. Others(c) /\ Locals(c)'
  BY <1>1, <1>3 DEF Others, Same, Locals, Busy
<1>6. Bounded(c)'
  BY <1>1, <1>3, Sorts, RetypeAssumption DEF Bounded
<1>7. \A d \in Cpu : Stale(d)'
  BY <1>3 DEF Stale
<1>8. Cardinality(pte') = Cardinality(pte) - 1 /\ Cardinality(pte) \in Nat
  BY <1>1, <1>2, Entries DEF VarTypes
<1>9. ent'[c].ref - ent[c].ref = Cardinality(pte') - Cardinality(pte) + Hold(pc'[c]) - Hold(pc[c]) + lost' - lost
  <2>1. Hold(pc'[c]) = 1 /\ Hold(pc[c]) = 0
    BY <1>1, <1>3 DEF Hold, Holds
  <2>2. lost \in Nat /\ ent[c].ref \in Int
    BY <1>1, Sorts DEF VarTypes
  <2> QED BY <1>1, <1>8, <2>1, <2>2
<1>10. pc[c] \notin Busy /\ pc'[c] \notin Busy /\ pte # {}
  BY <1>1, <1>2, <1>3 DEF Busy
<1> QED BY <1>1, <1>4, <1>5, <1>6, <1>7, <1>9, <1>10, CoreStep

\* A release that cannot be made is lost, and its count stays.
LEMMA DerefRead ==
  ASSUME TblInv, NEW c \in Cpu, deref_read(c)
  PROVE  TblInv'
<1>1. VarTypes /\ Locals(c) /\ Bounded(c) /\ pc[c] = "deref" /\ UNCHANGED <<glb, ent, flushed, pte, tlb>>
  BY DEF TblInv, deref_read
<1>2. CASE Refusable(c)
  <2>1. Return(c) /\ lost' = lost + 1
    BY <1>2 DEF deref_read
  <2>2. /\ pc' \in [Cpu -> Labels] /\ loc' \in [Cpu -> LocType]
        /\ pc'[c] = "idle" /\ loc'[c].k = 0 /\ loc'[c].sum = 0
        /\ \A d \in Cpu : d # c => pc'[d] = pc[d] /\ loc'[d] = loc[d]
        /\ Others(c)
    BY <1>1, <2>1, Returns
  <2>3. VarTypes'
    BY <1>1, <2>1, <2>2 DEF VarTypes
  <2>4. Locals(c)' /\ Bounded(c)'
    BY <1>1, <2>2 DEF Locals, Busy, Bounded, Holds
  <2>5. lost \in Nat /\ ent[c].ref \in Int /\ Cardinality(pte) \in Nat
    BY <1>1, Sorts, Entries DEF VarTypes
  <2>6. \A d \in Cpu : Stale(d)'
    BY <2>1, <2>5 DEF Stale
  <2>7. ent'[c].ref - ent[c].ref = Cardinality(pte') - Cardinality(pte) + Hold(pc'[c]) - Hold(pc[c]) + lost' - lost
    <3>1. Hold(pc'[c]) = 0 /\ Hold(pc[c]) = 1
      BY <1>1, <2>2 DEF Hold, Holds
    <3> QED BY <1>1, <2>1, <2>5, <3>1
  <2>8. pc[c] \notin Busy /\ pc'[c] \notin Busy /\ pc[c] \in Holds
    BY <1>1, <2>2 DEF Busy, Holds
  <2> QED BY <1>1, <2>2, <2>3, <2>4, <2>6, <2>7, <2>8, CoreStep
<1>3. CASE ~Refusable(c)
  <2>1. loc' = [loc EXCEPT ![c].old = ent[c]] /\ Goto(c, "stamp") /\ lost' = lost
    BY <1>3 DEF deref_read
  <2>2. pc' \in [Cpu -> Labels] /\ pc'[c] = "stamp" /\ \A d \in Cpu : d # c => pc'[d] = pc[d]
    BY <1>1, <2>1, Goes DEF Labels, Holds
  <2>3. ent[c] \in Word
    BY <1>1 DEF VarTypes
  <2>4. loc' \in [Cpu -> LocType] /\ loc'[c].old = ent[c] /\ \A d \in Cpu : d # c => loc'[d] = loc[d]
    BY <1>1, <2>1, <2>3 DEF VarTypes, LocType
  <2>5. VarTypes'
    BY <1>1, <2>1, <2>2, <2>4 DEF VarTypes
  <2>6. Others(c)
    BY <2>2, <2>4 DEF Others, Same
  <2>7. Locals(c)'
    BY <1>3, <2>2, <2>4 DEF Locals, Busy, Refusable
  <2>8. \A d \in Cpu : Stale(d)'
    BY <1>1, <2>1, <2>2, <2>4, StaleFrame
  <2> QED BY <1>1, <2>1, <2>2, <2>5, <2>6, <2>7, <2>8, QuietStep DEF Busy, Holds
<1> QED BY <1>2, <1>3

\* The stamp is in the past of no flush.
LEMMA DerefStamp ==
  ASSUME TblInv, NEW c \in Cpu, deref_stamp(c)
  PROVE  TblInv'
<1>1. VarTypes /\ Locals(c) /\ pc[c] = "stamp" /\ UNCHANGED <<glb, ent, pte, tlb, lost>>
  BY DEF TblInv, deref_stamp
<1>2. /\ flushed' = [flushed EXCEPT ![c] = {}]
      /\ loc' = [i \in Cpu |-> IF pc[i] \in {"flush", "commit_flush"} THEN [loc[i] EXCEPT !.seen = @ \ {c}] ELSE loc[i]]
  BY DEF deref_stamp, Stamp
<1>3. pc' \in [Cpu -> Labels] /\ pc'[c] = "deref_cas" /\ \A d \in Cpu : d # c => pc'[d] = pc[d]
  BY <1>1, Goes DEF deref_stamp, Labels, Holds
<1>4. ASSUME NEW d \in Cpu
      PROVE  /\ loc'[d] \in LocType /\ loc'[d].k = loc[d].k /\ loc'[d].sum = loc[d].sum
             /\ loc'[d].type = loc[d].type /\ loc'[d].old = loc[d].old
             /\ pc[d] = "commit_flush" => c \notin loc'[d].seen
  <2>1. loc[d] \in LocType
    BY <1>1 DEF VarTypes
  <2>2. CASE pc[d] \in {"flush", "commit_flush"}
    <3>1. loc'[d] = [loc[d] EXCEPT !.seen = @ \ {c}]
      BY <1>2, <2>2
    <3> QED BY <2>1, <3>1 DEF LocType
  <2>3. CASE pc[d] \notin {"flush", "commit_flush"}
    BY <1>2, <2>1, <2>3
  <2> QED BY <2>2, <2>3
<1>5. flushed' \in [Cpu -> SUBSET Cpu] /\ flushed'[c] = {}
  BY <1>1, <1>2 DEF VarTypes
<1>6. loc' \in [Cpu -> LocType]
  BY <1>2, <1>4
<1>7. VarTypes'
  BY <1>1, <1>3, <1>5, <1>6 DEF VarTypes
<1>8. Others(c)
  BY <1>3, <1>4 DEF Others, Same
<1>9. Locals(c)'
  BY <1>1, <1>3, <1>4 DEF Locals, Busy
<1>10. \A d \in Cpu : Stale(d)'
  BY <1>3, <1>4, <1>5 DEF Stale
<1> QED BY <1>1, <1>3, <1>7, <1>8, <1>9, <1>10, QuietStep DEF Busy, Holds

\* The release is made, or lost.
LEMMA DerefCas ==
  ASSUME CountsFit, TblInv, NEW c \in Cpu, deref_cas(c)
  PROVE  TblInv'
<1>1. VarTypes /\ Locals(c) /\ Bounded(c) /\ pc[c] = "deref_cas" /\ UNCHANGED <<glb, flushed, pte, tlb>>
  BY DEF TblInv, deref_cas
<1>2. /\ pc' \in [Cpu -> Labels] /\ loc' \in [Cpu -> LocType]
      /\ pc'[c] = "idle" /\ loc'[c].k = 0 /\ loc'[c].sum = 0
      /\ \A d \in Cpu : d # c => pc'[d] = pc[d] /\ loc'[d] = loc[d]
      /\ Others(c)
  BY <1>1, Returns DEF deref_cas
<1>3. /\ ent[c].ref \in Int /\ ent[c].ref <= MaxRef + 1 /\ ent[c].ref >= -MaxRef /\ MaxRef \in Nat
      /\ lost \in Nat /\ Cardinality(pte) \in Nat
  BY <1>1, Sorts, Entries, RetypeAssumption DEF VarTypes, Bounded, Holds
<1>4. Wrap(ent[c].ref - 1) = ent[c].ref - 1
  BY <1>3, WrapFits
<1>5. \/ /\ ent[c] = loc[c].old /\ ent' = [ent EXCEPT ![c].ref = Wrap(@ - 1)] /\ lost' = lost
      \/ ent' = ent /\ lost' = lost + 1
  BY DEF deref_cas
<1>6. /\ ent' \in [Cpu -> Word] /\ ent'[c].ref - ent[c].ref = lost' - lost - 1
      /\ ent'[c].ref <= MaxRef + 1 /\ ent'[c].ref >= -(MaxRef + 1)
      /\ lost' \in Nat /\ lost' >= lost
      /\ \A j \in Cpu : ent'[j].type = ent[j].type
      /\ \A j \in Cpu : j # c => ent'[j].ref = ent[j].ref
      /\ ent[c].type \notin Typed => ent'[c].ref = ent[c].ref
  <2>1. CASE ent[c] = loc[c].old /\ ent' = [ent EXCEPT ![c].ref = Wrap(@ - 1)] /\ lost' = lost
    <3>1. ent' \in [Cpu -> Word] /\ ent'[c].ref = ent[c].ref - 1
      BY <1>1, <1>3, <1>4, <2>1 DEF VarTypes, Word
    <3>2. /\ \A j \in Cpu : ent'[j].type = ent[j].type
          /\ \A j \in Cpu : j # c => ent'[j].ref = ent[j].ref
      BY <1>1, <2>1 DEF VarTypes, Word
    <3>3. ent[c].type \in Typed
      BY <1>1, <2>1 DEF Locals
    <3> QED BY <1>3, <2>1, <3>1, <3>2, <3>3
  <2>2. CASE ent' = ent /\ lost' = lost + 1
    <3>1. ent'[c].ref - ent[c].ref = lost' - lost - 1
      BY <1>3, <2>2
    <3>2. ent'[c].ref <= MaxRef + 1 /\ ent'[c].ref >= -(MaxRef + 1) /\ lost' \in Nat /\ lost' >= lost
      BY <1>3, <2>2
    <3> QED BY <1>1, <2>2, <3>1, <3>2 DEF VarTypes
  <2> QED BY <1>5, <2>1, <2>2
<1>7. VarTypes'
  BY <1>1, <1>2, <1>6 DEF VarTypes
<1>8. Locals(c)' /\ Bounded(c)'
  BY <1>2, <1>6 DEF Locals, Busy, Bounded, Holds
<1>9. \A d \in Cpu : Stale(d)'
  <2>1. CASE lost' # lost
    BY <1>3, <1>6, <2>1 DEF Stale
  <2>2. CASE lost' = lost
    BY <1>1, <1>2, <2>2, StaleFrame
  <2> QED BY <2>1, <2>2
<1>10. ent'[c].ref - ent[c].ref = Cardinality(pte') - Cardinality(pte) + Hold(pc'[c]) - Hold(pc[c]) + lost' - lost
  <2>1. Hold(pc'[c]) = 0 /\ Hold(pc[c]) = 1
    BY <1>1, <1>2 DEF Hold, Holds
  <2>2. ent'[c].ref \in Int
    BY <1>2, <1>6 DEF Word
  <2> QED BY <1>1, <1>3, <1>6, <2>1, <2>2
<1>11. pc[c] \notin Busy /\ pc'[c] \notin Busy /\ pc[c] \in Holds
  BY <1>1, <1>2 DEF Busy, Holds
<1> QED BY <1>1, <1>2, <1>6, <1>7, <1>8, <1>9, <1>10, <1>11, CoreStep

-----------------------------------------------------------------------------
(* Retyping.                                                                *)

\* A core that has, or takes, the global word is the only one that retypes.
LEMMA Alone ==
  ASSUME TblInv, NEW c \in Cpu, glb # "RETYPING" \/ pc[c] \in Busy
  PROVE  /\ \A d \in Cpu : d # c => pc[d] \notin Busy
         /\ Clearing # {} => pc[c] = "frame_clear"
<1>1. One
  BY DEF TblInv
<1>2. \A d \in Cpu : d # c => pc[d] \notin Busy
  BY <1>1 DEF One
<1>3. glb # "RETYPING" => pc[c] \notin Busy
  BY <1>1 DEF One
<1> QED BY <1>2, <1>3 DEF Clearing, Busy

\* As long as no count changes and none was cleared, the counts add up as before.
LEMMA SameSum ==
  ASSUME TblInv, VarTypes', NEW c \in Cpu, glb # "RETYPING" \/ pc[c] \in Busy, pc[c] # "frame_clear",
         \A j \in Cpu : ent'[j].ref = ent[j].ref
  PROVE  Sum(Counts', NCpu) = Cardinality(pte) + Cardinality(Holding) + lost
<1>1. VarTypes /\ RefAccount
  BY DEF TblInv
<1>2. Clearing = {}
  BY Alone
<1>3. Counts \in [Cpu -> Int] /\ \A j \in Cpu : Counts[j] = ent[j].ref
  BY <1>1, CountsType
<1>4. Counts' \in [Cpu -> Int] /\ \A j \in Cpu : Counts'[j] = ent'[j].ref
  BY DEF VarTypes, Word, Counts
<1>5. Counts' = Counts
  BY <1>3, <1>4
<1> QED BY <1>1, <1>2, <1>5 DEF RefAccount

\* A step of the core that retypes, or begins or ends it.
LEMMA TypeStep ==
  ASSUME TblInv, VarTypes', NEW c \in Cpu, \A d \in Cpu : d # c => pc'[d] = pc[d] /\ loc'[d] = loc[d],
         UNCHANGED <<pte, lost, flushed, tlb>>,
         pc[c] \notin Holds, pc'[c] \notin Holds \cup {"commit_flush", "ref", "ref_cas"},
         glb # "RETYPING" \/ pc[c] \in Busy, glb' = "RETYPING" <=> pc'[c] \in Busy,
         Settled', Progress(c)', Locals(c)',
         \A j \in Cpu : ent'[j].ref = ent[j].ref \/ ent'[j].ref = 0,
         pc'[c] # "frame_clear" => Sum(Counts', NCpu) = Cardinality(pte) + Cardinality(Holding) + lost,
         glb' = "UNTYPED" \/ pc'[c] = "frame_clear" => pte = {} /\ Holding = {} /\ lost = 0 /\ tlb \cap CosCpu = {}
  PROVE  TblInv'
<1>1. VarTypes /\ \A d \in Cpu : Bounded(d) /\ Locals(d) /\ Progress(d)
  BY DEF TblInv
<1>2. \A d \in Cpu : d # c => pc'[d] \notin Busy
  BY Alone
<1>3. One'
  BY <1>2 DEF One
<1>4. Holding' = Holding
  BY DEF Holding, Holds
<1>5. Clearing' # {} => pc'[c] = "frame_clear"
  BY <1>2 DEF Clearing, Busy
<1>6. c \in Clearing' <=> pc'[c] = "frame_clear"
  BY DEF Clearing
<1>7. RefAccount' /\ Free' /\ AskedFlushed'
  BY <1>4, <1>5, <1>6 DEF RefAccount, Free, AskedFlushed
<1>8. ASSUME NEW d \in Cpu PROVE Locals(d)' /\ Progress(d)' /\ Bounded(d)'
  <2>1. Locals(d)'
    BY <1>1 DEF Locals
  <2>2. Progress(d)'
    BY <1>2 DEF Progress, Busy
  <2>3. Bounded(d)'
    <3>1. ent[d].ref \in Int /\ MaxRef \in Nat
      BY <1>1, Sorts, RetypeAssumption
    <3>2. pc'[d] \in {"ref", "ref_cas"} => pc[d] \in {"ref", "ref_cas"}
      OBVIOUS
    <3>3. pc'[d] \in Holds => pc[d] \in Holds
      OBVIOUS
    <3>4. CASE ent'[d].ref = ent[d].ref
      BY <1>1, <3>2, <3>3, <3>4 DEF Bounded
    <3>5. CASE ent'[d].ref = 0
      BY <3>1, <3>5 DEF Bounded
    <3> QED BY <3>4, <3>5
  <2> QED BY <2>1, <2>2, <2>3
<1>9. \A d \in Cpu : Stale(d)'
  <2>1. pc[c] \notin {"deref", "stamp"} /\ pc'[c] # "commit_flush"
    BY DEF Holds
  <2> QED BY <2>1, StaleFrame
<1> QED BY <1>3, <1>7, <1>8, <1>9 DEF TblInv

\* A core that has seen the set untyped wants it typed.
LEMMA RetypeLook ==
  ASSUME TblInv, NEW c \in Cpu, retype_look(c)
  PROVE  TblInv'
<1>1. VarTypes /\ Locals(c) /\ pc[c] = "idle" /\ UNCHANGED <<glb, ent, flushed, pte, tlb, lost>>
  BY DEF TblInv, retype_look
<1>2. PICK t \in Typed : loc' = [loc EXCEPT ![c].type = t]
  BY DEF retype_look
<1>3. pc' \in [Cpu -> Labels] /\ pc'[c] = "type_lock" /\ \A d \in Cpu : d # c => pc'[d] = pc[d]
  BY <1>1, Goes DEF retype_look, Labels
<1>4. /\ loc' \in [Cpu -> LocType] /\ \A d \in Cpu : d # c => loc'[d] = loc[d]
      /\ loc'[c].k = loc[c].k /\ loc'[c].sum = loc[c].sum /\ loc'[c].type = t
  BY <1>1, <1>2 DEF VarTypes, LocType, Typed, Types
<1>5. VarTypes'
  BY <1>1, <1>3, <1>4 DEF VarTypes
<1>6. Others(c)
  BY <1>3, <1>4 DEF Others, Same
<1>7. Locals(c)'
  BY <1>1, <1>3, <1>4 DEF Locals
<1>8. \A d \in Cpu : Stale(d)'
  BY <1>1, <1>3, <1>4, StaleFrame
<1> QED BY <1>1, <1>3, <1>5, <1>6, <1>7, <1>8, QuietStep DEF Busy, Holds

\* It takes the global word, if it still is.
LEMMA TypeLock ==
  ASSUME TblInv, NEW c \in Cpu, type_lock(c)
  PROVE  TblInv'
<1>1. VarTypes /\ Locals(c) /\ Settled /\ pc[c] = "type_lock" /\ UNCHANGED <<ent, flushed, pte, tlb, lost>>
  BY DEF TblInv, type_lock
<1>2. CASE glb = "UNTYPED"
  <2>1. glb' = "RETYPING" /\ Goto(c, "type_cpu") /\ loc' = loc
    BY <1>2 DEF type_lock
  <2>2. pc' \in [Cpu -> Labels] /\ pc'[c] = "type_cpu" /\ \A d \in Cpu : d # c => pc'[d] = pc[d]
    BY <1>1, <2>1, Goes DEF Labels, Busy
  <2>3. VarTypes'
    BY <1>1, <2>1, <2>2 DEF VarTypes, Types
  <2>4. loc[c].k = 0 /\ loc[c].type \in Typed
    BY <1>1 DEF Locals
  <2>5. Locals(c)'
    BY <2>1, <2>2, <2>4 DEF Locals
  <2>6. Progress(c)'
    <3>1. \A j \in Cpu : ent[j].type = "UNTYPED" /\ ~(j < 0)
      BY <1>1, <1>2 DEF Settled, Cpu
    <3> QED BY <1>1, <2>1, <2>2, <2>4, <3>1 DEF Progress, WordType
  <2>7. Settled'
    BY <2>1 DEF Settled
  <2>8. Sum(Counts', NCpu) = Cardinality(pte) + Cardinality(Holding) + lost
    BY <1>1, <1>2, <2>3, SameSum
  <2> QED BY <1>1, <1>2, <2>1, <2>2, <2>3, <2>5, <2>6, <2>7, <2>8, TypeStep DEF Busy, Holds
<1>3. CASE glb # "UNTYPED"
  <2>1. Return(c) /\ glb' = glb
    BY <1>3 DEF type_lock
  <2>2. /\ pc' \in [Cpu -> Labels] /\ loc' \in [Cpu -> LocType]
        /\ pc'[c] = "idle" /\ loc'[c].k = 0 /\ loc'[c].sum = 0
        /\ \A d \in Cpu : d # c => pc'[d] = pc[d] /\ loc'[d] = loc[d]
        /\ Others(c)
    BY <1>1, <2>1, Returns
  <2>3. VarTypes'
    BY <1>1, <2>1, <2>2 DEF VarTypes
  <2>4. Locals(c)'
    BY <2>2 DEF Locals, Busy
  <2>5. \A d \in Cpu : Stale(d)'
    BY <1>1, <2>2, StaleFrame
  <2> QED BY <1>1, <2>1, <2>2, <2>3, <2>4, <2>5, QuietStep DEF Busy, Holds
<1> QED BY <1>2, <1>3

\* What a retyping core knows of the global word and of the others.
LEMMA Retypes ==
  ASSUME TblInv, NEW c \in Cpu, pc[c] \in Busy
  PROVE  /\ VarTypes /\ Locals(c) /\ Progress(c) /\ glb = "RETYPING" /\ loc[c].type \in Typed
         /\ loc[c].k \in Nat /\ loc[c].k <= NCpu /\ NCpu \in Nat /\ \A j \in Cpu : j \in Nat /\ j < NCpu
         /\ \A j \in Cpu : ent[j].type = WordType(pc[c], loc[c].type, loc[c].k, j)
<1>1. VarTypes /\ Locals(c) /\ Progress(c) /\ One
  BY DEF TblInv
<1>2. glb = "RETYPING" /\ loc[c].type \in Typed
  BY <1>1 DEF One, Locals
<1>3. \A j \in Cpu : ent[j].type = WordType(pc[c], loc[c].type, loc[c].k, j)
  BY <1>1 DEF Progress
<1> QED BY <1>1, <1>2, <1>3, Sorts

\* It sets the type of one word after the other.
LEMMA TypeCpu ==
  ASSUME TblInv, NEW c \in Cpu, type_cpu(c)
  PROVE  TblInv'
<1> DEFINE k == loc[c].k
           t == loc[c].type
<1>1. /\ pc[c] = "type_cpu" /\ pc[c] \in Busy /\ k < NCpu /\ UNCHANGED <<glb, flushed, pte, tlb, pc, lost>>
      /\ ent' = [ent EXCEPT ![k].type = t] /\ loc' = [loc EXCEPT ![c].k = @ + 1]
  BY DEF type_cpu, Busy
<1>2. /\ VarTypes /\ Locals(c) /\ glb = "RETYPING" /\ t \in Typed
      /\ k \in Nat /\ k <= NCpu /\ NCpu \in Nat /\ \A j \in Cpu : j \in Nat /\ j < NCpu
      /\ \A j \in Cpu : ent[j].type = WordType(pc[c], t, k, j)
  BY <1>1, Retypes
<1>3. k \in Cpu /\ k + 1 \in 0 .. NCpu
  BY <1>1, <1>2 DEF Cpu
<1>4. /\ loc' \in [Cpu -> LocType] /\ loc'[c].k = k + 1 /\ loc'[c].type = t
      /\ \A d \in Cpu : d # c => loc'[d] = loc[d]
  BY <1>1, <1>2, <1>3, SMTT(30) DEF VarTypes, LocType
<1>5. /\ ent' \in [Cpu -> Word] /\ \A j \in Cpu : ent'[j].ref = ent[j].ref
      /\ \A j \in Cpu : ent'[j].type = IF j = k THEN t ELSE ent[j].type
  BY <1>1, <1>2, <1>3 DEF VarTypes, Word, Typed, Types
<1>6. VarTypes'
  BY <1>1, <1>2, <1>4, <1>5 DEF VarTypes
<1>7. Locals(c)' /\ Settled'
  BY <1>1, <1>2, <1>4 DEF Locals, Settled
<1>8. Progress(c)'
  <2>1. ASSUME NEW j \in Cpu PROVE ent'[j].type = WordType("type_cpu", t, k + 1, j)
    <3>1. ent[j].type = IF j < k THEN t ELSE "UNTYPED"
      BY <1>1, <1>2 DEF WordType
    <3>2. j < k + 1 <=> j = k \/ j < k
      BY <1>2
    <3> HIDE DEF k, t
    <3> QED BY <1>5, <3>1, <3>2 DEF WordType
  <2> QED BY <1>1, <1>4, <2>1 DEF Progress
<1>9. Sum(Counts', NCpu) = Cardinality(pte) + Cardinality(Holding) + lost
  BY <1>1, <1>5, <1>6, SameSum
<1> QED BY <1>1, <1>2, <1>4, <1>5, <1>6, <1>7, <1>8, <1>9, TypeStep DEF Holds

\* The set is typed when all words are.
LEMMA TypeCommit ==
  ASSUME TblInv, NEW c \in Cpu, type_commit(c)
  PROVE  TblInv'
<1>1. /\ pc[c] = "type_cpu" /\ pc[c] \in Busy /\ loc[c].k = NCpu /\ UNCHANGED <<ent, flushed, pte, tlb, lost>>
      /\ glb' = loc[c].type /\ Return(c)
  BY DEF type_commit, Busy
<1>2. /\ VarTypes /\ loc[c].type \in Typed /\ \A j \in Cpu : j \in Nat /\ j < NCpu
      /\ \A j \in Cpu : ent[j].type = WordType(pc[c], loc[c].type, loc[c].k, j)
  BY <1>1, Retypes
<1>3. /\ pc' \in [Cpu -> Labels] /\ loc' \in [Cpu -> LocType]
      /\ pc'[c] = "idle" /\ loc'[c].k = 0 /\ loc'[c].sum = 0
      /\ \A d \in Cpu : d # c => pc'[d] = pc[d] /\ loc'[d] = loc[d]
  BY <1>1, <1>2, Returns
<1>4. VarTypes'
  BY <1>1, <1>2, <1>3 DEF VarTypes, Typed, Types
<1>5. Settled'
  BY <1>1, <1>2 DEF Settled, WordType
<1>6. Locals(c)' /\ Progress(c)'
  BY <1>3 DEF Locals, Progress, Busy
<1>7. Sum(Counts', NCpu) = Cardinality(pte) + Cardinality(Holding) + lost
  BY <1>1, <1>4, SameSum
<1>8. glb' # "RETYPING" /\ glb' # "UNTYPED" /\ pc'[c] \notin Busy
  BY <1>1, <1>2, <1>3 DEF Typed, Busy
<1> QED BY <1>1, <1>3, <1>4, <1>5, <1>6, <1>7, <1>8, TypeStep DEF Holds

-----------------------------------------------------------------------------
(* Freeing.                                                                 *)

\* A core that has seen the set typed wants it back.
LEMMA FrameLook ==
  ASSUME TblInv, NEW c \in Cpu, frame_look(c)
  PROVE  TblInv'
<1>1. VarTypes /\ Locals(c) /\ pc[c] = "idle" /\ glb \in Typed /\ UNCHANGED <<glb, ent, flushed, pte, tlb, lost>>
  BY DEF TblInv, frame_look
<1>2. loc' = [loc EXCEPT ![c].type = glb]
  BY DEF frame_look
<1>3. pc' \in [Cpu -> Labels] /\ pc'[c] = "frame_lock" /\ \A d \in Cpu : d # c => pc'[d] = pc[d]
  BY <1>1, Goes DEF frame_look, Labels
<1>4. /\ loc' \in [Cpu -> LocType] /\ \A d \in Cpu : d # c => loc'[d] = loc[d]
      /\ loc'[c].k = loc[c].k /\ loc'[c].sum = loc[c].sum /\ loc'[c].type = glb
  <2>1. loc[c] \in LocType /\ glb \in Types
    BY <1>1 DEF VarTypes
  <2>2. PICK w : w = [loc[c] EXCEPT !.type = glb]
    OBVIOUS
  <2>3. w \in LocType /\ w.k = loc[c].k /\ w.sum = loc[c].sum /\ w.type = glb
    BY <2>1, <2>2 DEF LocType
  <2>4. loc' = [loc EXCEPT ![c] = w]
    BY <1>1, <1>2, <2>2 DEF VarTypes
  <2> QED BY <1>1, <2>3, <2>4 DEF VarTypes
<1>5. VarTypes'
  BY <1>1, <1>3, <1>4 DEF VarTypes
<1>6. Others(c)
  BY <1>3, <1>4 DEF Others, Same
<1>7. Locals(c)'
  BY <1>1, <1>3, <1>4 DEF Locals
<1>8. \A d \in Cpu : Stale(d)'
  BY <1>1, <1>3, <1>4, StaleFrame
<1> QED BY <1>1, <1>3, <1>5, <1>6, <1>7, <1>8, QuietStep DEF Busy, Holds

\* It takes the global word, if it still is.
LEMMA FrameLock ==
  ASSUME TblInv, NEW c \in Cpu, frame_lock(c)
  PROVE  TblInv'
<1>1. VarTypes /\ Locals(c) /\ Settled /\ pc[c] = "frame_lock" /\ UNCHANGED <<ent, flushed, pte, tlb, loc, lost>>
  BY DEF TblInv, frame_lock
<1>2. loc[c].k = 0 /\ loc[c].sum = 0 /\ loc[c].type \in Typed
  BY <1>1 DEF Locals
<1>3. CASE glb = loc[c].type
  <2>1. glb' = "RETYPING" /\ Goto(c, "frame_read")
    BY <1>3 DEF frame_lock
  <2>2. pc' \in [Cpu -> Labels] /\ pc'[c] = "frame_read" /\ \A d \in Cpu : d # c => pc'[d] = pc[d]
    BY <1>1, <2>1, Goes DEF Labels, Busy
  <2>3. VarTypes'
    BY <1>1, <2>1, <2>2 DEF VarTypes, Types
  <2>4. Locals(c)' /\ Settled'
    BY <1>1, <1>2, <2>1, <2>2 DEF Locals, Settled
  <2>5. Progress(c)'
    <3>1. glb # "RETYPING"
      BY <1>2, <1>3 DEF Typed
    <3>2. \A j \in Cpu : ent[j].type = loc[c].type /\ ~(j < 0)
      BY <1>1, <1>3, <3>1 DEF Settled, Cpu
    <3>3. Counts' \in [Cpu -> Int]
      BY <2>3 DEF VarTypes, Word, Counts
    <3>4. Sum(Counts', 0) = 0
      BY <3>3, SumStep
    <3> QED BY <1>1, <1>2, <2>2, <3>2, <3>4 DEF Progress, WordType
  <2>6. glb # "RETYPING" /\ pc[c] # "frame_clear"
    BY <1>1, <1>2, <1>3 DEF Typed
  <2>7. Sum(Counts', NCpu) = Cardinality(pte) + Cardinality(Holding) + lost
    BY <1>1, <2>3, <2>6, SameSum
  <2> QED BY <1>1, <2>1, <2>2, <2>3, <2>4, <2>5, <2>6, <2>7, TypeStep DEF Busy, Holds
<1>4. CASE glb # loc[c].type
  <2>1. Goto(c, "returns_0") /\ glb' = glb
    BY <1>4 DEF frame_lock
  <2>2. pc' \in [Cpu -> Labels] /\ pc'[c] = "returns_0" /\ \A d \in Cpu : d # c => pc'[d] = pc[d]
    BY <1>1, <2>1, Goes DEF Labels
  <2>3. VarTypes'
    BY <1>1, <2>1, <2>2 DEF VarTypes
  <2>4. Others(c) /\ Locals(c)'
    BY <1>1, <2>2 DEF Others, Same, Locals, Busy
  <2>5. \A d \in Cpu : Stale(d)'
    BY <1>1, <2>2, StaleFrame
  <2> QED BY <1>1, <2>1, <2>2, <2>3, <2>4, <2>5, QuietStep DEF Busy, Holds
<1> QED BY <1>3, <1>4

\* It reads a word that has the type it saw: the assertion of retypetbl_retype2frame.
LEMMA FrameRead ==
  ASSUME TblInv, NEW c \in Cpu, frame_read(c)
  PROVE  TblInv'
<1> DEFINE k == loc[c].k
           t == loc[c].type
<1>1. /\ pc[c] = "frame_read" /\ pc[c] \in Busy /\ k < NCpu /\ UNCHANGED <<glb, ent, flushed, pte, tlb, lost>>
      /\ loc' = [loc EXCEPT ![c].old = ent[k]]
  BY DEF frame_read, Busy
<1>2. /\ VarTypes /\ Locals(c) /\ Progress(c) /\ glb = "RETYPING" /\ t \in Typed
      /\ k \in Nat /\ k <= NCpu /\ NCpu \in Nat /\ \A j \in Cpu : j \in Nat /\ j < NCpu
      /\ \A j \in Cpu : ent[j].type = WordType(pc[c], t, k, j)
  BY <1>1, Retypes
<1>3. pc' \in [Cpu -> Labels] /\ pc'[c] = "frame_cas" /\ \A d \in Cpu : d # c => pc'[d] = pc[d]
  BY <1>2, Goes DEF frame_read, Labels, Busy
<1>4. k \in Cpu /\ ent[k] \in Word /\ ent[k].type = t
  BY <1>1, <1>2, SMTT(30) DEF Cpu, VarTypes, WordType
<1>5. /\ loc' \in [Cpu -> LocType] /\ loc'[c].k = k /\ loc'[c].type = t /\ loc'[c].sum = loc[c].sum
      /\ loc'[c].old = ent[k] /\ \A d \in Cpu : d # c => loc'[d] = loc[d]
  BY <1>1, <1>2, <1>4, SMTT(30) DEF VarTypes, LocType
<1>6. VarTypes'
  BY <1>1, <1>2, <1>3, <1>5 DEF VarTypes
<1>7. Locals(c)' /\ Settled'
  BY <1>1, <1>2, <1>3, <1>4, <1>5 DEF Locals, Settled
<1>8. Progress(c)'
  <2>1. Counts' = Counts
    BY <1>1 DEF Counts
  <2> QED BY <1>1, <1>2, <1>3, <1>5, <2>1 DEF Progress, WordType
<1>9. Sum(Counts', NCpu) = Cardinality(pte) + Cardinality(Holding) + lost
  BY <1>1, <1>6, SameSum
<1> QED BY <1>1, <1>2, <1>3, <1>5, <1>6, <1>7, <1>8, <1>9, TypeStep DEF Holds, Busy

\* It locks the word with the count it adds, or goes back.
LEMMA FrameCas ==
  ASSUME TblInv, NEW c \in Cpu, frame_cas(c)
  PROVE  TblInv'
<1> DEFINE k == loc[c].k
           t == loc[c].type
<1>1. pc[c] = "frame_cas" /\ pc[c] \in Busy /\ UNCHANGED <<glb, flushed, pte, tlb, lost>>
  BY DEF frame_cas, Busy
<1>2. /\ VarTypes /\ Locals(c) /\ Progress(c) /\ glb = "RETYPING" /\ t \in Typed
      /\ k \in Nat /\ k <= NCpu /\ NCpu \in Nat /\ \A j \in Cpu : j \in Nat /\ j < NCpu
      /\ \A j \in Cpu : ent[j].type = WordType(pc[c], t, k, j)
  BY <1>1, Retypes
<1>3. k < NCpu /\ k \in Cpu /\ k + 1 \in 0 .. NCpu /\ ent[k].ref \in Int /\ loc[c].sum \in Int
  BY <1>1, <1>2, Sorts DEF Locals, Cpu
<1>4. Counts \in [Cpu -> Int] /\ \A j \in Cpu : Counts[j] = ent[j].ref
  BY <1>2, CountsType
<1>5. CASE ent[k] = loc[c].old
  <2>1. /\ ent' = [ent EXCEPT ![k].type = "RETYPING"] /\ Goto(c, "frame_read")
        /\ loc' = [loc EXCEPT ![c].k = k + 1, ![c].sum = @ + ent[k].ref]
    BY <1>5 DEF frame_cas
  <2>2. pc' \in [Cpu -> Labels] /\ pc'[c] = "frame_read" /\ \A d \in Cpu : d # c => pc'[d] = pc[d]
    BY <1>2, <2>1, Goes DEF Labels, Busy
  <2>3. /\ loc' \in [Cpu -> LocType] /\ loc'[c].k = k + 1 /\ loc'[c].type = t
        /\ loc'[c].sum = loc[c].sum + ent[k].ref /\ \A d \in Cpu : d # c => loc'[d] = loc[d]
    <3>1. loc[c] \in LocType
      BY <1>2 DEF VarTypes
    <3>2. PICK m \in Int : m = loc[c].sum + ent[k].ref
      BY <1>3
    <3>a. PICK n \in 0 .. NCpu : n = k + 1
      BY <1>3
    <3>b. PICK u : u = loc[c]
      OBVIOUS
    <3>c. PICK w : w = [u EXCEPT !.k = n, !.sum = m]
      OBVIOUS
    <3>d. w \in LocType /\ w.k = n /\ w.type = u.type /\ w.sum = m
      <4>1. u \in LocType
        BY <3>1, <3>b
      <4> HIDE DEF k, t
      <4> QED BY <4>1, <3>c DEF LocType
    <3>3. w \in LocType /\ w.k = k + 1 /\ w.type = t /\ w.sum = loc[c].sum + ent[k].ref
      BY <3>2, <3>a, <3>b, <3>d
    <3>4. loc' = [loc EXCEPT ![c] = w]
      BY <1>2, <2>1, <3>2, <3>a, <3>b, <3>c DEF VarTypes
    <3> QED BY <1>2, <3>3, <3>4 DEF VarTypes
  <2>4. /\ ent' \in [Cpu -> Word] /\ \A j \in Cpu : ent'[j].ref = ent[j].ref
        /\ \A j \in Cpu : ent'[j].type = IF j = k THEN "RETYPING" ELSE ent[j].type
    BY <1>2, <1>3, <2>1 DEF VarTypes, Word, Types
  <2>5. VarTypes'
    BY <1>1, <1>2, <2>2, <2>3, <2>4 DEF VarTypes
  <2>6. Locals(c)' /\ Settled'
    BY <1>1, <1>2, <2>2, <2>3 DEF Locals, Settled
  <2>7. \A j \in Cpu : ent'[j].type = WordType("frame_read", t, k + 1, j)
    <3>1. ASSUME NEW j \in Cpu PROVE ent'[j].type = WordType("frame_read", t, k + 1, j)
      <4>1. ent[j].type = IF j < k THEN "RETYPING" ELSE t
        BY <1>1, <1>2 DEF WordType
      <4>2. j < k + 1 <=> j = k \/ j < k
        BY <1>2
      <4> HIDE DEF k, t
      <4> QED BY <2>4, <4>1, <4>2 DEF WordType
    <3> QED BY <3>1
  <2>8. loc'[c].sum = Sum(Counts', k + 1)
    <3>1. Counts' = Counts
      BY <2>4 DEF Counts
    <3>2. Sum(Counts, k + 1) = Sum(Counts, k) + Counts[k]
      BY ONLY <1>3, <1>4, SumStep
    <3>3. loc[c].sum = Sum(Counts, k)
      BY <1>1, <1>2 DEF Progress
    <3> QED BY <1>3, <1>4, <2>3, <3>1, <3>2, <3>3
  <2>9. Progress(c)'
    BY <2>2, <2>3, <2>7, <2>8 DEF Progress
  <2>10. Sum(Counts', NCpu) = Cardinality(pte) + Cardinality(Holding) + lost
    BY <1>1, <2>4, <2>5, SameSum
  <2> QED BY <1>1, <1>2, <2>2, <2>3, <2>4, <2>5, <2>6, <2>9, <2>10, TypeStep DEF Holds, Busy
<1>6. CASE ent[k] # loc[c].old
  <2>1. ent' = ent /\ Goto(c, "restore") /\ loc' = loc
    BY <1>6 DEF frame_cas
  <2>2. pc' \in [Cpu -> Labels] /\ pc'[c] = "restore" /\ \A d \in Cpu : d # c => pc'[d] = pc[d]
    BY <1>2, <2>1, Goes DEF Labels, Busy
  <2>3. VarTypes'
    BY <1>1, <1>2, <2>1, <2>2 DEF VarTypes
  <2>4. Locals(c)' /\ Settled'
    BY <1>1, <1>2, <2>1, <2>2 DEF Locals, Settled
  <2>5. Progress(c)'
    BY <1>1, <1>2, <2>1, <2>2 DEF Progress, WordType
  <2>6. Sum(Counts', NCpu) = Cardinality(pte) + Cardinality(Holding) + lost
    BY <1>1, <2>1, <2>3, SameSum
  <2> QED BY <1>1, <1>2, <2>1, <2>2, <2>3, <2>4, <2>5, <2>6, TypeStep DEF Holds, Busy
<1> QED BY <1>5, <1>6

\* The sum of the locked counts decides: if it is 0, nobody maps the set or is about to, no
\* release has failed, and with the flushes no translation is left.
LEMMA FrameSum ==
  ASSUME TblInv, NEW c \in Cpu, frame_sum(c)
  PROVE  TblInv'
<1> DEFINE t == loc[c].type
<1>1. /\ pc[c] = "frame_read" /\ pc[c] \in Busy /\ loc[c].k = NCpu
      /\ UNCHANGED <<glb, ent, flushed, pte, tlb, lost>>
  BY DEF frame_sum, Busy
<1>2. /\ VarTypes /\ Locals(c) /\ Progress(c) /\ glb = "RETYPING" /\ t \in Typed
      /\ NCpu \in Nat /\ \A j \in Cpu : j \in Nat /\ j < NCpu
      /\ \A j \in Cpu : ent[j].type = WordType(pc[c], t, loc[c].k, j)
  BY <1>1, Retypes
<1>3. Counts' = Counts /\ Settled'
  BY <1>1, <1>2 DEF Counts, Settled
<1>4. CASE loc[c].sum = 0 /\ tlb_quiescence_check
  <2>1. Goto(c, "frame_clear") /\ loc' = [loc EXCEPT ![c].k = 0]
    BY <1>4 DEF frame_sum
  <2>2. pc' \in [Cpu -> Labels] /\ pc'[c] = "frame_clear" /\ \A d \in Cpu : d # c => pc'[d] = pc[d]
    BY <1>2, <2>1, Goes DEF Labels, Busy
  <2>3. loc' \in [Cpu -> LocType] /\ loc'[c].k = 0 /\ loc'[c].type = t /\ \A d \in Cpu : d # c => loc'[d] = loc[d]
    BY <1>2, <2>1 DEF VarTypes, LocType
  <2>4. VarTypes'
    BY <1>1, <1>2, <2>2, <2>3 DEF VarTypes
  <2>5. Locals(c)'
    BY <1>2, <2>2, <2>3 DEF Locals
  <2>6. Progress(c)'
    <3>1. \A j \in Cpu : ent'[j].type = "RETYPING" /\ ~(j < 0)
      BY <1>1, <1>2 DEF WordType
    <3> QED BY <2>2, <2>3, <3>1 DEF Progress, WordType
  <2>7. Cardinality(pte) + Cardinality(Holding) + lost = 0
    <3>1. Sum(Counts, NCpu) = 0
      BY <1>1, <1>2, <1>4 DEF Progress
    <3>2. Sum(Counts', NCpu) = Cardinality(pte) + Cardinality(Holding) + lost
      BY <1>1, <2>4, SameSum
    <3> QED BY <1>3, <3>1, <3>2
  <2>8. pte = {} /\ Holding = {} /\ lost = 0
    <3>1. Cardinality(pte) \in Nat /\ (Cardinality(pte) = 0 <=> pte = {}) /\ lost \in Nat
      BY <1>2, Entries DEF VarTypes
    <3>2. IsFiniteSet(Holding)
      <4>1. IsFiniteSet(Cpu)
        BY FS_Interval, RetypeAssumption DEF Cpu
      <4>2. Holding \subseteq Cpu
        BY DEF Holding
      <4> QED BY <4>1, <4>2, FS_Subset
    <3>3. Cardinality(Holding) \in Nat /\ (Cardinality(Holding) = 0 <=> Holding = {})
      BY <3>2, FS_CardinalityType, FS_EmptySet
    <3>4. Cardinality(pte) = 0 /\ Cardinality(Holding) = 0 /\ lost = 0
      BY <2>7, <3>1, <3>3
    <3> QED BY <3>1, <3>3, <3>4
  <2>9. ASSUME NEW d \in tlb \cap CosCpu PROVE FALSE
    <3>1. d \in Cpu /\ Stale(d)
      BY <1>2 DEF VarTypes, TblInv
    <3>2. \A h \in Cpu : d \in flushed[h]
      BY <1>4 DEF tlb_quiescence_check
    <3>3. \A h \in Cpu : pc[h] \notin {"deref", "stamp"}
      BY <2>8 DEF Holding
    <3> QED BY <2>8, <3>1, <3>2, <3>3 DEF Stale
  <2> QED BY <1>1, <1>2, <1>3, <2>2, <2>3, <2>4, <2>5, <2>6, <2>8, <2>9, TypeStep DEF Holds, Busy
<1>5. CASE ~(loc[c].sum = 0 /\ tlb_quiescence_check)
  <2>1. Goto(c, "restore") /\ loc' = loc
    BY <1>5 DEF frame_sum
  <2>2. pc' \in [Cpu -> Labels] /\ pc'[c] = "restore" /\ \A d \in Cpu : d # c => pc'[d] = pc[d]
    BY <1>2, <2>1, Goes DEF Labels, Busy
  <2>3. VarTypes'
    BY <1>1, <1>2, <2>1, <2>2 DEF VarTypes
  <2>4. Locals(c)'
    BY <1>2, <2>1, <2>2 DEF Locals
  <2>5. Progress(c)'
    BY <1>1, <1>2, <2>1, <2>2 DEF Progress, WordType
  <2>6. Sum(Counts', NCpu) = Cardinality(pte) + Cardinality(Holding) + lost
    BY <1>1, <2>3, SameSum
  <2> QED BY <1>1, <1>2, <1>3, <2>1, <2>2, <2>3, <2>4, <2>5, <2>6, TypeStep DEF Holds, Busy
<1> QED BY <1>4, <1>5

\* It clears one word after the other.
LEMMA FrameClear ==
  ASSUME TblInv, NEW c \in Cpu, frame_clear(c)
  PROVE  TblInv'
<1> DEFINE k == loc[c].k
           w == [type |-> "UNTYPED", ref |-> 0]
<1>1. /\ pc[c] = "frame_clear" /\ pc[c] \in Busy /\ k < NCpu /\ UNCHANGED <<glb, flushed, pte, tlb, pc, lost>>
      /\ ent' = [ent EXCEPT ![k] = w] /\ loc' = [loc EXCEPT ![c].k = @ + 1]
  BY DEF frame_clear, Busy
<1>2. /\ VarTypes /\ Locals(c) /\ Progress(c) /\ glb = "RETYPING" /\ loc[c].type \in Typed
      /\ k \in Nat /\ k <= NCpu /\ NCpu \in Nat /\ \A j \in Cpu : j \in Nat /\ j < NCpu
      /\ \A j \in Cpu : ent[j].type = WordType(pc[c], loc[c].type, k, j)
  BY <1>1, Retypes
<1>3. k \in Cpu /\ k + 1 \in 0 .. NCpu
  BY <1>1, <1>2 DEF Cpu
<1>4. /\ loc' \in [Cpu -> LocType] /\ loc'[c].k = k + 1 /\ loc'[c].type = loc[c].type
      /\ \A d \in Cpu : d # c => loc'[d] = loc[d]
  BY <1>1, <1>2, <1>3 DEF VarTypes, LocType
<1>5. /\ ent' \in [Cpu -> Word] /\ \A j \in Cpu : ent'[j].ref = IF j = k THEN 0 ELSE ent[j].ref
      /\ \A j \in Cpu : ent'[j].type = IF j = k THEN "UNTYPED" ELSE ent[j].type
  BY <1>1, <1>2, <1>3 DEF VarTypes, Word, Types
<1>6. VarTypes'
  BY <1>1, <1>2, <1>4, <1>5 DEF VarTypes
<1>7. Locals(c)' /\ Settled'
  BY <1>1, <1>2, <1>4 DEF Locals, Settled
<1>8. Progress(c)'
  <2>1. ASSUME NEW j \in Cpu
        PROVE  ent'[j].type = WordType("frame_clear", loc[c].type, k + 1, j) /\ (j < k + 1 => ent'[j].ref = 0)
    <3>1. ent[j].type = (IF j < k THEN "UNTYPED" ELSE "RETYPING") /\ (j < k => ent[j].ref = 0)
      BY <1>1, <1>2 DEF WordType, Progress
    <3>2. j < k + 1 <=> j = k \/ j < k
      BY <1>2
    <3> HIDE DEF k, w
    <3> QED BY <1>5, <3>1, <3>2 DEF WordType
  <2> QED BY <1>1, <1>4, <2>1 DEF Progress
<1>9. pte = {} /\ Holding = {} /\ lost = 0 /\ tlb \cap CosCpu = {}
  <2>1. c \in Clearing
    BY <1>1 DEF Clearing
  <2> QED BY <2>1 DEF TblInv, Free, AskedFlushed
<1>10. \A j \in Cpu : ent'[j].ref = ent[j].ref \/ ent'[j].ref = 0
  BY <1>5
<1> HIDE DEF k, w
<1> QED BY <1>1, <1>2, <1>4, <1>6, <1>7, <1>8, <1>9, <1>10, TypeStep DEF Holds

\* The set is free when all words are.
LEMMA FrameCommit ==
  ASSUME TblInv, NEW c \in Cpu, frame_commit(c)
  PROVE  TblInv'
<1>1. /\ pc[c] = "frame_clear" /\ pc[c] \in Busy /\ loc[c].k = NCpu /\ UNCHANGED <<ent, flushed, pte, tlb, lost>>
      /\ glb' = "UNTYPED" /\ loc' = [loc EXCEPT ![c].freed = TRUE]
  BY DEF frame_commit, Busy
<1>2. /\ VarTypes /\ Progress(c) /\ \A j \in Cpu : j \in Nat /\ j < NCpu
      /\ \A j \in Cpu : ent[j].type = WordType(pc[c], loc[c].type, loc[c].k, j)
  BY <1>1, Retypes
<1>3. pc' \in [Cpu -> Labels] /\ pc'[c] = "returns_0" /\ \A d \in Cpu : d # c => pc'[d] = pc[d]
  BY <1>2, Goes DEF frame_commit, Labels
<1>4. loc' \in [Cpu -> LocType] /\ \A d \in Cpu : d # c => loc'[d] = loc[d]
  <2>1. TRUE \in BOOLEAN
    BY Zenon
  <2> QED BY <1>1, <1>2, <2>1, ZenonT(60) DEF VarTypes, LocType
<1>5. VarTypes'
  BY <1>1, <1>2, <1>3, <1>4 DEF VarTypes, Types
<1>6. \A j \in Cpu : ent[j].type = "UNTYPED" /\ ent[j].ref = 0
  BY <1>1, <1>2 DEF WordType, Progress
<1>7. Settled' /\ Locals(c)' /\ Progress(c)'
  BY <1>1, <1>3, <1>6 DEF Settled, Locals, Progress, Busy
<1>8. pte = {} /\ Holding = {} /\ lost = 0 /\ tlb \cap CosCpu = {}
  <2>1. c \in Clearing
    BY <1>1 DEF Clearing
  <2> QED BY <2>1 DEF TblInv, Free, AskedFlushed
<1>9. Sum(Counts', NCpu) = Cardinality(pte) + Cardinality(Holding) + lost
  <2>1. Counts' \in [Cpu -> Int] /\ \A j \in Cpu : Counts'[j] = 0
    BY <1>1, <1>5, <1>6 DEF VarTypes, Word, Counts
  <2>2. Sum(Counts', NCpu) = 0
    BY <2>1, SumZero
  <2> QED BY <1>8, <2>2, FS_EmptySet
<1> QED BY <1>1, <1>3, <1>4, <1>5, <1>7, <1>8, <1>9, TypeStep DEF Holds, Busy

\* Or it gives every word its type back,
LEMMA FrameRestore ==
  ASSUME TblInv, NEW c \in Cpu, frame_restore(c)
  PROVE  TblInv'
<1> DEFINE k == loc[c].k
           t == loc[c].type
<1>1. /\ pc[c] = "restore" /\ pc[c] \in Busy /\ k > 0 /\ UNCHANGED <<glb, flushed, pte, tlb, pc, lost>>
      /\ ent' = [ent EXCEPT ![k - 1].type = t] /\ loc' = [loc EXCEPT ![c].k = @ - 1]
  BY DEF frame_restore, Busy
<1>2. /\ VarTypes /\ Locals(c) /\ glb = "RETYPING" /\ t \in Typed
      /\ k \in Nat /\ k <= NCpu /\ NCpu \in Nat /\ \A j \in Cpu : j \in Nat /\ j < NCpu
      /\ \A j \in Cpu : ent[j].type = WordType(pc[c], t, k, j)
  BY <1>1, Retypes
<1>3. k - 1 \in Cpu /\ k - 1 \in 0 .. NCpu
  BY <1>1, <1>2 DEF Cpu
<1>4. /\ loc' \in [Cpu -> LocType] /\ loc'[c].k = k - 1 /\ loc'[c].type = t
      /\ \A d \in Cpu : d # c => loc'[d] = loc[d]
  <2>1. loc[c] \in LocType
    BY <1>2 DEF VarTypes
  <2>2. PICK w : w = [loc[c] EXCEPT !.k = k - 1]
    OBVIOUS
  <2>3. w \in LocType /\ w.k = k - 1 /\ w.type = t
    BY <1>3, <2>1, <2>2 DEF LocType
  <2>4. loc' = [loc EXCEPT ![c] = w]
    BY <1>1, <1>2, <2>2 DEF VarTypes
  <2> QED BY <1>2, <2>3, <2>4 DEF VarTypes
<1>5. /\ ent' \in [Cpu -> Word] /\ \A j \in Cpu : ent'[j].ref = ent[j].ref
      /\ \A j \in Cpu : ent'[j].type = IF j = k - 1 THEN t ELSE ent[j].type
  BY <1>1, <1>2, <1>3 DEF VarTypes, Word, Typed, Types
<1>6. VarTypes'
  BY <1>1, <1>2, <1>4, <1>5 DEF VarTypes
<1>7. Locals(c)' /\ Settled'
  BY <1>1, <1>2, <1>4 DEF Locals, Settled
<1>8. Progress(c)'
  <2>1. ASSUME NEW j \in Cpu PROVE ent'[j].type = WordType("restore", t, k - 1, j)
    <3>1. ent[j].type = IF j < k THEN "RETYPING" ELSE t
      BY <1>1, <1>2 DEF WordType
    <3>2. j < k <=> j = k - 1 \/ j < k - 1
      BY <1>2
    <3>3. ~(k - 1 < k - 1)
      BY <1>2
    <3> HIDE DEF k, t
    <3> QED BY <1>5, <3>1, <3>2, <3>3 DEF WordType
  <2> QED BY <1>1, <1>4, <2>1 DEF Progress
<1>9. Sum(Counts', NCpu) = Cardinality(pte) + Cardinality(Holding) + lost
  BY <1>1, <1>5, <1>6, SameSum
<1> QED BY <1>1, <1>2, <1>4, <1>5, <1>6, <1>7, <1>8, <1>9, TypeStep DEF Holds

\* and the global word in the end.
LEMMA FrameRestoreGlb ==
  ASSUME TblInv, NEW c \in Cpu, frame_restore_glb(c)
  PROVE  TblInv'
<1>1. /\ pc[c] = "restore" /\ pc[c] \in Busy /\ loc[c].k = 0 /\ UNCHANGED <<ent, flushed, pte, tlb, lost>>
      /\ glb' = loc[c].type /\ Return(c)
  BY DEF frame_restore_glb, Busy
<1>2. /\ VarTypes /\ loc[c].type \in Typed /\ \A j \in Cpu : j \in Nat /\ j < NCpu
      /\ \A j \in Cpu : ent[j].type = WordType(pc[c], loc[c].type, loc[c].k, j)
  BY <1>1, Retypes
<1>3. /\ pc' \in [Cpu -> Labels] /\ loc' \in [Cpu -> LocType]
      /\ pc'[c] = "idle" /\ loc'[c].k = 0 /\ loc'[c].sum = 0
      /\ \A d \in Cpu : d # c => pc'[d] = pc[d] /\ loc'[d] = loc[d]
  BY <1>1, <1>2, Returns
<1>4. VarTypes'
  BY <1>1, <1>2, <1>3 DEF VarTypes, Typed, Types
<1>5. Settled'
  BY <1>1, <1>2 DEF Settled, WordType
<1>6. Locals(c)' /\ Progress(c)'
  BY <1>3 DEF Locals, Progress, Busy
<1>7. Sum(Counts', NCpu) = Cardinality(pte) + Cardinality(Holding) + lost
  BY <1>1, <1>4, SameSum
<1>8. glb' # "RETYPING" /\ glb' # "UNTYPED" /\ pc'[c] \notin Busy
  BY <1>1, <1>2, <1>3 DEF Typed, Busy
<1> QED BY <1>1, <1>3, <1>4, <1>5, <1>6, <1>7, <1>8, TypeStep DEF Holds

\* It returns to its caller.
LEMMA FrameReturn ==
  ASSUME TblInv, NEW c \in Cpu, frame_return(c)
  PROVE  TblInv'
<1>1. VarTypes /\ pc[c] = "returns_0" /\ Return(c) /\ UNCHANGED <<glb, ent, flushed, pte, tlb, lost>>
  BY DEF TblInv, frame_return
<1>2. /\ pc' \in [Cpu -> Labels] /\ loc' \in [Cpu -> LocType]
      /\ pc'[c] = "idle" /\ loc'[c].k = 0 /\ loc'[c].sum = 0
      /\ \A d \in Cpu : d # c => pc'[d] = pc[d] /\ loc'[d] = loc[d]
      /\ Others(c)
  BY <1>1, Returns
<1>3. VarTypes'
  BY <1>1, <1>2 DEF VarTypes
<1>4. Locals(c)'
  BY <1>2 DEF Locals, Busy
<1>5. \A d \in Cpu : Stale(d)'
  BY <1>1, <1>2, StaleFrame
<1> QED BY <1>1, <1>2, <1>3, <1>4, <1>5, QuietStep DEF Busy, Holds

-----------------------------------------------------------------------------
(* Translation caches.                                                      *)

\* A flush reads the time first: it will count for every stamp so far.
LEMMA FlushTsc ==
  ASSUME TblInv, NEW c \in Cpu, flush_tsc(c)
  PROVE  TblInv'
<1>1. VarTypes /\ Locals(c) /\ pc[c] = "idle" /\ UNCHANGED <<glb, ent, flushed, pte, tlb, lost>>
  BY DEF TblInv, flush_tsc
<1>2. loc' = [loc EXCEPT ![c].seen = Cpu]
  BY DEF flush_tsc
<1>3. pc' \in [Cpu -> Labels] /\ pc'[c] = "flush" /\ \A d \in Cpu : d # c => pc'[d] = pc[d]
  BY <1>1, Goes DEF flush_tsc, Labels
<1>4. loc' \in [Cpu -> LocType] /\ \A d \in Cpu : d # c => loc'[d] = loc[d]
  BY <1>1, <1>2 DEF VarTypes, LocType
<1>5. VarTypes'
  BY <1>1, <1>3, <1>4 DEF VarTypes
<1>6. Others(c)
  BY <1>3, <1>4 DEF Others, Same
<1>7. Locals(c)'
  BY <1>3 DEF Locals, Busy
<1>8. \A d \in Cpu : Stale(d)'
  BY <1>1, <1>3, <1>4, StaleFrame
<1> QED BY <1>1, <1>3, <1>5, <1>6, <1>7, <1>8, QuietStep DEF Busy, Holds

\* Then it empties the cache,
LEMMA FlushTlb ==
  ASSUME TblInv, NEW c \in Cpu, flush_tlb(c)
  PROVE  TblInv'
<1>1. VarTypes /\ pc[c] = "flush" /\ UNCHANGED <<glb, ent, flushed, pte, loc, lost>> /\ tlb' = tlb \ {c}
  BY DEF TblInv, flush_tlb
<1>2. pc' \in [Cpu -> Labels] /\ pc'[c] = "commit_flush" /\ \A d \in Cpu : d # c => pc'[d] = pc[d]
  BY <1>1, Goes DEF flush_tlb, Labels
<1>3. VarTypes'
  BY <1>1, <1>2 DEF VarTypes
<1>4. Others(c) /\ Locals(c)'
  BY <1>1, <1>2 DEF Others, Same, Locals, Busy
<1>5. ASSUME NEW d \in Cpu PROVE Stale(d)'
  <2> SUFFICES ASSUME d \in tlb' PROVE Stale(d)'
    BY DEF Stale
  <2>1. d # c /\ d \in tlb /\ pc'[d] = pc[d] /\ Stale(d)
    BY <1>1, <1>2 DEF TblInv
  <2>2. \A h \in Cpu : pc[h] \in {"deref", "stamp"} => pc'[h] \in {"deref", "stamp"}
    BY <1>1, <1>2
  <2> QED BY <1>1, <2>1, <2>2 DEF Stale
<1> QED BY <1>1, <1>2, <1>3, <1>4, <1>5, QuietStep DEF Busy, Holds

\* and notes that it has, for the stamps it was ahead of.
LEMMA FlushCommit ==
  ASSUME TblInv, NEW c \in Cpu, flush_commit(c)
  PROVE  TblInv'
<1>1. /\ VarTypes /\ pc[c] = "commit_flush" /\ Return(c) /\ UNCHANGED <<glb, ent, pte, tlb, lost>>
      /\ flushed' = [k \in Cpu |-> IF k \in loc[c].seen THEN flushed[k] \union {c} ELSE flushed[k]]
  BY DEF TblInv, flush_commit
<1>2. /\ pc' \in [Cpu -> Labels] /\ loc' \in [Cpu -> LocType]
      /\ pc'[c] = "idle" /\ loc'[c].k = 0 /\ loc'[c].sum = 0
      /\ \A d \in Cpu : d # c => pc'[d] = pc[d] /\ loc'[d] = loc[d]
      /\ Others(c)
  BY <1>1, Returns
<1>3. VarTypes'
  BY <1>1, <1>2 DEF VarTypes
<1>4. Locals(c)'
  BY <1>2 DEF Locals, Busy
<1>5. ASSUME NEW d \in Cpu PROVE Stale(d)'
  <2> SUFFICES ASSUME d \in tlb' PROVE Stale(d)'
    BY DEF Stale
  <2>1. d \in tlb /\ Stale(d)
    BY <1>1 DEF TblInv
  <2>2. \A h \in Cpu : pc[h] \in {"deref", "stamp"} => pc'[h] \in {"deref", "stamp"}
    BY <1>1, <1>2
  <2>3. CASE d = c
    <3>1. \A h \in Cpu : c \notin flushed[h] /\ h \notin loc[c].seen => c \notin flushed'[h]
      BY <1>1
    <3> QED BY <1>1, <1>2, <2>1, <2>2, <2>3, <3>1 DEF Stale
  <2>4. CASE d # c
    <3>1. \A h \in Cpu : d \notin flushed[h] => d \notin flushed'[h]
      BY <1>1, <2>4
    <3> QED BY <1>1, <1>2, <2>1, <2>2, <2>4, <3>1 DEF Stale
  <2> QED BY <2>3, <2>4
<1> QED BY <1>1, <1>2, <1>3, <1>4, <1>5, QuietStep DEF Busy, Holds

\* A processor caches a translation only of an entry that there is.
LEMMA TlbFill ==
  ASSUME TblInv, NEW c \in Cpu, tlb_fill(c)
  PROVE  TblInv'
<1>1. pte # {} /\ tlb' = tlb \cup {c} /\ UNCHANGED <<glb, ent, flushed, pte, pc, loc, lost>>
  BY DEF tlb_fill
<1>2. VarTypes'
  BY <1>1 DEF TblInv, VarTypes
<1>3. /\ (\A d \in Cpu : Bounded(d)' /\ Locals(d)') /\ One' /\ Settled'
      /\ Clearing' = Clearing /\ Holding' = Holding /\ Counts' = Counts
  BY <1>1 DEF TblInv, Bounded, Locals, One, Settled, Clearing, Holding, Counts
<1>4. \A d \in Cpu : Progress(d)'
  BY <1>1, <1>3 DEF TblInv, Progress
<1>5. \A d \in Cpu : Stale(d)'
  BY <1>1 DEF Stale
<1>6. RefAccount'
  BY <1>1, <1>3 DEF TblInv, RefAccount
<1>7. Free' /\ AskedFlushed'
  BY <1>1, <1>3 DEF TblInv, Free, AskedFlushed
<1> QED BY <1>2, <1>3, <1>4, <1>5, <1>6, <1>7 DEF TblInv

-----------------------------------------------------------------------------
(* The invariant, and what follows from it.                                 *)

\* retype_tbl_init: nothing is typed, mapped, counted or cached.
LEMMA Initially ==
  ASSUME Init
  PROVE  TblInv
<1>1. NoLoc \in LocType /\ NoLoc.k = 0 /\ NoLoc.sum = 0
  <2>1. PICK q : q \in Pte
    BY RetypeAssumption
  <2>2. (CHOOSE p \in Pte : TRUE) \in Pte
    BY <2>1
  <2>3. NCpu \in Nat
    BY RetypeAssumption
  <2>4. FALSE \in BOOLEAN
    BY Zenon
  <2> QED BY <2>2, <2>3, <2>4 DEF NoLoc, LocType, Word, Types
<1>2. /\ glb = "UNTYPED" /\ flushed = [c \in Cpu |-> Cpu] /\ pte = {} /\ tlb = {} /\ lost = 0
      /\ ent \in [Cpu -> Word] /\ \A c \in Cpu : ent[c].type = "UNTYPED" /\ ent[c].ref = 0
  BY DEF Init, Word, Types
<1>3. /\ pc \in [Cpu -> Labels] /\ loc \in [Cpu -> LocType]
      /\ \A c \in Cpu : pc[c] = "idle" /\ loc[c].k = 0 /\ loc[c].sum = 0
  BY <1>1 DEF Init, Labels
<1>4. VarTypes
  BY <1>2, <1>3 DEF VarTypes, Types
<1>5. ASSUME NEW c \in Cpu PROVE Bounded(c) /\ Locals(c) /\ Progress(c) /\ Stale(c)
  <2>1. MaxRef \in Nat
    BY RetypeAssumption
  <2>2. Bounded(c)
    BY <1>2, <1>3, <2>1 DEF Bounded, Holds
  <2> QED BY <1>2, <1>3, <2>2 DEF Locals, Progress, Stale, Busy
<1>6. One /\ Settled
  BY <1>2, <1>3 DEF One, Settled, Busy
<1>7. Holding = {} /\ Clearing = {}
  BY <1>3 DEF Holding, Clearing
<1>8. RefAccount
  <2>1. Counts \in [Cpu -> Int] /\ \A j \in Cpu : Counts[j] = 0
    BY <1>2 DEF Word, Counts
  <2>2. Sum(Counts, NCpu) = 0
    BY <2>1, SumZero
  <2> QED BY <1>2, <1>7, <2>2, FS_EmptySet DEF RefAccount
<1>9. Free /\ AskedFlushed
  BY <1>2, <1>7 DEF Free, AskedFlushed
<1> QED BY <1>4, <1>5, <1>6, <1>8, <1>9 DEF TblInv

\* No step of any core breaks it.
LEMMA TblInductive ==
  ASSUME CountsFit, TblInv, [Next]_vars
  PROVE  TblInv'
<1>1. CASE UNCHANGED vars
  <2>1. UNCHANGED <<glb, ent, flushed, pte, tlb, pc, loc, lost>>
    BY <1>1 DEF vars
  <2>2. VarTypes'
    BY <2>1 DEF TblInv, VarTypes
  <2>3. /\ (\A d \in Cpu : Bounded(d)' /\ Locals(d)' /\ Stale(d)') /\ One' /\ Settled'
        /\ Clearing' = Clearing /\ Holding' = Holding /\ Counts' = Counts
    BY <2>1 DEF TblInv, Bounded, Locals, Stale, One, Settled, Clearing, Holding, Counts
  <2>4. \A d \in Cpu : Progress(d)'
    BY <2>1, <2>3 DEF TblInv, Progress
  <2>5. RefAccount' /\ Free' /\ AskedFlushed'
    BY <2>1, <2>3 DEF TblInv, RefAccount, Free, AskedFlushed
  <2> QED BY <2>2, <2>3, <2>4, <2>5 DEF TblInv
<1>2. ASSUME NEW c \in Cpu, Kernel(c) \/ tlb_fill(c) PROVE TblInv'
  <2>1. CASE mapping(c)
    BY <2>1, MapLook, RefRead, RefCas, MapLeaf, MapDel, DerefRead, DerefStamp, DerefCas DEF mapping
  <2>2. CASE retype2mem(c)
    BY <2>2, RetypeLook, TypeLock, TypeCpu, TypeCommit DEF retype2mem
  <2>3. CASE retype2frame(c)
    BY <2>3, FrameLook, FrameLock, FrameRead, FrameCas, FrameSum, FrameClear, FrameCommit,
       FrameRestore, FrameRestoreGlb, FrameReturn DEF retype2frame
  <2>4. CASE tlb_flush(c)
    BY <2>4, FlushTsc, FlushTlb, FlushCommit DEF tlb_flush
  <2>5. CASE tlb_fill(c)
    BY <2>5, TlbFill
  <2> QED BY <1>2, <2>1, <2>2, <2>3, <2>4, <2>5 DEF Kernel
<1> QED BY <1>1, <1>2 DEF Next

\* The invariant of the table: as long as no count reaches an end of its field, the counts, the
\* types and the stamps of the cores are what the operations of kernel/retype_tbl.c expect.
THEOREM TblInvariance ==
  ASSUME CountsFit
  PROVE  Spec => []TblInv
<1>1. Init => TblInv
  BY Initially
<1>2. TblInv /\ [Next]_vars => TblInv'
  BY TblInductive
<1> QED BY <1>1, <1>2, PTL DEF Spec

\* The words of all cores add up to the mappings, the operations under way and the failed
\* releases, they have one type unless one core is retyping them, and retypetbl_retype2frame
\* reads the type it asserts.
THEOREM WordsOfCores ==
  ASSUME CountsFit
  PROVE  Spec => []WordsAgree
<1>1. ASSUME TblInv PROVE WordsAgree
  <2>1. TypeOK
    <3>1. \A c \in Cpu : loc[c].k \in 0 .. NCpu /\ loc[c].seen \subseteq Cpu
      BY <1>1, Sorts DEF TblInv
    <3>2. ASSUME NEW c \in Cpu PROVE ent[c] \in [type : Types, ref : -Half .. Half - 1]
      <4>1. ent[c].ref \in Int /\ ent[c].ref >= -(MaxRef + 1) /\ ent[c].ref <= MaxRef + 1
        BY <1>1, Sorts DEF TblInv, Bounded
      <4>2. Half \in Nat /\ MaxRef + 1 < Half /\ MaxRef \in Nat
        BY <1>1, RetypeAssumption DEF CountsFit
      <4>3. ent[c].ref \in -Half .. Half - 1
        BY <4>1, <4>2
      <4>4. ent[c] \in Word
        BY <1>1 DEF TblInv, VarTypes
      <4> HIDE DEF Half
      <4> QED BY <4>3, <4>4 DEF Word
    <3>3. ent \in [Cpu -> [type : Types, ref : -Half .. Half - 1]]
      BY <1>1, <3>2 DEF TblInv, VarTypes
    <3> QED BY <1>1, <3>1, <3>3 DEF TypeOK, TblInv, VarTypes
  <2>2. TypeAgreement
    <3>1. Retyping = {c \in Cpu : pc[c] \in Busy}
      BY DEF Retyping, Busy
    <3>2. (glb = "RETYPING") = (Retyping # {})
      BY <1>1, <3>1 DEF TblInv, One
    <3>3. Cardinality(Retyping) <= 1
      <4>1. CASE Retyping = {}
        BY <4>1, FS_EmptySet
      <4>2. ASSUME NEW c \in Retyping PROVE Cardinality(Retyping) <= 1
        <5>1. Retyping = {c}
          BY <1>1, <3>1 DEF TblInv, One
        <5> QED BY <5>1, FS_Singleton
      <4> QED BY <4>1, <4>2
    <3>4. glb # "RETYPING" => \A c \in Cpu : ent[c].type = glb
      BY <1>1 DEF TblInv, Settled
    <3>5. \A c \in Cpu : pc[c] = "frame_cas" => loc[c].old.type \in {loc[c].type, "RETYPING"}
      BY <1>1 DEF TblInv, Locals
    <3> QED BY <3>2, <3>3, <3>4, <3>5 DEF TypeAgreement
  <2> QED BY <1>1, <2>1, <2>2 DEF WordsAgree, TblInv
<1>2. TblInv => WordsAgree
  BY <1>1
<1> QED BY <1>2, TblInvariance, PTL

\* Memory that retypetbl_retype2frame gives back is neither mapped nor about to be mapped.
THEOREM FreedIsUnmapped ==
  ASSUME CountsFit
  PROVE  Spec => []FreeUnmapped
<1>1. TblInv => FreeUnmapped
  BY DEF TblInv, Free, FreeUnmapped
<1> QED BY <1>1, TblInvariance, PTL

\* The cores that tlb_quiescence_check asks, all but the last, have flushed it.
THEOREM AskedCoresFlushed ==
  ASSUME CountsFit
  PROVE  Spec => []AskedFlushed
<1>1. TblInv => AskedFlushed
  BY DEF TblInv
<1> QED BY <1>1, TblInvariance, PTL
=============================================================================
