---------------------------- MODULE SlThdProofs ----------------------------
(***************************************************************************)
(* Proofs about SlThd, for any finite sets of threads, any periods and any *)
(* length of time.                                                         *)
(***************************************************************************)
EXTENDS SlThd, FiniteSetTheorems, FunctionTheorems, SequenceTheorems, NaturalsInduction, WellFoundedInduction, TLAPS

\* Who makes which calls, as in EOS: a thread that calls sl_thd_block starts blocked and is
\* woken from other cores, and such a thread does not sleep.  README 3.3 tells what happens
\* otherwise.
Roles == Blocker \subseteq Waiting \cap Remote /\ Remote \cap (Sleeper \cup Periodic) = {}

States == {"FREE", "BLOCKED", "BLOCKED_TIMEOUT", "WOKEN", "RUNNABLE"}
Kinds == {"run", "block", "timeout", "periodic"}

\* Lists of threads by priority, on which each thread is once at most.
OnceEach(s) == \A i, j \in 1 .. Len(s) : s[i] = s[j] => i = j
Lists(q) ==
  /\ q \in [{1, 2} -> Seq(Thread)]
  /\ \A p \in {1, 2} : OnceEach(q[p]) /\ \A i \in 1 .. Len(q[p]) : Prio(q[p][i]) = p

\* The threads on them.
Listed(q) == {t \in Thread : Contains(q[Prio(t)], t)}

\* Types, without the lists.
Types ==
  /\ now \in 1 .. MaxNow /\ timer \in 1 .. MaxNow + Period /\ curr \in Thread
  /\ state \in [Thread -> States] /\ cnt \in [Thread -> Nat]
  /\ timeout \in [Thread -> Nat] /\ wakeup \in [Thread -> 0 .. MaxNow]
  /\ last \in [Thread -> Nat] /\ woken \in [Thread -> Nat]
  /\ call \in [Thread -> Kinds \X Nat]

\* Where t is kept for its state s, run queue q and timeout heap sq.
PlaceOf(t, s, q, sq) ==
  IF t = Idle THEN s[t] = "RUNNABLE"
  ELSE /\ s[t] \in {"RUNNABLE", "WOKEN"} <=> t \in Listed(q)
       /\ s[t] = "BLOCKED_TIMEOUT" <=> t \in sq

\* Only threads that sleep are in the timeout heap, and wakeup_cycs says that they do.
Heaped(sq, w) == sq \subseteq (Sleeper \cup Periodic) /\ \A t \in sq : w[t] = 0

\* The four places in which a thread is kept agree.
Agree(s, q, sq, w) == Lists(q) /\ Heaped(sq, w) /\ \A t \in Thread : PlaceOf(t, s, q, sq)

\* They do, and the thread that runs is runnable.
Places == Agree(state, runq, sleepq, wakeup) /\ curr \in Listed(runq) \cup {Idle}

\* The wakeups of a thread that blocks: wakeup_cnt counts those that it has not answered, and
\* the one that it runs by; it is blocked when there are none.
Counted(t) ==
  state[t] # "FREE" =>
    /\ state[t] \in {"BLOCKED", "RUNNABLE"} /\ call[t][1] \in {"run", "block"}
    /\ cnt[t] = woken[t] + IF call[t][1] = "run" THEN 1 ELSE 0
    /\ state[t] = "BLOCKED" <=> cnt[t] = 0

\* A thread whose call has a timeout sleeps, or somebody woke it, or the timeout is over.
Timed(t) ==
  call[t][1] \in {"timeout", "periodic"} =>
    /\ t \in Sleeper \cup Periodic /\ timeout[t] = call[t][2]
    /\ \/ state[t] \in {"BLOCKED_TIMEOUT", "FREE"}
       \/ wakeup[t] = 0 /\ woken[t] > 0
       \/ timeout[t] <= wakeup[t] /\ wakeup[t] <= now

\* The inductive invariant.
ThdInv ==
  /\ Types /\ Places /\ NoDrift
  /\ \A t \in Blocker : Counted(t)
  /\ \A t \in Thread : Timed(t)

\* Types of what sl_cs_exit_schedule starts from.
Typed(s, c, w) == s \in [Thread -> States] /\ c \in [Thread -> Nat] /\ w \in [Thread -> 0 .. MaxNow]

\* Its effect on the threads, E of which were woken by the timeout module.
Woke(E, s, c, w) ==
  /\ E \subseteq Sleeper \cup Periodic /\ \A t \in E : timeout'[t] <= now
  /\ \A t \in Thread :
       /\ state'[t] = IF t \in E THEN "RUNNABLE" ELSE s[t]
       /\ cnt'[t] = IF t \in E THEN c[t] + 1 ELSE c[t]
       /\ wakeup'[t] = IF t \in E THEN now ELSE w[t]

-----------------------------------------------------------------------------
(* Lists.                                                                  *)

\* The least member of a set of numbers.
LEMMA LeastNat ==
  ASSUME NEW S, S \subseteq Nat, S # {}
  PROVE  \E x \in S : \A y \in S : x <= y
<1>1. PICK x \in S : \A y \in S : ~ (<<y, x>> \in OpToRel(<, Nat))
  BY NatLessThanWellFounded, WFMin
<1>2. ASSUME NEW y \in S PROVE x <= y
  <2>1. ~(y < x)
    BY <1>1 DEF OpToRel
  <2> QED BY <2>1
<1> QED BY <1>2

\* If something goes wrong up to n, and not at 0, it goes wrong somewhere for the first time.
LEMMA FirstBad ==
  ASSUME NEW n \in Nat, NEW Bad, Bad \subseteq 0 .. n, Bad # {}, 0 \notin Bad
  PROVE  \E m \in Bad : m \in 1 .. n /\ m - 1 \in 0 .. n /\ m - 1 \notin Bad
<1>1. Bad \subseteq Nat
  OBVIOUS
<1>2. PICK m \in Bad : \A y \in Bad : m <= y
  BY <1>1, LeastNat
<1>3. m \in 1 .. n
  BY <1>2
<1> QED BY <1>2, <1>3

\* A list of one priority without one of its threads.
LEMMA UnlinkSeq ==
  ASSUME NEW S, NEW s \in Seq(S), OnceEach(s), NEW t
  PROVE  /\ Unlink(s, t) \in Seq(S) /\ OnceEach(Unlink(s, t))
         /\ \A e : Contains(Unlink(s, t), e) <=> Contains(s, e) /\ e # t
<1>1. CASE ~Contains(s, t)
  <2>1. Unlink(s, t) = s
    BY <1>1 DEF Unlink
  <2>2. \A e : Contains(s, e) => e # t
    BY <1>1
  <2> QED BY <2>1, <2>2
<1>2. CASE Contains(s, t)
  <2>1. PICK n \in Nat : n = Len(s) /\ DOMAIN s = 1 .. n
    OBVIOUS
  <2>2. PICK i : i = CHOOSE j \in DOMAIN s : s[j] = t
    OBVIOUS
  <2>3. i \in 1 .. n /\ s[i] = t
    BY <1>2, <2>1, <2>2 DEF Contains
  <2>4. PICK r : r = RemoveAt(s, i)
    OBVIOUS
  <2>5. Unlink(s, t) = r
    BY <1>2, <2>2, <2>4 DEF Unlink
  <2>6. PICK a : a = SubSeq(s, 1, i - 1)
    OBVIOUS
  <2>7. PICK b : b = SubSeq(s, i + 1, n)
    OBVIOUS
  <2>8. r = a \o b
    BY <2>1, <2>4, <2>6, <2>7 DEF RemoveAt
  <2>9. a \in Seq(S) /\ Len(a) = i - 1 /\ \A j \in 1 .. (i - 1) : a[j] = s[j]
    BY <2>1, <2>3, <2>6
  <2>10. b \in Seq(S) /\ Len(b) = n - i /\ \A j \in 1 .. (n - i) : b[j] = s[i + j]
    BY <2>1, <2>3, <2>7
  <2>11. r \in Seq(S) /\ Len(r) = n - 1
    <3>1. r \in Seq(S) /\ Len(r) = Len(a) + Len(b)
      BY <2>8, <2>9, <2>10, ConcatProperties
    <3>2. (i - 1) + (n - i) = n - 1
      BY <2>1, <2>3
    <3> QED BY <2>9, <2>10, <3>1, <3>2
  <2>12. \A j \in 1 .. (n - 1) : r[j] = s[IF j < i THEN j ELSE j + 1]
    <3> SUFFICES ASSUME NEW j \in 1 .. (n - 1) PROVE r[j] = s[IF j < i THEN j ELSE j + 1]
      OBVIOUS
    <3>1. CASE j < i
      <4>1. j \in 1 .. (i - 1) /\ j \in 1 .. Len(a)
        BY <2>3, <2>9, <3>1
      <4>2. r[j] = a[j]
        BY <2>8, <2>9, <2>10, <4>1
      <4> QED BY <2>9, <3>1, <4>1, <4>2
    <3>2. CASE ~(j < i)
      <4>1. j - (i - 1) \in 1 .. (n - i) /\ i + (j - (i - 1)) = j + 1
        BY <2>1, <2>3, <3>2
      <4>2. r[j] = b[j - (i - 1)]
        <5>1. \A k \in 1 .. (Len(a) + Len(b)) : (a \o b)[k] = IF k <= Len(a) THEN a[k] ELSE b[k - Len(a)]
          BY <2>9, <2>10, ConcatProperties
        <5>2. j \in 1 .. ((i - 1) + (n - i)) /\ ~(j <= i - 1)
          BY <2>1, <2>3, <3>2
        <5> QED BY <2>8, <2>9, <2>10, <5>1, <5>2
      <4> QED BY <2>10, <3>2, <4>1, <4>2
    <3> QED BY <3>1, <3>2
  <2>13. \A j \in 1 .. (n - 1) : (IF j < i THEN j ELSE j + 1) \in 1 .. n
    BY <2>1, <2>3
  <2>14. OnceEach(r)
    <3> SUFFICES ASSUME NEW j \in 1 .. (n - 1), NEW k \in 1 .. (n - 1), r[j] = r[k] PROVE j = k
      BY <2>11 DEF OnceEach
    <3>1. (IF j < i THEN j ELSE j + 1) = (IF k < i THEN k ELSE k + 1)
      BY <2>1, <2>12, <2>13 DEF OnceEach
    <3> QED BY <2>3, <3>1
  <2>15. \A e : Contains(r, e) => Contains(s, e) /\ e # t
    <3> SUFFICES ASSUME NEW e, Contains(r, e) PROVE Contains(s, e) /\ e # t
      OBVIOUS
    <3>1. PICK j \in 1 .. (n - 1) : r[j] = e
      BY <2>11 DEF Contains
    <3>2. PICK k \in 1 .. n : k = (IF j < i THEN j ELSE j + 1) /\ k # i
      BY <2>3, <2>13
    <3>3. s[k] = e
      BY <2>12, <3>1, <3>2
    <3>4. s[k] # s[i]
      BY <2>1, <2>3, <3>2 DEF OnceEach
    <3> QED BY <2>1, <2>3, <3>3, <3>4 DEF Contains
  <2>16. \A e : Contains(s, e) /\ e # t => Contains(r, e)
    <3> SUFFICES ASSUME NEW e, Contains(s, e), e # t PROVE Contains(r, e)
      OBVIOUS
    <3>1. PICK k \in 1 .. n : s[k] = e /\ k # i
      BY <2>1, <2>3 DEF Contains
    <3>2. PICK j \in 1 .. (n - 1) : k = IF j < i THEN j ELSE j + 1
      <4>1. CASE k < i
        BY <2>1, <2>3, <3>1, <4>1
      <4>2. CASE k > i
        <5>1. k - 1 \in 1 .. (n - 1) /\ ~(k - 1 < i) /\ k = (k - 1) + 1
          BY <2>1, <2>3, <3>1, <4>2
        <5> QED BY <5>1
      <4> QED BY <2>3, <3>1, <4>1, <4>2
    <3>3. r[j] = e
      BY <2>12, <3>1, <3>2
    <3> QED BY <2>11, <3>3 DEF Contains
  <2> QED BY <2>5, <2>11, <2>14, <2>15, <2>16
<1> QED BY <1>1, <1>2

\* A thread is of one of the two priorities.
LEMMA Prios == \A t : Prio(t) \in {1, 2}
  BY DEF Prio

\* What Lists says of the list of a priority.
LEMMA ListOf ==
  ASSUME NEW q, Lists(q), NEW p \in {1, 2}
  PROVE  /\ q[p] \in Seq(Thread) /\ OnceEach(q[p]) /\ Len(q[p]) \in Nat
         /\ \A e : Contains(q[p], e) => e \in Thread /\ Prio(e) = p
<1>1. q[p] \in Seq(Thread) /\ OnceEach(q[p]) /\ \A i \in 1 .. Len(q[p]) : Prio(q[p][i]) = p
  BY DEF Lists
<1>2. PICK s \in Seq(Thread) : s = q[p]
  BY <1>1
<1>3. \A i \in 1 .. Len(s) : s[i] \in Thread
  OBVIOUS
<1>4. Len(s) \in Nat
  OBVIOUS
<1> QED BY <1>1, <1>2, <1>3, <1>4 DEF Contains

\* Lists whose threads and order are given list by list.
LEMMA ListsFrom ==
  ASSUME NEW q, q \in [{1, 2} -> Seq(Thread)],
         \A p \in {1, 2} : OnceEach(q[p]) /\ \A e : Contains(q[p], e) => Prio(e) = p
  PROVE  Lists(q)
<1> SUFFICES ASSUME NEW p \in {1, 2}, NEW i \in 1 .. Len(q[p]) PROVE Prio(q[p][i]) = p
  BY DEF Lists
<1>1. Contains(q[p], q[p][i])
  BY DEF Contains
<1> QED BY <1>1

\* ps_list_rem_d
LEMMA WithoutLists ==
  ASSUME NEW q, Lists(q), NEW t
  PROVE  /\ Lists(Without(q, t)) /\ Listed(Without(q, t)) = Listed(q) \ {t}
<1>1. PICK r : r = Without(q, t)
  OBVIOUS
<1>2. \A p \in {1, 2} : r[p] = Unlink(q[p], t)
  BY <1>1 DEF Without
<1>3. \A p \in {1, 2} : /\ Unlink(q[p], t) \in Seq(Thread) /\ OnceEach(Unlink(q[p], t))
                        /\ \A e : Contains(Unlink(q[p], t), e) <=> Contains(q[p], e) /\ e # t
  BY ListOf, UnlinkSeq
<1>4. r \in [{1, 2} -> Seq(Thread)]
  BY <1>1, <1>3 DEF Without
<1>5. \A p \in {1, 2} : OnceEach(r[p]) /\ \A e : Contains(r[p], e) <=> Contains(q[p], e) /\ e # t
  BY <1>2, <1>3
<1>6. Lists(r)
  BY <1>4, <1>5, ListOf, ListsFrom
<1>7. Listed(r) = Listed(q) \ {t}
  BY <1>5, Prios DEF Listed
<1> QED BY <1>1, <1>6, <1>7

\* A thread in front of a list that does not have it.
LEMMA ConsSeq ==
  ASSUME NEW S, NEW s \in Seq(S), OnceEach(s), NEW t \in S, ~Contains(s, t)
  PROVE  /\ <<t>> \o s \in Seq(S) /\ OnceEach(<<t>> \o s)
         /\ \A e : Contains(<<t>> \o s, e) <=> Contains(s, e) \/ e = t
<1>1. PICK n \in Nat : n = Len(s)
  OBVIOUS
<1>2. PICK r : r = <<t>> \o s
  OBVIOUS
<1>3. r \in Seq(S) /\ Len(r) = n + 1 /\ r[1] = t /\ \A j \in 2 .. (n + 1) : r[j] = s[j - 1]
  BY <1>1, <1>2
<1>4. \A j \in 2 .. (n + 1) : j - 1 \in 1 .. n
  OBVIOUS
<1>5. \A j \in 2 .. (n + 1) : r[j] # t /\ Contains(s, r[j])
  BY <1>1, <1>3, <1>4 DEF Contains
<1>6. OnceEach(r)
  <2> SUFFICES ASSUME NEW i \in 1 .. (n + 1), NEW j \in 1 .. (n + 1), r[i] = r[j] PROVE i = j
    BY <1>3 DEF OnceEach
  <2>1. CASE i = 1 \/ j = 1
    <3>1. i = 1 /\ j = 1
      BY <1>3, <1>5, <2>1
    <3> QED BY <3>1
  <2>2. CASE i # 1 /\ j # 1
    <3>1. i \in 2 .. (n + 1) /\ j \in 2 .. (n + 1)
      BY <2>2
    <3>2. s[i - 1] = s[j - 1]
      BY <1>3, <3>1
    <3>3. i - 1 = j - 1
      BY <1>1, <1>4, <3>1, <3>2 DEF OnceEach
    <3> QED BY <3>3
  <2> QED BY <2>1, <2>2
<1>7. ASSUME NEW e, Contains(r, e) PROVE Contains(s, e) \/ e = t
  <2>1. PICK j \in 1 .. (n + 1) : r[j] = e
    BY <1>3, <1>7 DEF Contains
  <2>2. CASE j = 1
    BY <1>3, <2>1, <2>2
  <2>3. CASE j \in 2 .. (n + 1)
    BY <1>5, <2>1, <2>3
  <2> QED BY <2>2, <2>3
<1>8. ASSUME NEW e, Contains(s, e) PROVE Contains(r, e)
  <2>1. PICK j \in 1 .. n : s[j] = e
    BY <1>1, <1>8 DEF Contains
  <2>2. j + 1 \in 2 .. (n + 1) /\ j + 1 \in 1 .. (n + 1) /\ (j + 1) - 1 = j
    OBVIOUS
  <2>3. r[j + 1] = e
    BY <1>3, <2>1, <2>2
  <2> QED BY <1>3, <2>2, <2>3 DEF Contains
<1>9. Contains(r, t)
  <2>1. 1 \in 1 .. (n + 1)
    OBVIOUS
  <2> QED BY <1>3, <2>1 DEF Contains
<1> QED BY <1>2, <1>3, <1>6, <1>7, <1>8, <1>9

\* A thread behind it.
LEMMA SnocSeq ==
  ASSUME NEW S, NEW s \in Seq(S), OnceEach(s), NEW t \in S, ~Contains(s, t)
  PROVE  /\ Append(s, t) \in Seq(S) /\ OnceEach(Append(s, t))
         /\ \A e : Contains(Append(s, t), e) <=> Contains(s, e) \/ e = t
<1>1. PICK n \in Nat : n = Len(s)
  OBVIOUS
<1>2. PICK r : r = Append(s, t)
  OBVIOUS
<1>3. r \in Seq(S) /\ Len(r) = n + 1 /\ r[n + 1] = t /\ \A j \in 1 .. n : r[j] = s[j]
  BY <1>1, <1>2
<1>5. \A j \in 1 .. n : r[j] # t /\ Contains(s, r[j])
  BY <1>1, <1>3 DEF Contains
<1>6. OnceEach(r)
  <2> SUFFICES ASSUME NEW i \in 1 .. (n + 1), NEW j \in 1 .. (n + 1), r[i] = r[j] PROVE i = j
    BY <1>3 DEF OnceEach
  <2>1. CASE i = n + 1 \/ j = n + 1
    <3>1. i = n + 1 /\ j = n + 1
      <4>1. i \in 1 .. n \/ i = n + 1
        OBVIOUS
      <4>2. j \in 1 .. n \/ j = n + 1
        OBVIOUS
      <4> QED BY <1>3, <1>5, <2>1, <4>1, <4>2
    <3> QED BY <3>1
  <2>2. CASE i \in 1 .. n /\ j \in 1 .. n
    BY <1>1, <1>3, <2>2 DEF OnceEach
  <2> QED BY <2>1, <2>2
<1>7. ASSUME NEW e, Contains(r, e) PROVE Contains(s, e) \/ e = t
  <2>1. PICK j \in 1 .. (n + 1) : r[j] = e
    BY <1>3, <1>7 DEF Contains
  <2>2. CASE j = n + 1
    BY <1>3, <2>1, <2>2
  <2>3. CASE j \in 1 .. n
    BY <1>5, <2>1, <2>3
  <2> QED BY <2>2, <2>3
<1>8. ASSUME NEW e, Contains(s, e) PROVE Contains(r, e)
  <2>1. PICK j \in 1 .. n : s[j] = e
    BY <1>1, <1>8 DEF Contains
  <2>2. j \in 1 .. (n + 1)
    OBVIOUS
  <2> QED BY <1>3, <2>1, <2>2 DEF Contains
<1>9. Contains(r, t)
  <2>1. n + 1 \in 1 .. (n + 1)
    OBVIOUS
  <2> QED BY <1>3, <2>1 DEF Contains
<1> QED BY <1>2, <1>3, <1>6, <1>7, <1>8, <1>9

\* A thread added to the list of its priority.
LEMMA AddLists ==
  ASSUME NEW q, Lists(q), NEW t \in Thread, t \notin Listed(q), NEW s \in Seq(Thread), OnceEach(s),
         \A e : Contains(s, e) <=> Contains(q[Prio(t)], e) \/ e = t
  PROVE  /\ Lists([q EXCEPT ![Prio(t)] = s])
         /\ Listed([q EXCEPT ![Prio(t)] = s]) = Listed(q) \cup {t}
<1>0. PICK z \in {1, 2} : z = Prio(t)
  BY Prios
<1>1. PICK r : r = [q EXCEPT ![z] = s]
  OBVIOUS
<1>2. q \in [{1, 2} -> Seq(Thread)]
  BY DEF Lists
<1>3. r \in [{1, 2} -> Seq(Thread)] /\ r[z] = s /\ \A p \in {1, 2} : p # z => r[p] = q[p]
  BY <1>1, <1>2
<1>4. ASSUME NEW p \in {1, 2} PROVE OnceEach(r[p]) /\ \A e : Contains(r[p], e) => Prio(e) = p
  <2>1. CASE p = z
    BY <1>0, <1>3, <2>1, ListOf
  <2>2. CASE p # z
    BY <1>3, <2>2, ListOf
  <2> QED BY <2>1, <2>2
<1>5. Lists(r)
  BY <1>3, <1>4, ListsFrom
<1>6. ASSUME NEW e \in Thread PROVE Contains(r[Prio(e)], e) <=> Contains(q[Prio(e)], e) \/ e = t
  <2>1. CASE Prio(e) = z
    BY <1>0, <1>3, <2>1
  <2>2. CASE Prio(e) # z
    BY <1>0, <1>3, <2>2, Prios
  <2> QED BY <2>1, <2>2
<1>7. Listed(r) = Listed(q) \cup {t}
  BY <1>6 DEF Listed
<1> QED BY <1>0, <1>1, <1>5, <1>7

\* sl_mod_wakeup
LEMMA FrontLists ==
  ASSUME NEW q, Lists(q), NEW t \in Thread
  PROVE  /\ Lists(AtFront(q, t)) /\ Listed(AtFront(q, t)) = Listed(q) \cup {t}
<1>1. PICK r : r = Without(q, t)
  OBVIOUS
<1>2. Lists(r) /\ Listed(r) = Listed(q) \ {t}
  BY <1>1, WithoutLists
<1>3. PICK z \in {1, 2} : z = Prio(t)
  BY Prios
<1>4. PICK s : s = <<t>> \o r[z]
  OBVIOUS
<1>5. r[z] \in Seq(Thread) /\ OnceEach(r[z]) /\ ~Contains(r[z], t)
  BY <1>2, <1>3, ListOf DEF Listed
<1>6. s \in Seq(Thread) /\ OnceEach(s) /\ \A e : Contains(s, e) <=> Contains(r[z], e) \/ e = t
  BY <1>4, <1>5, ConsSeq
<1>7. AtFront(q, t) = [r EXCEPT ![Prio(t)] = s]
  BY <1>1, <1>3, <1>4 DEF AtFront
<1>8. Lists([r EXCEPT ![Prio(t)] = s]) /\ Listed([r EXCEPT ![Prio(t)] = s]) = Listed(r) \cup {t}
  BY <1>2, <1>3, <1>6, AddLists
<1> QED BY <1>2, <1>7, <1>8

\* sl_mod_yield
LEMMA EndLists ==
  ASSUME NEW q, Lists(q), NEW t \in Thread
  PROVE  /\ Lists(AtEnd(q, t)) /\ Listed(AtEnd(q, t)) = Listed(q) \cup {t}
<1>1. PICK r : r = Without(q, t)
  OBVIOUS
<1>2. Lists(r) /\ Listed(r) = Listed(q) \ {t}
  BY <1>1, WithoutLists
<1>3. PICK z \in {1, 2} : z = Prio(t)
  BY Prios
<1>4. PICK s : s = Append(r[z], t)
  OBVIOUS
<1>5. r[z] \in Seq(Thread) /\ OnceEach(r[z]) /\ ~Contains(r[z], t)
  BY <1>2, <1>3, ListOf DEF Listed
<1>6. s \in Seq(Thread) /\ OnceEach(s) /\ \A e : Contains(s, e) <=> Contains(r[z], e) \/ e = t
  BY <1>4, <1>5, SnocSeq
<1>7. AtEnd(q, t) = [r EXCEPT ![Prio(t)] = s]
  BY <1>1, <1>3, <1>4 DEF AtEnd
<1>8. Lists([r EXCEPT ![Prio(t)] = s]) /\ Listed([r EXCEPT ![Prio(t)] = s]) = Listed(r) \cup {t}
  BY <1>2, <1>3, <1>6, AddLists
<1> QED BY <1>2, <1>7, <1>8

\* The orders of a set.
LEMMA OrderOf ==
  ASSUME NEW S, IsFiniteSet(S), NEW o \in SetToSeqs(S)
  PROVE  o \in Seq(S) /\ Len(o) \in Nat /\ OnceEach(o) /\ \A e : Contains(o, e) <=> e \in S
<1>1. PICK n \in Nat : n = Cardinality(S)
  BY FS_CardinalityType
<1>2. o \in [1 .. n -> S] /\ \A i, j \in 1 .. n : i # j => o[i] # o[j]
  BY <1>1 DEF SetToSeqs
<1>3. o \in Seq(S) /\ Len(o) = n
  BY <1>2
<1>4. o \in Injection(1 .. n, S)
  BY <1>2, Fun_IsInj
<1>5. IsFiniteSet(1 .. n) /\ Cardinality(1 .. n) = n
  BY FS_Interval
<1>6. o \in Surjection(1 .. n, S)
  BY <1>1, <1>4, <1>5, FS_Injection
<1>7. \A e \in S : \E i \in 1 .. n : o[i] = e
  BY <1>6 DEF Surjection
<1>8. \A e : Contains(o, e) <=> e \in S
  BY <1>2, <1>3, <1>7 DEF Contains
<1> QED BY <1>2, <1>3, <1>8 DEF OnceEach

\* sl_timeout_wakeup_expired: sl_mod_wakeup of one thread after the other
LEMMA AllLists ==
  ASSUME NEW q, Lists(q), NEW S, S \subseteq Thread, IsFiniteSet(S), NEW o \in SetToSeqs(S)
  PROVE  Lists(AllAtFront(q, o)) /\ Listed(AllAtFront(q, o)) = Listed(q) \cup S
<1>o. o \in Seq(S) /\ Len(o) \in Nat /\ OnceEach(o) /\ \A e : Contains(o, e) <=> e \in S
  BY OrderOf
<1>n. PICK n \in Nat : n = Len(o)
  BY <1>o
<1>t. \A i \in 1 .. n : o[i] \in Thread
  BY <1>o, <1>n
<1> DEFINE Q == {x \in [{1, 2} -> Seq(Thread)] : Lists(x)}
           Eq(g) == g = [m \in 0 .. Len(o) |-> IF m = 0 THEN q ELSE AtFront(g[m - 1], o[m])]
           Part(g, j) == g[0] = q /\ \A m \in 1 .. j : g[m] = AtFront(g[m - 1], o[m])
           f == CHOOSE g : Eq(g)
<1>1. AllAtFront(q, o) = f[n]
  BY <1>n DEF AllAtFront
<1>2. q \in Q /\ \A x \in Q, t \in Thread : AtFront(x, t) \in Q
  <2>1. \A x : Lists(x) => x \in Q
    BY DEF Lists
  <2>2. \A x \in Q, t \in Thread : Lists(AtFront(x, t))
    BY FrontLists
  <2> QED BY <2>1, <2>2
<1>3. \E g \in [0 .. n -> Q] : Part(g, n)
  <2> DEFINE Bad == {j \in 0 .. n : ~ \E g \in [0 .. j -> Q] : Part(g, j)}
  <2> HIDE DEF Q
  <2> SUFFICES ASSUME Bad # {} PROVE FALSE
    BY SMTT(30)
  <2>1. Bad \subseteq 0 .. n
    OBVIOUS
  <2>2. 0 \notin Bad
    <3> DEFINE z == [m \in 0 .. 0 |-> q]
    <3>1. z \in [0 .. 0 -> Q]
      BY <1>2
    <3>2. Part(z, 0)
      OBVIOUS
    <3> HIDE DEF z
    <3> QED BY <3>1, <3>2
  <2> HIDE DEF Bad
  <2>a. PICK j \in Bad : j \in 1 .. n /\ j - 1 \in 0 .. n /\ j - 1 \notin Bad
    BY <2>1, <2>2, FirstBad
  <2> USE DEF Bad
  <2>3. j \in Nat /\ j >= 1
    BY <2>a
  <2>4. PICK g \in [0 .. j - 1 -> Q] : Part(g, j - 1)
    BY <2>a
  <2>5. PICK x \in Q : x = AtFront(g[j - 1], o[j])
    BY <1>2, <1>t, <2>a, <2>3
  <2> DEFINE h == [m \in 0 .. j |-> IF m = j THEN x ELSE g[m]]
  <2>6. h \in [0 .. j -> Q]
    BY <2>3, <2>5
  <2>7. Part(h, j)
    <3>1. h[0] = q
      BY <2>3, <2>4
    <3>2. ASSUME NEW m \in 1 .. j PROVE h[m] = AtFront(h[m - 1], o[m])
      <4>1. h[m - 1] = g[m - 1]
        BY <2>3
      <4>2. CASE m = j
        BY <2>3, <2>5, <4>1, <4>2
      <4>3. CASE m # j
        <5>1. h[m] = g[m] /\ m \in 1 .. (j - 1)
          BY <2>3, <4>3
        <5> QED BY <2>4, <4>1, <5>1
      <4> QED BY <4>2, <4>3
    <3> HIDE DEF h
    <3> QED BY <3>1, <3>2
  <2> HIDE DEF h
  <2> QED BY <2>a, <2>6, <2>7
<1>4. PICK g \in [0 .. n -> Q] : Part(g, n)
  BY <1>3
<1> HIDE DEF Q
<1>5. Eq(g)
  <2>1. \A m \in 0 .. n : g[m] = IF m = 0 THEN q ELSE AtFront(g[m - 1], o[m])
    <3> SUFFICES ASSUME NEW m \in 0 .. n, m # 0 PROVE g[m] = AtFront(g[m - 1], o[m])
      BY <1>4
    <3>1. m \in 1 .. n
      OBVIOUS
    <3> QED BY <1>4, <3>1
  <2>2. g = [m \in 0 .. n |-> g[m]]
    OBVIOUS
  <2>3. g = [m \in 0 .. n |-> IF m = 0 THEN q ELSE AtFront(g[m - 1], o[m])]
    BY <2>1, <2>2
  <2> QED BY <2>3, <1>n
<1>6. Eq(f)
  BY <1>5
<1> HIDE DEF f
<1>7. f[0] = q /\ \A m \in 1 .. n : f[m] = AtFront(f[m - 1], o[m])
  BY <1>6, <1>n
<1> DEFINE Woken(j) == {o[i] : i \in 1 .. j}
           Good(j) == Lists(f[j]) /\ Listed(f[j]) = Listed(q) \cup Woken(j)
           Wrong == {j \in 0 .. n : ~Good(j)}
<1>8. Wrong = {}
  <2> SUFFICES ASSUME Wrong # {} PROVE FALSE
    OBVIOUS
  <2>1. Wrong \subseteq 0 .. n
    OBVIOUS
  <2>2. 0 \notin Wrong
    <3>1. Woken(0) = {}
      OBVIOUS
    <3> QED BY <1>7, <3>1
  <2> HIDE DEF Wrong
  <2>a. PICK j \in Wrong : j \in 1 .. n /\ j - 1 \in 0 .. n /\ j - 1 \notin Wrong
    BY <2>1, <2>2, FirstBad
  <2> USE DEF Wrong
  <2>3. Good(j - 1)
    BY <2>a
  <2>4. f[j] = AtFront(f[j - 1], o[j])
    BY <1>7, <2>a
  <2>5. Lists(f[j]) /\ Listed(f[j]) = Listed(f[j - 1]) \cup {o[j]}
    BY <1>t, <2>a, <2>3, <2>4, FrontLists
  <2>6. Woken(j) = Woken(j - 1) \cup {o[j]}
    <3>1. \A i : i \in 1 .. j <=> i \in 1 .. (j - 1) \/ i = j
      BY <2>a
    <3> QED BY <3>1
  <2>7. Good(j)
    BY <2>3, <2>5, <2>6
  <2> QED BY <2>a, <2>7
<1>9. Good(n)
  BY <1>8
<1>10. Woken(n) = S
  BY <1>o, <1>n DEF Contains
<1> QED BY <1>1, <1>9, <1>10

\* sl_mod_schedule chooses a thread of the lists, or the idle thread.
LEMMA BestListed ==
  ASSUME NEW q, Lists(q)
  PROVE  Best(q) \in Listed(q) \cup {Idle}
<1>1. CASE \E p \in {1, 2} : q[p] # <<>>
  <2>1. PICK p \in {1, 2} : q[p] # <<>> /\ Best(q) = Head(q[p])
    BY <1>1 DEF Best
  <2>2. PICK s \in Seq(Thread) : s = q[p]
    BY ListOf
  <2>3. Len(s) \in Nat /\ Len(s) # 0
    BY <2>1, <2>2, EmptySeq
  <2>4. 1 \in 1 .. Len(s) /\ Head(s) = s[1]
    BY <2>3
  <2>5. Contains(q[p], Best(q))
    BY <2>1, <2>2, <2>4 DEF Contains
  <2> QED BY <2>5, ListOf DEF Listed
<1>2. CASE ~\E p \in {1, 2} : q[p] # <<>>
  BY <1>2 DEF Best
<1> QED BY <1>1, <1>2

-----------------------------------------------------------------------------
(* The timer.                                                              *)

LEMMA MulMod ==
  ASSUME NEW p \in Nat \ {0}, NEW m \in Nat
  PROVE  (p * m) % p = 0
<1>1. PICK x \in Nat : x = p * m
  OBVIOUS
<1>2. PICK d \in Nat : d = x \div p
  OBVIOUS
<1>3. PICK r \in 0 .. (p - 1) : r = x % p
  OBVIOUS
<1>4. x = p * d + r
  BY <1>2, <1>3
<1>5. r = p * (m - d)
  BY <1>1, <1>4
<1>6. CASE m - d >= 1
  <2>1. p * (m - d) >= p
    BY <1>6
  <2> QED BY <1>5, <2>1
<1>7. CASE m - d <= -1
  <2>1. p * (m - d) <= -p
    BY <1>7
  <2> QED BY <1>5, <2>1
<1>8. CASE m - d = 0
  <2>1. r = 0
    BY <1>5, <1>8
  <2> QED BY <2>1, <1>1, <1>3
<1> QED BY <1>6, <1>7, <1>8

\* The next timer is on the grid of the first, and less than a period away.
LEMMA Grid ==
  ASSUME NEW p \in Nat \ {0}, NEW n \in Nat \ {0}, NEW t \in Nat \ {0}, t <= n, (t - 1) % p = 0
  PROVE  /\ n + p - ((n - t) % p) \in (n + 1) .. (n + p)
         /\ ((n + p - ((n - t) % p)) - 1) % p = 0
<1>1. PICK x \in Nat : x = t - 1
  OBVIOUS
<1>2. PICK k \in Nat : k = x \div p
  OBVIOUS
<1>3. x = p * k
  <2>1. x = p * (x \div p) + (x % p)
    OBVIOUS
  <2> QED BY <1>1, <1>2, <2>1
<1>4. PICK y \in Nat : y = n - t
  OBVIOUS
<1>5. PICK d \in Nat : d = y \div p
  OBVIOUS
<1>6. PICK r \in 0 .. (p - 1) : r = y % p
  OBVIOUS
<1>7. y = p * d + r
  BY <1>5, <1>6
<1>8. n + p - r \in (n + 1) .. (n + p)
  BY <1>6
<1>9. (n + p - r) - 1 = p * (k + d + 1)
  BY <1>1, <1>3, <1>4, <1>7
<1>10. (p * (k + d + 1)) % p = 0
  BY MulMod
<1> QED BY <1>4, <1>6, <1>8, <1>9, <1>10

-----------------------------------------------------------------------------
(* The choice of the next thread.                                          *)

\* Who the callers are.
LEMMA Callers ==
  /\ Waiting \subseteq Thread \ {Idle} /\ Blocker \subseteq Thread \ {Idle}
  /\ Sleeper \cup Periodic \subseteq Thread \ {Idle} /\ Remote \subseteq Thread \ {Idle}
  /\ Idle \in Thread /\ IsFiniteSet(Thread)
<1>1. IsFiniteSet({Idle})
  BY FS_Singleton
<1>2. IsFiniteSet(Thread)
  BY <1>1, ThdAssumption, FS_Union DEF Thread
<1> QED BY <1>2, ThdAssumption DEF Thread

\* From places that agree, the choice of the next thread makes places that agree.
LEMMA Schedule ==
  ASSUME NEW s, NEW c, NEW q, NEW sq, NEW w,
         now \in 1 .. MaxNow, timer \in 1 .. MaxNow + Period, NoDrift, timeout' \in [Thread -> Nat],
         Typed(s, c, w), Agree(s, q, sq, w), sl_cs_exit_schedule(s, c, q, sq, w)
  PROVE  /\ timer' \in 1 .. MaxNow + Period /\ NoDrift'
         /\ Typed(state', cnt', wakeup') /\ Agree(state', runq', sleepq', wakeup')
         /\ curr' \in Listed(runq') \cup {Idle} /\ curr' \in Thread
         /\ \E E : Woke(E, s, c, w)
<1>1. PICK E : E = Expired(sq)
  OBVIOUS
<1>2. /\ timer' = IF timer <= now THEN sl_timeout_expended ELSE timer
      /\ sleepq' = sq \ E
      /\ state' = [t \in Thread |-> IF t \in E THEN "RUNNABLE" ELSE s[t]]
      /\ cnt' = [t \in Thread |-> IF t \in E THEN c[t] + 1 ELSE c[t]]
      /\ wakeup' = [t \in Thread |-> IF t \in E THEN now ELSE w[t]]
      /\ \E o \in HeapOrders(E) : runq' = AllAtFront(q, o)
      /\ curr' = Best(runq')
  BY <1>1 DEF sl_cs_exit_schedule
<1>3. E \subseteq sq /\ \A t \in E : timeout'[t] <= now
  BY <1>1 DEF Expired
<1>4. /\ Lists(q) /\ sq \subseteq Sleeper \cup Periodic /\ \A t \in sq : w[t] = 0
      /\ \A t \in Thread : PlaceOf(t, s, q, sq)
  BY DEF Agree, Heaped
<1>5. E \subseteq Thread \ {Idle} /\ E \subseteq Sleeper \cup Periodic
  BY <1>3, <1>4, Callers
<1>6. IsFiniteSet(E)
  BY <1>5, Callers, FS_Subset
<1>7. PICK o \in SetToSeqs(E) : runq' = AllAtFront(q, o)
  BY <1>2 DEF HeapOrders
<1>8. PICK r : r = runq'
  OBVIOUS
<1>9. Lists(r) /\ Listed(r) = Listed(q) \cup E
  BY <1>4, <1>5, <1>6, <1>7, <1>8, AllLists
<1>10. curr' \in Listed(r) \cup {Idle}
  BY <1>2, <1>8, <1>9, BestListed
<1>11. curr' \in Thread
  BY <1>10, Callers DEF Listed
<1>12. timer' \in 1 .. MaxNow + Period /\ (timer' - 1) % Period = 0
  <2>1. CASE timer <= now
    <3>0. Period \in Nat \ {0} /\ MaxNow \in Nat
      BY ThdAssumption
    <3>1. PICK n \in Nat \ {0} : n = now /\ n <= MaxNow
      BY <3>0
    <3>2. PICK t \in Nat \ {0} : t = timer
      BY <3>0
    <3>3. t <= n /\ (t - 1) % Period = 0
      BY <2>1, <3>1, <3>2 DEF NoDrift
    <3>4. PICK x : x = n + Period - ((n - t) % Period)
      OBVIOUS
    <3>5. x \in (n + 1) .. (n + Period) /\ (x - 1) % Period = 0
      BY <3>0, <3>3, <3>4, Grid
    <3>6. timer' = x
      BY <1>2, <2>1, <3>1, <3>2, <3>4 DEF sl_timeout_expended
    <3>7. x \in 1 .. MaxNow + Period
      BY <3>0, <3>1, <3>5
    <3> QED BY <3>5, <3>6, <3>7
  <2>2. CASE ~(timer <= now)
    BY <1>2, <2>2 DEF NoDrift
  <2> QED BY <2>1, <2>2
<1>13. Typed(state', cnt', wakeup')
  <2>1. s \in [Thread -> States] /\ c \in [Thread -> Nat] /\ w \in [Thread -> 0 .. MaxNow]
    BY DEF Typed
  <2>2. state' \in [Thread -> States]
    BY <1>2, <2>1 DEF States
  <2>3. cnt' \in [Thread -> Nat]
    BY <1>2, <2>1
  <2>4. now \in 0 .. MaxNow
    BY ThdAssumption
  <2>5. wakeup' \in [Thread -> 0 .. MaxNow]
    BY <1>2, <2>1, <2>4
  <2> QED BY <2>2, <2>3, <2>5 DEF Typed
<1>14. PICK x : x = sleepq' /\ x = sq \ E
  BY <1>2
<1>15. PICK v : v = wakeup'
  OBVIOUS
<1>16. PICK z : z = state'
  OBVIOUS
<1>17. Heaped(x, v)
  <2>1. \A t \in x : v[t] = 0
    BY <1>2, <1>4, <1>14, <1>15, Callers
  <2> QED BY <1>4, <1>14, <2>1 DEF Heaped
<1>18. ASSUME NEW t \in Thread PROVE PlaceOf(t, z, r, x)
  <2>1. PlaceOf(t, s, q, sq) /\ z[t] = IF t \in E THEN "RUNNABLE" ELSE s[t]
    BY <1>2, <1>4, <1>16
  <2>2. CASE t = Idle
    BY <1>5, <2>1, <2>2 DEF PlaceOf
  <2>3. CASE t # Idle /\ t \in E
    BY <1>9, <1>14, <2>1, <2>3 DEF PlaceOf
  <2>4. CASE t # Idle /\ t \notin E
    BY <1>9, <1>14, <2>1, <2>4 DEF PlaceOf
  <2> QED BY <2>2, <2>3, <2>4
<1>19. Agree(state', runq', sleepq', wakeup')
  BY <1>8, <1>9, <1>14, <1>15, <1>16, <1>17, <1>18 DEF Agree
<1>20. Woke(E, s, c, w)
  BY <1>2, <1>3, <1>5 DEF Woke
<1> QED BY <1>8, <1>10, <1>11, <1>12, <1>13, <1>19, <1>20 DEF NoDrift

\* A thread t that goes to state st, with its places.
LEMMA Moved ==
  ASSUME NEW s \in [Thread -> States], NEW q, NEW sq, NEW w, Agree(s, q, sq, w),
         NEW t \in Thread \ {Idle}, NEW st \in States, NEW z, z = [s EXCEPT ![t] = st],
         NEW r, Lists(r),
         Listed(r) = IF st \in {"RUNNABLE", "WOKEN"} THEN Listed(q) \cup {t} ELSE Listed(q) \ {t},
         NEW x, x = IF st = "BLOCKED_TIMEOUT" THEN sq \cup {t} ELSE sq \ {t},
         NEW v, Heaped(x, v)
  PROVE  Agree(z, r, x, v)
<1>1. \A u \in Thread : PlaceOf(u, s, q, sq)
  BY DEF Agree
<1>2. ASSUME NEW u \in Thread PROVE PlaceOf(u, z, r, x)
  <2>1. PlaceOf(u, s, q, sq)
    BY <1>1
  <2>2. CASE u = t
    <3>1. z[u] = st
      BY <2>2
    <3> QED BY <2>2, <3>1 DEF PlaceOf, States
  <2>3. CASE u # t
    <3>1. z[u] = s[u] /\ (u \in x <=> u \in sq) /\ (u \in Listed(r) <=> u \in Listed(q))
      BY <2>3
    <3> QED BY <2>1, <3>1 DEF PlaceOf
  <2> QED BY <2>2, <2>3
<1> QED BY <1>2 DEF Agree

\* ... in a state of the run queue,
LEMMA MovedIn ==
  ASSUME NEW s \in [Thread -> States], NEW q, NEW sq, NEW w, Agree(s, q, sq, w), NEW t \in Thread \ {Idle},
         NEW z, z = [s EXCEPT ![t] = "RUNNABLE"] \/ z = [s EXCEPT ![t] = "WOKEN"],
         NEW r, Lists(r), Listed(r) = Listed(q) \cup {t}, NEW x, x = sq \ {t}
  PROVE  Agree(z, r, x, w)
<1>1. PICK st \in {"RUNNABLE", "WOKEN"} : z = [s EXCEPT ![t] = st]
  OBVIOUS
<1>2. st \in States /\ st # "BLOCKED_TIMEOUT"
  BY DEF States
<1>3. Heaped(x, w)
  BY DEF Agree, Heaped
<1>4. Listed(r) = IF st \in {"RUNNABLE", "WOKEN"} THEN Listed(q) \cup {t} ELSE Listed(q) \ {t}
  OBVIOUS
<1>5. x = IF st = "BLOCKED_TIMEOUT" THEN sq \cup {t} ELSE sq \ {t}
  BY <1>2
<1> QED BY <1>1, <1>2, <1>3, <1>4, <1>5, Moved

\* ... in none of the two queues,
LEMMA MovedOut ==
  ASSUME NEW s \in [Thread -> States], NEW q, NEW sq, NEW w, Agree(s, q, sq, w), NEW t \in Thread \ {Idle},
         NEW z, z = [s EXCEPT ![t] = "BLOCKED"] \/ z = [s EXCEPT ![t] = "FREE"],
         NEW r, Lists(r), Listed(r) = Listed(q) \ {t}, NEW x, x = sq \ {t}
  PROVE  Agree(z, r, x, w)
<1>1. PICK st \in {"BLOCKED", "FREE"} : z = [s EXCEPT ![t] = st]
  OBVIOUS
<1>2. st \in States /\ st # "BLOCKED_TIMEOUT" /\ st \notin {"RUNNABLE", "WOKEN"}
  BY DEF States
<1>3. Heaped(x, w)
  BY DEF Agree, Heaped
<1>4. Listed(r) = IF st \in {"RUNNABLE", "WOKEN"} THEN Listed(q) \cup {t} ELSE Listed(q) \ {t}
  BY <1>2
<1>5. x = IF st = "BLOCKED_TIMEOUT" THEN sq \cup {t} ELSE sq \ {t}
  BY <1>2
<1> QED BY <1>1, <1>2, <1>3, <1>4, <1>5, Moved

\* ... in the timeout heap.
LEMMA MovedAsleep ==
  ASSUME NEW s \in [Thread -> States], NEW q, NEW sq, NEW w, Agree(s, q, sq, w), NEW t \in Thread \ {Idle},
         NEW z, z = [s EXCEPT ![t] = "BLOCKED_TIMEOUT"],
         NEW r, Lists(r), Listed(r) = Listed(q) \ {t}, NEW x, x = sq \cup {t}, NEW v, Heaped(x, v)
  PROVE  Agree(z, r, x, v)
<1>1. PICK st : st = "BLOCKED_TIMEOUT"
  OBVIOUS
<1>2. st \in States /\ st \notin {"RUNNABLE", "WOKEN"} /\ z = [s EXCEPT ![t] = st]
  BY <1>1 DEF States
<1>4. Listed(r) = IF st \in {"RUNNABLE", "WOKEN"} THEN Listed(q) \cup {t} ELSE Listed(q) \ {t}
  BY <1>2
<1>5. x = IF st = "BLOCKED_TIMEOUT" THEN sq \cup {t} ELSE sq \ {t}
  BY <1>1
<1> QED BY <1>1, <1>2, <1>4, <1>5, Moved

-----------------------------------------------------------------------------
(* Parts of the invariant.                                                 *)

LEMMA InvFacts ==
  ASSUME ThdInv
  PROVE  /\ now \in 1 .. MaxNow /\ timer \in 1 .. MaxNow + Period /\ NoDrift /\ curr \in Thread
         /\ Typed(state, cnt, wakeup) /\ Agree(state, runq, sleepq, wakeup)
         /\ timeout \in [Thread -> Nat] /\ last \in [Thread -> Nat] /\ woken \in [Thread -> Nat]
         /\ call \in [Thread -> Kinds \X Nat] /\ curr \in Listed(runq) \cup {Idle}
  BY DEF ThdInv, Types, Places, Typed

\* What Agree says of a thread.
LEMMA Placed ==
  ASSUME NEW s, NEW q, NEW sq, NEW w, Agree(s, q, sq, w), NEW t \in Thread \ {Idle}
  PROVE  /\ s[t] \in {"RUNNABLE", "WOKEN"} <=> t \in Listed(q)
         /\ s[t] = "BLOCKED_TIMEOUT" <=> t \in sq
         /\ t \in sq => t \in Sleeper \cup Periodic /\ w[t] = 0
  BY DEF Agree, PlaceOf, Heaped

\* The thread that runs is runnable.
LEMMA Running ==
  ASSUME ThdInv
  PROVE  state[curr] \in {"RUNNABLE", "WOKEN"} /\ curr \notin sleepq
<1>1. Agree(state, runq, sleepq, wakeup) /\ curr \in Thread /\ curr \in Listed(runq) \cup {Idle}
  BY InvFacts
<1>2. CASE curr = Idle
  BY <1>1, <1>2, Callers DEF Agree, PlaceOf, Heaped
<1>3. CASE curr # Idle
  <2>1. PICK t \in Thread \ {Idle} : t = curr
    BY <1>1, <1>3
  <2>2. t \in Listed(runq)
    BY <1>1, <2>1
  <2>3. PICK s : s = state
    OBVIOUS
  <2>4. PICK q : q = runq
    OBVIOUS
  <2>5. PICK sq : sq = sleepq
    OBVIOUS
  <2>6. PICK w : w = wakeup
    OBVIOUS
  <2>7. s[t] \in {"RUNNABLE", "WOKEN"} /\ t \notin sq
    BY <1>1, <2>2, <2>3, <2>4, <2>5, <2>6, Placed
  <2> QED BY <2>1, <2>3, <2>5, <2>7
<1> QED BY <1>2, <1>3

\* The threads that block are not woken by the timeout module.
LEMMA Apart ==
  ASSUME Roles, NEW E, E \subseteq Sleeper \cup Periodic, NEW t \in Blocker
  PROVE  t \notin E /\ t \in Thread \ {Idle} /\ t \in Remote
  BY Callers DEF Roles

\* After a choice.
LEMMA Choice ==
  ASSUME ThdInv, NEW s, NEW c, NEW q, NEW sq, NEW w, Typed(s, c, w), Agree(s, q, sq, w), now' = now,
         timeout' \in [Thread -> Nat], last' \in [Thread -> Nat], woken' \in [Thread -> Nat],
         call' \in [Thread -> Kinds \X Nat], sl_cs_exit_schedule(s, c, q, sq, w)
  PROVE  Types' /\ Places' /\ NoDrift' /\ \E E : Woke(E, s, c, w)
<1>1. now \in 1 .. MaxNow /\ timer \in 1 .. MaxNow + Period /\ NoDrift
  BY InvFacts
<1>2. /\ timer' \in 1 .. MaxNow + Period /\ NoDrift'
      /\ Typed(state', cnt', wakeup') /\ Agree(state', runq', sleepq', wakeup')
      /\ curr' \in Listed(runq') \cup {Idle} /\ curr' \in Thread
      /\ \E E : Woke(E, s, c, w)
  BY <1>1, Schedule
<1>3. Types'
  BY <1>1, <1>2 DEF Types, Typed
<1>4. Places'
  BY <1>2 DEF Places
<1> QED BY <1>2, <1>3, <1>4

\* After a call that makes no choice.
LEMMA NoChoice ==
  ASSUME ThdInv, NEW s, NEW c, Typed(s, c, wakeup), Agree(s, runq, sleepq, wakeup), now' = now,
         last' \in [Thread -> Nat], woken' \in [Thread -> Nat],
         call' \in [Thread -> Kinds \X Nat], sl_cs_exit(s, c)
  PROVE  Types' /\ Places' /\ NoDrift'
<1>1. /\ state' = s /\ cnt' = c /\ timer' = timer /\ curr' = curr /\ runq' = runq /\ sleepq' = sleepq
      /\ timeout' = timeout /\ wakeup' = wakeup
  BY DEF sl_cs_exit
<1>2. Types'
  BY <1>1, InvFacts DEF Types, Typed
<1>3. Places'
  BY <1>1, InvFacts DEF Places
<1> QED BY <1>1, <1>2, <1>3, InvFacts DEF NoDrift

\* A step that leaves what is counted of a thread.
LEMMA CountedKept ==
  ASSUME NEW t, Counted(t), state'[t] = state[t], cnt'[t] = cnt[t], call'[t] = call[t], woken'[t] = woken[t]
  PROVE  Counted(t)'
  BY DEF Counted

\* A choice leaves it but for the caller.
LEMMA CountedChoice ==
  ASSUME Roles, NEW E, NEW s, NEW c, NEW w, Woke(E, s, c, w), NEW t \in Blocker, Counted(t),
         s[t] = state[t], c[t] = cnt[t], call'[t] = call[t], woken'[t] = woken[t]
  PROVE  Counted(t)'
<1>1. t \notin E /\ t \in Thread
  BY Apart DEF Woke
<1>2. state'[t] = state[t] /\ cnt'[t] = cnt[t]
  BY <1>1 DEF Woke
<1> QED BY <1>2, CountedKept

\* A choice leaves what a call with a timeout waits for.
LEMMA TimedChoice ==
  ASSUME ThdInv, NEW E, NEW s, NEW c, NEW w, Woke(E, s, c, w), NEW t \in Thread, Timed(t), now' = now,
         s[t] = state[t] \/ s[t] = "FREE", w[t] = wakeup[t],
         timeout'[t] = timeout[t], call'[t] = call[t], woken'[t] = woken[t]
  PROVE  Timed(t)'
<1>1. now \in Nat
  BY InvFacts
<1>2. CASE t \in E
  BY <1>1, <1>2 DEF Timed, Woke
<1>3. CASE t \notin E
  BY <1>1, <1>3 DEF Timed, Woke
<1> QED BY <1>2, <1>3

\* A call leaves it.
LEMMA TimedKept ==
  ASSUME NEW t, Timed(t), now' = now, state'[t] = state[t] \/ state'[t] = "FREE", wakeup'[t] = wakeup[t],
         timeout'[t] = timeout[t], call'[t] = call[t], woken'[t] = woken[t]
  PROVE  Timed(t)'
  BY DEF Timed

\* A thread whose call has returned waits for nothing.
LEMMA TimedOver ==
  ASSUME NEW t, call'[t][1] \in {"run", "block"}
  PROVE  Timed(t)'
  BY DEF Timed

-----------------------------------------------------------------------------
(* The actions.                                                            *)

\* The initial state.
LEMMA InitInv ==
  ASSUME Roles, Init
  PROVE  ThdInv
<1>1. /\ Period \in Nat \ {0} /\ Window \in Nat \ {0} /\ MaxNow \in Nat \ {0}
      /\ High \cap Low = {} /\ Idle \notin High \cup Low /\ IsFiniteSet(High) /\ IsFiniteSet(Low)
  BY ThdAssumption
<1>2. PICK h \in SetToSeqs(High \ Waiting), l \in SetToSeqs(Low \ Waiting) : runq = <<h, l>>
  BY DEF Init
<1>3. IsFiniteSet(High \ Waiting) /\ IsFiniteSet(Low \ Waiting)
  BY <1>1, FS_Subset
<1>4. h \in Seq(High \ Waiting) /\ OnceEach(h) /\ \A e : Contains(h, e) <=> e \in High \ Waiting
  BY <1>3, OrderOf
<1>5. l \in Seq(Low \ Waiting) /\ OnceEach(l) /\ \A e : Contains(l, e) <=> e \in Low \ Waiting
  BY <1>3, OrderOf
<1>6. PICK q : q = runq
  OBVIOUS
<1>7. q[1] = h /\ q[2] = l
  BY <1>2, <1>6
<1>8. q \in [{1, 2} -> Seq(Thread)]
  <2>1. h \in Seq(Thread) /\ l \in Seq(Thread)
    <3>1. High \ Waiting \subseteq Thread /\ Low \ Waiting \subseteq Thread
      BY DEF Thread
    <3> QED BY <1>4, <1>5, <3>1
  <2>2. q \in [1 .. 2 -> Seq(Thread)]
    BY <1>2, <1>6, <2>1
  <2>3. 1 .. 2 = {1, 2}
    OBVIOUS
  <2> QED BY <2>2, <2>3
<1>9. \A e \in High : Prio(e) = 1
  BY DEF Prio
<1>10. \A e \in Low : Prio(e) = 2
  BY <1>1 DEF Prio
<1>11. Lists(q)
  BY <1>4, <1>5, <1>7, <1>8, <1>9, <1>10, ListsFrom
<1>12. Listed(q) = (High \cup Low) \ Waiting
  <2> SUFFICES ASSUME NEW t \in Thread PROVE Contains(q[Prio(t)], t) <=> t \in (High \cup Low) \ Waiting
    BY DEF Listed, Thread
  <2>1. CASE t \in High
    BY <1>4, <1>7, <1>9, <2>1
  <2>2. CASE t \notin High
    <3>1. Prio(t) = 2
      BY <2>2 DEF Prio
    <3> QED BY <1>5, <1>7, <2>2, <3>1
  <2> QED BY <2>1, <2>2
<1>13. /\ now = 1 /\ timer = 1 + Period /\ curr = Best(q) /\ sleepq = {}
       /\ state = [t \in Thread |-> IF t \in Waiting THEN "BLOCKED" ELSE "RUNNABLE"]
       /\ cnt = [t \in Thread |-> 0] /\ timeout = [t \in Thread |-> 0] /\ wakeup = [t \in Thread |-> 0]
       /\ last = [t \in Thread |-> 1] /\ woken = [t \in Thread |-> 0]
       /\ call = [t \in Thread |-> IF t \in Waiting THEN <<"block", 0>> ELSE <<"run", 0>>]
  BY <1>6 DEF Init, Returned
<1>14. curr \in Listed(q) \cup {Idle}
  BY <1>11, <1>13, BestListed
<1>15. Types
  <2>1. curr \in Thread
    BY <1>14, Callers DEF Listed
  <2>2. now \in 1 .. MaxNow /\ timer \in 1 .. MaxNow + Period
    BY <1>1, <1>13
  <2>3. state \in [Thread -> States] /\ call \in [Thread -> Kinds \X Nat]
    BY <1>13 DEF States, Kinds
  <2>4. /\ cnt \in [Thread -> Nat] /\ timeout \in [Thread -> Nat] /\ wakeup \in [Thread -> 0 .. MaxNow]
        /\ last \in [Thread -> Nat] /\ woken \in [Thread -> Nat]
    BY <1>1, <1>13
  <2> QED BY <2>1, <2>2, <2>3, <2>4 DEF Types
<1>16. ASSUME NEW t \in Thread PROVE PlaceOf(t, state, q, sleepq)
  <2>1. state[t] = (IF t \in Waiting THEN "BLOCKED" ELSE "RUNNABLE") /\ t \notin sleepq
    BY <1>13
  <2>2. Idle \notin Waiting
    BY Callers
  <2>3. t # Idle => t \in High \cup Low
    BY DEF Thread
  <2> QED BY <1>12, <2>1, <2>2, <2>3 DEF PlaceOf
<1>17. Places
  BY <1>6, <1>11, <1>13, <1>14, <1>16 DEF Places, Agree, Heaped
<1>18. NoDrift
  <2>1. timer - 1 = Period * 1
    BY <1>1, <1>13
  <2>2. (Period * 1) % Period = 0
    BY <1>1, MulMod
  <2> QED BY <2>1, <2>2 DEF NoDrift
<1>19. ASSUME NEW t \in Blocker PROVE Counted(t)
  <2>1. t \in Thread /\ t \in Waiting
    BY Callers DEF Roles
  <2>2. state[t] = "BLOCKED" /\ cnt[t] = 0 /\ woken[t] = 0 /\ call[t] = <<"block", 0>>
    BY <1>13, <2>1
  <2>3. call[t][1] = "block"
    BY <2>2
  <2> QED BY <2>2, <2>3 DEF Counted
<1>20. ASSUME NEW t \in Thread PROVE Timed(t)
  <2>1. call[t] = <<"block", 0>> \/ call[t] = <<"run", 0>>
    BY <1>13
  <2>2. call[t][1] = "block" \/ call[t][1] = "run"
    BY <2>1
  <2> QED BY <2>2 DEF Timed
<1> QED BY <1>15, <1>17, <1>18, <1>19, <1>20 DEF ThdInv

\* sl_sched_loop and sl_thd_yield: the lists change at most in their order.
LEMMA RechooseInv ==
  ASSUME Roles, ThdInv, NEW q, Lists(q), Listed(q) \ {Idle} = Listed(runq) \ {Idle}, UNCHANGED timeout,
         sl_cs_exit_schedule(state, cnt, q, sleepq, wakeup), UNCHANGED <<now, last, call, woken>>
  PROVE  ThdInv'
<1>1. Agree(state, q, sleepq, wakeup)
  <2>1. \A t \in Thread : PlaceOf(t, state, runq, sleepq)
    BY InvFacts DEF Agree
  <2>2. \A t \in Thread : PlaceOf(t, state, q, sleepq)
    BY <2>1 DEF PlaceOf
  <2> QED BY <2>2, InvFacts DEF Agree
<1>2. now' = now /\ timeout' = timeout /\ last' = last /\ call' = call /\ woken' = woken
  OBVIOUS
<1>3. Types' /\ Places' /\ NoDrift' /\ \E E : Woke(E, state, cnt, wakeup)
  BY <1>1, <1>2, InvFacts, Choice
<1>4. PICK E : Woke(E, state, cnt, wakeup)
  BY <1>3
<1>5. \A t \in Blocker : Counted(t)'
  BY <1>2, <1>4, CountedChoice DEF ThdInv
<1>6. \A t \in Thread : Timed(t)'
  BY <1>2, <1>4, TimedChoice DEF ThdInv
<1> QED BY <1>3, <1>5, <1>6 DEF ThdInv

LEMMA LoopInv ==
  ASSUME Roles, ThdInv, sl_sched_loop
  PROVE  ThdInv'
<1>1. Lists(runq)
  BY InvFacts DEF Agree
<1> QED BY <1>1, RechooseInv DEF sl_sched_loop

LEMMA YieldInv ==
  ASSUME Roles, ThdInv, NEW t \in Thread, sl_thd_yield(t)
  PROVE  ThdInv'
<1>1. Lists(runq) /\ curr \in Listed(runq) \cup {Idle}
  BY InvFacts DEF Agree
<1>2. curr = t
  BY DEF sl_thd_yield, Calls
<1>3. PICK q : q = AtEnd(runq, t)
  OBVIOUS
<1>4. Lists(q) /\ Listed(q) = Listed(runq) \cup {t}
  BY <1>1, <1>3, EndLists
<1>5. Listed(q) \ {Idle} = Listed(runq) \ {Idle}
  BY <1>1, <1>2, <1>4
<1> QED BY <1>3, <1>4, <1>5, RechooseInv DEF sl_thd_yield

LEMMA TickInv ==
  ASSUME ThdInv, tick
  PROVE  ThdInv'
<1>1. /\ now < MaxNow /\ now' = now + 1 /\ timer' = timer /\ curr' = curr /\ state' = state /\ cnt' = cnt
      /\ runq' = runq /\ sleepq' = sleepq /\ timeout' = timeout /\ wakeup' = wakeup /\ last' = last
      /\ call' = call /\ woken' = woken
  BY DEF tick
<1>2. now \in 1 .. MaxNow /\ now' \in 1 .. MaxNow
  BY <1>1, InvFacts, ThdAssumption
<1>3. Types' /\ Places' /\ NoDrift'
  BY <1>1, <1>2 DEF ThdInv, Types, Places, NoDrift
<1>4. \A t \in Blocker : Counted(t)'
  BY <1>1, CountedKept DEF ThdInv
<1>5. ASSUME NEW t \in Thread PROVE Timed(t)'
  <2>1. Timed(t) /\ wakeup[t] \in 0 .. MaxNow
    BY InvFacts DEF ThdInv, Typed
  <2>2. wakeup[t] <= now => wakeup[t] <= now'
    BY <1>1, <1>2, <2>1
  <2> QED BY <1>1, <2>1, <2>2 DEF Timed
<1> QED BY <1>3, <1>4, <1>5 DEF ThdInv

LEMMA StutterInv ==
  ASSUME ThdInv, UNCHANGED vars
  PROVE  ThdInv'
  BY DEF ThdInv, vars, Types, Places, NoDrift, Counted, Timed

\* sl_thd_block
LEMMA BlockInv ==
  ASSUME Roles, ThdInv, NEW t \in Thread, sl_thd_block(t)
  PROVE  ThdInv'
<1>1. /\ curr = t /\ t \in Blocker /\ call[t][1] = "run" /\ state[t] # "FREE" /\ cnt[t] >= 1
      /\ call' = [call EXCEPT ![t] = <<"block", 0>>] /\ now' = now /\ last' = last /\ woken' = woken
  BY DEF sl_thd_block, Calls
<1>2. t \in Thread \ {Idle} /\ t \in Remote
  <2>1. {} \subseteq Sleeper \cup Periodic
    OBVIOUS
  <2> QED BY <1>1, <2>1, Apart
<1>3. Counted(t) /\ cnt[t] = woken[t] + 1 /\ state[t] = "RUNNABLE"
  BY <1>1, Running DEF ThdInv, Counted
<1>4. /\ state \in [Thread -> States] /\ cnt \in [Thread -> Nat] /\ wakeup \in [Thread -> 0 .. MaxNow]
      /\ timeout \in [Thread -> Nat] /\ last \in [Thread -> Nat] /\ woken \in [Thread -> Nat]
      /\ call \in [Thread -> Kinds \X Nat] /\ Agree(state, runq, sleepq, wakeup)
  BY InvFacts DEF Typed
<1>5. /\ call' \in [Thread -> Kinds \X Nat] /\ call'[t] = <<"block", 0>>
      /\ \A u \in Thread : u # t => call'[u] = call[u]
  BY <1>1, <1>4 DEF Kinds
<1>6. call'[t][1] = "block"
  BY <1>5
<1>7. PICK c : c = [cnt EXCEPT ![t] = @ - 1]
  OBVIOUS
<1>8. c \in [Thread -> Nat] /\ c[t] = woken[t] /\ \A u \in Thread : u # t => c[u] = cnt[u]
  <2>0. PICK n \in Nat : n = woken[t]
    BY <1>4
  <2>1. cnt[t] - 1 \in Nat /\ cnt[t] - 1 = woken[t]
    BY <1>3, <2>0
  <2> QED BY <1>4, <1>7, <2>1
<1>9. \A u \in Blocker : u \in Thread
  BY Callers
<1>10. CASE cnt[t] = 1
  <2>1. PICK s : s = [state EXCEPT ![t] = "BLOCKED"]
    OBVIOUS
  <2>2. PICK q : q = Without(runq, t)
    OBVIOUS
  <2>3. timeout' = timeout /\ sl_cs_exit_schedule(s, c, q, sleepq, wakeup)
    BY <1>3, <1>7, <1>10, <2>1, <2>2 DEF sl_thd_block
  <2>4. s \in [Thread -> States] /\ s[t] = "BLOCKED" /\ \A u \in Thread : u # t => s[u] = state[u]
    BY <1>4, <2>1 DEF States
  <2>5. Lists(q) /\ Listed(q) = Listed(runq) \ {t}
    BY <1>4, <2>2, WithoutLists DEF Agree
  <2>6. sleepq = sleepq \ {t} /\ Heaped(sleepq, wakeup)
    BY <1>1, <1>4, Running DEF Agree
  <2>7. Agree(s, q, sleepq, wakeup)
    BY <1>2, <1>4, <2>1, <2>5, <2>6, MovedOut
  <2>8. Typed(s, c, wakeup)
    BY <1>4, <1>8, <2>4 DEF Typed
  <2>9. Types' /\ Places' /\ NoDrift' /\ \E E : Woke(E, s, c, wakeup)
    BY <1>1, <1>4, <1>5, <2>3, <2>7, <2>8, Choice
  <2>10. PICK E : Woke(E, s, c, wakeup)
    BY <2>9
  <2>11. ASSUME NEW u \in Blocker PROVE Counted(u)'
    <3>1. CASE u = t
      <4>1. t \notin E
        BY <1>1, <2>10, Apart DEF Woke
      <4>2. state'[t] = "BLOCKED" /\ cnt'[t] = woken[t]
        BY <1>8, <2>4, <2>10, <4>1 DEF Woke
      <4>3. woken[t] = 0
        <5>1. PICK n \in Nat : n = woken[t]
          BY <1>4
        <5> QED BY <1>3, <1>10, <5>1
      <4>4. woken[t] + 0 = woken[t] /\ call'[t][1] # "run"
        BY <1>4, <1>6
      <4> QED BY <1>1, <1>6, <3>1, <4>2, <4>3, <4>4 DEF Counted
    <3>2. CASE u # t
      BY <1>1, <1>5, <1>8, <1>9, <2>4, <2>10, <3>2, CountedChoice DEF ThdInv
    <3> QED BY <3>1, <3>2
  <2>12. ASSUME NEW u \in Thread PROVE Timed(u)'
    <3>1. CASE u = t
      BY <1>6, <3>1, TimedOver
    <3>2. CASE u # t
      BY <1>1, <1>5, <2>3, <2>4, <2>10, <3>2, TimedChoice DEF ThdInv
    <3> QED BY <3>1, <3>2
  <2> QED BY <2>9, <2>11, <2>12 DEF ThdInv
<1>11. CASE cnt[t] # 1
  <2>3. timeout' = timeout /\ sl_cs_exit_schedule(state, c, runq, sleepq, wakeup)
    BY <1>3, <1>7, <1>11 DEF sl_thd_block
  <2>8. Typed(state, c, wakeup)
    BY <1>4, <1>8 DEF Typed
  <2>9. Types' /\ Places' /\ NoDrift' /\ \E E : Woke(E, state, c, wakeup)
    BY <1>1, <1>4, <1>5, <2>3, <2>8, Choice
  <2>10. PICK E : Woke(E, state, c, wakeup)
    BY <2>9
  <2>11. ASSUME NEW u \in Blocker PROVE Counted(u)'
    <3>1. CASE u = t
      <4>1. t \notin E
        BY <1>1, <2>10, Apart DEF Woke
      <4>2. state'[t] = "RUNNABLE" /\ cnt'[t] = woken[t]
        BY <1>3, <1>8, <2>10, <4>1 DEF Woke
      <4>3. woken[t] # 0
        BY <1>3, <1>4, <1>11
      <4>4. woken[t] + 0 = woken[t] /\ call'[t][1] # "run"
        BY <1>4, <1>6
      <4> QED BY <1>1, <1>6, <3>1, <4>2, <4>3, <4>4 DEF Counted
    <3>2. CASE u # t
      BY <1>1, <1>5, <1>8, <1>9, <2>10, <3>2, CountedChoice DEF ThdInv
    <3> QED BY <3>1, <3>2
  <2>12. ASSUME NEW u \in Thread PROVE Timed(u)'
    <3>1. CASE u = t
      BY <1>6, <3>1, TimedOver
    <3>2. CASE u # t
      BY <1>1, <1>5, <2>3, <2>10, <3>2, TimedChoice DEF ThdInv
    <3> QED BY <3>1, <3>2
  <2> QED BY <2>9, <2>11, <2>12 DEF ThdInv
<1> QED BY <1>10, <1>11

\* sl_thd_block_timeout and sl_thd_block_periodic, by a thread that is not woken from other
\* cores
LEMMA SleepInv ==
  ASSUME Roles, ThdInv, NEW t \in Sleeper \cup Periodic, NEW k \in {"timeout", "periodic"}, NEW x \in Nat,
         curr = t, call[t][1] = "run", now' = now, last' \in [Thread -> Nat],
         sl_thd_block_timeout_intern(t, k, x)
  PROVE  ThdInv'
<1>1. t \in Thread \ {Idle} /\ t \notin Blocker
  BY Callers DEF Roles
<1>2. /\ state \in [Thread -> States] /\ cnt \in [Thread -> Nat] /\ wakeup \in [Thread -> 0 .. MaxNow]
      /\ timeout \in [Thread -> Nat] /\ woken \in [Thread -> Nat] /\ now \in 1 .. MaxNow
      /\ call \in [Thread -> Kinds \X Nat] /\ Agree(state, runq, sleepq, wakeup)
  BY InvFacts DEF Typed
<1>3. state[t] \in {"RUNNABLE", "WOKEN"} /\ t \notin sleepq
  BY Running
<1>4. \A u \in Blocker : u \in Thread /\ u # t
  BY <1>1, Callers
<1>5. CASE state[t] = "WOKEN"
  <2>1. PICK s : s = [state EXCEPT ![t] = "RUNNABLE"]
    OBVIOUS
  <2>2. sl_cs_exit(s, cnt) /\ call' = [call EXCEPT ![t] = <<"run", 0>>] /\ woken' = [woken EXCEPT ![t] = 0]
    BY <1>5, <2>1 DEF sl_thd_block_timeout_intern, Returned
  <2>3. s \in [Thread -> States] /\ \A u \in Thread : u # t => s[u] = state[u]
    BY <1>2, <2>1 DEF States
  <2>4. /\ call' \in [Thread -> Kinds \X Nat] /\ call'[t] = <<"run", 0>>
        /\ \A u \in Thread : u # t => call'[u] = call[u]
    BY <1>1, <1>2, <2>2 DEF Kinds
  <2>5. woken' \in [Thread -> Nat] /\ \A u \in Thread : u # t => woken'[u] = woken[u]
    BY <1>2, <2>2
  <2>6. sleepq = sleepq \ {t} /\ Heaped(sleepq, wakeup) /\ Lists(runq)
    BY <1>2, <1>3 DEF Agree
  <2>7. Listed(runq) = Listed(runq) \cup {t}
    BY <1>1, <1>2, <1>3, Placed
  <2>8. Agree(s, runq, sleepq, wakeup)
    BY <1>1, <1>2, <2>1, <2>6, <2>7, MovedIn
  <2>9. Typed(s, cnt, wakeup)
    BY <1>2, <2>3 DEF Typed
  <2>10. Types' /\ Places' /\ NoDrift'
    BY <2>2, <2>4, <2>5, <2>8, <2>9, NoChoice
  <2>11. state' = s /\ cnt' = cnt /\ timeout' = timeout /\ wakeup' = wakeup
    BY <2>2 DEF sl_cs_exit
  <2>12. \A u \in Blocker : Counted(u)'
    BY <1>4, <2>3, <2>4, <2>5, <2>11, CountedKept DEF ThdInv
  <2>13. ASSUME NEW u \in Thread PROVE Timed(u)'
    <3>1. CASE u = t
      <4>1. call'[t][1] = "run"
        BY <2>4
      <4> QED BY <3>1, <4>1, TimedOver
    <3>2. CASE u # t
      BY <2>3, <2>4, <2>5, <2>11, <3>2, TimedKept DEF ThdInv
    <3> QED BY <3>1, <3>2
  <2> QED BY <2>10, <2>12, <2>13 DEF ThdInv
<1>6. CASE state[t] # "WOKEN"
  <2>1. PICK s : s = [state EXCEPT ![t] = "BLOCKED_TIMEOUT"]
    OBVIOUS
  <2>2. PICK q : q = Without(runq, t)
    OBVIOUS
  <2>3. PICK sq : sq = sleepq \cup {t}
    OBVIOUS
  <2>4. PICK w : w = [wakeup EXCEPT ![t] = 0]
    OBVIOUS
  <2>5. /\ timeout' = [timeout EXCEPT ![t] = x] /\ sl_cs_exit_schedule(s, cnt, q, sq, w)
        /\ call' = [call EXCEPT ![t] = <<k, x>>] /\ woken' = woken
    BY <1>6, <2>1, <2>2, <2>3, <2>4 DEF sl_thd_block_timeout_intern
  <2>6. /\ s \in [Thread -> States] /\ s[t] = "BLOCKED_TIMEOUT"
        /\ \A u \in Thread : u # t => s[u] = state[u]
    BY <1>1, <1>2, <2>1 DEF States
  <2>7. w \in [Thread -> 0 .. MaxNow] /\ w[t] = 0 /\ \A u \in Thread : u # t => w[u] = wakeup[u]
    <3>1. 0 \in 0 .. MaxNow
      BY ThdAssumption
    <3> QED BY <1>1, <1>2, <2>4, <3>1
  <2>8. /\ call' \in [Thread -> Kinds \X Nat] /\ call'[t] = <<k, x>>
        /\ \A u \in Thread : u # t => call'[u] = call[u]
    BY <1>1, <1>2, <2>5 DEF Kinds
  <2>9. timeout' \in [Thread -> Nat] /\ timeout'[t] = x /\ \A u \in Thread : u # t => timeout'[u] = timeout[u]
    BY <1>1, <1>2, <2>5
  <2>10. Lists(q) /\ Listed(q) = Listed(runq) \ {t}
    BY <1>2, <2>2, WithoutLists DEF Agree
  <2>11. Heaped(sq, w)
    <3>1. sleepq \subseteq Sleeper \cup Periodic /\ \A u \in sleepq : wakeup[u] = 0
      BY <1>2 DEF Agree, Heaped
    <3>2. \A u \in sq : u = t \/ (u \in sleepq /\ u # t /\ u \in Thread)
      BY <2>3, <3>1, Callers
    <3> QED BY <2>3, <2>7, <3>1, <3>2 DEF Heaped
  <2>12. Agree(s, q, sq, w)
    BY <1>1, <1>2, <2>1, <2>3, <2>10, <2>11, MovedAsleep
  <2>13. Typed(s, cnt, w)
    BY <1>2, <2>6, <2>7 DEF Typed
  <2>14. woken' \in [Thread -> Nat]
    BY <1>2, <2>5
  <2>15. Types' /\ Places' /\ NoDrift' /\ \E E : Woke(E, s, cnt, w)
    BY <2>5, <2>8, <2>9, <2>12, <2>13, <2>14, Choice
  <2>16. PICK E : Woke(E, s, cnt, w)
    BY <2>15
  <2>17. \A u \in Blocker : Counted(u)'
    BY <1>4, <2>5, <2>6, <2>8, <2>16, CountedChoice DEF ThdInv
  <2>18. ASSUME NEW u \in Thread PROVE Timed(u)'
    <3>1. CASE u = t
      <4>1. call'[t][1] = k /\ call'[t][2] = x
        BY <2>8
      <4>2. CASE t \in E
        <5>1. timeout'[t] <= now /\ wakeup'[t] = now
          BY <1>1, <2>16, <4>2 DEF Woke
        <5>2. wakeup'[t] <= now'
          BY <1>2, <5>1
        <5> QED BY <2>9, <3>1, <4>1, <5>1, <5>2 DEF Timed
      <4>3. CASE t \notin E
        <5>1. state'[t] = "BLOCKED_TIMEOUT"
          BY <1>1, <2>6, <2>16, <4>3 DEF Woke
        <5> QED BY <2>9, <3>1, <4>1, <5>1 DEF Timed
      <4> QED BY <4>2, <4>3
    <3>2. CASE u # t
      BY <2>5, <2>6, <2>7, <2>8, <2>9, <2>16, <3>2, TimedChoice DEF ThdInv
    <3> QED BY <3>1, <3>2
  <2> QED BY <2>15, <2>17, <2>18 DEF ThdInv
<1> QED BY <1>5, <1>6

LEMMA TimeoutInv ==
  ASSUME Roles, ThdInv, NEW t \in Thread, sl_thd_block_timeout(t)
  PROVE  ThdInv'
<1>0. SUFFICES ASSUME ~sl_thd_block(t) PROVE ThdInv'
  BY BlockInv
<1>1. /\ curr = t /\ t \in Sleeper /\ call[t][1] = "run" /\ now' = now /\ last' = last
      /\ \E x \in 1 .. MaxNow : sl_thd_block_timeout_intern(t, "timeout", x)
  BY <1>0 DEF sl_thd_block_timeout, Calls
<1>2. PICK x \in 1 .. MaxNow : sl_thd_block_timeout_intern(t, "timeout", x)
  BY <1>1
<1>3. x \in Nat
  BY ThdAssumption
<1>4. last' \in [Thread -> Nat]
  BY <1>1, InvFacts
<1> QED BY <1>1, <1>2, <1>3, <1>4, SleepInv

LEMMA PeriodicInv ==
  ASSUME Roles, ThdInv, NEW t \in Thread, sl_thd_block_periodic(t)
  PROVE  ThdInv'
<1>1. /\ curr = t /\ t \in Periodic /\ call[t][1] = "run" /\ now' = now
      /\ last' = IF state[t] = "WOKEN" THEN last ELSE [last EXCEPT ![t] = @ + Window]
      /\ sl_thd_block_timeout_intern(t, "periodic", last[t] + Window)
  BY DEF sl_thd_block_periodic, Calls
<1>2. last \in [Thread -> Nat] /\ last[t] + Window \in Nat
  <2>1. last \in [Thread -> Nat]
    BY InvFacts
  <2> QED BY <2>1, ThdAssumption
<1>3. PICK x \in Nat : x = last[t] + Window
  BY <1>2
<1>4. last' \in [Thread -> Nat]
  BY <1>1, <1>2
<1> QED BY <1>1, <1>3, <1>4, SleepInv

\* A call that returns
LEMMA ReturnInv ==
  ASSUME Roles, ThdInv, NEW t \in Thread, return(t)
  PROVE  ThdInv'
<1>1. /\ curr = t /\ call[t][1] # "run" /\ now' = now /\ timer' = timer /\ curr' = curr /\ state' = state
      /\ cnt' = cnt /\ runq' = runq /\ sleepq' = sleepq /\ timeout' = timeout /\ wakeup' = wakeup
      /\ last' = last
  BY DEF return
<1>2. /\ woken \in [Thread -> Nat] /\ call \in [Thread -> Kinds \X Nat]
      /\ timeout \in [Thread -> Nat] /\ wakeup \in [Thread -> 0 .. MaxNow] /\ cnt \in [Thread -> Nat]
  BY InvFacts DEF Typed
<1>3. PICK n : n = IF call[t][1] = "block" \/ Elapsed(t) <= 0 THEN 0
                   ELSE IF call[t][1] = "timeout" THEN Elapsed(t) ELSE Elapsed(t) \div Window + 1
  OBVIOUS
<1>4. n \in Nat
  <2>1. Elapsed(t) \in Int
    <3>1. timeout[t] \in Nat /\ wakeup[t] \in Int
      BY <1>2
    <3> QED BY <3>1 DEF Elapsed
  <2>2. PICK y \in Int : y = Elapsed(t)
    BY <2>1
  <2>3. y > 0 => y \in Nat /\ y \div Window \in Nat
    BY ThdAssumption
  <2>4. y > 0 => y \div Window + 1 \in Nat
    BY <2>3
  <2>5. n = IF call[t][1] = "block" \/ y <= 0 THEN 0 ELSE IF call[t][1] = "timeout" THEN y ELSE y \div Window + 1
    BY <1>3, <2>2
  <2> QED BY <2>3, <2>4, <2>5
<1>5. call' = [call EXCEPT ![t] = <<"run", n>>] /\ woken' = [woken EXCEPT ![t] = IF @ > 0 THEN @ - 1 ELSE 0]
  BY <1>3 DEF return, Returned
<1>6. /\ call' \in [Thread -> Kinds \X Nat] /\ call'[t] = <<"run", n>>
      /\ \A u \in Thread : u # t => call'[u] = call[u]
  BY <1>2, <1>4, <1>5 DEF Kinds
<1>7. /\ woken' \in [Thread -> Nat] /\ \A u \in Thread : u # t => woken'[u] = woken[u]
      /\ woken[t] > 0 => woken'[t] = woken[t] - 1
  BY <1>2, <1>5
<1>8. Types' /\ Places' /\ NoDrift'
  BY <1>1, <1>6, <1>7 DEF ThdInv, Types, Places, NoDrift
<1>9. call'[t][1] = "run"
  BY <1>6
<1>10. ASSUME NEW u \in Blocker PROVE Counted(u)'
  <2>1. CASE u = t
    <3>1. Counted(t) /\ state[t] \in {"RUNNABLE", "WOKEN"}
      BY <1>1, <2>1, Running DEF ThdInv
    <3>2. state[t] = "RUNNABLE" /\ cnt[t] = woken[t] /\ cnt[t] # 0
      <4>1. cnt[t] = woken[t] + 0 /\ state[t] = "RUNNABLE" /\ cnt[t] # 0
        BY <1>1, <3>1 DEF Counted
      <4> QED BY <1>2, <4>1
    <3>3. cnt[t] = woken'[t] + 1
      BY <1>2, <1>7, <3>2
    <3> QED BY <1>1, <1>9, <2>1, <3>2, <3>3 DEF Counted
  <2>2. CASE u # t
    BY <1>1, <1>6, <1>7, <2>2, CountedKept, Callers DEF ThdInv
  <2> QED BY <2>1, <2>2
<1>11. ASSUME NEW u \in Thread PROVE Timed(u)'
  <2>1. CASE u = t
    BY <1>9, <2>1, TimedOver
  <2>2. CASE u # t
    BY <1>1, <1>6, <1>7, <2>2, TimedKept DEF ThdInv
  <2> QED BY <2>1, <2>2
<1> QED BY <1>8, <1>10, <1>11 DEF ThdInv

\* sl_thd_wakeup of a thread that has blocked, and of a thread of another core
LEMMA WakeInv ==
  ASSUME Roles, ThdInv, NEW u \in Thread \ {Idle}, state[u] # "FREE",
         u \in Blocker => u \in Remote,
         NEW sq, sq = sleepq \ {u}, Wake(u, sq), now' = now, last' = last, call' = call,
         woken' = [woken EXCEPT ![u] = @ + 1]
  PROVE  ThdInv'
<1>1. /\ state \in [Thread -> States] /\ cnt \in [Thread -> Nat] /\ wakeup \in [Thread -> 0 .. MaxNow]
      /\ timeout \in [Thread -> Nat] /\ last \in [Thread -> Nat] /\ woken \in [Thread -> Nat]
      /\ call \in [Thread -> Kinds \X Nat] /\ Agree(state, runq, sleepq, wakeup)
  BY InvFacts DEF Typed
<1>2. PICK s : s = [state EXCEPT ![u] = "RUNNABLE"]
  OBVIOUS
<1>3. PICK c : c = [cnt EXCEPT ![u] = @ + 1]
  OBVIOUS
<1>4. PICK q : q = AtFront(runq, u)
  OBVIOUS
<1>5. timeout' = timeout /\ sl_cs_exit_schedule(s, c, q, sq, wakeup)
  BY <1>2, <1>3, <1>4 DEF Wake
<1>6. s \in [Thread -> States] /\ s[u] = "RUNNABLE" /\ \A t \in Thread : t # u => s[t] = state[t]
  BY <1>1, <1>2 DEF States
<1>7. c \in [Thread -> Nat] /\ c[u] = cnt[u] + 1 /\ \A t \in Thread : t # u => c[t] = cnt[t]
  BY <1>1, <1>3
<1>8. woken' \in [Thread -> Nat] /\ woken'[u] = woken[u] + 1 /\ \A t \in Thread : t # u => woken'[t] = woken[t]
  BY <1>1
<1>9. Lists(q) /\ Listed(q) = Listed(runq) \cup {u}
  BY <1>1, <1>4, FrontLists DEF Agree
<1>10. Agree(s, q, sq, wakeup)
  BY <1>1, <1>2, <1>9, MovedIn
<1>11. Typed(s, c, wakeup)
  BY <1>1, <1>6, <1>7 DEF Typed
<1>12. Types' /\ Places' /\ NoDrift' /\ \E E : Woke(E, s, c, wakeup)
  BY <1>1, <1>5, <1>8, <1>10, <1>11, Choice
<1>13. PICK E : Woke(E, s, c, wakeup)
  BY <1>12
<1>14. PICK x \in Nat : x = woken[u]
  BY <1>1
<1>15. PICK n \in Nat : n = cnt[u]
  BY <1>1
<1>16. ASSUME NEW t \in Blocker PROVE Counted(t)'
  <2>0. t \in Thread
    BY Callers
  <2>1. CASE t = u
    <3>1. u \notin E
      BY <1>13, <2>1, Apart DEF Woke
    <3>2. state'[u] = "RUNNABLE" /\ cnt'[u] = n + 1
      BY <1>6, <1>7, <1>13, <1>15, <3>1 DEF Woke
    <3>3. PICK d \in {0, 1} : d = IF call[u][1] = "run" THEN 1 ELSE 0
      OBVIOUS
    <3>4. n = x + d /\ call[u][1] \in {"run", "block"}
      BY <1>14, <1>15, <2>1, <3>3 DEF ThdInv, Counted
    <3>5. n + 1 = (x + 1) + d /\ n + 1 # 0
      BY <3>4
    <3>6. cnt'[u] = woken'[u] + d
      BY <1>8, <1>14, <3>2, <3>5
    <3> QED BY <2>1, <3>2, <3>3, <3>4, <3>5, <3>6 DEF Counted
  <2>2. CASE t # u
    BY <1>6, <1>7, <1>8, <1>13, <2>0, <2>2, CountedChoice DEF ThdInv
  <2> QED BY <2>1, <2>2
<1>17. ASSUME NEW t \in Thread PROVE Timed(t)'
  <2>1. CASE t = u
    <3>1. Timed(u) /\ (state[u] = "BLOCKED_TIMEOUT" => wakeup[u] = 0)
      <4>1. state[u] = "BLOCKED_TIMEOUT" => wakeup[u] = 0
        BY <1>1, Placed
      <4> QED BY <4>1 DEF ThdInv
    <3>2. woken'[u] > 0
      BY <1>8, <1>14
    <3>3. timeout'[u] = timeout[u] /\ call'[u] = call[u]
      BY <1>5
    <3>4. CASE u \in E
      <4>1. wakeup'[u] = now /\ timeout'[u] <= now
        BY <1>13, <3>4 DEF Woke
      <4>2. now <= now'
        BY InvFacts
      <4> QED BY <2>1, <3>1, <3>3, <4>1, <4>2 DEF Timed
    <3>5. CASE u \notin E
      <4>1. wakeup'[u] = wakeup[u]
        BY <1>13, <3>5 DEF Woke
      <4> QED BY <2>1, <3>1, <3>2, <3>3, <4>1 DEF Timed
    <3> QED BY <3>4, <3>5
  <2>2. CASE t # u
    BY <1>5, <1>6, <1>8, <1>13, <2>2, TimedChoice DEF ThdInv
  <2> QED BY <2>1, <2>2
<1> QED BY <1>12, <1>16, <1>17 DEF ThdInv

LEMMA RemoteInv ==
  ASSUME Roles, ThdInv, NEW u \in Thread, sl_xcpu_process(u)
  PROVE  ThdInv'
<1>1. /\ u \in Remote /\ state[u] # "FREE" /\ Wake(u, sleepq) /\ now' = now /\ last' = last /\ call' = call
      /\ woken' = [woken EXCEPT ![u] = @ + 1]
  BY DEF sl_xcpu_process
<1>2. u \in Thread \ {Idle} /\ u \notin Sleeper \cup Periodic
  BY <1>1, Callers DEF Roles
<1>3. sleepq = sleepq \ {u}
  BY <1>2, InvFacts DEF Agree, Heaped
<1> QED BY <1>1, <1>2, <1>3, WakeInv

LEMMA WakeupInv ==
  ASSUME Roles, ThdInv, NEW t \in Thread, sl_thd_wakeup(t)
  PROVE  ThdInv'
<1>1. PICK u \in Thread \ ({t, Idle} \cup Remote) :
        /\ state[u] # "FREE" /\ cnt[u] < MaxCnt
        /\ \/ Runnable(u) /\ sl_cs_exit([state EXCEPT ![u] = "WOKEN"], cnt)
           \/ ~Runnable(u) /\ Wake(u, sleepq \ {u})
        /\ woken' = [woken EXCEPT ![u] = IF state[u] = "WOKEN" THEN @ ELSE @ + 1]
  BY DEF sl_thd_wakeup
<1>2. now' = now /\ last' = last /\ call' = call
  BY DEF sl_thd_wakeup
<1>3. u \in Thread \ {Idle} /\ u \notin Blocker
  BY DEF Roles
<1>4. CASE Runnable(u)
  <2>1. PICK s : s = [state EXCEPT ![u] = "WOKEN"]
    OBVIOUS
  <2>2. sl_cs_exit(s, cnt)
    BY <1>1, <1>4, <2>1
  <2>3. /\ state \in [Thread -> States] /\ cnt \in [Thread -> Nat] /\ wakeup \in [Thread -> 0 .. MaxNow]
        /\ last \in [Thread -> Nat] /\ woken \in [Thread -> Nat]
        /\ call \in [Thread -> Kinds \X Nat] /\ Agree(state, runq, sleepq, wakeup)
    BY InvFacts DEF Typed
  <2>4. s \in [Thread -> States] /\ \A v \in Thread : v # u => s[v] = state[v]
    BY <2>1, <2>3 DEF States
  <2>5. PICK x \in Nat : x = woken[u]
    BY <1>3, <2>3
  <2>6. /\ woken' \in [Thread -> Nat] /\ woken'[u] \in {x, x + 1}
        /\ \A v \in Thread : v # u => woken'[v] = woken[v]
    BY <1>1, <1>3, <2>3, <2>5
  <2>7. state[u] \in {"RUNNABLE", "WOKEN"} /\ state[u] # "BLOCKED_TIMEOUT"
    BY <1>4 DEF Runnable
  <2>8. sleepq = sleepq \ {u} /\ Lists(runq)
    BY <1>3, <2>3, <2>7, Placed DEF Agree
  <2>9. Listed(runq) = Listed(runq) \cup {u}
    BY <1>3, <2>3, <2>7, Placed
  <2>10. Agree(s, runq, sleepq, wakeup)
    BY <1>3, <2>1, <2>3, <2>8, <2>9, MovedIn
  <2>11. Typed(s, cnt, wakeup)
    BY <2>3, <2>4 DEF Typed
  <2>12. Types' /\ Places' /\ NoDrift'
    BY <1>2, <2>2, <2>3, <2>6, <2>10, <2>11, NoChoice
  <2>13. state' = s /\ cnt' = cnt /\ timeout' = timeout /\ wakeup' = wakeup
    BY <2>2 DEF sl_cs_exit
  <2>14. \A v \in Blocker : Counted(v)'
    BY <1>2, <1>3, <2>4, <2>6, <2>13, CountedKept, Callers DEF ThdInv
  <2>15. ASSUME NEW v \in Thread PROVE Timed(v)'
    <3>1. CASE v = u
      <4>1. Timed(u)
        BY <1>3 DEF ThdInv
      <4>2. woken[u] > 0 => woken'[u] > 0
        BY <2>5, <2>6
      <4>3. state[u] \notin {"BLOCKED_TIMEOUT", "FREE"}
        BY <2>7
      <4> QED BY <1>2, <2>13, <3>1, <4>1, <4>2, <4>3 DEF Timed
    <3>2. CASE v # u
      BY <1>2, <2>4, <2>6, <2>13, <3>2, TimedKept DEF ThdInv
    <3> QED BY <3>1, <3>2
  <2> QED BY <2>12, <2>14, <2>15 DEF ThdInv
<1>5. CASE ~Runnable(u)
  <2>1. state[u] # "WOKEN"
    BY <1>5 DEF Runnable
  <2>2. woken' = [woken EXCEPT ![u] = @ + 1]
    BY <1>1, <2>1
  <2>3. PICK sq : sq = sleepq \ {u}
    OBVIOUS
  <2>4. Wake(u, sq)
    BY <1>1, <1>5, <2>3
  <2> QED BY <1>1, <1>2, <1>3, <2>2, <2>3, <2>4, WakeInv
<1> QED BY <1>4, <1>5

\* sl_thd_free
LEMMA FreeInv ==
  ASSUME Roles, ThdInv, NEW t \in Thread, sl_thd_free(t)
  PROVE  ThdInv'
<1> DEFINE sqOf(u) == IF state[u] = "BLOCKED_TIMEOUT" THEN sleepq \ {u} ELSE sleepq
<1>1. PICK u \in Thread \ {Idle} :
        /\ state[u] # "FREE"
        /\ \/ /\ u = t /\ UNCHANGED timeout
              /\ sl_cs_exit_schedule([state EXCEPT ![u] = "FREE"], cnt, Without(runq, u), sqOf(u), wakeup)
           \/ /\ u # t /\ state' = [state EXCEPT ![u] = "FREE"] /\ runq' = Without(runq, u) /\ sleepq' = sqOf(u)
              /\ UNCHANGED <<timer, curr, cnt, timeout, wakeup>>
  BY DEF sl_thd_free
<1>2. now' = now /\ last' = last /\ call' = call /\ woken' = woken /\ curr = t /\ timeout' = timeout
  BY <1>1 DEF sl_thd_free, Calls
<1>3. /\ state \in [Thread -> States] /\ cnt \in [Thread -> Nat] /\ wakeup \in [Thread -> 0 .. MaxNow]
      /\ timeout \in [Thread -> Nat] /\ last \in [Thread -> Nat] /\ woken \in [Thread -> Nat]
      /\ call \in [Thread -> Kinds \X Nat] /\ Agree(state, runq, sleepq, wakeup)
  BY InvFacts DEF Typed
<1>4. PICK s : s = [state EXCEPT ![u] = "FREE"]
  OBVIOUS
<1>5. PICK q : q = Without(runq, u)
  OBVIOUS
<1>6. PICK sq : sq = sqOf(u) /\ sq = sleepq \ {u}
  <2>1. state[u] = "BLOCKED_TIMEOUT" <=> u \in sleepq
    BY <1>3, Placed
  <2>2. sqOf(u) = sleepq \ {u}
    BY <2>1
  <2> QED BY <2>2
<1>7. s \in [Thread -> States] /\ s[u] = "FREE" /\ \A v \in Thread : v # u => s[v] = state[v]
  BY <1>3, <1>4 DEF States
<1>8. Lists(q) /\ Listed(q) = Listed(runq) \ {u}
  BY <1>3, <1>5, WithoutLists DEF Agree
<1>9. Agree(s, q, sq, wakeup)
  BY <1>3, <1>4, <1>6, <1>8, MovedOut
<1>10. Typed(s, cnt, wakeup)
  BY <1>3, <1>7 DEF Typed
<1>11. CASE u = t
  <2>1. sl_cs_exit_schedule(s, cnt, q, sq, wakeup)
    BY <1>1, <1>4, <1>5, <1>6, <1>11
  <2>2. Types' /\ Places' /\ NoDrift' /\ \E E : Woke(E, s, cnt, wakeup)
    BY <1>2, <1>3, <1>9, <1>10, <2>1, Choice
  <2>3. PICK E : Woke(E, s, cnt, wakeup)
    BY <2>2
  <2>4. ASSUME NEW v \in Blocker PROVE Counted(v)'
    <3>0. v \in Thread
      BY Callers
    <3>1. CASE v = u
      <4>1. u \notin E
        BY <2>3, <3>1, Apart DEF Woke
      <4>2. state'[u] = "FREE"
        BY <1>7, <2>3, <4>1 DEF Woke
      <4> QED BY <3>1, <4>2 DEF Counted
    <3>2. CASE v # u
      BY <1>2, <1>7, <2>3, <3>0, <3>2, CountedChoice DEF ThdInv
    <3> QED BY <3>1, <3>2
  <2>5. ASSUME NEW v \in Thread PROVE Timed(v)'
    BY <1>2, <1>7, <2>3, TimedChoice DEF ThdInv
  <2> QED BY <2>2, <2>4, <2>5 DEF ThdInv
<1>12. CASE u # t
  <2>1. /\ state' = s /\ runq' = q /\ sleepq' = sq
        /\ timer' = timer /\ curr' = curr /\ cnt' = cnt /\ wakeup' = wakeup
    BY <1>1, <1>4, <1>5, <1>6, <1>12
  <2>2. Types'
    BY <1>2, <1>3, <1>7, <2>1, InvFacts DEF Types
  <2>3. curr \in Listed(q) \cup {Idle}
    BY <1>2, <1>8, <1>12, InvFacts
  <2>4. Places'
    BY <1>9, <2>1, <2>3 DEF Places
  <2>5. NoDrift'
    BY <2>1, InvFacts DEF NoDrift
  <2>6. ASSUME NEW v \in Blocker PROVE Counted(v)'
    <3>1. CASE v = u
      BY <1>7, <2>1, <3>1 DEF Counted
    <3>2. CASE v # u
      BY <1>2, <1>7, <2>1, <3>2, CountedKept, Callers DEF ThdInv
    <3> QED BY <3>1, <3>2
  <2>7. ASSUME NEW v \in Thread PROVE Timed(v)'
    BY <1>2, <1>7, <2>1, TimedKept DEF ThdInv
  <2> QED BY <2>2, <2>4, <2>5, <2>6, <2>7 DEF ThdInv
<1> QED BY <1>11, <1>12

-----------------------------------------------------------------------------
(* Theorems.                                                               *)

LEMMA NextInv ==
  ASSUME Roles, ThdInv, [Next]_vars
  PROVE  ThdInv'
<1>1. CASE UNCHANGED vars
  BY <1>1, StutterInv
<1>2. CASE Next
  <2>1. ASSUME NEW t \in Thread, Step(t) PROVE ThdInv'
    BY <2>1, BlockInv, TimeoutInv, PeriodicInv, ReturnInv, WakeupInv, YieldInv, FreeInv DEF Step
  <2> QED BY <1>2, <2>1, RemoteInv, LoopInv, TickInv DEF Next
<1> QED BY <1>1, <1>2

\* The inductive invariant: what sl keeps of each thread agrees, wakeup_cnt counts the wakeups
\* of a thread that blocks, and a call with a timeout is still due, answered or over.
THEOREM ThdInvariant == Roles => (Spec => []ThdInv)
<1> SUFFICES ASSUME Roles PROVE Spec => []ThdInv
  OBVIOUS
<1>1. Init => ThdInv
  BY InitInv
<1>2. ThdInv /\ [Next]_vars => ThdInv'
  BY NextInv
<1> QED BY <1>1, <1>2, PTL DEF Spec

LEMMA InvQueues ==
  ASSUME ThdInv
  PROVE  TypeOK /\ Queues /\ NoDrift
<1>1. Lists(runq) /\ runq \in [{1, 2} -> Seq(Thread)] /\ Agree(state, runq, sleepq, wakeup)
  BY InvFacts DEF Agree, Lists
<1>2. DOMAIN runq = {1, 2}
  BY <1>1
<1>3. \A p \in {1, 2} : runq[p] \in Seq({t \in Thread : Prio(t) = p})
  <2> SUFFICES ASSUME NEW p \in {1, 2} PROVE runq[p] \in Seq({t \in Thread : Prio(t) = p})
    OBVIOUS
  <2>1. PICK s \in Seq(Thread) : s = runq[p]
    BY <1>1
  <2>2. \A i \in 1 .. Len(s) : s[i] \in Thread /\ Prio(s[i]) = p
    BY <1>1, <2>1 DEF Lists
  <2>3. PICK P : P = {t \in Thread : Prio(t) = p}
    OBVIOUS
  <2>4. \A i \in 1 .. Len(s) : s[i] \in P
    BY <2>2, <2>3
  <2>5. s \in Seq(P)
    BY <2>4
  <2> QED BY <2>1, <2>3, <2>5
<1>4. \A p \in {1, 2} : IsInjective(runq[p])
  <2> SUFFICES ASSUME NEW p \in {1, 2} PROVE IsInjective(runq[p])
    OBVIOUS
  <2>1. PICK s \in Seq(Thread) : s = runq[p]
    BY <1>1
  <2>2. OnceEach(s)
    BY <1>1, <2>1 DEF Lists
  <2>3. DOMAIN s = 1 .. Len(s)
    OBVIOUS
  <2> QED BY <2>1, <2>2, <2>3 DEF OnceEach, IsInjective
<1>5. \A t \in Thread : call[t][1] \in {"run", "block", "timeout", "periodic"} /\ call[t][2] \in Nat
  <2> SUFFICES ASSUME NEW t \in Thread
               PROVE call[t][1] \in {"run", "block", "timeout", "periodic"} /\ call[t][2] \in Nat
    OBVIOUS
  <2>1. call[t] \in Kinds \X Nat
    BY InvFacts
  <2> QED BY <2>1 DEF Kinds
<1>6. sleepq \subseteq Thread /\ \A t \in sleepq : wakeup[t] = 0
  BY <1>1, Callers DEF Agree, Heaped
<1>7. TypeOK
  BY <1>2, <1>3, <1>5, <1>6 DEF ThdInv, Types, TypeOK, States
<1>8. ASSUME NEW t \in Thread \ {Idle}
      PROVE  /\ Runnable(t) <=> Contains(runq[Prio(t)], t)
             /\ state[t] = "BLOCKED_TIMEOUT" <=> t \in sleepq
  <2>1. /\ state[t] \in {"RUNNABLE", "WOKEN"} <=> t \in Listed(runq)
        /\ state[t] = "BLOCKED_TIMEOUT" <=> t \in sleepq
    BY <1>1, Placed
  <2> QED BY <2>1 DEF Runnable, Listed
<1>9. Queues
  BY <1>2, <1>4, <1>6, <1>8 DEF Queues
<1> QED BY <1>7, <1>9 DEF ThdInv

LEMMA InvBookkeeping ==
  ASSUME ThdInv
  PROVE  Bookkeeping
<1>1. TypeOK /\ Queues /\ NoDrift
  BY InvQueues
<1>2. ASSUME NEW t \in Thread, Calls(t, Blocker) PROVE cnt[t] >= 1
  <2>1. t \in Blocker /\ call[t][1] = "run" /\ state[t] # "FREE"
    BY <1>2 DEF Calls
  <2>2. cnt[t] = woken[t] + 1
    BY <2>1 DEF ThdInv, Counted
  <2>3. PICK n \in Nat : n = woken[t]
    BY InvFacts
  <2> QED BY <2>2, <2>3
<1> QED BY <1>1, <1>2 DEF Bookkeeping, BlockCount

\* The run queue, the timeout heap, the state and wakeup_cnt of each thread agree after any
\* calls, the assertion of sl_thd_block holds, and the timer does not drift.
THEOREM BookkeepingAlways == Roles => (Spec => []Bookkeeping)
<1>1. ThdInv => Bookkeeping
  BY InvBookkeeping
<1> QED BY <1>1, ThdInvariant, PTL

\* The calls that return or start, step by step.
LEMMA OnlyReturn ==
  ASSUME NEW t \in Thread, Next, call \in [Thread -> Kinds \X Nat], call[t][1] # "run", call'[t] # call[t]
  PROVE  return(t)
<1>1. ASSUME NEW u \in Thread, Step(u) PROVE return(t)
  <2>1. u = t \/ call'[t] = call[t]
    BY <1>1 DEF Step, sl_thd_block, sl_thd_block_timeout, sl_thd_block_periodic,
                sl_thd_block_timeout_intern, return, sl_thd_wakeup, sl_thd_yield, sl_thd_free
  <2>2. u = t
    BY <2>1
  <2> QED BY <1>1, <2>2 DEF Step, sl_thd_block, sl_thd_block_timeout, sl_thd_block_periodic,
                            Calls, sl_thd_wakeup, sl_thd_yield, sl_thd_free
<1>2. CASE \E u \in Thread : sl_xcpu_process(u)
  BY <1>2 DEF sl_xcpu_process
<1>3. CASE sl_sched_loop \/ tick
  BY <1>3 DEF sl_sched_loop, tick
<1> QED BY <1>1, <1>2, <1>3 DEF Next

LEMMA OnlyBlock ==
  ASSUME NEW t \in Thread, Next, call \in [Thread -> Kinds \X Nat], call[t][1] = "run", call'[t][1] = "block"
  PROVE  sl_thd_block(t)
<1>0. call'[t] # call[t]
  OBVIOUS
<1>1. ASSUME NEW u \in Thread, Step(u) PROVE sl_thd_block(t)
  <2>1. u = t \/ call'[t] = call[t]
    BY <1>1 DEF Step, sl_thd_block, sl_thd_block_timeout, sl_thd_block_periodic,
                sl_thd_block_timeout_intern, return, sl_thd_wakeup, sl_thd_yield, sl_thd_free
  <2>2. u = t
    BY <1>0, <2>1
  <2>3. CASE sl_thd_block_timeout(t) \/ sl_thd_block_periodic(t)
    <3>1. sl_thd_block(t) \/ call'[t][1] \in {"run", "timeout", "periodic"}
      BY <2>3 DEF sl_thd_block_timeout, sl_thd_block_periodic, sl_thd_block_timeout_intern, Returned
    <3> QED BY <3>1
  <2> QED BY <1>0, <1>1, <2>2, <2>3 DEF Step, return, sl_thd_wakeup, sl_thd_yield, sl_thd_free
<1>2. CASE \E u \in Thread : sl_xcpu_process(u)
  BY <1>0, <1>2 DEF sl_xcpu_process
<1>3. CASE sl_sched_loop \/ tick
  BY <1>0, <1>3 DEF sl_sched_loop, tick
<1> QED BY <1>1, <1>2, <1>3 DEF Next

\* The number of whole windows in y.
LEMMA Windows ==
  ASSUME NEW y \in Nat
  PROVE  y \div Window \in Nat /\ (y \div Window) * Window <= y
<1>1. Window \in Nat \ {0}
  BY ThdAssumption
<1>2. PICK w \in Nat \ {0} : w = Window
  BY <1>1
<1>3. y \div w \in Nat
  OBVIOUS
<1>4. y = w * (y \div w) + (y % w)
  OBVIOUS
<1>5. y % w \in Nat
  OBVIOUS
<1>6. PICK d \in Nat : d = y \div w
  BY <1>3
<1>7. w * d \in Nat /\ w * d = d * w
  OBVIOUS
<1>8. d * w <= y
  BY <1>4, <1>5, <1>6, <1>7
<1> QED BY <1>2, <1>6, <1>8

\* What a call with a timeout returns.
LEMMA ResultStep ==
  ASSUME Roles, ThdInv, Next, NEW t \in Thread,
         call[t][1] \in {"timeout", "periodic"}, call'[t][1] = "run"
  PROVE  LET n == call'[t][2]
         IN  \/ n = 0 /\ woken[t] > 0
             \/ /\ now >= call[t][2]
                /\ call[t][1] = "timeout" => now >= call[t][2] + n
                /\ call[t][1] = "periodic" => now >= call[t][2] + (n - 1) * Window
<1>1. return(t)
  <2>1. call'[t] # call[t]
    OBVIOUS
  <2> QED BY <2>1, OnlyReturn, InvFacts
<1>2. curr = t /\ call \in [Thread -> Kinds \X Nat]
  BY <1>1, InvFacts DEF return
<1>3. /\ timeout[t] = call[t][2]
      /\ (wakeup[t] = 0 /\ woken[t] > 0) \/ (timeout[t] <= wakeup[t] /\ wakeup[t] <= now)
  <2>1. Timed(t) /\ state[t] \in {"RUNNABLE", "WOKEN"}
    BY <1>2, Running DEF ThdInv
  <2> QED BY <2>1 DEF Timed
<1>4. PICK x \in Nat : x = timeout[t]
  BY InvFacts
<1>5. PICK w \in Nat : w = wakeup[t]
  <2>1. wakeup[t] \in 0 .. MaxNow
    BY InvFacts DEF Typed
  <2> QED BY <2>1, ThdAssumption
<1>6. PICK m \in Nat : m = now
  BY InvFacts
<1>7. PICK k : k = call[t][1] /\ k \in {"timeout", "periodic"}
  OBVIOUS
<1>8. PICK n : n = call'[t][2]
  OBVIOUS
<1>9. n = IF w - x <= 0 THEN 0 ELSE IF k = "timeout" THEN w - x ELSE (w - x) \div Window + 1
  <2>1. call'[t] = <<"run", IF k = "block" \/ w - x <= 0 THEN 0
                            ELSE IF k = "timeout" THEN w - x ELSE (w - x) \div Window + 1>>
    BY <1>1, <1>2, <1>4, <1>5, <1>7 DEF return, Returned, Elapsed
  <2> QED BY <1>7, <1>8, <2>1
<1>10. call[t][2] = x /\ ((w = 0 /\ woken[t] > 0) \/ (x <= w /\ w <= m))
  BY <1>3, <1>4, <1>5, <1>6
<1>11. Window \in Nat \ {0}
  BY ThdAssumption
<1>12. CASE w - x <= 0
  <2>1. n = 0
    BY <1>9, <1>12
  <2>2. CASE woken[t] > 0
    BY <1>8, <2>1, <2>2
  <2>3. CASE x <= w /\ w <= m
    <3>1. m >= x /\ m >= x + 0 /\ m >= x + (0 - 1) * Window
      BY <1>11, <2>3
    <3> QED BY <1>6, <1>7, <1>8, <1>10, <2>1, <3>1
  <2> QED BY <1>10, <2>2, <2>3
<1>13. CASE w - x > 0
  <2>1. x <= w /\ w <= m
    BY <1>10, <1>13
  <2>2. CASE k = "timeout"
    <3>1. n = w - x
      BY <1>9, <1>13, <2>2
    <3>2. m >= x + n /\ m >= x
      BY <2>1, <3>1
    <3> QED BY <1>6, <1>7, <1>8, <1>10, <2>2, <3>2
  <2>3. CASE k = "periodic"
    <3>1. PICK y \in Nat : y = w - x
      BY <1>13
    <3>2. PICK d \in Nat : d = y \div Window /\ d * Window <= y
      BY Windows
    <3>3. n = d + 1
      BY <1>9, <1>13, <2>3, <3>1, <3>2
    <3>4. n - 1 = d
      BY <3>3
    <3>5. PICK e \in Nat : e = d * Window
      BY <1>11
    <3>6. m >= x + e /\ m >= x
      BY <2>1, <3>1, <3>2, <3>5
    <3> QED BY <1>6, <1>7, <1>8, <1>10, <2>3, <3>4, <3>5, <3>6
  <2> QED BY <1>7, <2>2, <2>3
<1> QED BY <1>12, <1>13

\* sl_thd_block_timeout and sl_thd_block_periodic return before the timeout only to a thread
\* that somebody woke, and after it no more than what has elapsed.
THEOREM ResultHolds == Roles => (Spec => Result)
<1> SUFFICES ASSUME Roles PROVE Spec => Result
  OBVIOUS
<1> DEFINE A == \A t \in Thread :
                  LET n == call'[t][2]
                  IN  call[t][1] \in {"timeout", "periodic"} /\ call'[t][1] = "run" =>
                        \/ n = 0 /\ woken[t] > 0
                        \/ /\ now >= call[t][2]
                           /\ call[t][1] = "timeout" => now >= call[t][2] + n
                           /\ call[t][1] = "periodic" => now >= call[t][2] + (n - 1) * Window
<1>1. ThdInv /\ [Next]_vars => [A]_vars
  BY ResultStep
<1>2. Spec => []ThdInv
  BY ThdInvariant
<1>3. Result <=> [][A]_vars
  BY DEF Result
<1> HIDE DEF A
<1> QED BY <1>1, <1>2, <1>3, PTL DEF Spec

LEMMA JustBlockStep ==
  ASSUME Roles, ThdInv, Next, NEW t \in Thread,
         call[t][1] = "run", call'[t][1] = "block", woken[t] = 0
  PROVE  state'[t] = "BLOCKED"
<1>1. sl_thd_block(t)
  BY OnlyBlock, InvFacts
<1>2. curr = t /\ t \in Blocker /\ state[t] # "FREE"
  BY <1>1 DEF sl_thd_block, Calls
<1>3. ThdInv'
  BY <1>1, BlockInv
<1>4. Counted(t)' /\ cnt[t] = 1 /\ state[t] = "RUNNABLE" /\ woken' = woken
  <2>1. Counted(t) /\ state[t] \in {"RUNNABLE", "WOKEN"}
    BY <1>2, Running DEF ThdInv
  <2>2. cnt[t] = 0 + 1 /\ state[t] = "RUNNABLE"
    BY <1>2, <2>1 DEF Counted
  <2>3. Counted(t)' /\ woken' = woken
    BY <1>1, <1>2, <1>3 DEF ThdInv, sl_thd_block
  <2> QED BY <2>2, <2>3
<1>5. state'[t] # "FREE"
  <2>1. PICK s : s = [state EXCEPT ![t] = "BLOCKED"]
    OBVIOUS
  <2>2. \E c, q : sl_cs_exit_schedule(s, c, q, sleepq, wakeup)
    BY <1>1, <1>4, <2>1 DEF sl_thd_block
  <2>3. state'[t] \in {"RUNNABLE", s[t]}
    BY <2>2 DEF sl_cs_exit_schedule
  <2>4. s[t] = "BLOCKED"
    BY <2>1, InvFacts DEF Typed
  <2> QED BY <2>3, <2>4
<1>6. cnt'[t] = 0 + 0
  BY <1>4, <1>5 DEF Counted
<1> QED BY <1>4, <1>5, <1>6 DEF Counted

\* sl_thd_block blocks the thread that calls it, unless somebody woke it since.
THEOREM JustBlockHolds == Roles => (Spec => JustBlock)
<1> SUFFICES ASSUME Roles PROVE Spec => JustBlock
  OBVIOUS
<1> DEFINE A == \A t \in Thread : call[t][1] = "run" /\ call'[t][1] = "block" /\ woken[t] = 0 =>
                                    state'[t] = "BLOCKED"
<1>1. ThdInv /\ [Next]_vars => [A]_vars
  BY JustBlockStep
<1>2. Spec => []ThdInv
  BY ThdInvariant
<1>3. JustBlock <=> [][A]_vars
  BY DEF JustBlock
<1> HIDE DEF A
<1> QED BY <1>1, <1>2, <1>3, PTL DEF Spec
=============================================================================
