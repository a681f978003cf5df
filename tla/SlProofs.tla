------------------------------ MODULE SlProofs ------------------------------
(***************************************************************************)
(* Proofs about the scheduling library: its critical section (SlCs), for    *)
(* any set of threads and any number of events, and its heap (Heap), for    *)
(* any set of entries, any keys and any capacity.                           *)
(***************************************************************************)
EXTENDS SlCs, Heap, FiniteSetTheorems, NaturalsInduction, WellFoundedInduction, TLAPS


\* What a thread remembers of the word of the lock is a word the lock had: without an
\* owner it has no contention bit.
CopyOf(t) ==
  /\ w[t].contention => w[t].owner # None
  /\ pc[t] = "take" => w[t].owner = None
  /\ pc[t] \in {"contend", "help"} => w[t].owner # None
Copies == \A t \in Thread : CopyOf(t)

\* Every event that has come is at the end-point, on the list or in the ring until it is
\* processed.
Bounded == pend + listed + ring + events + handled = MaxEvent

CsInv == Exclusion /\ Copies /\ Bounded

CsLabels == {"cs", "sync", "unlock", "xload", "xcas", "xcontend"}

-----------------------------------------------------------------------------
(* Steps in general.                                                        *)

\* The types of threads, words and labels.
LEMMA Kinds ==
  /\ Sched \in Thread /\ Idle \in Thread /\ Worker \subseteq Thread /\ None \notin Thread
  /\ Free \in Word /\ Free.owner = None /\ Free.contention = FALSE
  BY CsAssumption DEF Thread, Free, Word

\* The part of the invariant that is about neither the lock nor the places of threads.
Rest ==
  /\ curr \in Thread /\ toks \subseteq Token \X Token /\ run \subseteq Worker
  /\ pend \in 0..MaxEvent /\ ring \in 0..MaxEvent /\ events \in 0..MaxEvent
  /\ listed \in Nat /\ handled \in Nat /\ more \in BOOLEAN /\ Bounded
  /\ how \in [Thread -> {"exit", "schedule"}] /\ to \in [Thread -> Thread]

\* A step moves t only, to l, and gives it the copy v of the word.
Moves(t, l, v) == l \in Labels /\ v \in Word /\ pc' = [pc EXCEPT ![t] = l] /\ w' = [w EXCEPT ![t] = v]

\* A step of t keeps the invariant if t is in the critical section after it exactly if it
\* is the owner of the word, and nobody else gains or loses the word.
LEMMA CsMove ==
  ASSUME CsInv, NEW t \in Thread, NEW l, NEW v, Moves(t, l, v), Rest',
         v.contention => v.owner # None, l = "take" => v.owner = None,
         l \in {"contend", "help"} => v.owner # None,
         lock' \in Word, lock'.contention => lock'.owner # None,
         l \in CsLabels <=> lock'.owner = t,
         \A u \in Thread : u # t => (lock'.owner = u <=> lock.owner = u)
  PROVE  CsInv'
<1>1. /\ pc \in [Thread -> Labels] /\ w \in [Thread -> Word] /\ lock \in Word
      /\ pc' \in [Thread -> Labels] /\ w' \in [Thread -> Word]
      /\ pc'[t] = l /\ w'[t] = v
      /\ \A u \in Thread : u # t => pc'[u] = pc[u] /\ w'[u] = w[u]
  BY DEF CsInv, Exclusion, TypeOK, Moves
<1>2. TypeOK'
  BY <1>1 DEF TypeOK, Rest
<1>3. ASSUME NEW u \in Thread PROVE (InCs(u) <=> lock.owner = u)'
  BY <1>1 DEF CsInv, Exclusion, InCs, CsLabels
<1>4. ASSUME NEW u \in Thread PROVE CopyOf(u)'
  BY <1>1 DEF CsInv, Copies, CopyOf
<1> QED BY <1>2, <1>3, <1>4 DEF CsInv, Exclusion, Copies, Rest

\* A step that leaves the word alone keeps it too.
LEMMA CsStay ==
  ASSUME CsInv, NEW t \in Thread, NEW l, NEW v, Moves(t, l, v), Rest', lock' = lock,
         v.contention => v.owner # None, l = "take" => v.owner = None,
         l \in {"contend", "help"} => v.owner # None,
         l \in CsLabels <=> pc[t] \in CsLabels
  PROVE  CsInv'
<1>1. lock \in Word /\ (lock.contention => lock.owner # None) /\ (lock.owner = t <=> pc[t] \in CsLabels)
  BY DEF CsInv, Exclusion, TypeOK, InCs, CsLabels
<1> QED BY <1>1, CsMove

\* A step that leaves the word and the copies alone, and ends where no copy is used.
LEMMA CsPlain ==
  ASSUME CsInv, NEW t \in Thread, NEW l \in Labels, Goto(t, l), Rest', lock' = lock, w' = w,
         l \notin {"take", "contend", "help"}, l \in CsLabels <=> pc[t] \in CsLabels
  PROVE  CsInv'
<1>1. Moves(t, l, w[t]) /\ (w[t].contention => w[t].owner # None)
  BY DEF Moves, CsInv, Exclusion, TypeOK, Copies, CopyOf, Goto
<1> QED BY <1>1, CsStay

\* The kernel leaves a thread that asks for a switch at one of the labels it names, and
\* runs it, the scheduler thread, or the thread it asked for.
LEMMA SwitchMoves ==
  ASSUME NEW t \in Thread, NEW k, NEW n \in Thread, NEW l, NEW again_, NEW busy,
         curr = t, toks \subseteq Token \X Token, Switch(t, k, n, l, again_, busy)
  PROVE  /\ \E x \in {l, again_, busy} : pc' = [pc EXCEPT ![t] = x]
         /\ curr' \in {t, n, Sched} /\ curr' \in Thread /\ toks' \subseteq toks
  BY Kinds DEF Switch, Goto, Accept

\* Every change of the tokens leaves tokens.
LEMMA TokTypes ==
  ASSUME toks \subseteq Token \X Token, NEW k \in Token,
         Take(k) \/ Drop(k) \/ Accept(k) \/ UNCHANGED toks
  PROVE  toks' \subseteq Token \X Token
<1>1. CASE Take(k)
  BY <1>1 DEF Take, Without
<1>2. CASE ~Take(k)
  BY <1>2 DEF Drop, Accept, Without
<1> QED BY <1>1, <1>2

\* The tokens of a thread are tokens.
LEMMA TokNames ==
  ASSUME NEW t \in Thread
  PROVE  Cs(t) \in Token /\ Act(t) \in Token /\ Cs(t) # Act(t)
         /\ Cs(t)[1] = t /\ Act(t)[1] = t
         /\ \A k \in Token : k[1] = t => k \in {Cs(t), Act(t)}
  BY DEF Cs, Act, Token

-----------------------------------------------------------------------------
(* Exclusion.                                                               *)

\* What the invariant says of the types, and of a thread.
LEMMA CsTypes ==
  ASSUME CsInv, NEW t \in Thread
  PROVE  /\ lock \in Word /\ toks \subseteq Token \X Token /\ Rest
         /\ pc[t] \in Labels /\ w[t] \in Word /\ to[t] \in Thread
         /\ lock.contention => lock.owner # None
         /\ CopyOf(t) /\ (pc[t] \in CsLabels <=> lock.owner = t)
  BY DEF CsInv, Exclusion, TypeOK, Copies, InCs, CsLabels, Rest

\* A step that changes none of the variables it is about, except for the tokens, keeps Rest.
LEMMA RestTokens ==
  ASSUME Rest, NEW k \in Token, Take(k) \/ Drop(k) \/ Accept(k) \/ UNCHANGED toks,
         UNCHANGED <<curr, run, kernel, how, to>>
  PROVE  Rest'
<1>1. toks' \subseteq Token \X Token
  BY TokTypes DEF Rest
<1> QED BY <1>1 DEF Rest, Bounded, kernel

\* The steps of sl_cs_enter keep the exclusion.
LEMMA CsEnter ==
  ASSUME CsInv, NEW t \in Thread,
         \/ enter_sync(t) \/ enter_load(t) \/ enter_take(t) \/ sl_cs_enter_contention(t)
         \/ enter_help(t)
  PROVE  CsInv'
<1>0. Cs(t) \in Token /\ Rest
  BY TokNames, CsTypes
<1>1. CASE enter_sync(t)
  <2>1. Rest' /\ Goto(t, "load") /\ lock' = lock /\ w' = w /\ pc[t] = "tok"
    BY <1>0, <1>1, RestTokens DEF enter_sync, At
  <2> QED BY <2>1, CsPlain DEF CsLabels, Labels
<1>2. CASE enter_load(t)
  <2>1. /\ Rest' /\ lock' = lock /\ pc[t] = "load" /\ w' = [w EXCEPT ![t] = lock]
        /\ lock \in Word /\ (lock.contention => lock.owner # None)
    BY <1>0, <1>2, RestTokens, CsTypes DEF enter_load, At
  <2>2. PICK l \in {"take", "help", "contend"} :
          pc' = [pc EXCEPT ![t] = l] /\ (l = "take" <=> lock.owner = None)
    BY <1>2 DEF enter_load, Goto
  <2>3. Moves(t, l, lock)
    BY <2>1, <2>2 DEF Moves, Labels
  <2> QED BY <2>1, <2>2, <2>3, CsStay DEF CsLabels
<1>3. CASE enter_take(t)
  <2>1. /\ pc[t] = "take" /\ w' = [w EXCEPT ![t] = Free] /\ w[t].owner = None /\ ~w[t].contention
        /\ w[t] \in Word
    BY <1>3, CsTypes DEF enter_take, At, Forget, CopyOf, Word
  <2>2. Rest'
    BY <1>0, <1>3, RestTokens DEF enter_take
  <2>3. CASE lock = w[t]
    <3>1. lock' = [w[t] EXCEPT !.owner = t] /\ Moves(t, "cs", Free)
      BY <1>3, <2>1, <2>3, Kinds DEF enter_take, Cas, Goto, Moves, Labels
    <3>2. lock' \in Word /\ lock'.owner = t /\ ~lock'.contention
      BY <2>1, <3>1 DEF Word
    <3>3. t # None /\ \A u \in Thread : u # t => (lock'.owner = u <=> lock.owner = u)
      BY <2>1, <2>3, <3>2, Kinds
    <3> QED BY <2>2, <3>1, <3>2, <3>3, Kinds, CsMove DEF CsLabels
  <2>4. CASE lock # w[t]
    <3>1. lock' = lock /\ Moves(t, "tok", Free)
      BY <1>3, <2>1, <2>4, Kinds DEF enter_take, Cas, Goto, Moves, Labels
    <3> QED BY <2>1, <2>2, <3>1, Kinds, CsStay DEF CsLabels
  <2> QED BY <2>3, <2>4
<1>4. CASE sl_cs_enter_contention(t)
  <2>1. /\ pc[t] = "contend" /\ w' = w /\ w[t].owner # None /\ w[t] \in Word
        /\ w' = [w EXCEPT ![t] = w[t]] /\ lock.owner # t
    BY <1>4, CsTypes DEF sl_cs_enter_contention, At, CopyOf, CsLabels, CsInv, Exclusion, TypeOK
  <2>2. Rest'
    BY <1>0, <1>4, RestTokens DEF sl_cs_enter_contention
  <2>3. CASE lock = w[t]
    <3>1. lock' = [w[t] EXCEPT !.contention = TRUE] /\ Moves(t, "help", w[t])
      BY <1>4, <2>1, <2>3 DEF sl_cs_enter_contention, Cas, Goto, Moves, Labels
    <3>2. lock' \in Word /\ lock'.owner = lock.owner
      BY <2>1, <2>3, <3>1 DEF Word
    <3> QED BY <2>1, <2>2, <2>3, <3>1, <3>2, CsMove DEF CsLabels
  <2>4. CASE lock # w[t]
    <3>1. lock' = lock /\ Goto(t, "tok")
      BY <1>4, <2>4 DEF sl_cs_enter_contention, Cas
    <3> QED BY <2>1, <2>2, <3>1, CsPlain DEF CsLabels, Labels
  <2> QED BY <2>3, <2>4
<1>5. CASE enter_help(t)
  <2>1. pc[t] = "help" /\ curr = t /\ w[t].owner \in Thread /\ toks \subseteq Token \X Token
    BY <1>5, CsTypes DEF enter_help, At, CopyOf, Word
  <2>2. /\ \E x \in {"tok", Skip} : pc' = [pc EXCEPT ![t] = x]
        /\ curr' \in Thread /\ toks' \subseteq Token \X Token
    BY <1>5, <2>1, SwitchMoves DEF enter_help
  <2>3. PICK x \in {"tok", "loop", "rcv"} : pc' = [pc EXCEPT ![t] = x]
    BY <2>2 DEF Skip
  <2>4. Rest' /\ lock' = lock
    BY <1>0, <1>5, <2>2 DEF enter_help, Rest, Bounded, kernel
  <2>5. Moves(t, x, Free)
    BY <1>5, <2>3, Kinds DEF enter_help, Forget, Moves, Labels
  <2> QED BY <2>1, <2>3, <2>4, <2>5, Kinds, CsStay DEF CsLabels
<1> QED BY <1>1, <1>2, <1>3, <1>4, <1>5

\* So do the steps in the critical section.
LEMMA CsBody ==
  ASSUME CsInv, NEW t \in Thread,
         cs_body(t) \/ sl_xcpu_process_no_cs(t) \/ schedule(t) \/ (t = Sched /\ sched_schedule)
  PROVE  CsInv'
<1>0. Act(t) \in Token /\ Rest
  BY TokNames, CsTypes
<1>1. CASE cs_body(t)
  <2>1. pc[t] = "cs" /\ UNCHANGED <<curr, lock, toks, kernel, w, to>>
    BY <1>1 DEF cs_body, At, again, sl_thd_block, sl_thd_yield
  <2>2. run' \subseteq Worker /\ how' \in [Thread -> {"exit", "schedule"}]
    BY <1>0, <1>1 DEF cs_body, again, sl_thd_block, sl_thd_yield, Leave, Rest
  <2>3. PICK l \in {"unlock", "sync"} : Goto(t, l)
    BY <1>1 DEF cs_body, again, sl_thd_block, sl_thd_yield, Leave
  <2>4. Rest'
    BY <1>0, <2>1, <2>2 DEF Rest, Bounded, kernel
  <2> QED BY <2>1, <2>3, <2>4, CsPlain DEF CsLabels, Labels
<1>2. CASE sl_xcpu_process_no_cs(t)
  <2>1. pc[t] = "cs" /\ UNCHANGED <<curr, lock, toks, pend, events, more, w, to>>
    BY <1>2 DEF sl_xcpu_process_no_cs, At
  <2>2. run' \subseteq Worker /\ how' \in [Thread -> {"exit", "schedule"}] /\ Goto(t, "unlock")
    BY <1>0, <1>2 DEF sl_xcpu_process_no_cs, Leave, Rest
  <2>3. /\ ring' = 0 /\ listed' = (IF t = Sched THEN 0 ELSE listed)
        /\ handled' = handled + ring + (IF t = Sched THEN listed ELSE 0)
    BY <1>2 DEF sl_xcpu_process_no_cs
  <2>4. Rest'
    <3>1. listed' \in Nat /\ handled' \in Nat /\ Bounded'
      BY <1>0, <2>1, <2>3, CsAssumption DEF Rest, Bounded
    <3> QED BY <1>0, <2>1, <2>2, <2>3, <3>1, CsAssumption DEF Rest
  <2> QED BY <2>1, <2>2, <2>4, CsPlain DEF CsLabels, Labels
<1>3. CASE schedule(t)
  <2>1. /\ pc[t] = "sync" /\ UNCHANGED <<curr, lock, run, kernel, how, w>> /\ Goto(t, "unlock")
    BY <1>3 DEF schedule, At
  <2>2. toks' \subseteq Token \X Token
    BY <1>0, <1>3, TokTypes DEF schedule, Rest
  <2>3. to' \in [Thread -> Thread]
    <3>1. PICK n \in (IF run = {} THEN {Idle} ELSE run) : to' = [to EXCEPT ![t] = n]
      BY <1>3 DEF schedule
    <3>2. n \in Thread
      BY <1>0, Kinds DEF Rest
    <3> QED BY <1>0, <3>1, <3>2 DEF Rest
  <2>4. Rest'
    BY <1>0, <2>1, <2>2, <2>3 DEF Rest, Bounded, kernel
  <2> QED BY <2>1, <2>4, CsPlain DEF CsLabels, Labels
<1>4. CASE t = Sched /\ sched_schedule
  <2>1. /\ pc[t] = "cs" /\ UNCHANGED <<curr, lock, toks, run, kernel, w, to>> /\ Goto(t, "sync")
        /\ how' \in [Thread -> {"exit", "schedule"}]
    BY <1>0, <1>4 DEF sched_schedule, At, Leave, Rest
  <2>2. Rest'
    BY <1>0, <2>1 DEF Rest, Bounded, kernel
  <2> QED BY <2>1, <2>2, CsPlain DEF CsLabels, Labels
<1> QED BY <1>1, <1>2, <1>3, <1>4

\* So do those of sl_cs_exit and of the switch after it.
LEMMA CsExit ==
  ASSUME CsInv, NEW t \in Thread,
         \/ exit_sync(t) \/ exit_load(t) \/ exit_cas(t) \/ sl_cs_exit_contention(t)
         \/ exit_switch(t) \/ activate(t)
  PROVE  CsInv'
<1> DEFINE Out == {"user", "rcv", "loop", "tok", "xswitch", "activate"}
<1>0. Cs(t) \in Token /\ Rest
  BY TokNames, CsTypes
<1>1. AfterExit(t) \in Out /\ "xswitch" \in Out
  BY DEF AfterExit, Skip
<1>2. Out \cap (CsLabels \cup {"take", "contend", "help"}) = {} /\ Out \subseteq Labels
  BY DEF CsLabels, Labels
<1> HIDE DEF Out
<1>3. CASE exit_sync(t)
  <2>1. Rest' /\ Goto(t, "xload") /\ lock' = lock /\ w' = w /\ pc[t] = "unlock"
    BY <1>0, <1>3, RestTokens DEF exit_sync, At
  <2> QED BY <2>1, CsPlain DEF CsLabels, Labels
<1>4. CASE exit_load(t)
  <2>1. /\ Rest' /\ lock' = lock /\ pc[t] = "xload" /\ w' = [w EXCEPT ![t] = lock]
        /\ lock \in Word /\ (lock.contention => lock.owner # None)
    BY <1>0, <1>4, RestTokens, CsTypes DEF exit_load, At
  <2>2. PICK l \in {"xcontend", "xcas"} : pc' = [pc EXCEPT ![t] = l]
    BY <1>4 DEF exit_load, Goto
  <2>3. Moves(t, l, lock)
    BY <2>1, <2>2 DEF Moves, Labels
  <2> QED BY <2>1, <2>2, <2>3, CsStay DEF CsLabels
<1>5. ASSUME pc[t] \in {"xcas", "xcontend"}, NEW l \in Out,
             Cas(t, Free, l, "unlock"), Forget(t), Rest'
      PROVE  CsInv'
  <2>1. w' = [w EXCEPT ![t] = Free] /\ lock.owner = t
    BY <1>5, CsTypes DEF Forget, CsLabels
  <2>2. CASE lock = w[t]
    <3>1. lock' = Free /\ Moves(t, l, Free)
      BY <1>2, <1>5, <2>1, <2>2, Kinds DEF Cas, Goto, Moves
    <3> QED BY <1>2, <1>5, <2>1, <3>1, Kinds, CsMove
  <2>3. CASE lock # w[t]
    <3>1. lock' = lock /\ Moves(t, "unlock", Free)
      BY <1>5, <2>1, <2>3, Kinds DEF Cas, Goto, Moves, Labels
    <3> QED BY <1>5, <2>1, <3>1, Kinds, CsStay DEF CsLabels
  <2> QED BY <2>2, <2>3
<1>6. CASE exit_cas(t)
  <2>1. Rest'
    BY <1>0, <1>6, RestTokens DEF exit_cas
  <2> QED BY <1>1, <1>5, <1>6, <2>1 DEF exit_cas, At
<1>7. CASE sl_cs_exit_contention(t)
  <2>1. Rest'
    BY <1>0, <1>7, RestTokens DEF sl_cs_exit_contention
  <2> QED BY <1>1, <1>5, <1>7, <2>1 DEF sl_cs_exit_contention, At
<1>8. CASE exit_switch(t)
  <2>1. /\ pc[t] = "xswitch" /\ curr = t /\ UNCHANGED <<lock, run, kernel, how, w, to>>
        /\ toks \subseteq Token \X Token
    BY <1>8, CsTypes DEF exit_switch, At
  <2>2. Goto(t, AfterExit(t)) /\ curr' \in Thread /\ toks' \subseteq Token \X Token
    <3>1. Switch(t, Cs(t), Sched, AfterExit(t), AfterExit(t), AfterExit(t)) /\ Sched \in Thread
      BY <1>8, Kinds DEF exit_switch
    <3>2. /\ \E x \in {AfterExit(t)} : pc' = [pc EXCEPT ![t] = x]
          /\ curr' \in Thread /\ toks' \subseteq toks
      BY <2>1, <3>1, SwitchMoves
    <3> QED BY <2>1, <3>2 DEF Goto
  <2>3. Rest'
    BY <1>0, <2>1, <2>2 DEF Rest, Bounded, kernel
  <2> QED BY <1>1, <1>2, <2>1, <2>2, <2>3, CsPlain DEF CsLabels
<1>9. CASE activate(t)
  <2>1. /\ pc[t] = "activate" /\ curr = t /\ to[t] \in Thread /\ toks \subseteq Token \X Token
        /\ UNCHANGED <<lock, run, kernel, w>>
    BY <1>9, CsTypes DEF activate, At
  <2>2. /\ \E x \in {AfterSwitch(t), IF t = Sched THEN "rcv" ELSE "tok", "rcv"} : pc' = [pc EXCEPT ![t] = x]
        /\ curr' \in Thread /\ toks' \subseteq Token \X Token
    <3>1. Switch(t, Act(t), to[t], AfterSwitch(t), IF t = Sched THEN "rcv" ELSE "tok", "rcv")
      BY <1>9 DEF activate
    <3> HIDE DEF AfterSwitch, Switch
    <3>2. /\ \E x \in {AfterSwitch(t), IF t = Sched THEN "rcv" ELSE "tok", "rcv"} : pc' = [pc EXCEPT ![t] = x]
          /\ curr' \in Thread /\ toks' \subseteq toks
      BY <2>1, <3>1, SwitchMoves
    <3> QED BY <2>1, <3>2
  <2>3. PICK x \in {"rcv", "user", "tok"} : Goto(t, x)
    BY <2>2 DEF AfterSwitch, Goto
  <2>4. to' \in [Thread -> Thread] /\ how' \in [Thread -> {"exit", "schedule"}]
    BY <1>0, <1>9, Kinds DEF activate, Rest
  <2>5. Rest'
    BY <1>0, <2>1, <2>2, <2>4 DEF Rest, Bounded, kernel
  <2> QED BY <2>1, <2>3, <2>5, CsPlain DEF CsLabels, Labels
<1> QED BY <1>3, <1>4, <1>6, <1>7, <1>8, <1>9

\* So do the steps outside, the timer and what arrives.
LEMMA CsOutside ==
  ASSUME CsInv,
         \/ \E t \in Thread : user(t)
         \/ sched_rcv \/ sched_loop \/ timer_process \/ arrive
  PROVE  CsInv'
<1>0. Rest /\ Sched \in Thread
  BY Kinds, CsTypes
<1>1. ASSUME NEW t \in Thread, user(t) \/ (t = Sched /\ sched_loop) PROVE CsInv'
  <2>1. /\ pc[t] \in {"user", "loop"} /\ Goto(t, "tok")
        /\ UNCHANGED <<curr, lock, toks, run, kernel, how, w, to>>
    BY <1>1 DEF user, sched_loop, At
  <2>2. Rest'
    BY <1>0, <2>1 DEF Rest, Bounded, kernel
  <2> QED BY <2>1, <2>2, CsPlain DEF CsLabels, Labels
<1>2. CASE sched_rcv
  <2>1. /\ pc[Sched] = "rcv" /\ UNCHANGED <<curr, lock, toks, run, ring, events, handled, how, w, to>>
    BY <1>2 DEF sched_rcv, At
  <2>2. PICK l \in {"tok", "rcv", "loop"} : Goto(Sched, l)
    BY <1>2 DEF sched_rcv
  <2>3. /\ pend' = IF pend > 0 THEN pend - 1 ELSE 0
        /\ listed' = IF pend > 0 THEN listed + 1 ELSE listed
    BY <1>2 DEF sched_rcv
  <2>5. more' \in BOOLEAN
    BY <1>2 DEF sched_rcv
  <2>4. Rest'
    <3>1. pend' \in 0 .. MaxEvent /\ listed' \in Nat /\ Bounded'
      BY <1>0, <2>1, <2>3, CsAssumption DEF Rest, Bounded
    <3> QED BY <1>0, <2>1, <2>5, <3>1 DEF Rest
  <2> QED BY <1>0, <2>1, <2>2, <2>4, CsPlain DEF CsLabels, Labels
<1>3. CASE timer_process
  BY <1>0, <1>3 DEF timer_process, kernel, local, CsInv, Exclusion, TypeOK, Copies, CopyOf, InCs, Bounded
<1>4. CASE arrive
  <2>1. curr' \in Thread /\ UNCHANGED <<lock, toks, run, listed, more, handled, local>>
    BY <1>0, <1>4 DEF arrive, Rest
  <2>2. pend' \in 0..MaxEvent /\ ring' \in 0..MaxEvent /\ events' \in 0..MaxEvent /\ Bounded'
    BY <1>0, <1>4, CsAssumption DEF arrive, Bounded, Rest
  <2> QED BY <2>1, <2>2 DEF local, CsInv, Exclusion, TypeOK, Copies, CopyOf, InCs
<1> QED BY <1>0, <1>1, <1>2, <1>3, <1>4

\* The invariant is inductive.
THEOREM CsInductive == CsInv /\ [Next]_vars => CsInv'
<1> SUFFICES ASSUME CsInv, [Next]_vars PROVE CsInv'
  OBVIOUS
<1>1. CASE UNCHANGED vars
  BY <1>1 DEF vars, kernel, local, CsInv, Exclusion, TypeOK, Copies, CopyOf, InCs, Bounded
<1> QED BY <1>1, CsEnter, CsBody, CsExit, CsOutside DEF Next, Step

\* It holds in every behaviour.
THEOREM CsInvariance == Spec => []CsInv
<1>1. Init => CsInv
  <2> SUFFICES ASSUME Init PROVE CsInv
    OBVIOUS
  <2>1. TypeOK
    <3>1. pc \in [Thread -> Labels] /\ w \in [Thread -> Word] /\ to \in [Thread -> Thread] /\ lock \in Word
      BY Kinds DEF Init, Labels
    <3>2. curr \in Thread /\ toks \subseteq Token \X Token /\ run \subseteq Worker
      BY Kinds DEF Init
    <3>3. pend \in 0..MaxEvent /\ ring \in 0..MaxEvent /\ events \in 0..MaxEvent
      BY CsAssumption DEF Init
    <3>5. listed \in Nat /\ handled \in Nat
      BY DEF Init
    <3>6. more \in BOOLEAN
      BY Zenon DEF Init
    <3>4. how \in [Thread -> {"exit", "schedule"}]
      BY DEF Init
    <3> QED BY <3>1, <3>2, <3>3, <3>4, <3>5, <3>6 DEF TypeOK
  <2>2. \A t \in Thread : InCs(t) <=> lock.owner = t
    BY Kinds DEF Init, InCs
  <2>3. Copies /\ Bounded
    BY CsAssumption, Kinds DEF Init, Copies, CopyOf, Bounded
  <2> QED BY <2>1, <2>2, <2>3, Kinds DEF CsInv, Exclusion, Init
<1> QED BY <1>1, CsInductive, PTL DEF Spec

\* At most one thread of the core is in the critical section, and the word of the lock
\* names it, wherever the timer or an interrupt preempts whom.
THEOREM MutualExclusion == Spec => []Exclusion
  BY CsInvariance, PTL DEF CsInv

-----------------------------------------------------------------------------
(* Tokens.                                                                  *)

\* The scheduler thread gives the core away only outside the critical section, so no other
\* thread sees it as the owner.
SchedHolds ==
  /\ lock.owner = Sched => curr = Sched
  /\ \A t \in Thread : w[t].owner = Sched => t = Sched

\* Only the thread that runs, and those that the scheduler thread preempted, have tokens that
\* the kernel would accept; those of the scheduler thread are newer.
TokOrder ==
  \A j, k \in Token : <<j, k>> \in toks =>
    /\ Valid(j)
    /\ curr \in {j[1], Sched}
    /\ j[1] = Sched => k[1] = Sched

\* Where a thread is that has such a token.
TokPlace(t) ==
  /\ Valid(Cs(t)) => pc[t] \notin {"user", "rcv", "loop", "cs", "sync", "activate"}
  /\ Valid(Act(t)) =>
       /\ pc[t] \in {"unlock", "xload", "xcas", "xcontend", "xswitch", "activate"}
       /\ how[t] = "schedule"
  /\ pc[t] \in {"xload", "xcas", "xcontend", "xswitch"} => <<Cs(t), Act(t)>> \notin toks
  /\ pc[t] = "sync" => how[t] = "schedule"

\* What the token vouches for: the owner that was read, the thread that was chosen.
Vouched(t) ==
  /\ Valid(Cs(t)) /\ pc[t] = "help" => w[t].owner = lock.owner
  /\ Valid(Act(t)) => to[t] \in run \cup {Idle}

TokInv ==
  /\ CsInv /\ SchedHolds /\ TokOrder
  /\ \A t \in Thread : TokPlace(t) /\ Vouched(t)

\* A new token is the newest.
LEMMA TakeEffect ==
  ASSUME TokInv, NEW k \in Token, Take(k)
  PROVE  \A j, m \in Token : <<j, m>> \in toks' <=>
           IF m = k THEN j = k \/ Valid(j) ELSE j # k /\ <<j, m>> \in toks
<1>1. toks \subseteq Token \X Token
  BY DEF TokInv, CsInv, Exclusion, TypeOK
<1> TAKE j, m \in Token
<1>2. j \in {p[1] : p \in toks} <=> Valid(j)
  <2>1. ASSUME NEW p \in toks, j = p[1] PROVE Valid(j)
    <3>1. p = <<j, p[2]>> /\ p[2] \in Token
      BY <1>1, <2>1
    <3> QED BY <3>1 DEF TokInv, TokOrder
  <2>2. ASSUME Valid(j) PROVE j \in {p[1] : p \in toks}
    <3>1. <<j, j>> \in toks /\ <<j, j>>[1] = j
      BY <2>2 DEF Valid
    <3> QED BY <3>1
  <2> QED BY <2>1, <2>2
<1>3. <<j, m>> \in Without(k) <=> j # k /\ m # k /\ <<j, m>> \in toks
  BY DEF Without
<1>4. <<j, m>> \in {<<i, k>> : i \in {k} \cup {p[1] : p \in toks}} <=>
        m = k /\ (j = k \/ j \in {p[1] : p \in toks})
  OBVIOUS
<1> QED BY <1>2, <1>3, <1>4 DEF Take

\* A step takes tokens out of the order, and adds none.
Thins == toks' \subseteq toks /\ \A j, m \in Token : <<j, m>> \in toks' => <<j, j>> \in toks'

\* The kernel accepts a token and forgets those that are not newer.
LEMMA AcceptEffect ==
  ASSUME TokInv, NEW k \in Token, Accept(k)
  PROVE  /\ Thins /\ ~Valid(k)'
         /\ \A j, m \in Token : <<j, m>> \in toks' => j # k /\ <<k, j>> \in toks
  BY DEF Accept, Thins, Valid, TokInv, TokOrder

\* A token that is not used any more is as good as forgotten.
LEMMA DropEffect ==
  ASSUME TokInv, NEW k \in Token, Drop(k)
  PROVE  Thins /\ ~Valid(k)'
  BY DEF Drop, Without, Thins, Valid, TokInv, TokOrder

\* Fewer tokens, and the same thread or the scheduler thread on the core, keep the order.
LEMMA OrderThins ==
  ASSUME TokInv, Thins, curr' \in {curr, Sched} \/ toks' = {}
  PROVE  TokOrder'
  BY DEF TokInv, TokOrder, Thins, Valid

\* So does a new token of the thread that runs.
LEMMA OrderTake ==
  ASSUME TokInv, NEW k \in Token, Take(k), k[1] = curr, curr' = curr
  PROVE  TokOrder'
<1> SUFFICES ASSUME NEW j \in Token, NEW m \in Token, <<j, m>> \in toks'
             PROVE  <<j, j>> \in toks' /\ curr \in {j[1], Sched} /\ (j[1] = Sched => m[1] = Sched)
  BY DEF TokOrder, Valid
<1>1. CASE m = k
  <2>1. j = k \/ Valid(j)
    BY <1>1, TakeEffect
  <2>2. CASE j = k
    BY <1>1, <2>2, TakeEffect
  <2>3. CASE j # k /\ Valid(j)
    <3>1. curr \in {j[1], Sched}
      BY <2>3 DEF TokInv, TokOrder, Valid
    <3>2. <<j, j>> \in toks'
      BY <2>3, TakeEffect DEF Valid
    <3> QED BY <1>1, <3>1, <3>2
  <2> QED BY <2>1, <2>2, <2>3
<1>2. CASE m # k
  <2>1. j # k /\ <<j, m>> \in toks
    BY <1>2, TakeEffect
  <2>2. Valid(j) /\ curr \in {j[1], Sched} /\ (j[1] = Sched => m[1] = Sched)
    BY <2>1 DEF TokInv, TokOrder
  <2>3. <<j, j>> \in toks'
    BY <2>1, <2>2, TakeEffect DEF Valid
  <2> QED BY <2>2, <2>3
<1> QED BY <1>1, <1>2

\* A new token of another thread makes none of t's tokens valid.
LEMMA TakeOthers ==
  ASSUME TokInv, NEW k \in Token, Thins \/ Take(k), NEW t \in Thread, k[1] # t
  PROVE  /\ Valid(Cs(t))' => Valid(Cs(t))
         /\ Valid(Act(t))' => Valid(Act(t))
         /\ <<Cs(t), Act(t)>> \in toks' => <<Cs(t), Act(t)>> \in toks
<1>1. Cs(t) \in Token /\ Act(t) \in Token /\ Cs(t) # k /\ Act(t) # k
  BY TokNames
<1>2. CASE Thins
  BY <1>2 DEF Thins, Valid
<1>3. CASE Take(k)
  BY <1>1, <1>3, TakeEffect DEF Valid
<1> QED BY <1>2, <1>3

\* The tokens of the threads that do not run keep their promise: whoever has one was
\* preempted by the scheduler thread, which takes no lock from another thread and no thread
\* off the runqueue.
LEMMA OthersKeep ==
  ASSUME TokInv, NEW t \in Thread, curr = t, NEW u \in Thread, u # t,
         NEW k \in Token, k[1] = t, Thins \/ Take(k),
         pc'[u] = pc[u], how'[u] = how[u], w'[u] = w[u], to'[u] = to[u],
         lock'.owner = lock.owner \/ lock.owner \in {None, t},
         t = Sched => run \subseteq run'
  PROVE  TokPlace(u)' /\ Vouched(u)'
<1>1. /\ Valid(Cs(u))' => Valid(Cs(u))
      /\ Valid(Act(u))' => Valid(Act(u))
      /\ <<Cs(u), Act(u)>> \in toks' => <<Cs(u), Act(u)>> \in toks
  BY TakeOthers
<1>2. TokPlace(u) /\ Vouched(u)
  BY DEF TokInv
<1>3. TokPlace(u)'
  BY <1>1, <1>2 DEF TokPlace, Cs, Act
<1>4. Valid(Cs(u)) \/ Valid(Act(u)) => t = Sched
  BY TokNames DEF TokInv, TokOrder, Valid
<1>5. ASSUME Valid(Cs(u)), pc[u] = "help" PROVE w[u].owner = lock'.owner
  <2>1. t = Sched /\ w[u].owner = lock.owner
    BY <1>2, <1>4, <1>5 DEF Vouched
  <2>2. w[u].owner \notin {None, Sched}
    BY <1>5, <2>1 DEF TokInv, CsInv, Copies, CopyOf, SchedHolds
  <2> QED BY <2>1, <2>2
<1>6. Vouched(u)'
  BY <1>1, <1>2, <1>4, <1>5 DEF Vouched, Cs, Act
<1> QED BY <1>3, <1>6

\* Nobody else sees the scheduler thread as the owner.
LEMMA SchedKeeps ==
  ASSUME TokInv, NEW t \in Thread, curr = t,
         \A u \in Thread : u # t => w'[u] = w[u],
         w'[t].owner \in {None, w[t].owner, lock.owner},
         lock'.owner = Sched => t = Sched, curr' \in {curr, Sched} \/ lock'.owner # Sched
  PROVE  SchedHolds'
<1>1. \A u \in Thread : w[u].owner = Sched => u = Sched
  BY DEF TokInv, SchedHolds
<1>2. lock.owner = Sched => t = Sched
  BY DEF TokInv, SchedHolds
<1>3. None # Sched
  BY CsAssumption
<1> QED BY <1>1, <1>2, <1>3 DEF SchedHolds

\* What is left to show of a step of t: that it keeps the promises of its own tokens.
LEMMA TokStep ==
  ASSUME TokInv, CsInv', NEW t \in Thread, curr = t, NEW k \in Token, k[1] = t,
         \/ Thins /\ (curr' \in {curr, Sched} \/ (toks' = {} /\ lock'.owner # Sched))
         \/ Take(k) /\ curr' = curr,
         \A u \in Thread : u # t => /\ pc'[u] = pc[u] /\ how'[u] = how[u]
                                    /\ w'[u] = w[u] /\ to'[u] = to[u],
         w'[t].owner \in {None, w[t].owner, lock.owner},
         lock'.owner = lock.owner \/ (lock.owner \in {None, t} /\ lock'.owner \in {None, t}),
         t = Sched => run \subseteq run',
         TokPlace(t)', Vouched(t)'
  PROVE  TokInv'
<1>1. TokOrder'
  BY OrderThins, OrderTake
<1>2. SchedHolds'
  <2>1. lock.owner = Sched => t = Sched
    BY DEF TokInv, SchedHolds
  <2>2. lock'.owner = Sched => t = Sched
    BY <2>1, CsAssumption
  <2> QED BY <2>2, SchedKeeps
<1>3. ASSUME NEW u \in Thread, u # t PROVE TokPlace(u)' /\ Vouched(u)'
  BY <1>3, OthersKeep
<1> QED BY <1>1, <1>2, <1>3 DEF TokInv

\* A step of t moves nobody else.
LEMMA Alone ==
  ASSUME CsInv, NEW t \in Thread, Step(t)
  PROVE  /\ curr = t
         /\ \A u \in Thread : u # t => /\ pc'[u] = pc[u] /\ how'[u] = how[u]
                                       /\ w'[u] = w[u] /\ to'[u] = to[u]
<1>1. /\ pc \in [Thread -> Labels] /\ how \in [Thread -> {"exit", "schedule"}]
      /\ w \in [Thread -> Word] /\ to \in [Thread -> Thread]
  BY DEF CsInv, Exclusion, TypeOK
<1>2. CASE \/ enter_sync(t) \/ enter_load(t) \/ enter_take(t) \/ sl_cs_enter_contention(t)
           \/ enter_help(t)
  BY <1>1, <1>2 DEF enter_sync, enter_load, enter_take, sl_cs_enter_contention, enter_help,
     At, Goto, Cas, Forget, Switch
<1>3. CASE \/ cs_body(t) \/ sl_xcpu_process_no_cs(t) \/ schedule(t) \/ (t = Sched /\ sched_schedule)
  BY <1>1, <1>3 DEF cs_body, sl_xcpu_process_no_cs, schedule, sched_schedule, sl_thd_block,
     sl_thd_yield, again, Leave, At, Goto
<1>4. CASE \/ exit_sync(t) \/ exit_load(t) \/ exit_cas(t) \/ sl_cs_exit_contention(t)
           \/ exit_switch(t) \/ activate(t)
  BY <1>1, <1>4 DEF exit_sync, exit_load, exit_cas, sl_cs_exit_contention, exit_switch, activate,
     At, Goto, Cas, Forget, Switch
<1>5. CASE user(t) \/ (t = Sched /\ (sched_rcv \/ sched_loop))
  BY <1>1, <1>5 DEF user, sched_rcv, sched_loop, At, Goto
<1> QED BY <1>2, <1>3, <1>4, <1>5 DEF Step

\* What the kernel does with the token of a thread that asks for a switch.
LEMMA SwitchTokens ==
  ASSUME TokInv, NEW t \in Thread, NEW k \in Token, k[1] = t, NEW n, NEW l, NEW again_, NEW busy,
         curr = t, Switch(t, k, n, l, again_, busy)
  PROVE  \/ /\ ~Valid(k) /\ UNCHANGED <<toks, curr>> /\ Thins /\ pc'[t] = again_
         \/ /\ Valid(k) /\ Thins /\ ~Valid(k)' /\ pc'[t] \in {l, busy}
            /\ curr' \in {t, Sched, n}
            /\ \A j, m \in Token : <<j, m>> \in toks' => j[1] = t /\ j # k /\ <<k, j>> \in toks
<1>1. pc \in [Thread -> Labels]
  BY DEF TokInv, CsInv, Exclusion, TypeOK
<1>2. CASE ~Valid(k)
  BY <1>1, <1>2 DEF Switch, Goto, Thins, TokInv, TokOrder, Valid
<1>3. CASE Valid(k)
  <2>1. Accept(k) /\ pc'[t] \in {l, busy} /\ curr' \in {t, Sched, n}
    BY <1>1, <1>3 DEF Switch, Goto
  <2>2. /\ Thins /\ ~Valid(k)'
        /\ \A j, m \in Token : <<j, m>> \in toks' => j # k /\ <<k, j>> \in toks /\ <<j, m>> \in toks
    BY <2>1, AcceptEffect DEF Thins
  <2>3. ASSUME NEW j \in Token, NEW m \in Token, <<j, m>> \in toks' PROVE j[1] = t
    BY <2>2, <2>3 DEF TokInv, TokOrder
  <2> QED BY <1>3, <2>1, <2>2, <2>3
<1> QED BY <1>2, <1>3

\* The steps of sl_cs_enter keep the promises of the tokens.
LEMMA TokEnter ==
  ASSUME TokInv, CsInv', NEW t \in Thread,
         \/ enter_sync(t) \/ enter_load(t) \/ enter_take(t) \/ sl_cs_enter_contention(t)
         \/ enter_help(t)
  PROVE  TokInv'
<1>0. /\ CsInv /\ TokPlace(t) /\ Vouched(t) /\ Cs(t) \in Token /\ Act(t) \in Token /\ Cs(t)[1] = t
      /\ Cs(t) # Act(t) /\ \A k \in Token : k[1] = t => k \in {Cs(t), Act(t)}
      /\ pc \in [Thread -> Labels] /\ w \in [Thread -> Word]
  BY TokNames DEF TokInv, CsInv, Exclusion, TypeOK
<1>1. /\ curr = t
      /\ \A u \in Thread : u # t => /\ pc'[u] = pc[u] /\ how'[u] = how[u]
                                    /\ w'[u] = w[u] /\ to'[u] = to[u]
  BY <1>0, Alone DEF Step
<1>2. UNCHANGED toks => Thins
  BY DEF Thins, TokInv, TokOrder, Valid
<1>3. CASE enter_sync(t)
  <2>1. /\ pc[t] = "tok" /\ pc'[t] = "load" /\ Take(Cs(t)) /\ UNCHANGED <<curr, lock, run, how, w, to>>
    BY <1>0, <1>3 DEF enter_sync, At, Goto
  <2>2. ~Valid(Act(t))'
    BY <1>0, <2>1, TakeEffect DEF TokPlace, Valid
  <2>3. TokPlace(t)' /\ Vouched(t)'
    BY <2>1, <2>2 DEF TokPlace, Vouched, Cs, Act
  <2> QED BY <1>0, <1>1, <2>1, <2>3, TokStep
<1>4. CASE enter_load(t)
  <2>1. /\ pc[t] = "load" /\ pc'[t] \in {"take", "help", "contend"} /\ w'[t] = lock
        /\ UNCHANGED <<curr, lock, toks, run, how, to>>
    BY <1>0, <1>4 DEF enter_load, At, Goto
  <2>2. TokPlace(t)' /\ Vouched(t)'
    BY <1>0, <2>1 DEF TokPlace, Vouched, Cs, Act, Valid
  <2> QED BY <1>0, <1>1, <1>2, <2>1, <2>2, TokStep
<1>5. CASE enter_take(t)
  <2>1. /\ pc[t] = "take" /\ pc'[t] \in {"cs", "tok"} /\ w'[t] = Free /\ Drop(Cs(t))
        /\ UNCHANGED <<curr, run, how, to>>
    BY <1>0, <1>5 DEF enter_take, At, Goto, Cas, Forget
  <2>2. lock'.owner = lock.owner \/ (lock.owner \in {None, t} /\ lock'.owner \in {None, t})
    <3>1. w[t].owner = None
      BY <1>0, <2>1 DEF CsInv, Copies, CopyOf
    <3>2. lock' = lock \/ (lock = w[t] /\ lock' = [w[t] EXCEPT !.owner = t])
      BY <1>5 DEF enter_take, Cas
    <3>3. w[t] \in Word
      BY <1>0
    <3> QED BY <3>1, <3>2, <3>3 DEF Word
  <2>3. Thins /\ ~Valid(Cs(t))' /\ ~Valid(Act(t))'
    BY <1>0, <2>1, DropEffect DEF TokPlace, Thins, Valid
  <2>4. TokPlace(t)' /\ Vouched(t)'
    BY <2>1, <2>3 DEF TokPlace, Vouched, Cs, Act
  <2> QED BY <1>0, <1>1, <2>1, <2>2, <2>3, <2>4, Kinds, TokStep
<1>6. CASE sl_cs_enter_contention(t)
  <2>1. /\ pc[t] = "contend" /\ w' = w /\ UNCHANGED <<curr, toks, run, how, to>>
        /\ \/ lock = w[t] /\ lock'.owner = w[t].owner /\ pc'[t] = "help"
           \/ lock' = lock /\ pc'[t] = "tok"
    <3>1. w[t] \in Word
      BY <1>0
    <3> QED BY <1>0, <1>6, <3>1 DEF sl_cs_enter_contention, At, Goto, Cas, Word
  <2>2. TokPlace(t)' /\ Vouched(t)'
    BY <1>0, <2>1 DEF TokPlace, Vouched, Cs, Act, Valid
  <2> QED BY <1>0, <1>1, <1>2, <2>1, <2>2, TokStep
<1>7. CASE enter_help(t)
  <2>1. /\ pc[t] = "help" /\ w'[t] = Free /\ UNCHANGED <<lock, run, how, to>>
        /\ Switch(t, Cs(t), w[t].owner, "tok", "tok", Skip)
    BY <1>0, <1>7 DEF enter_help, At, Forget
  <2>2. Skip \in {"loop", "rcv"}
    BY DEF Skip
  <2>3. \/ UNCHANGED <<toks, curr>> /\ Thins /\ pc'[t] = "tok"
        \/ /\ Thins /\ ~Valid(Cs(t))' /\ pc'[t] \in {"tok", "loop", "rcv"}
           /\ curr' \in {t, Sched, w[t].owner}
           /\ \A j, m \in Token : <<j, m>> \in toks' => j[1] = t /\ j # Cs(t)
    <3>1. \/ /\ ~Valid(Cs(t)) /\ UNCHANGED <<toks, curr>> /\ Thins /\ pc'[t] = "tok"
          \/ /\ Valid(Cs(t)) /\ Thins /\ ~Valid(Cs(t))' /\ pc'[t] \in {"tok", Skip}
             /\ curr' \in {t, Sched, w[t].owner}
             /\ \A j, m \in Token : <<j, m>> \in toks' => j[1] = t /\ j # Cs(t) /\ <<Cs(t), j>> \in toks
      BY <1>0, <1>1, <2>1, SwitchTokens
    <3> QED BY <2>2, <3>1
  <2>4. ~Valid(Act(t)) /\ ~Valid(Act(t))'
    BY <1>0, <2>1, <2>3 DEF TokPlace, Thins, Valid
  <2>5. TokPlace(t)' /\ Vouched(t)'
    BY <2>1, <2>3, <2>4 DEF TokPlace, Vouched, Cs, Act, Valid
  <2>6. curr' \in {curr, Sched} \/ (toks' = {} /\ lock'.owner # Sched)
    <3> SUFFICES ASSUME curr' \notin {curr, Sched} PROVE toks' = {} /\ lock.owner # Sched
      BY <2>1
    <3>1. \A j, m \in Token : <<j, m>> \in toks' => j = Act(t)
      BY <1>0, <1>1, <2>3
    <3>2. \A j, m \in Token : <<j, m>> \notin toks'
      BY <1>0, <2>3, <2>4, <3>1 DEF Valid, Thins
    <3>3. toks' \subseteq Token \X Token
      BY DEF CsInv, Exclusion, TypeOK
    <3>4. lock.owner # Sched
      BY <1>0, <1>1, <2>1, <2>3 DEF TokInv, SchedHolds, CsInv, Exclusion, InCs
    <3> QED BY <3>2, <3>3, <3>4
  <2> QED BY <1>0, <1>1, <2>1, <2>3, <2>5, <2>6, Kinds, TokStep
<1> QED BY <1>3, <1>4, <1>5, <1>6, <1>7

\* So do the steps in the critical section, where t has no token that counts.
LEMMA TokBody ==
  ASSUME TokInv, CsInv', NEW t \in Thread,
         cs_body(t) \/ sl_xcpu_process_no_cs(t) \/ schedule(t) \/ (t = Sched /\ sched_schedule)
  PROVE  TokInv'
<1>0. /\ CsInv /\ TokPlace(t) /\ Vouched(t) /\ Cs(t) \in Token /\ Act(t) \in Token
      /\ Cs(t)[1] = t /\ Act(t)[1] = t
      /\ Cs(t) # Act(t) /\ \A k \in Token : k[1] = t => k \in {Cs(t), Act(t)}
      /\ pc \in [Thread -> Labels] /\ w \in [Thread -> Word]
      /\ how \in [Thread -> {"exit", "schedule"}] /\ to \in [Thread -> Thread] /\ run \subseteq Worker
  BY TokNames DEF TokInv, CsInv, Exclusion, TypeOK
<1>1. /\ curr = t
      /\ \A u \in Thread : u # t => /\ pc'[u] = pc[u] /\ how'[u] = how[u]
                                    /\ w'[u] = w[u] /\ to'[u] = to[u]
  BY <1>0, Alone DEF Step
<1>2. UNCHANGED toks => Thins
  BY DEF Thins, TokInv, TokOrder, Valid
<1>3. CASE cs_body(t) \/ sl_xcpu_process_no_cs(t) \/ (t = Sched /\ sched_schedule)
  <2>1. /\ pc[t] = "cs" /\ UNCHANGED <<curr, lock, toks, w, to>>
        /\ (t = Sched => run \subseteq run')
        /\ pc'[t] \in {"unlock", "sync"} /\ (pc'[t] = "sync" => how'[t] = "schedule")
    <3>1. CASE cs_body(t)
      <4>1. pc[t] = "cs" /\ UNCHANGED <<curr, lock, toks, w, to>> /\ t # Sched
        BY <3>1, CsAssumption DEF cs_body, At, sl_thd_block, sl_thd_yield, again
      <4>2. pc'[t] \in {"unlock", "sync"} /\ (pc'[t] = "sync" => how'[t] = "schedule")
        BY <1>0, <3>1 DEF cs_body, sl_thd_block, sl_thd_yield, again, Leave, Goto
      <4> QED BY <4>1, <4>2
    <3>2. CASE sl_xcpu_process_no_cs(t)
      BY <1>0, <3>2 DEF sl_xcpu_process_no_cs, At, Leave, Goto
    <3>3. CASE t = Sched /\ sched_schedule
      BY <1>0, <3>3 DEF sched_schedule, At, Leave, Goto
    <3> QED BY <1>3, <3>1, <3>2, <3>3
  <2>2. TokPlace(t)' /\ Vouched(t)'
    BY <1>0, <2>1 DEF TokPlace, Vouched, Cs, Act, Valid
  <2> QED BY <1>0, <1>1, <1>2, <2>1, <2>2, TokStep
<1>4. CASE schedule(t)
  <2>1. /\ pc[t] = "sync" /\ pc'[t] = "unlock" /\ Take(Act(t)) /\ UNCHANGED <<curr, lock, run, how, w>>
    BY <1>0, <1>4 DEF schedule, At, Goto
  <2>2. to'[t] \in run \cup {Idle}
    <3>1. PICK n \in (IF run = {} THEN {Idle} ELSE run) : to' = [to EXCEPT ![t] = n]
      BY <1>4 DEF schedule
    <3> QED BY <1>0, <3>1
  <2>3. ~Valid(Cs(t))'
    BY <1>0, <2>1, TakeEffect DEF TokPlace, Valid
  <2>4. TokPlace(t)' /\ Vouched(t)'
    BY <1>0, <2>1, <2>2, <2>3 DEF TokPlace, Vouched, Cs, Act
  <2> QED BY <1>0, <1>1, <2>1, <2>4, TokStep
<1> QED BY <1>3, <1>4

\* So do those of sl_cs_exit: a switch to the scheduler thread there outdates the token of
\* the choice made before.
LEMMA TokExit ==
  ASSUME TokInv, CsInv', NEW t \in Thread,
         exit_sync(t) \/ exit_load(t) \/ exit_cas(t) \/ sl_cs_exit_contention(t) \/ exit_switch(t)
  PROVE  TokInv'
<1>0. /\ CsInv /\ TokPlace(t) /\ Vouched(t) /\ Cs(t) \in Token /\ Act(t) \in Token
      /\ Cs(t)[1] = t /\ Act(t)[1] = t
      /\ Cs(t) # Act(t) /\ \A k \in Token : k[1] = t => k \in {Cs(t), Act(t)}
      /\ pc \in [Thread -> Labels] /\ w \in [Thread -> Word]
      /\ how \in [Thread -> {"exit", "schedule"}] /\ to \in [Thread -> Thread] /\ run \subseteq Worker
  BY TokNames DEF TokInv, CsInv, Exclusion, TypeOK
<1>1. /\ curr = t
      /\ \A u \in Thread : u # t => /\ pc'[u] = pc[u] /\ how'[u] = how[u]
                                    /\ w'[u] = w[u] /\ to'[u] = to[u]
  BY <1>0, Alone DEF Step
<1>2. UNCHANGED toks => Thins
  BY DEF Thins, TokInv, TokOrder, Valid
<1>10. /\ AfterExit(t) \in {"activate", "user", "rcv", "loop"}
       /\ how[t] = "schedule" => AfterExit(t) = "activate"
  BY DEF AfterExit, Skip
<1> HIDE DEF AfterExit
<1>3. CASE exit_sync(t)
  <2>1. /\ pc[t] = "unlock" /\ pc'[t] = "xload" /\ Take(Cs(t)) /\ UNCHANGED <<curr, lock, run, how, w, to>>
    BY <1>0, <1>3 DEF exit_sync, At, Goto
  <2>2. /\ Valid(Act(t))' => Valid(Act(t))
        /\ <<Cs(t), Act(t)>> \notin toks'
    <3>1. \A j, m \in Token : <<j, m>> \in toks' <=>
            IF m = Cs(t) THEN j = Cs(t) \/ Valid(j) ELSE j # Cs(t) /\ <<j, m>> \in toks
      BY <1>0, <2>1, TakeEffect
    <3>2. <<Act(t), Act(t)>> \in toks' => <<Act(t), Act(t)>> \in toks
      BY <1>0, <3>1
    <3>3. <<Cs(t), Act(t)>> \notin toks'
      BY <1>0, <3>1
    <3> QED BY <3>2, <3>3 DEF Valid
  <2>3. TokPlace(t)' /\ Vouched(t)'
    BY <1>0, <2>1, <2>2 DEF TokPlace, Vouched, Cs, Act
  <2> QED BY <1>0, <1>1, <2>1, <2>3, TokStep
<1>4. CASE exit_load(t)
  <2>1. /\ pc[t] = "xload" /\ pc'[t] \in {"xcontend", "xcas"} /\ w'[t] = lock
        /\ UNCHANGED <<curr, lock, toks, run, how, to>>
    BY <1>0, <1>4 DEF exit_load, At, Goto
  <2>2. TokPlace(t)' /\ Vouched(t)'
    BY <1>0, <2>1 DEF TokPlace, Vouched, Cs, Act, Valid
  <2> QED BY <1>0, <1>1, <1>2, <2>1, <2>2, TokStep
<1>5. CASE exit_cas(t)
  <2>1. /\ pc[t] = "xcas" /\ pc'[t] \in {AfterExit(t), "unlock"} /\ w'[t] = Free /\ Drop(Cs(t))
        /\ lock' \in {lock, Free} /\ UNCHANGED <<curr, run, how, to>>
    BY <1>0, <1>5 DEF exit_cas, At, Goto, Cas, Forget
  <2>2. lock.owner = t
    BY <1>0, <2>1 DEF CsInv, Exclusion, InCs
  <2>3. Thins /\ ~Valid(Cs(t))' /\ (Valid(Act(t))' => Valid(Act(t)))
    BY <1>0, <2>1, DropEffect DEF Thins, Valid
  <2>4. TokPlace(t)' /\ Vouched(t)'
    BY <1>0, <1>10, <2>1, <2>3 DEF TokPlace, Vouched, Cs, Act
  <2> QED BY <1>0, <1>1, <2>1, <2>2, <2>3, <2>4, Kinds, TokStep
<1>6. CASE sl_cs_exit_contention(t)
  <2>1. /\ pc[t] = "xcontend" /\ pc'[t] \in {"xswitch", "unlock"} /\ w'[t] = Free
        /\ lock' \in {lock, Free} /\ UNCHANGED <<curr, toks, run, how, to>>
    BY <1>0, <1>6 DEF sl_cs_exit_contention, At, Goto, Cas, Forget
  <2>2. lock.owner = t
    BY <1>0, <2>1 DEF CsInv, Exclusion, InCs
  <2>3. TokPlace(t)' /\ Vouched(t)'
    BY <1>0, <2>1 DEF TokPlace, Vouched, Cs, Act, Valid
  <2> QED BY <1>0, <1>1, <1>2, <2>1, <2>2, <2>3, Kinds, TokStep
<1>7. CASE exit_switch(t)
  <2>1. /\ pc[t] = "xswitch" /\ UNCHANGED <<lock, run, how, w, to>>
        /\ Switch(t, Cs(t), Sched, AfterExit(t), AfterExit(t), AfterExit(t))
    BY <1>7 DEF exit_switch, At
  <2>2. \/ /\ ~Valid(Cs(t)) /\ UNCHANGED <<toks, curr>> /\ Thins /\ pc'[t] = AfterExit(t)
        \/ /\ Valid(Cs(t)) /\ Thins /\ ~Valid(Cs(t))' /\ pc'[t] \in {AfterExit(t), AfterExit(t)}
           /\ curr' \in {t, Sched, Sched}
           /\ \A j, m \in Token : <<j, m>> \in toks' => j[1] = t /\ j # Cs(t) /\ <<Cs(t), j>> \in toks
    BY <1>0, <1>1, <2>1, SwitchTokens
  <2>3. TokPlace(t)' /\ Vouched(t)'
    <3>1. CASE ~Valid(Cs(t)) /\ UNCHANGED <<toks, curr>> /\ pc'[t] = AfterExit(t)
      BY <1>0, <1>10, <2>1, <3>1 DEF TokPlace, Vouched, Cs, Act, Valid
    <3>2. CASE /\ ~Valid(Cs(t))' /\ pc'[t] = AfterExit(t)
               /\ \A j, m \in Token : <<j, m>> \in toks' => <<Cs(t), j>> \in toks
      <4>1. ~Valid(Act(t))'
        BY <1>0, <2>1, <3>2 DEF TokPlace, Valid
      <4> QED BY <1>10, <3>2, <4>1 DEF TokPlace, Vouched, Cs, Act
    <3> QED BY <2>2, <3>1, <3>2
  <2>4. Thins /\ curr' \in {curr, Sched}
    BY <1>1, <2>2
  <2> QED BY <1>0, <1>1, <2>1, <2>3, <2>4, TokStep
<1> QED BY <1>3, <1>4, <1>5, <1>6, <1>7

\* So does the switch to the thread that was chosen.
LEMMA TokActivate ==
  ASSUME TokInv, CsInv', NEW t \in Thread, activate(t)
  PROVE  TokInv'
<1>0. /\ CsInv /\ TokPlace(t) /\ Vouched(t) /\ Cs(t) \in Token /\ Act(t) \in Token
      /\ Cs(t)[1] = t /\ Act(t)[1] = t
      /\ Cs(t) # Act(t) /\ \A k \in Token : k[1] = t => k \in {Cs(t), Act(t)}
      /\ pc \in [Thread -> Labels] /\ w \in [Thread -> Word]
      /\ how \in [Thread -> {"exit", "schedule"}] /\ to \in [Thread -> Thread] /\ run \subseteq Worker
  BY TokNames DEF TokInv, CsInv, Exclusion, TypeOK
<1>1. /\ curr = t
      /\ \A u \in Thread : u # t => /\ pc'[u] = pc[u] /\ how'[u] = how[u]
                                    /\ w'[u] = w[u] /\ to'[u] = to[u]
  BY <1>0, Alone DEF Step
<1>2. UNCHANGED toks => Thins
  BY DEF Thins, TokInv, TokOrder, Valid
<1>3. /\ pc[t] = "activate" /\ UNCHANGED <<lock, run, w>>
      /\ Switch(t, Act(t), to[t], AfterSwitch(t), IF t = Sched THEN "rcv" ELSE "tok", "rcv")
  BY DEF activate, At
<1>4. \/ /\ ~Valid(Act(t)) /\ UNCHANGED <<toks, curr>> /\ Thins
         /\ pc'[t] = IF t = Sched THEN "rcv" ELSE "tok"
      \/ /\ Valid(Act(t)) /\ Thins /\ ~Valid(Act(t))' /\ pc'[t] \in {AfterSwitch(t), "rcv"}
         /\ curr' \in {t, Sched, to[t]}
         /\ \A j, m \in Token : <<j, m>> \in toks' => j[1] = t /\ j # Act(t) /\ <<Act(t), j>> \in toks
  <2> HIDE DEF AfterSwitch
  <2> QED BY <1>0, <1>1, <1>3, SwitchTokens
<1>5. Thins /\ ~Valid(Act(t))' /\ pc'[t] \in {"rcv", "user", "tok"} /\ ~Valid(Cs(t)) /\ ~Valid(Cs(t))'
  BY <1>0, <1>3, <1>4 DEF AfterSwitch, TokPlace, Thins, Valid
<1>6. TokPlace(t)' /\ Vouched(t)'
  BY <1>5 DEF TokPlace, Vouched, Cs, Act
<1>7. curr' \in {curr, Sched} \/ (toks' = {} /\ lock'.owner # Sched)
  <2> SUFFICES ASSUME curr' \notin {curr, Sched} PROVE toks' = {} /\ lock.owner # Sched
    BY <1>3
  <2>1. \A j, m \in Token : <<j, m>> \in toks' => j = Cs(t)
    BY <1>0, <1>1, <1>4
  <2>2. \A j, m \in Token : <<j, m>> \notin toks'
    BY <1>0, <1>5, <2>1 DEF Valid, Thins
  <2>3. toks' \subseteq Token \X Token
    BY DEF CsInv, Exclusion, TypeOK
  <2>4. lock.owner # Sched
    BY <1>0, <1>1, <1>3 DEF TokInv, SchedHolds, CsInv, Exclusion, InCs
  <2> QED BY <2>2, <2>3, <2>4
<1> QED BY <1>0, <1>1, <1>3, <1>5, <1>6, <1>7, TokStep

\* So do the steps outside, the timer and what arrives.
LEMMA TokOutside ==
  ASSUME TokInv, CsInv',
         \/ \E t \in Thread : user(t) \/ (t = Sched /\ (sched_rcv \/ sched_loop))
         \/ timer_process \/ arrive
  PROVE  TokInv'
<1>1. ASSUME NEW t \in Thread, user(t) \/ (t = Sched /\ (sched_rcv \/ sched_loop)) PROVE TokInv'
  <2>0. /\ CsInv /\ TokPlace(t) /\ Vouched(t) /\ Cs(t) \in Token /\ Cs(t)[1] = t
        /\ pc \in [Thread -> Labels]
    BY TokNames DEF TokInv, CsInv, Exclusion, TypeOK
  <2>1. /\ curr = t
        /\ \A u \in Thread : u # t => /\ pc'[u] = pc[u] /\ how'[u] = how[u]
                                      /\ w'[u] = w[u] /\ to'[u] = to[u]
    BY <1>1, <2>0, Alone DEF Step
  <2>2. UNCHANGED toks => Thins
    BY DEF Thins, TokInv, TokOrder, Valid
  <2>3. /\ pc[t] \in {"user", "rcv", "loop"} /\ pc'[t] \in {"tok", "rcv", "loop"}
        /\ UNCHANGED <<curr, lock, toks, run, how, w, to>>
    BY <1>1, <2>0 DEF user, sched_rcv, sched_loop, At, Goto
  <2>4. TokPlace(t)' /\ Vouched(t)'
    BY <2>0, <2>3 DEF TokPlace, Vouched, Cs, Act, Valid
  <2> QED BY <2>0, <2>1, <2>2, <2>3, <2>4, TokStep
<1>2. CASE timer_process \/ arrive
  <2>1. curr' \in {curr, Sched} /\ UNCHANGED <<lock, toks, run, local>>
    BY <1>2 DEF timer_process, arrive
  <2>2. Thins
    BY <2>1 DEF Thins, TokInv, TokOrder, Valid
  <2>3. TokOrder'
    BY <2>1, <2>2, OrderThins
  <2>4. SchedHolds'
    BY <2>1 DEF TokInv, SchedHolds, local
  <2>5. ASSUME NEW t \in Thread PROVE TokPlace(t)' /\ Vouched(t)'
    BY <2>1 DEF TokInv, TokPlace, Vouched, Valid, Cs, Act, local
  <2> QED BY <2>3, <2>4, <2>5 DEF TokInv
<1> QED BY <1>1, <1>2

\* The invariant about tokens is inductive.
THEOREM TokInductive == TokInv /\ [Next]_vars => TokInv'
<1> SUFFICES ASSUME TokInv, [Next]_vars PROVE TokInv'
  OBVIOUS
<1>1. CsInv'
  BY CsInductive DEF TokInv
<1>2. CASE UNCHANGED vars
  <2>1. UNCHANGED <<curr, lock, toks, run, local>>
    BY <1>2 DEF vars
  <2>2. ASSUME NEW t \in Thread PROVE TokPlace(t)' /\ Vouched(t)'
    BY <2>1 DEF TokInv, TokPlace, Vouched, Valid, Cs, Act, local
  <2> QED BY <1>1, <2>1, <2>2 DEF TokInv, SchedHolds, TokOrder, Valid, local
<1> QED BY <1>1, <1>2, TokEnter, TokBody, TokExit, TokActivate, TokOutside DEF Next, Step

\* It holds in every behaviour.
THEOREM TokInvariance == Spec => []TokInv
<1>1. Init /\ CsInv => TokInv
  BY Kinds DEF Init, TokInv, SchedHolds, TokOrder, TokPlace, Vouched, Valid
<1>2. Spec => []CsInv
  BY CsInvariance
<1> QED BY <1>1, <1>2, TokInductive, PTL DEF Spec

\* No switch goes to a thread that is no longer runnable, or to an owner that has released
\* the lock: what a preempted thread read or chose is either still true when it asks, or its
\* token is outdated and the kernel refuses.
THEOREM SwitchesCurrent == Spec => SwitchTo
<1>1. TokInv /\ [Next]_vars => [curr' # curr => curr' \in run \cup {Sched, Idle, lock.owner}]_vars
  <2> SUFFICES ASSUME TokInv, Next, curr' # curr
               PROVE  curr' \in run \cup {Sched, Idle, lock.owner}
    BY DEF vars
  <2>1. ASSUME NEW t \in Thread, Step(t) PROVE curr' \in run \cup {Sched, Idle, lock.owner}
    <3>0. /\ CsInv /\ Vouched(t) /\ Cs(t) \in Token /\ Act(t) \in Token /\ Cs(t)[1] = t /\ Act(t)[1] = t
      BY TokNames DEF TokInv
    <3>1. CASE curr' \in {curr, Sched}
      BY <3>1
    <3>2. CASE enter_help(t)
      BY <3>0, <3>2 DEF enter_help, At, Switch, Vouched
    <3>3. CASE exit_switch(t)
      BY <3>3 DEF exit_switch, At, Switch
    <3>4. CASE activate(t)
      BY <3>0, <3>4 DEF activate, At, Switch, Vouched
    <3>5. CASE \/ enter_sync(t) \/ enter_load(t) \/ enter_take(t) \/ sl_cs_enter_contention(t)
               \/ cs_body(t) \/ sl_xcpu_process_no_cs(t) \/ schedule(t)
      BY <3>1, <3>5 DEF enter_sync, enter_load, enter_take, sl_cs_enter_contention,
         cs_body, sl_xcpu_process_no_cs, schedule
    <3>6. CASE \/ exit_sync(t) \/ exit_load(t) \/ exit_cas(t) \/ sl_cs_exit_contention(t)
               \/ user(t) \/ sched_rcv \/ sched_loop \/ sched_schedule
      BY <3>1, <3>6 DEF exit_sync, exit_load, exit_cas, sl_cs_exit_contention,
         user, sched_rcv, sched_loop, sched_schedule
    <3> QED BY <2>1, <3>2, <3>3, <3>4, <3>5, <3>6 DEF Step
  <2>2. CASE timer_process \/ arrive
    BY <2>2 DEF timer_process, arrive
  <2> QED BY <2>1, <2>2 DEF Next
<1> QED BY <1>1, TokInvariance, PTL DEF Spec, SwitchTo

-----------------------------------------------------------------------------
(* The heap.                                                                *)

\* The values of a heap within an operation.
Heaps == [d : Seq(Entry), p : [Entry -> Int]]

\* Its entries.
Elems(h) == {h.d[i] : i \in 1 .. Len(h.d)}

\* Every entry knows its place.
Indexed(h) == \A i \in 1 .. Len(h.d) : h.p[h.d[i]] = i

\* The same entries in other places, and nothing else has changed.
Moved(h, g) ==
  /\ g \in Heaps /\ Len(g.d) = Len(h.d) /\ Elems(g) = Elems(h)
  /\ \A y \in Entry : y \notin Elems(h) => g.p[y] = h.p[y]

\* The entry at i is no better than its parent.
Edge(h, i, k) == k[h.d[i \div 2]] <= k[h.d[i]]

\* No entry is better than its parent.
Ordered(h, k) == \A i \in 2 .. Len(h.d) : Edge(h, i, k)

\* The entries below c are no better than the one above c.
Around(h, c, k) ==
  \A i \in 2 .. Len(h.d) : i \div 2 = c /\ c > 1 => k[h.d[c \div 2]] <= k[h.d[i]]

\* The entry at c, and nothing else, may be out of place, upwards or downwards.
Loose(h, c, k) ==
  /\ \A i \in 2 .. Len(h.d) : i # c /\ i \div 2 # c => Edge(h, i, k)
  /\ Around(h, c, k)

\* The entry at c, and nothing else, may be out of place downwards.
Heavy(h, c, k) ==
  /\ \A i \in 2 .. Len(h.d) : i \div 2 # c => Edge(h, i, k)
  /\ Around(h, c, k)

-----------------------------------------------------------------------------
(* Numbers and loops.                                                       *)

\* The least member of a set of numbers.
LEMMA LeastNat ==
  ASSUME NEW S, S \subseteq Nat, S # {}
  PROVE  \E x \in S : \A y \in S : x <= y
<1>1. PICK x \in S : \A y \in S : ~ (<<y, x>> \in OpToRel(<, Nat))
  BY NatLessThanWellFounded, WFMin
<1>2. ASSUME NEW y \in S PROVE x <= y
  <2>1. ~(y < x)
    BY <1>1 DEF OpToRel
  <2> QED BY <2>1
<1> QED BY <1>2

\* If something goes wrong up to n, and not at 0, it goes wrong somewhere for the first time.
LEMMA FirstBad ==
  ASSUME NEW n \in Nat, NEW Bad, Bad \subseteq 0 .. n, Bad # {}, 0 \notin Bad
  PROVE  \E m \in Bad : m \in 1 .. n /\ m - 1 \in 0 .. n /\ m - 1 \notin Bad
<1>1. Bad \subseteq Nat
  OBVIOUS
<1>2. PICK m \in Bad : \A y \in Bad : m <= y
  BY <1>1, LeastNat
<1>3. m \in 1 .. n
  BY <1>2
<1> QED BY <1>2, <1>3

\* The parent of a place.
LEMMA Parent ==
  ASSUME NEW i \in Nat, i >= 2
  PROVE  /\ i \div 2 \in Nat /\ i \div 2 >= 1 /\ i \div 2 < i
         /\ i = 2 * (i \div 2) \/ i = 2 * (i \div 2) + 1
  OBVIOUS

\* F is a round of a loop that stays within S, and v the rounds that are left at most.
Round(S, F) == F \in [S -> S]
Nearer(S, F, v) == v \in [S -> Nat] /\ \A t \in S : F[t] = t \/ v[F[t]] < v[t]

\* g lists the states of n rounds.
Run(g, S, F, s0, n) ==
  g \in [0 .. n -> S] /\ g[0] = s0 /\ \A m \in 1 .. n : g[m] = F[g[m - 1]]
Runs(g, S, F, n) == \A m \in 1 .. n : g[m - 1] \in S => g[m] = F[g[m - 1]]

\* The places that have children.
LEMMA Inner ==
  ASSUME NEW n \in Nat
  PROVE  /\ n \div 2 \in Nat /\ 2 * (n \div 2) <= n
         /\ \A i \in 2 .. n : i \div 2 <= n \div 2
         /\ \A c \in Nat : c >= 1 /\ c <= n \div 2 =>
              /\ 2 * c \in 2 .. n /\ (2 * c) \div 2 = c /\ 2 * c > c
              /\ (2 * c + 1) \div 2 = c /\ 2 * c + 1 > c /\ c \in 1 .. n
  OBVIOUS

\* The rounds of a loop exist.
LEMMA RoundsExist ==
  ASSUME NEW S, NEW F, Round(S, F), NEW s0 \in S, NEW n \in Nat
  PROVE  \E g : Run(g, S, F, s0, n)
<1> USE DEF Round
<1> DEFINE Part(g, j) == g[0] = s0 /\ \A m \in 1 .. j : g[m] = F[g[m - 1]]
           Bad == {j \in 0 .. n : ~ \E g \in [0 .. j -> S] : Part(g, j)}
<1>1. Bad = {}
  <2> SUFFICES ASSUME Bad # {} PROVE FALSE
    OBVIOUS
  <2>1. Bad \subseteq 0 .. n
    OBVIOUS
  <2>2. 0 \notin Bad
    <3> DEFINE z == [m \in 0 .. 0 |-> s0]
    <3>1. z \in [0 .. 0 -> S]
      OBVIOUS
    <3>2. Part(z, 0)
      OBVIOUS
    <3> HIDE DEF z
    <3> QED BY <3>1, <3>2
  <2> HIDE DEF Bad
  <2>a. PICK j \in Bad : j \in 1 .. n /\ j - 1 \in 0 .. n /\ j - 1 \notin Bad
    BY <2>1, <2>2, FirstBad
  <2> USE DEF Bad
  <2>3. j \in Nat /\ j >= 1 /\ j - 1 \in 0 .. n /\ j - 1 \notin Bad
    BY <2>a
  <2>4. PICK g \in [0 .. j - 1 -> S] : Part(g, j - 1)
    BY <2>3
  <2>5. g[j - 1] \in S /\ F[g[j - 1]] \in S
    BY <2>3
  <2> DEFINE f == [m \in 0 .. j |-> IF m = j THEN F[g[j - 1]] ELSE g[m]]
  <2>6. f \in [0 .. j -> S]
    BY <2>3, <2>5
  <2>7. Part(f, j)
    BY <2>3, <2>4
  <2> HIDE DEF f
  <2> QED BY <2>a, <2>6, <2>7
<1>2. n \notin Bad
  BY <1>1
<1> QED BY <1>2 DEF Run

\* A loop whose rounds stay within S and come nearer to the end is over after n of them.
LEMMA RoundsEnd ==
  ASSUME NEW S, NEW F, NEW v, Round(S, F), Nearer(S, F, v),
         NEW n \in Nat, NEW g, g[0] \in S, v[g[0]] <= n, Runs(g, S, F, n)
  PROVE  g[n] \in S /\ F[g[n]] = g[n]
<1> USE DEF Round, Nearer, Runs
<1> DEFINE Good(m) == g[m] \in S /\ (F[g[m]] = g[m] \/ v[g[m]] + m <= n)
           Bad == {m \in 0 .. n : ~Good(m)}
<1>1. Bad = {}
  <2> SUFFICES ASSUME Bad # {} PROVE FALSE
    OBVIOUS
  <2>1. Bad \subseteq 0 .. n
    OBVIOUS
  <2>2. 0 \notin Bad
    <3>1. v[g[0]] \in Nat
      OBVIOUS
    <3> QED BY <3>1
  <2> HIDE DEF Bad
  <2>3. PICK m \in Bad : m \in 1 .. n /\ m - 1 \in 0 .. n /\ m - 1 \notin Bad
    BY <2>1, <2>2, FirstBad
  <2> USE DEF Bad
  <2>4. Good(m - 1) /\ ~Good(m)
    BY <2>3
  <2>5. PICK t \in S : t = g[m - 1] /\ g[m] = F[t] /\ F[t] \in S
    BY <2>3, <2>4
  <2>6. v[t] \in Nat /\ v[F[t]] \in Nat
    BY <2>5
  <2>7. CASE F[t] = t
    BY <2>4, <2>5, <2>7
  <2>8. CASE F[t] # t
    <3>1. v[F[t]] < v[t] /\ v[t] + (m - 1) <= n
      BY <2>4, <2>5, <2>8
    <3>2. v[F[t]] + m <= n
      BY <2>3, <2>6, <3>1
    <3> QED BY <2>4, <2>5, <3>2
  <2> QED BY <2>7, <2>8
<1>2. Good(n)
  BY <1>1
<1>3. PICK t \in S : t = g[n]
  BY <1>2
<1>4. v[t] \in Nat /\ v[F[t]] \in Nat /\ (F[t] = t \/ v[F[t]] < v[t])
  OBVIOUS
<1>5. F[t] = t \/ v[t] + n <= n
  BY <1>2, <1>3
<1> QED BY <1>3, <1>4, <1>5

\* What holds of the first state of swap_up and is kept by its rounds holds at its end.
LEMMA UpEnds ==
  ASSUME NEW h, NEW c \in Nat, NEW k, NEW S, [h |-> h, c |-> c] \in S,
         \A t \in S : t.c \in Nat /\ UpRound(t, k) \in S /\ (~UpOver(t, k) => UpRound(t, k).c < t.c)
  PROVE  swap_up(h, c, k) \in S /\ UpOver(swap_up(h, c, k), k)
<1> DEFINE F == [t \in S |-> UpRound(t, k)]
           v == [t \in S |-> t.c]
           Eq(g) == g = [n \in 0 .. c |-> IF n = 0 THEN [h |-> h, c |-> c] ELSE UpRound(g[n - 1], k)]
           s == CHOOSE g : Eq(g)
<1>1. swap_up(h, c, k) = s[c]
  BY DEF swap_up
<1>2. F \in [S -> S] /\ v \in [S -> Nat]
  OBVIOUS
<1>3. \A t \in S : F[t] = UpRound(t, k) /\ v[t] = t.c
  OBVIOUS
<1>4. \A t \in S : F[t] = t \/ v[F[t]] < v[t]
  <2> SUFFICES ASSUME NEW t \in S PROVE F[t] = t \/ v[F[t]] < v[t]
    OBVIOUS
  <2>1. CASE UpOver(t, k)
    BY <1>3, <2>1 DEF UpRound
  <2>2. CASE ~UpOver(t, k)
    BY <1>3, <2>2
  <2> QED BY <2>1, <2>2
<1> HIDE DEF F, v
<1>a. PICK G : G = F /\ G \in [S -> S] /\ Round(S, G)
  BY <1>2 DEF Round
<1>b. PICK wt : wt = v /\ Nearer(S, G, wt)
  BY <1>2, <1>4, <1>a DEF Nearer
<1>c. PICK s0 \in S : s0 = [h |-> h, c |-> c]
  OBVIOUS
<1>d. PICK g : Run(g, S, G, s0, c)
  BY <1>a, RoundsExist
<1>5. g \in [0 .. c -> S] /\ g[0] = s0 /\ \A m \in 1 .. c : g[m] = G[g[m - 1]]
  BY <1>d DEF Run
<1>6. Eq(g)
  <2>1. \A n \in 0 .. c : g[n] = IF n = 0 THEN [h |-> h, c |-> c] ELSE UpRound(g[n - 1], k)
    <3> SUFFICES ASSUME NEW n \in 0 .. c, n # 0 PROVE g[n] = UpRound(g[n - 1], k)
      BY <1>5, <1>c
    <3>1. n \in 1 .. c /\ n - 1 \in 0 .. c
      OBVIOUS
    <3>2. g[n - 1] \in S
      BY <1>5, <3>1
    <3> QED BY <1>3, <1>5, <1>a, <3>1, <3>2
  <2>2. g = [n \in 0 .. c |-> g[n]]
    BY <1>5
  <2>3. g = [n \in 0 .. c |-> IF n = 0 THEN [h |-> h, c |-> c] ELSE UpRound(g[n - 1], k)]
    BY <2>1, <2>2
  <2> QED BY <2>3
<1>7. Eq(s)
  BY <1>6
<1> HIDE DEF s
<1>8. s[0] = [h |-> h, c |-> c] /\ \A m \in 1 .. c : s[m] = UpRound(s[m - 1], k)
  BY <1>7
<1>9. s[c] \in S /\ F[s[c]] = s[c]
  <2>1. s[0] \in S /\ v[s[0]] = c
    BY <1>3, <1>8
  <2>2. \A m \in 1 .. c : s[m - 1] \in S => s[m] = F[s[m - 1]]
    BY <1>3, <1>8
  <2>3. v[s[0]] <= c
    BY <2>1
  <2>4. PICK r : r = s
    OBVIOUS
  <2>6. Runs(r, S, G, c)
    BY <2>2, <2>4, <1>a DEF Runs
  <2>7. r[0] \in S /\ wt[r[0]] <= c
    BY <2>1, <2>3, <2>4, <1>b
  <2>8. r[c] \in S /\ G[r[c]] = r[c]
    BY <1>a, <1>b, <2>6, <2>7, RoundsEnd
  <2> QED BY <2>4, <2>8, <1>a
<1>10. UpOver(s[c], k)
  <2> SUFFICES ASSUME ~UpOver(s[c], k) PROVE FALSE
    OBVIOUS
  <2>1. PICK t \in S : t = s[c]
    BY <1>9
  <2>2. UpRound(t, k) = t /\ UpRound(t, k).c < t.c /\ t.c \in Nat
    BY <1>3, <1>9, <2>1
  <2> QED BY <2>2
<1> QED BY <1>1, <1>9, <1>10

\* The same for swap_down, which moves towards the end of the array.
LEMMA DownEnds ==
  ASSUME NEW h, NEW c \in Nat, NEW k, NEW S, [h |-> h, c |-> c] \in S, Len(h.d) \in Nat,
         \A t \in S : /\ t.c \in Nat /\ DownRound(t, k) \in S
                      /\ ~DownOver(t, k) => /\ DownRound(t, k).c > t.c
                                            /\ DownRound(t, k).c <= Len(h.d)
  PROVE  swap_down(h, c, k) \in S /\ DownOver(swap_down(h, c, k), k)
<1> DEFINE F == [t \in S |-> DownRound(t, k)]
           v == [t \in S |-> IF t.c <= Len(h.d) THEN Len(h.d) - t.c ELSE 0]
           Eq(g) == g = [n \in 0 .. Len(h.d) |-> IF n = 0 THEN [h |-> h, c |-> c] ELSE DownRound(g[n - 1], k)]
           s == CHOOSE g : Eq(g)
<1>1. swap_down(h, c, k) = s[Len(h.d)]
  BY DEF swap_down
<1>0. PICK e \in Nat : e = Len(h.d)
  OBVIOUS
<1>2. F \in [S -> S] /\ v \in [S -> Nat]
  BY <1>0
<1>3. \A t \in S : F[t] = DownRound(t, k) /\ v[t] = IF t.c <= e THEN e - t.c ELSE 0
  BY <1>0
<1>4. \A t \in S : F[t] = t \/ v[F[t]] < v[t]
  <2> SUFFICES ASSUME NEW t \in S PROVE F[t] = t \/ v[F[t]] < v[t]
    OBVIOUS
  <2>1. CASE DownOver(t, k)
    BY <1>3, <2>1 DEF DownRound
  <2>2. CASE ~DownOver(t, k)
    <3>1. PICK u \in S : u = DownRound(t, k) /\ u = F[t]
      BY <1>3
    <3>2. u.c > t.c /\ u.c <= e /\ t.c \in Nat /\ u.c \in Nat
      BY <1>0, <2>2, <3>1
    <3>3. v[u] = IF u.c <= e THEN e - u.c ELSE 0
      BY <1>3
    <3>4. v[t] = IF t.c <= e THEN e - t.c ELSE 0
      BY <1>3
    <3>5. v[u] < v[t]
      BY <3>2, <3>3, <3>4
    <3> QED BY <3>1, <3>5
  <2> QED BY <2>1, <2>2
<1> HIDE DEF F, v
<1>a. PICK G : G = F /\ G \in [S -> S] /\ Round(S, G)
  BY <1>2 DEF Round
<1>b. PICK wt : wt = v /\ Nearer(S, G, wt)
  BY <1>2, <1>4, <1>a DEF Nearer
<1>c. PICK s0 \in S : s0 = [h |-> h, c |-> c]
  OBVIOUS
<1>d. PICK g : Run(g, S, G, s0, e)
  BY <1>a, RoundsExist
<1>5. g \in [0 .. e -> S] /\ g[0] = s0 /\ \A m \in 1 .. e : g[m] = G[g[m - 1]]
  BY <1>d DEF Run
<1>6. Eq(g)
  <2>1. \A n \in 0 .. e : g[n] = IF n = 0 THEN [h |-> h, c |-> c] ELSE DownRound(g[n - 1], k)
    <3> SUFFICES ASSUME NEW n \in 0 .. e, n # 0 PROVE g[n] = DownRound(g[n - 1], k)
      BY <1>5, <1>c
    <3>1. n \in 1 .. e /\ n - 1 \in 0 .. e
      OBVIOUS
    <3>2. g[n - 1] \in S
      BY <1>5, <3>1
    <3> QED BY <1>3, <1>5, <1>a, <3>1, <3>2
  <2>2. g = [n \in 0 .. e |-> g[n]]
    BY <1>5
  <2>3. g = [n \in 0 .. e |-> IF n = 0 THEN [h |-> h, c |-> c] ELSE DownRound(g[n - 1], k)]
    BY <2>1, <2>2
  <2> QED BY <1>0, <2>3
<1>7. Eq(s)
  BY <1>6
<1> HIDE DEF s
<1>8. s[0] = [h |-> h, c |-> c] /\ \A m \in 1 .. e : s[m] = DownRound(s[m - 1], k)
  <2>1. s = [n \in 0 .. e |-> IF n = 0 THEN [h |-> h, c |-> c] ELSE DownRound(s[n - 1], k)]
    BY <1>0, <1>7
  <2> HIDE DEF Eq
  <2> QED BY <2>1
<1>9. s[e] \in S /\ F[s[e]] = s[e]
  <2>1. s[0] \in S /\ v[s[0]] = IF c <= e THEN e - c ELSE 0
    BY <1>3, <1>8
  <2>2. \A m \in 1 .. e : s[m - 1] \in S => s[m] = F[s[m - 1]]
    BY <1>3, <1>8
  <2>3. v[s[0]] <= e
    BY <2>1
  <2>4. PICK r : r = s
    OBVIOUS
  <2>6. Runs(r, S, G, e)
    BY <2>2, <2>4, <1>a DEF Runs
  <2>7. r[0] \in S /\ wt[r[0]] <= e
    BY <2>1, <2>3, <2>4, <1>b
  <2>8. r[e] \in S /\ G[r[e]] = r[e]
    BY <1>a, <1>b, <2>6, <2>7, RoundsEnd
  <2> QED BY <2>4, <2>8, <1>a
<1>10. DownOver(s[e], k)
  <2> SUFFICES ASSUME ~DownOver(s[e], k) PROVE FALSE
    OBVIOUS
  <2>1. PICK t \in S : t = s[e]
    BY <1>9
  <2>2. DownRound(t, k) = t /\ DownRound(t, k).c > t.c /\ t.c \in Nat
    BY <1>3, <1>9, <2>1
  <2> QED BY <2>2
<1> QED BY <1>0, <1>1, <1>9, <1>10

-----------------------------------------------------------------------------
(* The array.                                                               *)

\* An element of a sequence.
LEMMA ArrayAt ==
  ASSUME NEW h \in Heaps
  PROVE  /\ h.d \in Seq(Entry) /\ h.p \in [Entry -> Int] /\ Len(h.d) \in Nat
         /\ DOMAIN h.d = 1 .. Len(h.d) /\ \A i \in 1 .. Len(h.d) : h.d[i] \in Entry
<1>1. h.d \in Seq(Entry) /\ h.p \in [Entry -> Int]
  BY DEF Heaps
<1>2. PICK q \in Seq(Entry) : q = h.d
  BY <1>1
<1>3. Len(q) \in Nat /\ DOMAIN q = 1 .. Len(q) /\ \A i \in 1 .. Len(q) : q[i] \in Entry
  OBVIOUS
<1> QED BY <1>1, <1>2, <1>3

\* A store within the array.
LEMMA PutAt ==
  ASSUME NEW h \in Heaps, NEW i \in 1 .. Len(h.d), NEW x \in Entry
  PROVE  /\ Put(h, i, x) \in Heaps /\ Len(Put(h, i, x).d) = Len(h.d)
         /\ Put(h, i, x).d[i] = x /\ \A j \in 1 .. Len(h.d) : j # i => Put(h, i, x).d[j] = h.d[j]
         /\ Put(h, i, x).p[x] = i /\ \A y \in Entry : y # x => Put(h, i, x).p[y] = h.p[y]
<1>1. /\ h.d \in Seq(Entry) /\ h.p \in [Entry -> Int] /\ Len(h.d) \in Nat
      /\ DOMAIN h.d = 1 .. Len(h.d)
  BY ArrayAt
<1>2. PICK q \in Seq(Entry) : q = h.d
  BY <1>1
<1>3. PICK r : r = [q EXCEPT ![i] = x]
  OBVIOUS
<1>4. /\ r \in Seq(Entry) /\ Len(r) = Len(q) /\ r[i] = x
      /\ \A j \in 1 .. Len(q) : j # i => r[j] = q[j]
  <2>1. i \in 1 .. Len(q) /\ DOMAIN q = 1 .. Len(q)
    BY <1>2
  <2> QED BY <1>3, <2>1
<1>5. PICK p \in [Entry -> Int] : p = h.p
  BY <1>1
<1>6. PICK t : t = [p EXCEPT ![x] = i]
  OBVIOUS
<1>7. t \in [Entry -> Int] /\ t[x] = i /\ \A y \in Entry : y # x => t[y] = p[y]
  BY <1>6
<1>8. Put(h, i, x) = [d |-> r, p |-> t]
  <2>1. ~(i > Len(h.d))
    BY <1>1
  <2>2. r = [h.d EXCEPT ![i] = x] /\ t = [h.p EXCEPT ![x] = i]
    BY <1>2, <1>3, <1>5, <1>6
  <2> QED BY <2>1, <2>2 DEF Put
<1>9. Put(h, i, x) \in Heaps /\ Put(h, i, x).d = r /\ Put(h, i, x).p = t
  BY ONLY <1>4, <1>7, <1>8 DEF Heaps
<1> QED BY ONLY <1>2, <1>4, <1>5, <1>7, <1>9

\* A swap moves two entries, and they know it.
LEMMA SwapAt ==
  ASSUME NEW h \in Heaps, Indexed(h), NEW a \in 1 .. Len(h.d), NEW b \in 1 .. Len(h.d), a # b
  PROVE  /\ Moved(h, swap_entries(h, a, b)) /\ Indexed(swap_entries(h, a, b))
         /\ swap_entries(h, a, b).d[a] = h.d[b] /\ swap_entries(h, a, b).d[b] = h.d[a]
         /\ \A j \in 1 .. Len(h.d) : j # a /\ j # b => swap_entries(h, a, b).d[j] = h.d[j]
<1>1. PICK x \in Entry : x = h.d[a]
  BY ArrayAt
<1>2. PICK y \in Entry : y = h.d[b]
  BY ArrayAt
<1>3. PICK f : f = Put(h, a, y)
  OBVIOUS
<1>4. PICK g : g = Put(f, b, x)
  OBVIOUS
<1>5. swap_entries(h, a, b) = g
  BY <1>1, <1>2, <1>3, <1>4 DEF swap_entries
<1>6. /\ f \in Heaps /\ Len(f.d) = Len(h.d) /\ f.d[a] = y
      /\ \A j \in 1 .. Len(h.d) : j # a => f.d[j] = h.d[j]
      /\ f.p[y] = a /\ \A z \in Entry : z # y => f.p[z] = h.p[z]
  BY <1>3, PutAt
<1>7. /\ g \in Heaps /\ Len(g.d) = Len(h.d) /\ g.d[b] = x
      /\ \A j \in 1 .. Len(h.d) : j # b => g.d[j] = f.d[j]
      /\ g.p[x] = b /\ \A z \in Entry : z # x => g.p[z] = f.p[z]
  BY <1>4, <1>6, PutAt
<1>8. /\ g.d[a] = y /\ g.d[b] = x
      /\ \A j \in 1 .. Len(h.d) : j # a /\ j # b => g.d[j] = h.d[j]
  BY <1>6, <1>7
<1>9. x # y
  BY <1>1, <1>2 DEF Indexed
<1>10. Elems(g) = Elems(h)
  <2>1. ASSUME NEW z \in Elems(g) PROVE z \in Elems(h)
    <3>1. PICK j \in 1 .. Len(h.d) : z = g.d[j]
      BY <1>7 DEF Elems
    <3> QED BY <1>1, <1>2, <1>8, <3>1 DEF Elems
  <2>2. ASSUME NEW z \in Elems(h) PROVE z \in Elems(g)
    <3>1. PICK j \in 1 .. Len(h.d) : z = h.d[j]
      BY DEF Elems
    <3>2. \E i \in 1 .. Len(h.d) : z = g.d[i]
      BY <1>1, <1>2, <1>8, <3>1
    <3> QED BY <1>7, <3>2 DEF Elems
  <2> QED BY <2>1, <2>2
<1>11. \A z \in Entry : z \notin Elems(h) => g.p[z] = h.p[z]
  <2>1. x \in Elems(h) /\ y \in Elems(h)
    BY <1>1, <1>2 DEF Elems
  <2> QED BY <1>6, <1>7, <2>1
<1>12. Indexed(g)
  <2> SUFFICES ASSUME NEW j \in 1 .. Len(h.d) PROVE g.p[g.d[j]] = j
    BY <1>7 DEF Indexed
  <2>1. CASE j = a
    BY <1>6, <1>7, <1>8, <1>9, <2>1
  <2>2. CASE j = b
    BY <1>7, <1>8, <2>2
  <2>3. CASE j # a /\ j # b
    <3>1. PICK z \in Entry : z = h.d[j] /\ z = g.d[j]
      BY <1>8, <2>3, ArrayAt
    <3>2. z # x /\ z # y
      BY <1>1, <1>2, <2>3, <3>1 DEF Indexed
    <3>3. h.p[z] = j
      BY <3>1 DEF Indexed
    <3> QED BY <1>6, <1>7, <3>1, <3>2, <3>3
  <2> QED BY <2>1, <2>2, <2>3
<1>13. Moved(h, g)
  BY <1>7, <1>10, <1>11 DEF Moved
<1> QED BY <1>1, <1>2, <1>5, <1>8, <1>12, <1>13

\* Moves add up.
LEMMA MovedTwice ==
  ASSUME NEW h, NEW f, NEW g, Moved(h, f), Moved(f, g)
  PROVE  Moved(h, g)
  BY DEF Moved

\* A heap that was not touched.
LEMMA MovedNot ==
  ASSUME NEW h \in Heaps
  PROVE  Moved(h, h)
  BY DEF Moved

\* The keys of the entries.
LEMMA Keys ==
  ASSUME NEW h \in Heaps, NEW k \in [Entry -> Int]
  PROVE  \A i \in 1 .. Len(h.d) : k[h.d[i]] \in Int
  BY ArrayAt

-----------------------------------------------------------------------------
(* The rounds.  Places are compared by their keys: a before, b after a swap. *)

\* The order around a place, in an array of keys.
KeysLoose(a, n, c) ==
  /\ \A i \in 2 .. n : i # c /\ i \div 2 # c => a[i \div 2] <= a[i]
  /\ \A i \in 2 .. n : i \div 2 = c /\ c > 1 => a[c \div 2] <= a[i]
KeysHeavy(a, n, c) ==
  /\ \A i \in 2 .. n : i \div 2 # c => a[i \div 2] <= a[i]
  /\ \A i \in 2 .. n : i \div 2 = c /\ c > 1 => a[c \div 2] <= a[i]

\* b is a with two places swapped.
KeysSwapped(a, b, n, x, y) ==
  b[x] = a[y] /\ b[y] = a[x] /\ \A j \in 1 .. n : j # x /\ j # y => b[j] = a[j]

\* A swap with the parent moves the place that is out of order up.
LEMMA KeysUp ==
  ASSUME NEW n \in Nat, NEW a \in [1 .. n -> Int], NEW b \in [1 .. n -> Int],
         NEW c \in 2 .. n, NEW p \in Nat, p = c \div 2,
         KeysLoose(a, n, c), a[c] < a[p], KeysSwapped(a, b, n, p, c)
  PROVE  KeysLoose(b, n, p)
<1>0. c \in Nat /\ p \in 1 .. n /\ p < c /\ p # c
  BY Parent
<1>1. /\ \A i \in 2 .. n : i # c /\ i \div 2 # c => a[i \div 2] <= a[i]
      /\ \A i \in 2 .. n : i \div 2 = c /\ c > 1 => a[c \div 2] <= a[i]
  BY DEF KeysLoose
<1>2. b[p] = a[c] /\ b[c] = a[p] /\ \A j \in 1 .. n : j # p /\ j # c => b[j] = a[j]
  BY DEF KeysSwapped
<1>3. ASSUME NEW i \in 2 .. n, i # p, i \div 2 # p PROVE b[i \div 2] <= b[i]
  <2>1. PICK q \in Nat : q = i \div 2 /\ q >= 1 /\ q < i /\ q \in 1 .. n /\ i \in 1 .. n
    BY Parent
  <2>2. i # c /\ q # p /\ b[i] = a[i]
    BY <1>0, <1>2, <1>3, <2>1
  <2>3. CASE q = c
    BY <1>0, <1>1, <1>2, <2>1, <2>2, <2>3
  <2>4. CASE q # c
    <3>1. b[q] = a[q]
      BY <1>2, <2>1, <2>2, <2>4
    <3>2. a[q] <= a[i]
      BY <1>1, <2>1, <2>2, <2>4
    <3> QED BY <2>1, <2>2, <3>1, <3>2
  <2> QED BY <2>3, <2>4
<1>4. ASSUME NEW i \in 2 .. n, i \div 2 = p, p > 1 PROVE b[p \div 2] <= b[i]
  <2>1. PICK q \in Nat : q = p \div 2 /\ q >= 1 /\ q < p /\ q \in 1 .. n
    BY <1>0, <1>4, Parent
  <2>2. b[q] = a[q] /\ a[q] \in Int /\ a[p] \in Int /\ a[i] \in Int /\ i \in 1 .. n
    BY <1>0, <1>2, <2>1
  <2>3. a[q] <= a[p]
    <3>1. p \in 2 .. n /\ p # c /\ p \div 2 # c
      BY <1>0, <1>4, <2>1
    <3> QED BY <1>1, <2>1, <3>1
  <2>4. CASE i = c
    BY <1>2, <2>1, <2>2, <2>3, <2>4
  <2>5. CASE i # c
    <3>1. i # p
      BY <1>0, <1>4, Parent
    <3>2. b[i] = a[i]
      BY <1>2, <2>2, <2>5, <3>1
    <3>3. a[p] <= a[i]
      BY <1>0, <1>1, <1>4, <2>5
    <3> QED BY <2>1, <2>2, <2>3, <3>2, <3>3
  <2> QED BY <2>4, <2>5
<1> QED BY <1>3, <1>4 DEF KeysLoose

\* A swap with the better child moves the place that is out of order down.
LEMMA KeysDown ==
  ASSUME NEW n \in Nat, NEW a \in [1 .. n -> Int], NEW b \in [1 .. n -> Int],
         NEW c \in 1 .. n, NEW m \in 2 .. n, m \div 2 = c,
         \A i \in 2 .. n : i \div 2 = c => a[m] <= a[i],
         KeysHeavy(a, n, c), a[m] < a[c], KeysSwapped(a, b, n, m, c)
  PROVE  KeysHeavy(b, n, m)
<1>0. c \in Nat /\ m \in Nat /\ m \in 1 .. n /\ c < m /\ c >= 1
  BY Parent
<1>1. /\ \A i \in 2 .. n : i \div 2 # c => a[i \div 2] <= a[i]
      /\ \A i \in 2 .. n : i \div 2 = c /\ c > 1 => a[c \div 2] <= a[i]
  BY DEF KeysHeavy
<1>2. b[m] = a[c] /\ b[c] = a[m] /\ \A j \in 1 .. n : j # m /\ j # c => b[j] = a[j]
  BY DEF KeysSwapped
<1>3. ASSUME NEW i \in 2 .. n, i \div 2 # m PROVE b[i \div 2] <= b[i]
  <2>1. PICK q \in Nat : q = i \div 2 /\ q >= 1 /\ q < i /\ q \in 1 .. n /\ i \in 1 .. n
    BY Parent
  <2>2. a[i] \in Int /\ a[q] \in Int /\ a[m] \in Int /\ a[c] \in Int
    BY <1>0, <2>1
  <2>3. CASE i = m
    BY <1>2, <2>1, <2>2, <2>3
  <2>4. CASE i = c
    <3>1. q # m /\ q # c /\ b[q] = a[q] /\ c > 1
      BY <1>0, <1>2, <2>1, <2>4
    <3>2. a[q] <= a[m]
      BY <1>0, <1>1, <2>1, <2>4, <3>1
    <3> QED BY <1>2, <2>1, <2>4, <3>1, <3>2
  <2>5. CASE i # m /\ i # c /\ q = c
    <3>1. b[i] = a[i] /\ a[m] <= a[i]
      BY <1>2, <2>1, <2>5
    <3> QED BY <1>2, <2>1, <2>5, <3>1
  <2>6. CASE i # m /\ i # c /\ q # c
    <3>1. b[i] = a[i] /\ b[q] = a[q] /\ a[q] <= a[i]
      BY <1>1, <1>2, <1>3, <2>1, <2>6
    <3> QED BY <2>1, <3>1
  <2> QED BY <2>3, <2>4, <2>5, <2>6
<1>4. ASSUME NEW i \in 2 .. n, i \div 2 = m, m > 1 PROVE b[m \div 2] <= b[i]
  <2>1. i # m /\ i # c /\ i \in 1 .. n
    BY <1>0, <1>4, Parent
  <2>2. b[i] = a[i] /\ a[m] <= a[i]
    BY <1>0, <1>1, <1>2, <1>4, <2>1
  <2> QED BY <1>2, <2>2
<1> QED BY <1>3, <1>4 DEF KeysHeavy

\* The keys of a heap, place by place.
KeysOf(h, k) == [i \in 1 .. Len(h.d) |-> k[h.d[i]]]

\* The order of a heap is that of its keys.
LEMMA OrderOfKeys ==
  ASSUME NEW h \in Heaps, NEW k \in [Entry -> Int], NEW c
  PROVE  /\ KeysOf(h, k) \in [1 .. Len(h.d) -> Int] /\ Len(h.d) \in Nat
         /\ Loose(h, c, k) <=> KeysLoose(KeysOf(h, k), Len(h.d), c)
         /\ Heavy(h, c, k) <=> KeysHeavy(KeysOf(h, k), Len(h.d), c)
         /\ Around(h, c, k) <=> \A i \in 2 .. Len(h.d) : i \div 2 = c /\ c > 1 =>
              KeysOf(h, k)[c \div 2] <= KeysOf(h, k)[i]
<1>1. Len(h.d) \in Nat /\ KeysOf(h, k) \in [1 .. Len(h.d) -> Int]
  BY ArrayAt, Keys DEF KeysOf
<1>2. ASSUME NEW i \in 2 .. Len(h.d)
      PROVE  /\ KeysOf(h, k)[i] = k[h.d[i]] /\ KeysOf(h, k)[i \div 2] = k[h.d[i \div 2]]
             /\ i \div 2 = c => KeysOf(h, k)[c] = k[h.d[c]]
             /\ i \div 2 = c /\ c > 1 => KeysOf(h, k)[c \div 2] = k[h.d[c \div 2]]
  <2>1. i \in 1 .. Len(h.d) /\ i \div 2 \in 1 .. Len(h.d)
    BY <1>1, Parent
  <2>2. i \div 2 = c /\ c > 1 => c \div 2 \in 1 .. Len(h.d)
    <3> SUFFICES ASSUME i \div 2 = c, c > 1 PROVE c \div 2 \in 1 .. Len(h.d)
      OBVIOUS
    <3>1. c \in Nat /\ c >= 2 /\ c <= Len(h.d)
      BY <1>1, <2>1
    <3> QED BY <1>1, <3>1, Parent
  <2> QED BY <2>1, <2>2 DEF KeysOf
<1>3. Around(h, c, k) <=> \A i \in 2 .. Len(h.d) : i \div 2 = c /\ c > 1 =>
        KeysOf(h, k)[c \div 2] <= KeysOf(h, k)[i]
  BY <1>2 DEF Around
<1>4. Loose(h, c, k) <=> KeysLoose(KeysOf(h, k), Len(h.d), c)
  BY <1>2, <1>3 DEF Loose, Edge, KeysLoose
<1>5. Heavy(h, c, k) <=> KeysHeavy(KeysOf(h, k), Len(h.d), c)
  BY <1>2, <1>3 DEF Heavy, Edge, KeysHeavy
<1> QED BY <1>1, <1>3, <1>4, <1>5

\* The keys of a heap after a swap.
LEMMA SwapKeys ==
  ASSUME NEW h \in Heaps, Indexed(h), NEW k \in [Entry -> Int],
         NEW x \in 1 .. Len(h.d), NEW y \in 1 .. Len(h.d), x # y
  PROVE  /\ KeysSwapped(KeysOf(h, k), KeysOf(swap_entries(h, x, y), k), Len(h.d), x, y)
         /\ Len(swap_entries(h, x, y).d) = Len(h.d) /\ swap_entries(h, x, y) \in Heaps
<1>1. PICK g : g = swap_entries(h, x, y)
  OBVIOUS
<1>2. /\ g \in Heaps /\ Len(g.d) = Len(h.d) /\ g.d[x] = h.d[y] /\ g.d[y] = h.d[x]
      /\ \A j \in 1 .. Len(h.d) : j # x /\ j # y => g.d[j] = h.d[j]
  BY <1>1, SwapAt DEF Moved
<1>3. KeysSwapped(KeysOf(h, k), KeysOf(g, k), Len(h.d), x, y)
  BY <1>2 DEF KeysSwapped, KeysOf
<1> QED BY <1>1, <1>2, <1>3

\* The states of swap_up, and of swap_down, on the heap h.
UpStates(h, k) ==
  {t \in [h : Heaps, c : Nat] :
     Moved(h, t.h) /\ Indexed(t.h) /\ t.c \in 1 .. Len(h.d) /\ Loose(t.h, t.c, k)}
DownStates(h, k) ==
  {t \in [h : Heaps, c : Nat] :
     Moved(h, t.h) /\ Indexed(t.h) /\ t.c >= 1 /\ Heavy(t.h, t.c, k)}

\* A round of swap_up.
LEMMA UpKeeps ==
  ASSUME NEW h \in Heaps, NEW k \in [Entry -> Int], NEW t \in UpStates(h, k)
  PROVE  t.c \in Nat /\ UpRound(t, k) \in UpStates(h, k) /\ (~UpOver(t, k) => UpRound(t, k).c < t.c)
<1>1. CASE UpOver(t, k)
  BY <1>1 DEF UpRound, UpStates
<1>2. CASE ~UpOver(t, k)
  <2>1. PICK f \in Heaps, c \in Nat : f = t.h /\ c = t.c
    BY DEF UpStates
  <2>2. /\ Moved(h, f) /\ Indexed(f) /\ c \in 1 .. Len(h.d) /\ Loose(f, c, k)
        /\ Len(f.d) = Len(h.d) /\ Len(f.d) \in Nat
    BY <2>1, ArrayAt DEF UpStates, Moved
  <2>3. c \in 2 .. Len(f.d) /\ ~(k[f.d[c \div 2]] <= k[f.d[c]])
    BY <1>2, <2>1, <2>2 DEF UpOver, Cmp
  <2>4. PICK p \in Nat : p = c \div 2 /\ p \in 1 .. Len(f.d) /\ p < c
    BY <2>2, <2>3, Parent
  <2>5. PICK g : g = swap_entries(f, p, c)
    OBVIOUS
  <2>6. UpRound(t, k) = [h |-> g, c |-> p]
    BY <1>2, <2>1, <2>4, <2>5 DEF UpRound
  <2>7. Moved(f, g) /\ Indexed(g) /\ g \in Heaps /\ Len(g.d) = Len(f.d)
    BY <2>2, <2>3, <2>4, <2>5, SwapAt DEF Moved
  <2>8. Loose(g, p, k)
    <3>1. PICK a : a = KeysOf(f, k)
      OBVIOUS
    <3>2. PICK b : b = KeysOf(g, k)
      OBVIOUS
    <3>3. a \in [1 .. Len(f.d) -> Int] /\ b \in [1 .. Len(f.d) -> Int] /\ KeysLoose(a, Len(f.d), c)
      BY <2>2, <2>7, <3>1, <3>2, OrderOfKeys
    <3>4. KeysSwapped(a, b, Len(f.d), p, c)
      BY <2>2, <2>3, <2>4, <2>5, <3>1, <3>2, SwapKeys
    <3>5. a[c] < a[p]
      <4>1. c \in 1 .. Len(f.d)
        BY <2>2, <2>3
      <4>2. a[c] = k[f.d[c]] /\ a[p] = k[f.d[p]] /\ a[c] \in Int /\ a[p] \in Int
        BY <2>4, <3>1, <3>3, <4>1 DEF KeysOf
      <4> QED BY <2>3, <2>4, <4>2
    <3>6. KeysLoose(b, Len(f.d), p)
      <4>1. PICK n \in Nat : n = Len(f.d)
        BY <2>2
      <4>2. /\ a \in [1 .. n -> Int] /\ b \in [1 .. n -> Int] /\ c \in 2 .. n /\ p = c \div 2
            /\ KeysLoose(a, n, c) /\ a[c] < a[p] /\ KeysSwapped(a, b, n, p, c)
        BY <2>3, <2>4, <3>3, <3>4, <3>5, <4>1
      <4>3. KeysLoose(b, n, p)
        BY <2>1, <2>4, <4>1, <4>2, KeysUp
      <4> QED BY <4>1, <4>3
    <3> QED BY <2>7, <3>2, <3>6, OrderOfKeys
  <2>9. Moved(h, g)
    BY <2>2, <2>7, MovedTwice
  <2>10. p \in 1 .. Len(h.d)
    BY <2>2, <2>4
  <2> QED BY <2>1, <2>4, <2>6, <2>7, <2>8, <2>9, <2>10 DEF UpStates
<1> QED BY <1>1, <1>2

\* The child that swap_down looks at is the better one.
LEMMA ChildBest ==
  ASSUME NEW f \in Heaps, NEW k \in [Entry -> Int], NEW c \in Nat, c >= 1, c <= Len(f.d) \div 2
  PROVE  /\ Child(f, c, k) \in 2 .. Len(f.d) /\ Child(f, c, k) \div 2 = c /\ Child(f, c, k) > c
         /\ \A i \in 2 .. Len(f.d) : i \div 2 = c => k[f.d[Child(f, c, k)]] <= k[f.d[i]]
<1>1. PICK n \in Nat : n = Len(f.d)
  BY ArrayAt
<1>2. 2 * c \in 2 .. n /\ (2 * c) \div 2 = c /\ 2 * c > c /\ (2 * c + 1) \div 2 = c /\ 2 * c + 1 > c
  <2>1. c <= n \div 2
    BY <1>1
  <2> QED BY <2>1, Inner
<1>3. \A i \in 2 .. n : i \div 2 = c => i = 2 * c \/ i = 2 * c + 1
  BY <1>1, Parent
<1>4. \A i \in 1 .. n : k[f.d[i]] \in Int
  BY <1>1, Keys
<1>5. PICK a \in Int : a = k[f.d[2 * c]]
  BY <1>1, <1>2, <1>4
<1>6. CASE 2 * c + 1 > n
  <2>1. Child(f, c, k) = 2 * c
    BY <1>1, <1>6 DEF Child
  <2>2. \A i \in 2 .. n : i \div 2 = c => i = 2 * c
    BY <1>1, <1>3, <1>6
  <2>3. k[f.d[2 * c]] <= k[f.d[2 * c]]
    BY <1>5
  <2> QED BY <1>1, <1>2, <2>1, <2>2, <2>3
<1>7. CASE ~(2 * c + 1 > n)
  <2>1. 2 * c + 1 \in 2 .. n /\ 2 * c + 1 \in 1 .. n
    BY <1>1, <1>7
  <2>2. PICK b \in Int : b = k[f.d[2 * c + 1]]
    BY <1>4, <2>1
  <2>3. CASE a <= b
    <3>1. Child(f, c, k) = 2 * c
      BY <1>1, <1>5, <2>2, <2>3 DEF Child, Cmp
    <3>2. k[f.d[2 * c]] <= k[f.d[2 * c]] /\ k[f.d[2 * c]] <= k[f.d[2 * c + 1]]
      BY <1>5, <2>2, <2>3
    <3> QED BY <1>1, <1>2, <1>3, <3>1, <3>2
  <2>4. CASE ~(a <= b)
    <3>1. Child(f, c, k) = 2 * c + 1
      BY <1>1, <1>5, <1>7, <2>2, <2>4 DEF Child, Cmp
    <3>2. b <= a /\ b <= b
      BY <2>4
    <3> QED BY <1>1, <1>2, <1>3, <1>5, <2>1, <2>2, <3>1, <3>2
  <2> QED BY <2>3, <2>4
<1> QED BY <1>6, <1>7

\* A round of swap_down.
LEMMA DownKeeps ==
  ASSUME NEW h \in Heaps, NEW k \in [Entry -> Int], NEW t \in DownStates(h, k)
  PROVE  /\ t.c \in Nat /\ DownRound(t, k) \in DownStates(h, k)
         /\ ~DownOver(t, k) => DownRound(t, k).c > t.c /\ DownRound(t, k).c <= Len(h.d)
<1>1. CASE DownOver(t, k)
  BY <1>1 DEF DownRound, DownStates
<1>2. CASE ~DownOver(t, k)
  <2>1. PICK f \in Heaps, c \in Nat : f = t.h /\ c = t.c
    BY DEF DownStates
  <2>2. /\ Moved(h, f) /\ Indexed(f) /\ c >= 1 /\ Heavy(f, c, k)
        /\ Len(f.d) = Len(h.d) /\ Len(f.d) \in Nat
    BY <2>1, ArrayAt DEF DownStates, Moved
  <2>3. c <= Len(f.d) \div 2 /\ ~(k[f.d[c]] <= k[f.d[Child(f, c, k)]])
    <3>1. ~(c > Len(f.d) \div 2) /\ ~(k[f.d[c]] <= k[f.d[Child(f, c, k)]])
      BY <1>2, <2>1 DEF DownOver, Cmp
    <3>2. PICK e \in Nat : e = Len(f.d) \div 2
      BY <2>2, Inner
    <3>3. ~(c > e)
      BY <3>1, <3>2
    <3>4. c <= e
      BY <3>3
    <3> QED BY <3>1, <3>2, <3>4
  <2>4. PICK m : m = Child(f, c, k)
    OBVIOUS
  <2>5. /\ m \in 2 .. Len(f.d) /\ m \div 2 = c /\ m > c
        /\ \A i \in 2 .. Len(f.d) : i \div 2 = c => k[f.d[m]] <= k[f.d[i]]
    BY <2>2, <2>3, <2>4, ChildBest
  <2>a. m \in Nat /\ m \in 1 .. Len(f.d) /\ c \in 1 .. Len(f.d) /\ m # c
    BY <2>2, <2>5
  <2>b. PICK g : g = swap_entries(f, m, c)
    OBVIOUS
  <2>6. DownRound(t, k) = [h |-> g, c |-> m]
    BY <1>2, <2>1, <2>4, <2>b DEF DownRound
  <2>7. Moved(f, g) /\ Indexed(g) /\ g \in Heaps /\ Len(g.d) = Len(f.d)
    BY <2>2, <2>a, <2>b, SwapAt DEF Moved
  <2>8. Heavy(g, m, k)
    <3>1. PICK a : a = KeysOf(f, k)
      OBVIOUS
    <3>2. PICK b : b = KeysOf(g, k)
      OBVIOUS
    <3>3. a \in [1 .. Len(f.d) -> Int] /\ b \in [1 .. Len(f.d) -> Int] /\ KeysHeavy(a, Len(f.d), c)
      BY <2>2, <2>7, <3>1, <3>2, OrderOfKeys
    <3>4. KeysSwapped(a, b, Len(f.d), m, c)
      BY <2>2, <2>a, <2>b, <3>1, <3>2, SwapKeys
    <3>5. \A i \in 1 .. Len(f.d) : a[i] = k[f.d[i]] /\ a[i] \in Int
      BY <3>1, <3>3 DEF KeysOf
    <3>6. a[m] < a[c]
      BY <2>3, <2>4, <2>a, <3>5
    <3>7. \A i \in 2 .. Len(f.d) : i \div 2 = c => a[m] <= a[i]
      <4>1. 2 .. Len(f.d) \subseteq 1 .. Len(f.d)
        BY <2>2
      <4> QED BY <2>5, <2>a, <3>5, <4>1
    <3>8. KeysHeavy(b, Len(f.d), m)
      BY <2>2, <2>5, <2>a, <3>3, <3>4, <3>6, <3>7, KeysDown
    <3> QED BY <2>7, <3>2, <3>8, OrderOfKeys
  <2>9. Moved(h, g)
    BY <2>2, <2>7, MovedTwice
  <2>10. m >= 1 /\ m <= Len(h.d)
    BY <2>2, <2>a
  <2> QED BY <2>1, <2>5, <2>6, <2>7, <2>8, <2>9, <2>10, <2>a DEF DownStates
<1> QED BY <1>1, <1>2

\* swap_down puts an entry that is too heavy for its place where it belongs.
LEMMA SwapDown ==
  ASSUME NEW h \in Heaps, Indexed(h), NEW k \in [Entry -> Int], NEW c \in Nat, c >= 1, Heavy(h, c, k)
  PROVE  /\ Moved(h, swap_down(h, c, k).h) /\ Indexed(swap_down(h, c, k).h)
         /\ Ordered(swap_down(h, c, k).h, k)
<1>1. PICK S : S = DownStates(h, k)
  OBVIOUS
<1>2. [h |-> h, c |-> c] \in S
  BY <1>1, MovedNot DEF DownStates
<1>3. PICK s : s = swap_down(h, c, k)
  OBVIOUS
<1>4. s \in S /\ DownOver(s, k)
  <2>1. \A t \in S : /\ t.c \in Nat /\ DownRound(t, k) \in S
                     /\ ~DownOver(t, k) => DownRound(t, k).c > t.c /\ DownRound(t, k).c <= Len(h.d)
    BY <1>1, DownKeeps
  <2>2. Len(h.d) \in Nat
    BY ArrayAt
  <2> QED BY <1>2, <1>3, <2>1, <2>2, DownEnds
<1>5. PICK f \in Heaps, e \in Nat : f = s.h /\ e = s.c
  BY <1>1, <1>4 DEF DownStates
<1>6. Moved(h, f) /\ Indexed(f) /\ e >= 1 /\ Heavy(f, e, k) /\ Len(f.d) \in Nat
  BY <1>1, <1>4, <1>5, ArrayAt DEF DownStates
<1>7. ASSUME NEW i \in 2 .. Len(f.d) PROVE Edge(f, i, k)
  <2>1. CASE i \div 2 # e
    BY <1>6, <2>1 DEF Heavy
  <2>2. CASE i \div 2 = e
    <3>1. e <= Len(f.d) \div 2 /\ Len(f.d) \div 2 \in Nat /\ e \in 1 .. Len(f.d)
      BY <1>6, <2>2, Inner
    <3>2. PICK m : m = Child(f, e, k)
      OBVIOUS
    <3>3. m \in 2 .. Len(f.d) /\ k[f.d[m]] <= k[f.d[i]]
      BY <1>6, <2>2, <3>1, <3>2, ChildBest
    <3>4. k[f.d[e]] <= k[f.d[m]]
      <4>1. e > Len(f.d) \div 2 \/ k[f.d[e]] <= k[f.d[m]]
        BY <1>4, <1>5, <3>2 DEF DownOver, Cmp
      <4>2. PICK q \in Nat : q = Len(f.d) \div 2 /\ e <= q
        BY <3>1
      <4>3. e <= q
        BY <4>2
      <4>4. ~(e > q)
        BY <4>3
      <4> QED BY <4>1, <4>2, <4>4
    <3>5. e \in 1 .. Len(f.d) /\ m \in 1 .. Len(f.d) /\ i \in 1 .. Len(f.d)
      BY <1>6, <3>1, <3>3
    <3>6. k[f.d[e]] \in Int /\ k[f.d[m]] \in Int /\ k[f.d[i]] \in Int
      BY <3>5, Keys
    <3> QED BY <2>2, <3>3, <3>4, <3>6, SMTT(30) DEF Edge
  <2> QED BY <2>1, <2>2
<1> QED BY <1>3, <1>5, <1>6, <1>7 DEF Ordered

\* heapify puts an entry that is out of place where it belongs.
LEMMA Heapify ==
  ASSUME NEW h \in Heaps, Indexed(h), NEW k \in [Entry -> Int], NEW c \in 1 .. Len(h.d), Loose(h, c, k)
  PROVE  /\ Moved(h, heapify(h, c, k)) /\ Indexed(heapify(h, c, k)) /\ Ordered(heapify(h, c, k), k)
<1>1. PICK S : S = UpStates(h, k)
  OBVIOUS
<1>0. c \in Nat
  BY ArrayAt
<1>2. [h |-> h, c |-> c] \in S
  BY <1>0, <1>1, MovedNot DEF UpStates
<1>3. PICK s : s = swap_up(h, c, k)
  OBVIOUS
<1>4. s \in S /\ UpOver(s, k)
  <2>1. \A t \in S : /\ t.c \in Nat /\ UpRound(t, k) \in S
                     /\ ~UpOver(t, k) => UpRound(t, k).c < t.c
    BY <1>1, UpKeeps
  <2> QED BY <1>0, <1>2, <1>3, <2>1, UpEnds
<1>5. PICK f \in Heaps, e \in Nat : f = s.h /\ e = s.c
  BY <1>1, <1>4 DEF UpStates
<1>6. Moved(h, f) /\ Indexed(f) /\ e \in 1 .. Len(h.d) /\ Loose(f, e, k) /\ Len(f.d) = Len(h.d) /\ Len(h.d) \in Nat
  BY <1>1, <1>4, <1>5, ArrayAt DEF UpStates, Moved
<1>7. Heavy(f, e, k)
  <2>1. ASSUME NEW i \in 2 .. Len(f.d), i \div 2 # e PROVE Edge(f, i, k)
    <3>1. CASE i # e
      BY <1>6, <2>1, <3>1 DEF Loose
    <3>2. CASE i = e
      BY <1>4, <1>5, <1>6, <3>2 DEF UpOver, Cmp, Edge
    <3> QED BY <3>1, <3>2
  <2> QED BY <1>6, <2>1 DEF Heavy, Loose
<1>8. PICK g : g = swap_down(f, e, k).h
  OBVIOUS
<1>9. Moved(f, g) /\ Indexed(g) /\ Ordered(g, k)
  BY <1>6, <1>7, <1>8, SwapDown
<1>10. heapify(h, c, k) = g
  BY <1>3, <1>5, <1>8 DEF heapify
<1> QED BY <1>6, <1>9, <1>10, MovedTwice

-----------------------------------------------------------------------------
(* The operations.                                                          *)

\* The entries that are in the heap.
Members == {y \in Entry : pos[y] > 0}

\* A heap that is in order and holds the entries M.
Good(g, k, M) ==
  /\ g \in Heaps /\ Indexed(g) /\ Ordered(g, k) /\ Elems(g) = M /\ Len(g.d) <= MaxSz
  /\ \A y \in Entry : y \notin M => g.p[y] = -1

\* What HeapSound says, of the heap as one value.
LEMMA NowGood ==
  ASSUME Params, HeapSound
  PROVE  /\ Good(Now, key, Members) /\ Now.d = data /\ Now.p = pos /\ Len(data) = Size
         /\ key \in [Entry -> Key] /\ key \in [Entry -> Int] /\ Size \in Nat /\ Size <= MaxSz
         /\ MaxSz \in Nat /\ Members \subseteq Entry
         /\ \A x \in Entry : pos[x] \in Int
         /\ \A x \in Members : pos[x] \in 1 .. Size /\ data[pos[x]] = x
<1>1. /\ data \in Seq(Entry) /\ Len(data) <= MaxSz /\ key \in [Entry -> Key]
      /\ pos \in [Entry -> {-1} \cup 1 .. MaxSz] /\ MaxSz \in Nat
  BY DEF HeapSound, HeapTypes, Size, Params
<1>2. /\ \A x \in Entry : pos[x] > 0 => pos[x] <= Len(data) /\ data[pos[x]] = x
      /\ \A i \in 1 .. Len(data) : pos[data[i]] = i
      /\ \A i \in 2 .. Len(data) : key[data[i \div 2]] <= key[data[i]]
  BY DEF HeapSound, Positions, HeapOrder, Size, Cmp
<1>3. Now.d = data /\ Now.p = pos /\ Now = [d |-> data, p |-> pos]
  BY DEF Now
<1>4. pos \in [Entry -> Int] /\ key \in [Entry -> Int] /\ Now \in Heaps
  <2>1. pos \in [Entry -> Int]
    BY <1>1
  <2>2. key \in [Entry -> Int]
    BY <1>1 DEF Key, Params
  <2> QED BY <1>1, <1>3, <2>1, <2>2 DEF Heaps
<1>5. Indexed(Now) /\ Ordered(Now, key)
  BY <1>2, <1>3 DEF Indexed, Ordered, Edge
<1>6. \A x \in Members : pos[x] \in 1 .. Len(data) /\ data[pos[x]] = x
  BY <1>1, <1>2, <1>4 DEF Members
<1>7. Elems(Now) = Members
  <2>1. ASSUME NEW z \in Members PROVE z \in Elems(Now)
    BY <1>3, <1>6 DEF Elems
  <2>2. ASSUME NEW z \in Elems(Now) PROVE z \in Members
    <3>1. PICK i \in 1 .. Len(data) : z = data[i]
      BY <1>3 DEF Elems
    <3>2. data[i] \in Entry /\ pos[data[i]] = i /\ i > 0
      BY <1>1, <1>2
    <3> QED BY <3>1, <3>2 DEF Members
  <2> QED BY <2>1, <2>2
<1>8. \A y \in Entry : y \notin Members => pos[y] = -1
  BY <1>1 DEF Members
<1> QED BY <1>1, <1>3, <1>4, <1>5, <1>6, <1>7, <1>8 DEF Good, Size, Members

\* An operation that leaves a heap in order leaves the state sound.
LEMMA Install ==
  ASSUME Params, NEW g, NEW k \in [Entry -> Key], NEW M, Good(g, k, M), key' = k,
         data' = g.d, pos' = g.p, ret' \in Entry \cup {Null, -1}
  PROVE  HeapSound' /\ Members' = M
<1>1. /\ g.d \in Seq(Entry) /\ g.p \in [Entry -> Int] /\ Len(g.d) \in Nat /\ Len(g.d) <= MaxSz
      /\ \A i \in 1 .. Len(g.d) : g.d[i] \in Entry /\ g.p[g.d[i]] = i
      /\ MaxSz \in Nat
  BY ArrayAt DEF Good, Indexed, Params
<1>2. \A y \in Entry : y \notin M => g.p[y] = -1
  BY DEF Good
<1>3. ASSUME NEW y \in M PROVE y \in Entry /\ g.p[y] \in 1 .. Len(g.d) /\ g.d[g.p[y]] = y
  <2>1. PICK i \in 1 .. Len(g.d) : y = g.d[i]
    BY DEF Good, Elems
  <2> QED BY <1>1, <2>1
<1>4. \A y \in Entry : g.p[y] \in {-1} \cup 1 .. MaxSz
  <2> SUFFICES ASSUME NEW y \in Entry PROVE g.p[y] \in {-1} \cup 1 .. MaxSz
    OBVIOUS
  <2>1. CASE y \in M
    BY <1>1, <1>3, <2>1
  <2>2. CASE y \notin M
    BY <1>2, <2>2
  <2> QED BY <2>1, <2>2
<1>5. HeapTypes'
  <2>1. g.p \in [Entry -> {-1} \cup 1 .. MaxSz]
    BY <1>1, <1>4
  <2> QED BY <1>1, <2>1 DEF HeapTypes, Size
<1>6. Members' = M
  <2>1. ASSUME NEW y \in Entry PROVE g.p[y] > 0 <=> y \in M
    BY <1>1, <1>2, <1>3
  <2>2. M \subseteq Entry
    BY <1>3
  <2> QED BY <2>1, <2>2 DEF Members
<1>7. Positions'
  <2>1. ASSUME NEW y \in Entry, g.p[y] > 0 PROVE g.p[y] <= Len(g.d) /\ g.d[g.p[y]] = y
    <3>1. y \in M
      BY <1>2, <2>1
    <3> QED BY <1>1, <1>3, <3>1
  <2> QED BY <1>1, <2>1 DEF Positions, Size
<1>8. HeapOrder'
  BY DEF HeapOrder, Size, Good, Ordered, Edge, Cmp
<1> QED BY <1>5, <1>6, <1>7, <1>8 DEF HeapSound

\* Moving the entries about keeps what is in the heap.
LEMMA MovedGood ==
  ASSUME NEW h \in Heaps, NEW g, NEW k, Moved(h, g), Indexed(g), Ordered(g, k), Len(h.d) <= MaxSz,
         \A y \in Entry : y \notin Elems(h) => h.p[y] = -1
  PROVE  Good(g, k, Elems(h))
  BY DEF Moved, Good

\* The array with one entry more at its end.
LEMMA AppendAt ==
  ASSUME NEW h \in Heaps, NEW x \in Entry
  PROVE  /\ Put(h, Len(h.d) + 1, x) \in Heaps /\ Len(Put(h, Len(h.d) + 1, x).d) = Len(h.d) + 1
         /\ Put(h, Len(h.d) + 1, x).d[Len(h.d) + 1] = x
         /\ \A j \in 1 .. Len(h.d) : Put(h, Len(h.d) + 1, x).d[j] = h.d[j]
         /\ Put(h, Len(h.d) + 1, x).p[x] = Len(h.d) + 1
         /\ \A y \in Entry : y # x => Put(h, Len(h.d) + 1, x).p[y] = h.p[y]
<1>1. h.d \in Seq(Entry) /\ h.p \in [Entry -> Int] /\ Len(h.d) \in Nat
  BY ArrayAt
<1>2. PICK q \in Seq(Entry), n \in Nat : q = h.d /\ n = Len(q)
  BY <1>1
<1>3. PICK r : r = Append(q, x)
  OBVIOUS
<1>4. /\ r \in Seq(Entry) /\ Len(r) = n + 1 /\ r[n + 1] = x
      /\ \A j \in 1 .. n : r[j] = q[j]
  BY <1>2, <1>3
<1>5. PICK p \in [Entry -> Int] : p = h.p
  BY <1>1
<1>6. PICK t : t = [p EXCEPT ![x] = n + 1]
  OBVIOUS
<1>7. t \in [Entry -> Int] /\ t[x] = n + 1 /\ \A y \in Entry : y # x => t[y] = p[y]
  BY <1>6
<1>8. Put(h, n + 1, x) = [d |-> r, p |-> t]
  <2>1. n + 1 > Len(h.d)
    BY <1>2
  <2>2. r = Append(h.d, x) /\ t = [h.p EXCEPT ![x] = n + 1]
    BY <1>2, <1>3, <1>5, <1>6
  <2> QED BY <2>1, <2>2 DEF Put
<1> QED BY <1>2, <1>4, <1>5, <1>7, <1>8 DEF Heaps

\* The array without its last entry.
LEMMA ShorterAt ==
  ASSUME NEW h \in Heaps, Len(h.d) >= 1
  PROVE  /\ Shorter(h) \in Heaps /\ Len(Shorter(h).d) = Len(h.d) - 1 /\ Shorter(h).p = h.p
         /\ \A j \in 1 .. (Len(h.d) - 1) : Shorter(h).d[j] = h.d[j]
<1>1. h.d \in Seq(Entry) /\ h.p \in [Entry -> Int] /\ Len(h.d) \in Nat
  BY ArrayAt
<1>2. PICK q \in Seq(Entry), n \in Nat : q = h.d /\ n = Len(q) /\ n >= 1
  BY <1>1
<1>3. PICK r : r = SubSeq(q, 1, n - 1)
  OBVIOUS
<1>4. /\ r \in Seq(Entry) /\ Len(r) = n - 1 /\ \A j \in 1 .. n - 1 : r[j] = q[j]
  BY <1>2, <1>3
<1>5. Shorter(h) = [d |-> r, p |-> h.p]
  <2>1. Front(h.d) = r
    BY <1>2, <1>3 DEF Front
  <2>2. h = [d |-> h.d, p |-> h.p]
    BY DEF Heaps
  <2> QED BY <2>1, <2>2 DEF Shorter
<1> QED BY <1>1, <1>2, <1>4, <1>5 DEF Heaps

\* An entry that left.
LEMMA GoneAt ==
  ASSUME NEW h \in Heaps, NEW x \in Entry
  PROVE  /\ Gone(h, x) \in Heaps /\ Gone(h, x).d = h.d /\ Gone(h, x).p[x] = -1
         /\ \A y \in Entry : y # x => Gone(h, x).p[y] = h.p[y]
<1>1. h.d \in Seq(Entry) /\ h.p \in [Entry -> Int]
  BY ArrayAt
<1>2. PICK p \in [Entry -> Int] : p = h.p
  BY <1>1
<1>3. PICK t : t = [p EXCEPT ![x] = -1]
  OBVIOUS
<1>4. t \in [Entry -> Int] /\ t[x] = -1 /\ \A y \in Entry : y # x => t[y] = p[y]
  BY <1>3
<1>5. Gone(h, x) = [d |-> h.d, p |-> t]
  <2>1. h = [d |-> h.d, p |-> h.p]
    BY DEF Heaps
  <2> QED BY <1>2, <1>3, <2>1 DEF Gone
<1> QED BY <1>1, <1>2, <1>4, <1>5 DEF Heaps

\* heap_add of an entry that fits.
LEMMA StepAdd ==
  ASSUME Params, HeapSound, NEW x \in Entry, heap_add(x), Size # MaxSz
  PROVE  HeapSound' /\ Members' = Members \cup {x} /\ x \notin Members
<1>1. /\ Good(Now, key, Members) /\ Now.d = data /\ Now.p = pos /\ Len(data) = Size
      /\ key \in [Entry -> Key] /\ Size \in Nat /\ Size <= MaxSz /\ MaxSz \in Nat /\ Members \subseteq Entry
  BY NowGood
<1>2. PICK z \in Key : key' = [key EXCEPT ![x] = z]
  BY DEF heap_add
<1>3. PICK k : k = key'
  OBVIOUS
<1>4. k \in [Entry -> Key] /\ k \in [Entry -> Int] /\ \A y \in Entry : y # x => k[y] = key[y]
  <2>1. k \in [Entry -> Key] /\ \A y \in Entry : y # x => k[y] = key[y]
    BY <1>1, <1>2, <1>3
  <2> QED BY <2>1 DEF Key, Params
<1>a. PICK f : f = Now
  OBVIOUS
<1>b. PICK n \in Nat : n = Size
  BY <1>1
<1>5. f = Now /\ n = Size
  BY <1>a, <1>b
<1>6. PICK h : h = Put(f, n + 1, x)
  OBVIOUS
<1>7. /\ f \in Heaps /\ Len(f.d) = n /\ Indexed(f) /\ Ordered(f, key) /\ Elems(f) = Members
      /\ n < MaxSz /\ f.p = pos /\ \A y \in Entry : y \notin Members => f.p[y] = -1
  BY <1>1, <1>5 DEF Good
<1>8. /\ h \in Heaps /\ Len(h.d) = n + 1 /\ h.d[n + 1] = x /\ h.p[x] = n + 1
      /\ \A j \in 1 .. n : h.d[j] = f.d[j]
      /\ \A y \in Entry : y # x => h.p[y] = f.p[y]
  <2>1. f \in Heaps /\ n = Len(f.d) /\ h = Put(f, Len(f.d) + 1, x)
    BY <1>6, <1>7
  <2>2. /\ h \in Heaps /\ Len(h.d) = Len(f.d) + 1 /\ h.d[Len(f.d) + 1] = x /\ h.p[x] = Len(f.d) + 1
        /\ \A j \in 1 .. Len(f.d) : h.d[j] = f.d[j]
        /\ \A y \in Entry : y # x => h.p[y] = f.p[y]
    BY <2>1, AppendAt
  <2> QED BY <2>1, <2>2
<1>9. x \notin Members
  BY DEF heap_add, Members
<1>10. \A j \in 1 .. n : f.d[j] \in Entry /\ f.d[j] # x /\ f.p[f.d[j]] = j /\ k[f.d[j]] = key[f.d[j]]
  <2>1. \A j \in 1 .. n : f.d[j] \in Entry /\ f.p[f.d[j]] = j /\ f.d[j] \in Elems(f)
    BY <1>7, ArrayAt DEF Indexed, Elems
  <2> QED BY <1>4, <1>7, <1>9, <2>1
<1>11. Indexed(h)
  <2> SUFFICES ASSUME NEW j \in 1 .. (n + 1) PROVE h.p[h.d[j]] = j
    BY <1>8 DEF Indexed
  <2>1. CASE j = n + 1
    BY <1>8, <2>1
  <2>2. CASE j \in 1 .. n
    BY <1>8, <1>10, <2>2
  <2> QED BY <2>1, <2>2
<1>12. Loose(h, n + 1, k)
  <2>1. ASSUME NEW i \in 2 .. (n + 1), i # n + 1 PROVE Edge(h, i, k)
    <3>1. PICK q \in Nat : q = i \div 2 /\ q \in 1 .. n /\ i \in 1 .. n /\ i \in 2 .. n
      BY <2>1, Parent
    <3>2. key[f.d[q]] <= key[f.d[i]]
      BY <1>7, <3>1 DEF Ordered, Edge
    <3>3. k[h.d[q]] <= k[h.d[i]]
      BY <1>8, <1>10, <3>1, <3>2
    <3> QED BY <3>1, <3>3 DEF Edge
  <2>2. ASSUME NEW i \in 2 .. (n + 1) PROVE i \div 2 # n + 1
    BY Parent
  <2> QED BY <1>8, <2>1, <2>2 DEF Loose, Around
<1>13. Elems(h) = Members \cup {x}
  <2>1. ASSUME NEW y \in Elems(h) PROVE y \in Members \cup {x}
    <3>1. PICK j \in 1 .. (n + 1) : y = h.d[j]
      BY <1>8 DEF Elems
    <3>2. CASE j = n + 1
      BY <1>8, <3>1, <3>2
    <3>3. CASE j \in 1 .. n
      BY <1>7, <1>8, <3>1, <3>3 DEF Elems
    <3> QED BY <3>2, <3>3
  <2>2. ASSUME NEW y \in Members PROVE y \in Elems(h)
    <3>1. PICK j \in 1 .. n : y = f.d[j]
      BY <1>7 DEF Elems
    <3>2. j \in 1 .. (n + 1) /\ y = h.d[j]
      BY <1>8, <3>1
    <3> QED BY <1>8, <3>2 DEF Elems
  <2>3. x \in Elems(h)
    <3>1. n + 1 \in 1 .. (n + 1)
      OBVIOUS
    <3> QED BY <1>8, <3>1 DEF Elems
  <2> QED BY <2>1, <2>2, <2>3
<1>14. PICK g : g = heapify(h, n + 1, k)
  OBVIOUS
<1>15. Moved(h, g) /\ Indexed(g) /\ Ordered(g, k)
  <2>1. n + 1 \in 1 .. Len(h.d)
    BY <1>8
  <2> QED BY <1>4, <1>8, <1>11, <1>12, <1>14, <2>1, Heapify
<1>16. Good(g, k, Members \cup {x})
  <2>1. \A y \in Entry : y \notin Elems(h) => h.p[y] = -1
    BY <1>7, <1>8, <1>13
  <2>2. Len(h.d) <= MaxSz
    BY <1>1, <1>7, <1>8
  <2> QED BY <1>8, <1>13, <1>15, <2>1, <2>2, MovedGood, ZenonT(60)
<1>17. data' = g.d /\ pos' = g.p /\ ret' = Null
  BY <1>3, <1>5, <1>6, <1>14 DEF heap_add, Becomes
<1>18. HeapSound' /\ Members' = Members \cup {x}
  <2>1. PICK M : M = Members \cup {x}
    OBVIOUS
  <2>2. HeapSound' /\ Members' = M
    BY <1>3, <1>4, <1>16, <1>17, <2>1, Install
  <2> QED BY <2>1, <2>2
<1> QED BY <1>9, <1>18

\* heap_adjust.
LEMMA StepAdjust ==
  ASSUME Params, HeapSound, NEW x \in Entry, heap_adjust(x)
  PROVE  HeapSound' /\ Members' = Members /\ x \in Members
<1>1. /\ Good(Now, key, Members) /\ Now.d = data /\ Now.p = pos /\ Len(data) = Size
      /\ key \in [Entry -> Key] /\ key \in [Entry -> Int] /\ Size \in Nat /\ Size <= MaxSz
      /\ \A y \in Members : pos[y] \in 1 .. Size /\ data[pos[y]] = y
  BY NowGood
<1>2. PICK z \in Key : key' = [key EXCEPT ![x] = z]
  BY DEF heap_adjust
<1>3. PICK k : k = key'
  OBVIOUS
<1>4. k \in [Entry -> Key] /\ k \in [Entry -> Int] /\ \A y \in Entry : y # x => k[y] = key[y]
  <2>1. k \in [Entry -> Key] /\ \A y \in Entry : y # x => k[y] = key[y]
    BY <1>1, <1>2, <1>3
  <2> QED BY <2>1 DEF Key, Params
<1>5. x \in Members
  BY DEF heap_adjust, Members
<1>a. PICK f : f = Now
  OBVIOUS
<1>b. PICK n \in Nat : n = Size
  BY <1>1
<1>c. PICK c : c = pos[x]
  OBVIOUS
<1>6. f = Now /\ n = Size /\ c = pos[x]
  BY <1>a, <1>b, <1>c
<1>7. /\ f \in Heaps /\ Len(f.d) = n /\ Indexed(f) /\ Ordered(f, key) /\ Elems(f) = Members
      /\ n <= MaxSz /\ \A y \in Entry : y \notin Members => f.p[y] = -1
      /\ c \in 1 .. n /\ f.d[c] = x
  BY <1>1, <1>5, <1>6 DEF Good
<1>8. \A j \in 1 .. n : j # c => k[f.d[j]] = key[f.d[j]]
  <2>1. \A j \in 1 .. n : f.d[j] \in Entry /\ f.p[f.d[j]] = j
    BY <1>7, ArrayAt DEF Indexed
  <2> QED BY <1>4, <1>7, <2>1
<1>9. \A j \in 1 .. n : key[f.d[j]] \in Int
  BY <1>1, <1>7, Keys
<1>10. Loose(f, c, k)
  <2>1. ASSUME NEW i \in 2 .. n, i # c, i \div 2 # c PROVE Edge(f, i, k)
    <3>1. i \div 2 \in 1 .. n /\ i \in 1 .. n
      BY Parent
    <3> QED BY <1>7, <1>8, <2>1, <3>1 DEF Ordered, Edge
  <2>2. ASSUME NEW i \in 2 .. n, i \div 2 = c, c > 1 PROVE k[f.d[c \div 2]] <= k[f.d[i]]
    <3>1. c \in Nat /\ i \in Nat
      BY <1>7
    <3>2. PICK q \in Nat : q = c \div 2 /\ q \in 1 .. n /\ q # c /\ i \in 1 .. n /\ i # c /\ c \in 2 .. n
      BY <1>7, <2>2, <3>1, Parent
    <3>3. key[f.d[q]] <= key[f.d[c]] /\ key[f.d[c]] <= key[f.d[i]]
      BY <1>7, <2>2, <3>2 DEF Ordered, Edge
    <3>4. key[f.d[q]] <= key[f.d[i]]
      BY <1>7, <1>9, <3>2, <3>3
    <3> QED BY <1>8, <3>2, <3>4
  <2> QED BY <1>7, <2>1, <2>2 DEF Loose, Around
<1>11. PICK g : g = heapify(f, c, k)
  OBVIOUS
<1>12. Moved(f, g) /\ Indexed(g) /\ Ordered(g, k)
  BY <1>4, <1>7, <1>10, <1>11, Heapify
<1>13. Good(g, k, Members)
  BY <1>7, <1>12, MovedGood
<1>14. data' = g.d /\ pos' = g.p /\ ret' = Null
  BY <1>3, <1>6, <1>11 DEF heap_adjust, Becomes
<1>15. HeapSound' /\ Members' = Members
  <2>1. PICK M : M = Members
    OBVIOUS
  <2>2. HeapSound' /\ Members' = M
    BY <1>3, <1>4, <1>13, <1>14, <2>1, Install
  <2> QED BY <2>1, <2>2
<1> QED BY <1>5, <1>15

\* In the heap f, of n entries and in order, the last one takes the place c of another.
Filling(f, k, n, c, h) ==
  /\ f \in Heaps /\ Indexed(f) /\ k \in [Entry -> Int] /\ Ordered(f, k)
  /\ n \in Nat /\ n = Len(f.d) /\ c \in 1 .. (n - 1) /\ h = Shorter(Put(f, c, f.d[n]))

\* Only the entry that moved may be out of place.
LEMMA Filled ==
  ASSUME NEW f, NEW k, NEW n, NEW c, NEW h, Filling(f, k, n, c, h)
  PROVE  /\ h \in Heaps /\ Indexed(h) /\ Len(h.d) = n - 1 /\ Loose(h, c, k)
         /\ Elems(h) = Elems(f) \ {f.d[c]} /\ f.d[c] \in Elems(f)
         /\ \A y \in Entry : y \notin Elems(f) => h.p[y] = f.p[y]
<1> USE DEF Filling
<1>1. \A j \in 1 .. n : f.d[j] \in Entry /\ f.p[f.d[j]] = j /\ f.d[j] \in Elems(f) /\ k[f.d[j]] \in Int
  BY ArrayAt DEF Indexed, Elems
<1>2. n \in 1 .. n /\ c \in 1 .. n /\ n # c /\ n - 1 \in Nat
  OBVIOUS
<1>3. PICK e : e = Put(f, c, f.d[n])
  OBVIOUS
<1>4. /\ e \in Heaps /\ Len(e.d) = n /\ e.d[c] = f.d[n] /\ \A j \in 1 .. n : j # c => e.d[j] = f.d[j]
      /\ e.p[f.d[n]] = c /\ \A y \in Entry : y # f.d[n] => e.p[y] = f.p[y]
  BY <1>1, <1>2, <1>3, PutAt, SMTT(30)
<1>5. /\ h \in Heaps /\ Len(h.d) = n - 1 /\ h.p = e.p /\ \A j \in 1 .. (n - 1) : h.d[j] = e.d[j]
  <2>1. Len(e.d) >= 1
    BY <1>2, <1>4
  <2> QED BY <1>3, <1>4, <2>1, ShorterAt
<1>6. h.d[c] = f.d[n] /\ \A j \in 1 .. (n - 1) : j # c => h.d[j] = f.d[j]
  BY <1>4, <1>5
<1>7. Indexed(h)
  <2> SUFFICES ASSUME NEW j \in 1 .. (n - 1) PROVE h.p[h.d[j]] = j
    BY <1>5 DEF Indexed
  <2>1. CASE j = c
    BY <1>4, <1>5, <1>6, <2>1
  <2>2. CASE j # c
    <3>0. j \in 1 .. n /\ n \in 1 .. n /\ j # n
      OBVIOUS
    <3>1. f.d[j] # f.d[n] /\ f.d[j] \in Entry /\ f.p[f.d[j]] = j
      BY <1>1, <3>0
    <3>2. h.d[j] = f.d[j] /\ h.p[f.d[j]] = f.p[f.d[j]]
      BY <1>4, <1>5, <1>6, <2>2, <3>1
    <3> QED BY <3>1, <3>2
  <2> QED BY <2>1, <2>2
<1>8. Loose(h, c, k)
  <2>1. ASSUME NEW i \in 2 .. (n - 1), i # c, i \div 2 # c PROVE Edge(h, i, k)
    <3>1. PICK q \in Nat : q = i \div 2 /\ q \in 1 .. (n - 1) /\ i \in 1 .. (n - 1) /\ i \in 2 .. n
      BY Parent
    <3>2. k[f.d[q]] <= k[f.d[i]]
      BY <3>1 DEF Ordered, Edge
    <3>3. h.d[q] = f.d[q] /\ h.d[i] = f.d[i]
      BY <1>6, <2>1, <3>1
    <3> QED BY <3>1, <3>2, <3>3 DEF Edge
  <2>2. ASSUME NEW i \in 2 .. (n - 1), i \div 2 = c, c > 1 PROVE k[h.d[c \div 2]] <= k[h.d[i]]
    <3>1. c \in Nat /\ i \in Nat
      OBVIOUS
    <3>2. PICK q \in Nat : /\ q = c \div 2 /\ q \in 1 .. (n - 1) /\ q # c /\ i \in 1 .. (n - 1) /\ i # c
                           /\ c \in 2 .. n /\ i \in 2 .. n /\ q \in 1 .. n /\ i \in 1 .. n
      BY <2>2, <3>1, Parent
    <3>3. k[f.d[q]] <= k[f.d[c]] /\ k[f.d[c]] <= k[f.d[i]]
      BY <2>2, <3>2 DEF Ordered, Edge
    <3>4. k[f.d[q]] <= k[f.d[i]]
      BY <1>1, <1>2, <3>2, <3>3
    <3> QED BY <1>6, <3>2, <3>4
  <2> QED BY <1>5, <2>1, <2>2 DEF Loose, Around
<1>9. Elems(h) = Elems(f) \ {f.d[c]}
  <2>1. ASSUME NEW y \in Elems(h) PROVE y \in Elems(f) /\ y # f.d[c]
    <3>1. PICK j \in 1 .. (n - 1) : y = h.d[j]
      BY <1>5 DEF Elems
    <3>2. j \in 1 .. n
      OBVIOUS
    <3>3. CASE j = c
      BY <1>1, <1>2, <1>6, <3>1, <3>3
    <3>4. CASE j # c
      BY <1>1, <1>2, <1>6, <3>1, <3>2, <3>4
    <3> QED BY <3>3, <3>4
  <2>2. ASSUME NEW y \in Elems(f), y # f.d[c] PROVE y \in Elems(h)
    <3>1. PICK j \in 1 .. n : y = f.d[j]
      BY DEF Elems
    <3>2. CASE j = n
      <4>1. c \in 1 .. (n - 1) /\ y = h.d[c]
        BY <1>6, <3>1, <3>2
      <4> QED BY <1>5, <4>1 DEF Elems
    <3>3. CASE j # n
      <4>1. j \in 1 .. (n - 1) /\ y = h.d[j]
        BY <1>6, <2>2, <3>1, <3>3
      <4> QED BY <1>5, <4>1 DEF Elems
    <3> QED BY <3>2, <3>3
  <2> QED BY <2>1, <2>2
<1>10. \A y \in Entry : y \notin Elems(f) => h.p[y] = f.p[y]
  BY <1>1, <1>2, <1>4, <1>5
<1> QED BY <1>1, <1>2, <1>5, <1>7, <1>8, <1>9, <1>10

\* The heap without its last entry is in order.
LEMMA Cut ==
  ASSUME NEW f \in Heaps, Indexed(f), NEW k, Ordered(f, k),
         NEW n \in Nat, n = Len(f.d), n >= 1, NEW h, h = Shorter(f)
  PROVE  /\ h \in Heaps /\ Indexed(h) /\ Len(h.d) = n - 1 /\ Ordered(h, k)
         /\ Elems(h) = Elems(f) \ {f.d[n]} /\ f.d[n] \in Elems(f) /\ h.p = f.p
<1>1. \A j \in 1 .. n : f.d[j] \in Entry /\ f.p[f.d[j]] = j /\ f.d[j] \in Elems(f)
  BY ArrayAt DEF Indexed, Elems
<1>2. h \in Heaps /\ Len(h.d) = n - 1 /\ h.p = f.p /\ \A j \in 1 .. (n - 1) : h.d[j] = f.d[j]
  BY ShorterAt
<1>3. Indexed(h)
  BY <1>1, <1>2 DEF Indexed
<1>4. ASSUME NEW i \in 2 .. (n - 1) PROVE Edge(h, i, k)
  <2>1. PICK q \in Nat : q = i \div 2 /\ q \in 1 .. (n - 1) /\ i \in 1 .. (n - 1) /\ i \in 2 .. n
    BY Parent
  <2>2. k[f.d[q]] <= k[f.d[i]]
    BY <2>1 DEF Ordered, Edge
  <2> QED BY <1>2, <2>1, <2>2 DEF Edge
<1>5. Elems(h) = Elems(f) \ {f.d[n]}
  <2>1. ASSUME NEW y \in Elems(h) PROVE y \in Elems(f) /\ y # f.d[n]
    <3>1. PICK j \in 1 .. (n - 1) : y = h.d[j]
      BY <1>2 DEF Elems
    <3>2. j \in 1 .. n /\ n \in 1 .. n /\ j # n
      OBVIOUS
    <3> QED BY <1>1, <1>2, <3>1, <3>2
  <2>2. ASSUME NEW y \in Elems(f), y # f.d[n] PROVE y \in Elems(h)
    <3>1. PICK j \in 1 .. n : y = f.d[j]
      BY DEF Elems
    <3>2. j \in 1 .. (n - 1)
      BY <2>2, <3>1
    <3> QED BY <1>2, <3>1, <3>2 DEF Elems
  <2> QED BY <2>1, <2>2
<1>6. n \in 1 .. n
  OBVIOUS
<1> QED BY <1>1, <1>2, <1>3, <1>4, <1>5, <1>6 DEF Ordered

\* Once x has left a heap in order, so that it is no member and has no key.
LEMMA LeftGood ==
  ASSUME Params, NEW e \in Heaps, Indexed(e), NEW k \in [Entry -> Key], Ordered(e, k), Len(e.d) <= MaxSz,
         NEW x \in Entry, NEW M, Elems(e) = M \ {x}, M \subseteq Entry,
         \A y \in Entry : y \notin M => e.p[y] = -1
  PROVE  /\ Good(Gone(e, x), [k EXCEPT ![x] = 0], M \ {x}) /\ [k EXCEPT ![x] = 0] \in [Entry -> Key]
<1>1. PICK g : g = Gone(e, x)
  OBVIOUS
<1>2. PICK z : z = [k EXCEPT ![x] = 0]
  OBVIOUS
<1>3. g \in Heaps /\ g.d = e.d /\ g.p[x] = -1 /\ \A y \in Entry : y # x => g.p[y] = e.p[y]
  BY <1>1, GoneAt
<1>4. z \in [Entry -> Key] /\ \A y \in Entry : y # x => z[y] = k[y]
  <2>1. 0 \in Key
    BY DEF Key, Params
  <2> QED BY <1>2, <2>1
<1>5. \A j \in 1 .. Len(e.d) : e.d[j] \in Entry /\ e.d[j] # x /\ e.p[e.d[j]] = j
  <2>1. \A j \in 1 .. Len(e.d) : e.d[j] \in Entry /\ e.d[j] \in Elems(e) /\ e.p[e.d[j]] = j
    BY ArrayAt DEF Elems, Indexed
  <2> QED BY <2>1
<1>6. Indexed(g) /\ Elems(g) = M \ {x}
  BY <1>3, <1>5 DEF Indexed, Elems
<1>7. Ordered(g, z)
  <2> SUFFICES ASSUME NEW i \in 2 .. Len(e.d) PROVE z[e.d[i \div 2]] <= z[e.d[i]]
    BY <1>3 DEF Ordered, Edge
  <2>1. i \div 2 \in 1 .. Len(e.d) /\ i \in 1 .. Len(e.d)
    BY ArrayAt, Parent
  <2>2. k[e.d[i \div 2]] <= k[e.d[i]]
    BY DEF Ordered, Edge
  <2> QED BY <1>4, <1>5, <2>1, <2>2
<1>8. \A y \in Entry : y \notin M \ {x} => g.p[y] = -1
  BY <1>3
<1> QED BY <1>1, <1>2, <1>3, <1>4, <1>6, <1>7, <1>8 DEF Good

\* heap_remove.
LEMMA StepRemove ==
  ASSUME Params, HeapSound, NEW x \in Entry, heap_remove(x)
  PROVE  HeapSound' /\ Members' = Members \ {x} /\ x \in Members
<1>1. /\ Good(Now, key, Members) /\ Now.d = data /\ Now.p = pos /\ Len(data) = Size
      /\ key \in [Entry -> Key] /\ key \in [Entry -> Int] /\ Size \in Nat /\ Size <= MaxSz /\ MaxSz \in Nat
      /\ \A y \in Members : pos[y] \in 1 .. Size /\ data[pos[y]] = y
      /\ Members \subseteq Entry
  BY NowGood
<1>2. x \in Members
  BY DEF heap_remove, Members
<1>a. PICK f : f = Now
  OBVIOUS
<1>b. PICK n \in Nat : n = Size
  BY <1>1
<1>c. PICK c : c = pos[x]
  OBVIOUS
<1>d. PICK k : k = key
  OBVIOUS
<1>e. PICK M : M = Members
  OBVIOUS
<1>3. f = Now /\ n = Size /\ c = pos[x] /\ k = key /\ M = Members
  BY <1>a, <1>b, <1>c, <1>d, <1>e
<1>4. /\ f \in Heaps /\ Len(f.d) = n /\ Indexed(f) /\ Ordered(f, k) /\ Elems(f) = M
      /\ n <= MaxSz /\ \A y \in Entry : y \notin M => f.p[y] = -1
      /\ c \in 1 .. n /\ f.d[c] = x /\ k \in [Entry -> Key] /\ k \in [Entry -> Int]
      /\ x \in M /\ M \subseteq Entry /\ data[Size] = f.d[n]
  BY <1>1, <1>2, <1>3 DEF Good
<1>5. PICK h : h = IF c = n THEN Shorter(f) ELSE Shorter(Put(f, c, f.d[n]))
  OBVIOUS
<1>6. PICK e : e = IF c = n THEN h ELSE heapify(h, c, k)
  OBVIOUS
<1>7. /\ e \in Heaps /\ Indexed(e) /\ Ordered(e, k) /\ Len(e.d) <= MaxSz /\ Elems(e) = M \ {x}
      /\ \A y \in Entry : y \notin M => e.p[y] = -1
  <2>1. CASE c = n
    <3>1. n >= 1 /\ h = Shorter(f) /\ e = h
      BY <1>4, <1>5, <1>6, <2>1
    <3>2. /\ h \in Heaps /\ Indexed(h) /\ Len(h.d) = n - 1 /\ Ordered(h, k)
          /\ Elems(h) = Elems(f) \ {f.d[n]} /\ h.p = f.p
      BY <1>4, <3>1, Cut
    <3>3. Len(h.d) <= MaxSz
      BY <1>1, <1>4, <3>2
    <3> QED BY <1>4, <2>1, <3>1, <3>2, <3>3
  <2>2. CASE c # n
    <3>1. c \in 1 .. (n - 1) /\ h = Shorter(Put(f, c, f.d[n])) /\ e = heapify(h, c, k)
      BY <1>4, <1>5, <1>6, <2>2
    <3>2. /\ h \in Heaps /\ Indexed(h) /\ Len(h.d) = n - 1 /\ Loose(h, c, k)
          /\ Elems(h) = Elems(f) \ {f.d[c]}
          /\ \A y \in Entry : y \notin Elems(f) => h.p[y] = f.p[y]
      <4>1. n = Len(f.d) /\ n \in Nat /\ f \in Heaps /\ Indexed(f) /\ k \in [Entry -> Int] /\ Ordered(f, k)
        BY <1>4
      <4>2. Filling(f, k, n, c, h)
        BY <3>1, <4>1 DEF Filling
      <4> QED BY <4>2, Filled
    <3>3. c \in 1 .. Len(h.d)
      BY <3>1, <3>2
    <3>4. Moved(h, e) /\ Indexed(e) /\ Ordered(e, k)
      BY <1>4, <3>1, <3>2, <3>3, Heapify
    <3>5. e \in Heaps /\ Len(e.d) = n - 1 /\ Elems(e) = Elems(h)
      BY <3>2, <3>4 DEF Moved
    <3>6. Len(e.d) <= MaxSz
      BY <1>1, <1>4, <3>5
    <3>7. \A y \in Entry : y \notin M => e.p[y] = -1
      BY <1>4, <3>2, <3>4 DEF Moved
    <3> QED BY <1>4, <3>2, <3>4, <3>5, <3>6, <3>7
  <2> QED BY <2>1, <2>2
<1>8. PICK g, z : g = Gone(e, x) /\ z = [k EXCEPT ![x] = 0]
  OBVIOUS
<1>9. Good(g, z, M \ {x}) /\ z \in [Entry -> Key]
  BY <1>4, <1>7, <1>8, LeftGood, ZenonT(60)
<1>10. data' = g.d /\ pos' = g.p /\ key' = z /\ ret' = Null
  BY <1>3, <1>4, <1>5, <1>6, <1>8 DEF heap_remove, Becomes
<1>11. HeapSound' /\ Members' = M \ {x}
  BY <1>9, <1>10, Install
<1> QED BY <1>2, <1>3, <1>11

\* heap_highest of a heap that is not empty.
LEMMA StepHighest ==
  ASSUME Params, HeapSound, heap_highest, Size # 0
  PROVE  HeapSound' /\ Members' = Members \ {data[1]} /\ data[1] \in Members /\ ret' = data[1]
<1>1. /\ Good(Now, key, Members) /\ Now.d = data /\ Now.p = pos /\ Len(data) = Size
      /\ key \in [Entry -> Key] /\ key \in [Entry -> Int] /\ Size \in Nat /\ Size <= MaxSz /\ MaxSz \in Nat
      /\ Members \subseteq Entry
  BY NowGood
<1>b. PICK f : f = Now
  OBVIOUS
<1>c. PICK n \in Nat : n = Size
  BY <1>1
<1>d. PICK k : k = key
  OBVIOUS
<1>e. PICK M : M = Members
  OBVIOUS
<1>3. f = Now /\ n = Size /\ k = key /\ M = Members
  BY <1>b, <1>c, <1>d, <1>e
<1>4. /\ f \in Heaps /\ Len(f.d) = n /\ Indexed(f) /\ Ordered(f, k) /\ Elems(f) = M
      /\ n <= MaxSz /\ \A y \in Entry : y \notin M => f.p[y] = -1
      /\ k \in [Entry -> Key] /\ k \in [Entry -> Int]
      /\ M \subseteq Entry /\ data[Size] = f.d[n] /\ n >= 1 /\ data[1] = f.d[1] /\ 1 \in 1 .. n
  BY <1>1, <1>3 DEF Good
<1>2. PICK x \in Entry : x = f.d[1] /\ x \in M
  BY <1>4, ArrayAt DEF Elems
<1>5. PICK h : h = Shorter(Put(f, 1, f.d[n]))
  OBVIOUS
<1>a. /\ h \in Heaps /\ Indexed(h) /\ Len(h.d) = n - 1 /\ Elems(h) = M \ {x} /\ Heavy(h, 1, k)
      /\ \A y \in Entry : y \notin M => h.p[y] = -1
  <2>1. CASE n = 1
    <3>1. PICK e : e = Put(f, 1, f.d[1])
      OBVIOUS
    <3>2. /\ e \in Heaps /\ Len(e.d) = 1 /\ \A y \in Entry : y # x => e.p[y] = f.p[y]
      BY <1>2, <1>4, <2>1, <3>1, PutAt
    <3>3. h = Shorter(e)
      BY <1>5, <2>1, <3>1
    <3>4. h \in Heaps /\ Len(h.d) = 0 /\ h.p = e.p
      <4>1. Len(e.d) >= 1 /\ Len(e.d) - 1 = 0
        BY <3>2
      <4> QED BY <3>2, <3>3, <4>1, ShorterAt
    <3>5. Indexed(h) /\ Heavy(h, 1, k) /\ Elems(h) = {}
      <4>1. 1 .. Len(h.d) = {} /\ 2 .. Len(h.d) = {}
        BY <3>4
      <4> QED BY <4>1 DEF Indexed, Heavy, Around, Elems
    <3>6. M = {x}
      <4>1. \A j \in 1 .. n : j = 1
        BY <2>1
      <4> QED BY <1>2, <1>4, <4>1 DEF Elems
    <3> QED BY <1>2, <1>4, <2>1, <3>2, <3>4, <3>5, <3>6
  <2>2. CASE n # 1
    <3>1. 1 \in 1 .. (n - 1)
      BY <1>4, <2>2
    <3>2. /\ h \in Heaps /\ Indexed(h) /\ Len(h.d) = n - 1 /\ Loose(h, 1, k)
          /\ Elems(h) = Elems(f) \ {f.d[1]}
          /\ \A y \in Entry : y \notin Elems(f) => h.p[y] = f.p[y]
      <4>1. n = Len(f.d) /\ n \in Nat /\ f \in Heaps /\ Indexed(f) /\ k \in [Entry -> Int] /\ Ordered(f, k)
        BY <1>4
      <4>2. Filling(f, k, n, 1, h)
        BY <1>5, <3>1, <4>1 DEF Filling
      <4> QED BY <4>2, Filled
    <3>3. Heavy(h, 1, k)
      <4>1. \A i \in 2 .. Len(h.d) : i # 1
        BY <3>2
      <4> QED BY <3>2, <4>1 DEF Heavy, Loose
    <3> QED BY <1>2, <1>4, <3>2, <3>3
  <2> QED BY <2>1, <2>2
<1>6. PICK e : e = swap_down(h, 1, k).h
  OBVIOUS
<1>7. /\ e \in Heaps /\ Indexed(e) /\ Ordered(e, k) /\ Len(e.d) <= MaxSz /\ Elems(e) = M \ {x}
      /\ \A y \in Entry : y \notin M => e.p[y] = -1
  <2>1. Moved(h, e) /\ Indexed(e) /\ Ordered(e, k)
    BY <1>4, <1>6, <1>a, SwapDown
  <2>2. e \in Heaps /\ Len(e.d) = n - 1 /\ Elems(e) = M \ {x}
    BY <1>a, <2>1 DEF Moved
  <2>3. Len(e.d) <= MaxSz
    BY <1>1, <1>4, <2>2
  <2>4. \A y \in Entry : y \notin M => e.p[y] = -1
    BY <1>a, <2>1 DEF Moved
  <2> QED BY <2>1, <2>2, <2>3, <2>4
<1>8. PICK g, z : g = Gone(e, x) /\ z = [k EXCEPT ![x] = 0]
  OBVIOUS
<1>9. Good(g, z, M \ {x}) /\ z \in [Entry -> Key]
  <2>1. k \in [Entry -> Key] /\ M \subseteq Entry
    BY <1>4
  <2> QED BY <1>7, <1>8, <2>1, LeftGood
<1>10. data' = g.d /\ pos' = g.p /\ key' = z /\ ret' = x
  BY <1>2, <1>3, <1>4, <1>5, <1>6, <1>8 DEF heap_highest, heap_peek, Becomes
<1>11. HeapSound' /\ Members' = M \ {x}
  BY <1>9, <1>10, Install
<1> QED BY <1>2, <1>3, <1>4, <1>10, <1>11

-----------------------------------------------------------------------------
(* The heap is in order, and a priority queue.                              *)

\* The entry at the root has the least key.
LEMMA Root ==
  ASSUME Params, HeapSound, Size # 0
  PROVE  data[1] \in Members /\ \A y \in Members : key[data[1]] <= key[y]
<1>1. /\ Good(Now, key, Members) /\ Now.d = data /\ Len(data) = Size /\ Size \in Nat
      /\ key \in [Entry -> Int]
      /\ \A x \in Members : pos[x] \in 1 .. Size /\ data[pos[x]] = x
  BY NowGood
<1>a. PICK f : f = Now
  OBVIOUS
<1>b. PICK n \in Nat : n = Size
  BY <1>1
<1>c. PICK k \in [Entry -> Int] : k = key
  BY <1>1
<1>2. /\ f \in Heaps /\ Len(f.d) = n /\ Ordered(f, k) /\ Elems(f) = Members /\ f.d = data
      /\ 1 \in 1 .. n
  BY <1>1, <1>a, <1>b, <1>c DEF Good
<1>3. \A j \in 1 .. n : k[f.d[j]] \in Int
  BY <1>2, Keys
<1> DEFINE Bad == {j \in 1 .. n : ~(k[f.d[1]] <= k[f.d[j]])}
<1>4. Bad = {}
  <2> SUFFICES ASSUME Bad # {} PROVE FALSE
    OBVIOUS
  <2>1. Bad \subseteq Nat
    OBVIOUS
  <2> HIDE DEF Bad
  <2>2. PICK j \in Bad : \A i \in Bad : j <= i
    BY <2>1, LeastNat
  <2> USE DEF Bad
  <2>3. j \in 1 .. n /\ ~(k[f.d[1]] <= k[f.d[j]])
    BY <2>2
  <2>4. j \in 2 .. n /\ j \in Nat
    BY <1>2, <1>3, <2>3
  <2>5. PICK q \in Nat : q = j \div 2 /\ q \in 1 .. n /\ q < j
    BY <2>4, Parent
  <2>6. k[f.d[1]] <= k[f.d[q]]
    BY <2>2, <2>4, <2>5
  <2>7. k[f.d[q]] <= k[f.d[j]]
    BY <1>2, <2>4, <2>5 DEF Ordered, Edge
  <2> QED BY <1>2, <1>3, <2>3, <2>5, <2>6, <2>7
<1>5. ASSUME NEW y \in Members PROVE key[data[1]] <= key[y]
  <2>1. PICK j \in 1 .. n : y = f.d[j]
    BY <1>2 DEF Elems
  <2>2. k[f.d[1]] <= k[f.d[j]]
    BY <1>4
  <2> QED BY <1>2, <1>c, <2>1, <2>2
<1>6. data[1] \in Members
  BY <1>2 DEF Elems
<1> QED BY <1>5, <1>6

\* The heap has as many entries as members.
LEMMA Count ==
  ASSUME Params, HeapSound
  PROVE  Cardinality(Members) = Size
<1>1. /\ Size \in Nat /\ Len(data) = Size /\ data \in Seq(Entry)
      /\ \A x \in Members : pos[x] \in 1 .. Size /\ data[pos[x]] = x
      /\ \A i \in 1 .. Size : data[i] \in Members /\ pos[data[i]] = i
  <2>1. /\ Good(Now, key, Members) /\ Now.d = data /\ Now.p = pos /\ Len(data) = Size /\ Size \in Nat
        /\ \A x \in Members : pos[x] \in 1 .. Size /\ data[pos[x]] = x
    BY NowGood
  <2>2. Elems(Now) = Members /\ Indexed(Now)
    BY <2>1 DEF Good
  <2>3. data \in Seq(Entry)
    BY DEF HeapSound, HeapTypes
  <2> QED BY <2>1, <2>2, <2>3 DEF Elems, Indexed
<1>2. PICK n \in Nat : n = Size
  BY <1>1
<1>3. PICK M : M = Members
  OBVIOUS
<1> DEFINE b == [i \in 1 .. n |-> data[i]]
<1>4. b \in [1 .. n -> M] /\ \A i \in 1 .. n : b[i] = data[i] /\ pos[b[i]] = i
  BY <1>1, <1>2, <1>3
<1>5. \A x \in M : pos[x] \in 1 .. n /\ b[pos[x]] = x
  BY <1>1, <1>2, <1>3
<1> HIDE DEF b
<1>6. b \in Injection(1 .. n, M)
  BY <1>4 DEF Injection, IsInjective
<1>7. b \in Surjection(1 .. n, M)
  BY <1>4, <1>5 DEF Surjection
<1>8. ExistsBijection(1 .. n, M)
  BY <1>6, <1>7 DEF ExistsBijection, Bijection
<1> QED BY <1>2, <1>3, <1>8, FS_CountingElements

\* What a step that moves nothing leaves.
LEMMA Same ==
  ASSUME Params, HeapSound, UNCHANGED <<data, key, pos>>, ret' \in Entry \cup {Null, -1}
  PROVE  HeapSound' /\ Members' = Members
<1>1. data' = data /\ key' = key /\ pos' = pos
  OBVIOUS
<1>2. HeapTypes'
  BY <1>1 DEF HeapSound, HeapTypes, Size
<1>3. HeapOrder' /\ Positions'
  BY <1>1 DEF HeapSound, HeapOrder, Positions, Size, Cmp
<1> QED BY <1>1, <1>2, <1>3 DEF HeapSound, Members

\* What is peeked.
LEMMA Peeked ==
  ASSUME Params, HeapSound
  PROVE  heap_peek \in Entry \cup {Null, -1}
<1>1. CASE Size = 0
  BY <1>1 DEF heap_peek
<1>2. CASE Size # 0
  BY <1>2, Root DEF heap_peek, Members
<1> QED BY <1>1, <1>2

\* The heap is in order at the start, and every operation keeps it so.
LEMMA HeapStart == ASSUME Params, heap_init PROVE HeapSound
<1>1. data = <<>> /\ key = [x \in Entry |-> 0] /\ pos = [x \in Entry |-> -1] /\ ret = Null
  BY DEF heap_init
<1>2. Len(data) = 0 /\ data \in Seq(Entry)
  BY <1>1
<1>3. 0 \in Key /\ MaxSz \in Nat
  BY DEF Key, Params
<1>4. HeapTypes
  BY <1>1, <1>2, <1>3 DEF HeapTypes, Size
<1>5. \A i \in 2 .. Size : FALSE
  BY <1>2 DEF Size
<1>6. \A i \in 1 .. Size : FALSE
  BY <1>2 DEF Size
<1>7. \A x \in Entry : pos[x] = -1
  BY <1>1
<1>8. \A x \in Entry : ~(pos[x] > 0)
  BY <1>7
<1> QED BY <1>4, <1>5, <1>6, <1>8 DEF HeapSound, HeapOrder, Positions

\* Every operation, refused ones included.
LEMMA HeapKept ==
  ASSUME Params, HeapSound, [HeapNext]_heapVars
  PROVE  HeapSound'
<1>1. CASE UNCHANGED heapVars
  BY <1>1, Same DEF heapVars, HeapSound, HeapTypes
<1>2. ASSUME NEW x \in Entry, heap_add(x) PROVE HeapSound'
  <2>1. CASE Size = MaxSz
    <3>1. ret' = -1 /\ UNCHANGED <<data, key, pos>>
      BY <1>2, <2>1 DEF heap_add
    <3> QED BY <3>1, Same
  <2>2. CASE Size # MaxSz
    BY <1>2, <2>2, StepAdd
  <2> QED BY <2>1, <2>2
<1>3. ASSUME NEW x \in Entry, heap_adjust(x) PROVE HeapSound'
  BY <1>3, StepAdjust
<1>4. ASSUME NEW x \in Entry, heap_remove(x) PROVE HeapSound'
  BY <1>4, StepRemove
<1>5. CASE heap_highest
  <2>1. CASE Size = 0
    <3>1. ret' = heap_peek /\ UNCHANGED <<data, key, pos>>
      BY <1>5, <2>1 DEF heap_highest
    <3> QED BY <3>1, Peeked, Same
  <2>2. CASE Size # 0
    BY <1>5, <2>2, StepHighest
  <2> QED BY <2>1, <2>2
<1>6. CASE sl_mod_schedule
  BY <1>6, Peeked, Same DEF sl_mod_schedule
<1> QED BY <1>1, <1>2, <1>3, <1>4, <1>5, <1>6 DEF HeapNext

\* After any sequence of operations the array of heap.c is a heap, in the order of the
\* keys, whose entries know their index: HeapSound is inductive as it stands, and what
\* takes the work is that swap_up and swap_down end with only one entry ever out of place.
THEOREM HeapAlwaysSound == HeapSpec => []HeapSound
<1>1. heap_init => HeapSound
  BY HeapStart, HeapAssumption
<1>2. HeapSound /\ [HeapNext]_heapVars => HeapSound'
  BY HeapKept, HeapAssumption
<1> QED BY <1>1, <1>2, PTL DEF HeapSpec

\* The queue that the heap stands for.
Shown == [x \in {y \in Entry : pos[y] > 0} |-> key[x]]

\* Its entries and their keys, before and after a step.
LEMMA ShownKeys ==
  /\ DOMAIN Shown = Members /\ \A x \in Members : Shown[x] = key[x]
  /\ Queue!q = Members
  BY DEF Shown, Members, Queue!q

LEMMA ShownNext ==
  /\ DOMAIN Shown' = Members' /\ \A x \in Members' : Shown'[x] = key'[x]
  BY DEF Shown, Members

\* A step after which the members are S, and that changes the key of x only.
LEMMA ShownStep ==
  ASSUME NEW S, NEW x, Members' = S, S \subseteq Members \cup {x},
         \A y \in S : y # x => key'[y] = key[y]
  PROVE  Queue!Becomes(S, x)
<1>1. DOMAIN Shown' = S
  BY ShownNext
<1>2. \A y \in S \ {x} : Shown'[y] = Shown[y]
  <2> SUFFICES ASSUME NEW y \in S, y # x PROVE Shown'[y] = Shown[y]
    OBVIOUS
  <2>1. Shown'[y] = key'[y]
    BY ShownNext
  <2>2. Shown[y] = key[y]
    BY ShownKeys
  <2> QED BY <2>1, <2>2
<1> QED BY <1>1, <1>2 DEF Queue!Becomes, Shown

\* A step that moves nothing.
LEMMA ShownSame ==
  ASSUME UNCHANGED <<data, key, pos>>
  PROVE  Shown' = Shown
  BY DEF Shown

\* What is peeked is a best entry of the queue.
LEMMA ShownPeek ==
  ASSUME Params, HeapSound
  PROVE  heap_peek \in Queue!Peek
<1>1. CASE Size = 0
  <2>1. \A x \in Members : FALSE
    <3>1. \A x \in Members : pos[x] \in 1 .. Size
      BY NowGood
    <3>2. 1 .. Size = {}
      BY <1>1
    <3> QED BY <3>1, <3>2
  <2> QED BY <1>1, <2>1, ShownKeys DEF heap_peek, Queue!Peek
<1>2. CASE Size # 0
  <2>1. data[1] \in Members /\ \A y \in Members : key[data[1]] <= key[y]
    BY <1>2, Root
  <2>2. \A y \in Members : Shown[data[1]] <= Shown[y]
    BY <2>1, ShownKeys
  <2>3. heap_peek = data[1] /\ Queue!q = Members /\ Members # {}
    BY <1>2, <2>1, ShownKeys DEF heap_peek
  <2> QED BY <2>1, <2>2, <2>3 DEF Queue!Peek, Shown
<1> QED BY <1>1, <1>2

\* heap_add, of an entry that fits or not.
LEMMA AddQueue ==
  ASSUME Params, HeapSound, NEW x \in Entry, heap_add(x)
  PROVE  Queue!Add(x)
<1>1. Queue!q = Members /\ Queue!Cardinality(Members) = Size
  <2>1. \A S : Queue!Cardinality(S) = Cardinality(S)
    BY DEF Queue!Cardinality, Cardinality
  <2> QED BY <2>1, ShownKeys, Count
<1>2. CASE Size = MaxSz
  <2>1. ret' = -1 /\ UNCHANGED <<data, key, pos>>
    BY <1>2 DEF heap_add
  <2>2. x \notin Members
    BY DEF heap_add, Members
  <2>3. Shown' = Shown
    BY <2>1, ShownSame
  <2> QED BY <1>1, <1>2, <2>1, <2>2, <2>3 DEF Queue!Add, Shown
<1>3. CASE Size # MaxSz
  <2>1. x \notin Members /\ Members' = Members \cup {x} /\ ret' = Null
    BY <1>3, StepAdd DEF heap_add
  <2>2. Size < MaxSz
    BY <1>3, NowGood
  <2>3. PICK z \in Key : key' = [key EXCEPT ![x] = z]
    BY <1>3 DEF heap_add
  <2>4. \A y \in Entry : y # x => key'[y] = key[y]
    BY <2>3, NowGood
  <2>5. Members \subseteq Entry
    BY NowGood
  <2>6. Queue!Becomes(Members \cup {x}, x)
    <3>1. PICK S : S = Members \cup {x}
      OBVIOUS
    <3>2. Members' = S /\ S \subseteq Members \cup {x} /\ \A y \in S : y # x => key'[y] = key[y]
      BY <2>1, <2>4, <2>5, <3>1
    <3>3. Queue!Becomes(S, x)
      BY <3>2, ShownStep
    <3> QED BY <3>1, <3>3
  <2> QED BY <1>1, <2>1, <2>2, <2>6 DEF Queue!Add
<1> QED BY <1>2, <1>3

\* heap_adjust.
LEMMA AdjustQueue ==
  ASSUME Params, HeapSound, NEW x \in Entry, heap_adjust(x)
  PROVE  Queue!Adjust(x)
<1>1. Queue!q = Members /\ x \in Members /\ Members' = Members /\ ret' = Null /\ Members \subseteq Entry
  BY ShownKeys, StepAdjust, NowGood DEF heap_adjust
<1>2. PICK z \in Key : key' = [key EXCEPT ![x] = z]
  BY DEF heap_adjust
<1>3. \A y \in Entry : y # x => key'[y] = key[y]
  BY <1>2, NowGood
<1>4. PICK S : S = Members
  OBVIOUS
<1>5. Members' = S /\ S \subseteq Members \cup {x} /\ \A y \in S : y # x => key'[y] = key[y]
  BY <1>1, <1>3, <1>4
<1>6. Queue!Becomes(S, x)
  BY <1>5, ShownStep
<1> QED BY <1>1, <1>4, <1>6 DEF Queue!Adjust

\* heap_remove.
LEMMA RemoveQueue ==
  ASSUME Params, HeapSound, NEW x \in Entry, heap_remove(x)
  PROVE  Queue!Remove(x)
<1>1. Queue!q = Members /\ x \in Members /\ Members' = Members \ {x} /\ ret' = Null /\ Members \subseteq Entry
  BY ShownKeys, StepRemove, NowGood DEF heap_remove
<1>2. key' = [key EXCEPT ![x] = 0]
  BY DEF heap_remove
<1>3. \A y \in Entry : y # x => key'[y] = key[y]
  BY <1>2, NowGood
<1>4. PICK S : S = Members \ {x}
  OBVIOUS
<1>5. Members' = S /\ S \subseteq Members \cup {x} /\ \A y \in S : y # x => key'[y] = key[y]
  BY <1>1, <1>3, <1>4
<1>6. Queue!Becomes(S, x)
  BY <1>5, ShownStep
<1> QED BY <1>1, <1>4, <1>6 DEF Queue!Remove

\* heap_highest, of an empty heap too.
LEMMA HighestQueue ==
  ASSUME Params, HeapSound, heap_highest
  PROVE  Queue!Highest
<1>1. ret' = heap_peek /\ heap_peek \in Queue!Peek /\ Queue!q = Members
  BY ShownKeys, ShownPeek DEF heap_highest
<1>2. CASE Size = 0
  <2>1. UNCHANGED <<data, key, pos>> /\ ret' = Null
    BY <1>2 DEF heap_highest, heap_peek
  <2>2. Null \notin Members
    BY DEF Members, Params
  <2>3. PICK S : S = Members \ {Null}
    OBVIOUS
  <2>4. S = Members /\ Members' = S /\ S \subseteq Members \cup {Null} /\ key' = key
    BY <2>1, <2>2, <2>3 DEF Members
  <2>5. Queue!Becomes(S, Null)
    BY <2>4, ShownStep
  <2> QED BY <1>1, <2>1, <2>3, <2>5 DEF Queue!Highest, Queue!Becomes
<1>3. CASE Size # 0
  <2>0. PICK x : x = data[1]
    OBVIOUS
  <2>1. Members' = Members \ {x} /\ x \in Members /\ ret' = x /\ Members \subseteq Entry
    BY <1>3, <2>0, StepHighest, NowGood
  <2>2. key' = [key EXCEPT ![x] = 0]
    BY <1>3, <2>0 DEF heap_highest
  <2>3. \A y \in Entry : y # x => key'[y] = key[y]
    BY <2>2, NowGood
  <2>4. PICK S : S = Members \ {x}
    OBVIOUS
  <2>5. Members' = S /\ S \subseteq Members \cup {x} /\ \A y \in S : y # x => key'[y] = key[y]
    BY <2>1, <2>3, <2>4
  <2>6. Queue!Becomes(S, x)
    BY <2>5, ShownStep
  <2> QED BY <1>1, <2>1, <2>4, <2>6 DEF Queue!Highest, Queue!Becomes
<1> QED BY <1>2, <1>3

\* sl_mod_schedule, which only peeks.
LEMMA LookQueue ==
  ASSUME Params, HeapSound, sl_mod_schedule
  PROVE  Queue!Look
<1>1. ret' = heap_peek /\ heap_peek \in Queue!Peek /\ UNCHANGED <<data, key, pos>>
  BY ShownPeek DEF sl_mod_schedule
<1>2. Shown' = Shown
  BY <1>1, ShownSame
<1> QED BY <1>1, <1>2 DEF Queue!Look, Shown

\* Every operation of the heap is one of the queue.
LEMMA QueueStep ==
  ASSUME Params, HeapSound, [HeapNext]_heapVars
  PROVE  [Queue!Next]_Queue!vars
<1>1. CASE UNCHANGED heapVars
  <2>1. Shown' = Shown /\ ret' = ret
    BY <1>1, ShownSame DEF heapVars
  <2> QED BY <2>1 DEF Queue!vars, Shown
<1>2. CASE HeapNext
  <2>1. ASSUME NEW x \in Entry, heap_add(x) \/ heap_adjust(x) \/ heap_remove(x)
        PROVE  Queue!Add(x) \/ Queue!Adjust(x) \/ Queue!Remove(x)
    BY <2>1, AddQueue, AdjustQueue, RemoveQueue
  <2>2. Queue!Next
    BY <1>2, <2>1, HighestQueue, LookQueue DEF HeapNext, Queue!Next
  <2> QED BY <2>2
<1> QED BY <1>1, <1>2

\* Both start empty.
LEMMA QueueStart == ASSUME Params, heap_init PROVE Queue!Init
<1>1. \A x \in Entry : ~(pos[x] > 0)
  BY DEF heap_init
<1>2. {y \in Entry : pos[y] > 0} = {}
  BY <1>1
<1>3. [x \in {y \in Entry : pos[y] > 0} |-> key[x]] = <<>>
  BY <1>2
<1> QED BY <1>3 DEF heap_init, Queue!Init

\* The heap implements a bounded priority queue: each operation of heap.c takes the queue
\* that the heap stands for as PrioQueue says, so that heap_peek and heap_highest return
\* one of the entries of the least key, and heap_add refuses only when MaxSz are in it.
THEOREM HeapIsQueue == HeapSpec => QueueSpec
<1>1. heap_init => Queue!Init
  BY QueueStart, HeapAssumption
<1>2. HeapSound /\ [HeapNext]_heapVars => [Queue!Next]_Queue!vars
  BY QueueStep, HeapAssumption
<1> QED BY <1>1, <1>2, HeapAlwaysSound, PTL DEF HeapSpec, QueueSpec, Queue!Spec
=============================================================================
