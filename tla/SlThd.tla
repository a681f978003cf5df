-------------------------------- MODULE SlThd --------------------------------
(***************************************************************************)
(* The threads of one core as the scheduling library keeps them: states,    *)
(* timeouts, wakeups (sl_sched.c, sl.h) and the run queue with fixed        *)
(* priorities (sl_mod_fprr.c).                                              *)
(*                                                                          *)
(* Each operation is one step: it is in the critical section, which SlCs    *)
(* shows to be exclusive, up to the choice of the next thread, and a choice *)
(* that is out of date is made again.  The timeout heap is the set of its   *)
(* threads (Heap).  Threads suspended in cos_rcv, budgets and child         *)
(* schedulers are left out.                                                 *)
(***************************************************************************)
EXTENDS Integers, Sequences, FiniteSets, SequencesExt

CONSTANTS
  High, Low,   \* threads of two priorities
  Idle,        \* idle_thd, which shares the lowest priority
  Waiting,     \* threads that start blocked (SCHEDP_PRIO_BLOCK); the others run (SCHEDP_PRIO)
  Blocker,     \* threads that call sl_thd_block, or sl_thd_block_timeout without a timeout,
  Sleeper,     \* ... sl_thd_block_timeout with one,
  Periodic,    \* ... sl_thd_block_periodic,
  Waker,       \* ... sl_thd_wakeup,
  Leaver,      \* ... sl_thd_exit
  Remote,      \* threads that another core wakes
  Period,      \* period of the timer
  Window,      \* period of the threads in Periodic
  MaxCnt,      \* bound: the greatest wakeup_cnt
  MaxNow       \* bound: the last instant

Thread == High \cup Low \cup {Idle}

ASSUME ThdAssumption ==
  /\ IsFiniteSet(High) /\ IsFiniteSet(Low) /\ High \cap Low = {} /\ Idle \notin High \cup Low
  /\ \A S \in {Waiting, Blocker, Sleeper, Periodic, Waker, Leaver, Remote} : S \subseteq Thread \ {Idle}
  /\ Period \in Nat \ {0} /\ Window \in Nat \ {0} /\ MaxNow \in Nat \ {0} /\ MaxCnt \in Nat \ {0}

VARIABLES
  now,     \* sl_now
  timer,   \* timer_next
  curr,    \* the thread that runs
  state,   \* state of a thread
  cnt,     \* wakeup_cnt
  runq,    \* lists of sl_mod_fprr.c, by priority
  sleepq,  \* threads in the timeout heap
  timeout, \* timeout_cycs
  wakeup,  \* wakeup_cycs
  last,    \* periodic_cycs
  call,    \* the call of a thread that has not returned, or what it returned
  woken    \* wakeups by threads and other cores that no call of the thread answered yet

vars == <<now, timer, curr, state, cnt, runq, sleepq, timeout, wakeup, last, call, woken>>

Prio(t) == IF t \in High THEN 1 ELSE 2
Runnable(t) == state[t] \in {"RUNNABLE", "WOKEN"}

\* sl_mod_schedule
Best(q) == IF \E p \in {1, 2} : q[p] # <<>> THEN Head(q[IF q[1] # <<>> THEN 1 ELSE 2]) ELSE Idle

Returned(n) == <<"run", n>>

\* sl_init, sl_thd_alloc and sl_thd_param_set of every thread at instant 1
Init ==
  /\ now = 1 /\ timer = 1 + Period
  /\ state = [t \in Thread |-> IF t \in Waiting THEN "BLOCKED" ELSE "RUNNABLE"]
  /\ cnt = [t \in Thread |-> 0]
  /\ \E h \in SetToSeqs(High \ Waiting), l \in SetToSeqs(Low \ Waiting) : runq = <<h, l>>
  /\ curr = Best(runq) /\ sleepq = {}
  /\ timeout = [t \in Thread |-> 0] /\ wakeup = [t \in Thread |-> 0]
  /\ last = [t \in Thread |-> 1]
  /\ call = [t \in Thread |-> IF t \in Waiting THEN <<"block", 0>> ELSE Returned(0)]
  /\ woken = [t \in Thread |-> 0]

-----------------------------------------------------------------------------
(* Pieces of steps.                                                         *)

Calls(t, S) == curr = t /\ t \in S /\ call[t][1] = "run" /\ state[t] # "FREE"

\* ps_list_rem_d, ps_list_head_add_d and ps_list_head_append_d; a thread that is on no
\* list stays so.
Unlink(s, t) == IF Contains(s, t) THEN RemoveAt(s, CHOOSE i \in DOMAIN s : s[i] = t) ELSE s
Without(q, t) == [p \in {1, 2} |-> Unlink(q[p], t)]
AtFront(q, t) == [Without(q, t) EXCEPT ![Prio(t)] = <<t>> \o @]
AtEnd(q, t) == [Without(q, t) EXCEPT ![Prio(t)] = Append(@, t)]

\* sl_timeout_expended: the next timer stays a multiple of the period away from the first.
sl_timeout_expended == now + Period - ((now - timer) % Period)

\* Mutant: one thread in the heap counts as none.
MutantExpired(sq) == {t \in sq : timeout'[t] <= now /\ Cardinality(sq) > 1}

\* Mutant: an instant too early.
MutantEarly(sq) == {t \in sq : timeout'[t] <= now + 1}

Expired(sq) == {t \in sq : timeout'[t] <= now}

\* The orders in which threads leave the timeout heap.
HeapOrders(S) ==
  {o \in SetToSeqs(S) : \A i, j \in DOMAIN o : i < j => timeout'[o[i]] <= timeout'[o[j]]}

\* sl_mod_wakeup of the threads o, one after the other
AllAtFront(q, o) ==
  LET f[n \in 0 .. Len(o)] == IF n = 0 THEN q ELSE AtFront(f[n - 1], o[n])
  IN  f[Len(o)]

\* sl_cs_exit_schedule from state s, count c, run queue q, timeout heap sq and wakeup
\* times w: sl_timeout_expended, sl_timeout_wakeup_expired, sl_mod_schedule and the
\* switch.  timeout' is set.
sl_cs_exit_schedule(s, c, q, sq, w) ==
  LET E == Expired(sq)
  IN  /\ timer' = IF timer <= now THEN sl_timeout_expended ELSE timer
      /\ sleepq' = sq \ E
      /\ state' = [t \in Thread |-> IF t \in E THEN "RUNNABLE" ELSE s[t]]
      /\ cnt' = [t \in Thread |-> IF t \in E THEN c[t] + 1 ELSE c[t]]
      /\ wakeup' = [t \in Thread |-> IF t \in E THEN now ELSE w[t]]
      /\ \E o \in HeapOrders(E) : runq' = AllAtFront(q, o)
      /\ curr' = Best(runq')

\* sl_cs_exit without a choice
sl_cs_exit(s, c) ==
  /\ state' = s /\ cnt' = c
  /\ UNCHANGED <<timer, curr, runq, sleepq, timeout, wakeup>>

-----------------------------------------------------------------------------
(* The calls of a thread.                                                   *)

\* Mutant: as if cos_faa returned the new count.
MutantBlock(t) ==
  /\ Calls(t, Blocker) /\ cnt[t] >= 1 /\ UNCHANGED timeout
  /\ LET c == [cnt EXCEPT ![t] = @ - 1]
     IN  IF c[t] = 1
         THEN sl_cs_exit_schedule([state EXCEPT ![t] = "BLOCKED"], c, Without(runq, t), sleepq, wakeup)
         ELSE sl_cs_exit_schedule(state, c, runq, sleepq, wakeup)
  /\ call' = [call EXCEPT ![t] = <<"block", 0>>]
  /\ UNCHANGED <<now, last, woken>>

\* assert(cnt >= 1), and a thread that was woken does not block.
sl_thd_block(t) ==
  /\ Calls(t, Blocker) /\ cnt[t] >= 1
  /\ LET c == [cnt EXCEPT ![t] = @ - 1]
     IN  \/ /\ cnt[t] = 1 /\ state[t] = "WOKEN"
            /\ sl_cs_exit([state EXCEPT ![t] = "RUNNABLE"], c)
         \/ /\ cnt[t] = 1 /\ state[t] # "WOKEN" /\ UNCHANGED timeout
            /\ sl_cs_exit_schedule([state EXCEPT ![t] = "BLOCKED"], c, Without(runq, t), sleepq, wakeup)
         \/ /\ cnt[t] > 1 /\ UNCHANGED timeout
            /\ sl_cs_exit_schedule(state, c, runq, sleepq, wakeup)
  /\ call' = [call EXCEPT ![t] = <<"block", 0>>]
  /\ UNCHANGED <<now, last, woken>>

\* sl_thd_block_timeout_intern until instant x, by call k; assert(timeout_idx == -1).
sl_thd_block_timeout_intern(t, k, x) ==
  \/ /\ state[t] = "WOKEN" /\ sl_cs_exit([state EXCEPT ![t] = "RUNNABLE"], cnt)
     /\ call' = [call EXCEPT ![t] = Returned(0)] /\ woken' = [woken EXCEPT ![t] = 0]
  \/ /\ state[t] # "WOKEN" /\ t \notin sleepq
     /\ timeout' = [timeout EXCEPT ![t] = x]
     /\ sl_cs_exit_schedule([state EXCEPT ![t] = "BLOCKED_TIMEOUT"], cnt, Without(runq, t),
                            sleepq \cup {t}, [wakeup EXCEPT ![t] = 0])
     /\ call' = [call EXCEPT ![t] = <<k, x>>] /\ UNCHANGED woken

\* Without a timeout it is sl_thd_block.
sl_thd_block_timeout(t) ==
  \/ sl_thd_block(t)
  \/ /\ Calls(t, Sleeper) /\ cnt[t] < MaxCnt
     /\ \E x \in 1 .. MaxNow : sl_thd_block_timeout_intern(t, "timeout", x)
     /\ UNCHANGED <<now, last>>

\* The time of the next period counts even if the thread was woken early.
sl_thd_block_periodic(t) ==
  /\ Calls(t, Periodic) /\ cnt[t] < MaxCnt /\ last[t] + Window <= MaxNow
  /\ last' = IF state[t] = "WOKEN" THEN last ELSE [last EXCEPT ![t] = @ + Window]
  /\ sl_thd_block_timeout_intern(t, "periodic", last[t] + Window)
  /\ UNCHANGED now

\* How much later than its timeout the timeout module woke t
Elapsed(t) == wakeup[t] - timeout[t]

\* The thread runs again, and its call returns.
return(t) ==
  /\ curr = t /\ call[t][1] # "run"
  /\ call' = [call EXCEPT ![t] = Returned(
       IF @[1] = "block" \/ Elapsed(t) <= 0 THEN 0
       ELSE IF @[1] = "timeout" THEN Elapsed(t) ELSE Elapsed(t) \div Window + 1)]
  /\ woken' = [woken EXCEPT ![t] = IF @ > 0 THEN @ - 1 ELSE 0]
  /\ UNCHANGED <<now, timer, curr, state, cnt, runq, sleepq, timeout, wakeup, last>>

\* sl_thd_wakeup_no_cs_rm of u
Wake(u, sq) ==
  /\ UNCHANGED timeout
  /\ sl_cs_exit_schedule([state EXCEPT ![u] = "RUNNABLE"], [cnt EXCEPT ![u] = @ + 1],
                         AtFront(runq, u), sq, wakeup)

\* sl_thd_wakeup: a thread that has not blocked yet is marked.  The threads of a chain
\* are woken by the MCA on its own core only.
sl_thd_wakeup(t) ==
  /\ Calls(t, Waker)
  /\ \E u \in Thread \ ({t, Idle} \cup Remote) :
       /\ state[u] # "FREE" /\ cnt[u] < MaxCnt
       /\ \/ Runnable(u) /\ sl_cs_exit([state EXCEPT ![u] = "WOKEN"], cnt)
          \/ ~Runnable(u) /\ Wake(u, sleepq \ {u})
       /\ woken' = [woken EXCEPT ![u] = IF state[u] = "WOKEN" THEN @ ELSE @ + 1]
  /\ UNCHANGED <<now, last, call>>

\* sl_thd_yield, which puts the idle thread in its queue
sl_thd_yield(t) ==
  /\ Calls(t, Thread)
  /\ UNCHANGED timeout /\ sl_cs_exit_schedule(state, cnt, AtEnd(runq, t), sleepq, wakeup)
  /\ UNCHANGED <<now, last, call, woken>>

\* Mutant: the thread stays in its list.
MutantFree(t) ==
  /\ Calls(t, Leaver)
  /\ \E u \in Thread \ {Idle} :
       /\ state[u] # "FREE" /\ UNCHANGED timeout
       /\ \/ u = t /\ sl_cs_exit_schedule([state EXCEPT ![u] = "FREE"], cnt, runq, sleepq, wakeup)
          \/ u # t /\ sl_cs_exit_schedule([state EXCEPT ![u] = "FREE"], cnt, runq, sleepq \ {u}, wakeup)
  /\ UNCHANGED <<now, last, call, woken>>

\* sl_thd_free of u, or of the caller itself, which does not come back
sl_thd_free(t) ==
  /\ Calls(t, Leaver)
  /\ \E u \in Thread \ {Idle} :
       LET s  == [state EXCEPT ![u] = "FREE"]
           sq == IF state[u] = "BLOCKED_TIMEOUT" THEN sleepq \ {u} ELSE sleepq
       IN  /\ state[u] # "FREE"
           /\ \/ u = t /\ UNCHANGED timeout /\ sl_cs_exit_schedule(s, cnt, Without(runq, u), sq, wakeup)
              \/ /\ u # t /\ state' = s /\ runq' = Without(runq, u) /\ sleepq' = sq
                 /\ UNCHANGED <<timer, curr, cnt, timeout, wakeup>>
  /\ UNCHANGED <<now, last, call, woken>>

-----------------------------------------------------------------------------
(* The scheduler thread.                                                    *)

\* It runs when the timer fires or another event comes, and chooses.
sl_sched_loop ==
  /\ UNCHANGED timeout /\ sl_cs_exit_schedule(state, cnt, runq, sleepq, wakeup)
  /\ UNCHANGED <<now, last, call, woken>>

\* SL_XCPU_THD_WAKEUP: another core wakes u, which stays in the timeout heap.
sl_xcpu_process(u) ==
  /\ u \in Remote /\ state[u] # "FREE" /\ cnt[u] < MaxCnt
  /\ Wake(u, sleepq)
  /\ woken' = [woken EXCEPT ![u] = @ + 1]
  /\ UNCHANGED <<now, last, call>>

tick ==
  /\ now < MaxNow /\ now' = now + 1
  /\ UNCHANGED <<timer, curr, state, cnt, runq, sleepq, timeout, wakeup, last, call, woken>>

Step(t) ==
  \/ sl_thd_block(t) \/ sl_thd_block_timeout(t) \/ sl_thd_block_periodic(t) \/ return(t)
  \/ sl_thd_wakeup(t) \/ sl_thd_yield(t) \/ sl_thd_free(t)

Next == (\E t \in Thread : Step(t) \/ sl_xcpu_process(t)) \/ sl_sched_loop \/ tick

Spec == Init /\ [][Next]_vars

\* Time passes, and the timer keeps waking the scheduler.
LiveSpec == Spec /\ WF_vars(tick) /\ WF_vars(sl_sched_loop)

-----------------------------------------------------------------------------
TypeOK ==
  /\ now \in 1 .. MaxNow /\ timer \in 1 .. MaxNow + Period /\ curr \in Thread
  /\ state \in [Thread -> {"FREE", "BLOCKED", "BLOCKED_TIMEOUT", "WOKEN", "RUNNABLE"}]
  /\ cnt \in [Thread -> Nat] /\ sleepq \subseteq Thread
  /\ \A p \in DOMAIN runq : runq[p] \in Seq({t \in Thread : Prio(t) = p})
  /\ timeout \in [Thread -> Nat] /\ wakeup \in [Thread -> 0 .. MaxNow]
  /\ last \in [Thread -> Nat] /\ woken \in [Thread -> Nat]
  /\ \A t \in Thread : call[t][1] \in {"run", "block", "timeout", "periodic"} /\ call[t][2] \in Nat

\* After any sequence of calls a thread is in its run queue, once, just when it is
\* runnable, and in the timeout heap just when it sleeps.  So the assertions on its index
\* in the heap (sl_timeout_block, sl_timeout_remove) and on wakeup_cycs hold.
Queues ==
  /\ \A p \in DOMAIN runq : IsInjective(runq[p])
  /\ \A t \in Thread \ {Idle} :
       /\ Runnable(t) <=> Contains(runq[Prio(t)], t)
       /\ state[t] = "BLOCKED_TIMEOUT" <=> t \in sleepq
  /\ \A t \in sleepq : wakeup[t] = 0

\* However late the scheduler runs, the timer does not drift.
NoDrift == (timer - 1) % Period = 0

\* "0 if the thread is woken up by external events before timeout, +ve - number of
\* cycles elapsed": a call with a timeout, of either kind, returns before it only if
\* somebody woke the thread, and after it no more than what has elapsed.
Result ==
  [][\A t \in Thread :
       LET n == call'[t][2]
       IN  call[t][1] \in {"timeout", "periodic"} /\ call'[t][1] = "run" =>
             \/ n = 0 /\ woken[t] > 0
             \/ /\ now >= call[t][2]
                /\ call[t][1] = "timeout" => now >= call[t][2] + n
                /\ call[t][1] = "periodic" => now >= call[t][2] + (n - 1) * Window]_vars

\* A sleeping thread does not sleep forever.
WakesUp == \A t \in Thread : state[t] = "BLOCKED_TIMEOUT" ~> state[t] # "BLOCKED_TIMEOUT"

\* assert(cnt >= 1) of sl_thd_block
BlockCount == \A t \in Thread : Calls(t, Blocker) => cnt[t] >= 1

\* What the library keeps of a thread in four places agrees after any calls, and the
\* timer stays on its grid.
Bookkeeping == TypeOK /\ Queues /\ BlockCount /\ NoDrift

\* "just block the current thread": sl_thd_block returns at once only for a
\* wakeup that no call has answered yet.
JustBlock ==
  [][\A t \in Thread : call[t][1] = "run" /\ call'[t][1] = "block" /\ woken[t] = 0 => state'[t] = "BLOCKED"]_vars

\* Does not hold (README 3.3).
\* assert(t->timeout_idx == -1) of sl_timeout_block
NotInHeap == \A t \in Thread : Calls(t, Sleeper) /\ state[t] = "RUNNABLE" => t \notin sleepq

\* Does not hold (README 3.3).
\* "1 if it wokeup exactly at timeout = next period"
ExactPeriod ==
  [][\A t \in Thread :
       call[t][1] = "periodic" /\ call'[t][1] = "run" /\ wakeup[t] = call[t][2] => call'[t][2] = 1]_vars
=============================================================================
