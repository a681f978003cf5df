-------------------------------- MODULE SlCs --------------------------------
(***************************************************************************)
(* The critical section of the scheduling library on one core (sl.h,        *)
(* sl_sched.c) and the part of the kernel it works with (capinv.c).         *)
(*                                                                          *)
(* The word of the lock has an owner and a contention bit.  A thread that   *)
(* finds an owner sets the bit and asks the kernel to run the owner; an     *)
(* owner that finds the bit releases the lock and asks for the scheduler    *)
(* thread.  A thread may be preempted between any two steps, so what it     *)
(* read may be out of date when it asks for a switch: it takes a token      *)
(* first, and the kernel refuses a token older than the last one it saw.    *)
(*                                                                          *)
(* Only the order of tokens matters: toks has those that the kernel would   *)
(* accept, each named by who took it and for what, as an order: <<j, k>> is *)
(* in it if j and k are tokens of this kind and k is j or newer than j.     *)
(* Budgets of threads (-EPERM) and threads activated by a send are left     *)
(* out: the threads of a chain have no tcap of their own.  So are wakeups   *)
(* by threads of the same core: a chain is woken from other cores, and what *)
(* a call does to other threads is in SlThd.                                *)
(***************************************************************************)
EXTENDS Integers

CONSTANTS
  Worker,   \* threads of the core
  Idle,     \* idle_thd
  Sched,    \* sched_thd
  None,     \* no owner
  MaxEvent  \* bound: events for the scheduler (interrupts from devices, other cores)

ASSUME CsAssumption ==
  /\ Idle \notin Worker /\ Sched \notin Worker /\ Idle # Sched
  /\ None \notin Worker \cup {Idle, Sched} /\ MaxEvent \in Nat

Thread == Worker \cup {Idle, Sched}
Token == Thread \X {"cs", "act"}

VARIABLES
  curr,    \* the thread the core runs
  lock,    \* the word of the lock
  toks,    \* tokens that are not outdated, in their order
  run,     \* workers that are runnable
  pend,    \* events pending at the scheduler's receive end-point
  listed,  \* events on event_head
  ring,    \* requests of other cores
  events,  \* events and requests to come
  handled, \* history: events and requests processed
  pc,      \* where a thread is
  call,    \* the function of sl that it is in
  how,     \* how it leaves the critical section
  w,       \* cached: its copy of the word
  to,      \* the thread it chose to run next
  more     \* pending: did the last receive of the scheduler leave events?

kernel == <<pend, listed, ring, events, more, handled>>
local  == <<pc, call, how, w, to>>
vars   == <<curr, lock, toks, run, kernel, local>>

Free == [owner |-> None, contention |-> FALSE]

\* sl_init, before the scheduler thread enters its loop
Init ==
  /\ curr = Sched /\ lock = Free /\ toks = {}
  /\ run = Worker
  /\ pend = 0 /\ listed = 0 /\ ring = 0 /\ events = MaxEvent /\ more = FALSE /\ handled = 0
  /\ pc = [t \in Thread |-> IF t = Sched THEN "rcv" ELSE "user"]
  /\ call = [t \in Thread |-> "none"]
  /\ how = [t \in Thread |-> "exit"]
  /\ w = [t \in Thread |-> Free]
  /\ to = [t \in Thread |-> Idle]

-----------------------------------------------------------------------------
(* Pieces of steps.                                                         *)

At(t, l) == curr = t /\ pc[t] = l
Goto(t, l) == pc' = [pc EXCEPT ![t] = l]

\* The token of t for its next switch, and the one it chose a thread under.
Cs(t) == <<t, "cs">>
Act(t) == <<t, "act">>

Valid(k) == <<k, k>> \in toks

Without(k) == {p \in toks : p[1] # k /\ p[2] # k}

\* cos_sched_sync: k is the newest token now.
Take(k) == toks' = Without(k) \cup {<<j, k>> : j \in {k} \cup {p[1] : p \in toks}}
\* k will not be used.
Drop(k) == toks' = Without(k)

\* Mutant: the kernel does not remember the token.
MutantAccept(k) == toks' = Without(k)

\* cap_sched_tok_validate: k and older tokens are outdated now.
Accept(k) == toks' = {p \in toks : p[1] # k /\ <<k, p[1]>> \in toks}

\* cap_thd_op: t asks with token k for thread n.  It goes on at l when it runs again, at
\* again if the token is outdated, and the scheduler at busy if it has events.
Switch(t, k, n, l, again, busy) ==
  \/ ~Valid(k) /\ Goto(t, again) /\ UNCHANGED <<curr, toks>>
  \/ /\ Valid(k) /\ Accept(k)
     /\ \/ pend > 0 /\ t = Sched /\ Goto(t, busy) /\ UNCHANGED curr
        \/ pend > 0 /\ t # Sched /\ Goto(t, l) /\ curr' = Sched
        \/ pend = 0 /\ Goto(t, l) /\ curr' = n

\* ps_cas of the word from the copy of t to v
Cas(t, v, l, retry) ==
  IF lock = w[t] THEN lock' = v /\ Goto(t, l) ELSE Goto(t, retry) /\ UNCHANGED lock

\* The copy of the word, the choice and the call are forgotten when they are used up.
Forget(t) == w' = [w EXCEPT ![t] = Free]
Return(t) == call' = [call EXCEPT ![t] = IF pc'[t] \in {"user", "rcv", "loop"} THEN "none" ELSE @]

\* Where the scheduler goes on when sl_cs_enter_sched fails or its events are processed.
Skip == IF call[Sched] = "events" /\ ~more THEN "loop" ELSE "rcv"

\* Where t goes on after sl_cs_exit ...
AfterExit(t) == IF how[t] # "exit" THEN "activate" ELSE IF t = Sched THEN Skip ELSE "user"

\* ... and after a switch that took place.
AfterSwitch(t) == IF t = Sched THEN "rcv" ELSE "user"

-----------------------------------------------------------------------------
(* sl_cs_enter                                                              *)

enter_sync(t) ==
  /\ At(t, "tok") /\ Take(Cs(t)) /\ Goto(t, "load")
  /\ UNCHANGED <<curr, lock, run, kernel, call, how, w, to>>

\* Mutant: the test is for contention, not for an owner.
MutantLoad(t) ==
  /\ At(t, "load") /\ w' = [w EXCEPT ![t] = lock]
  /\ Goto(t, IF lock.contention THEN "help" ELSE "take")
  /\ UNCHANGED <<curr, lock, toks, run, kernel, call, how, to>>

enter_load(t) ==
  /\ At(t, "load") /\ w' = [w EXCEPT ![t] = lock]
  /\ \/ lock.owner = None /\ Goto(t, "take")
     \/ lock.owner # None /\ Goto(t, IF lock.contention THEN "help" ELSE "contend")
  /\ UNCHANGED <<curr, lock, toks, run, kernel, call, how, to>>

enter_take(t) ==
  /\ At(t, "take") /\ Cas(t, [w[t] EXCEPT !.owner = t], "cs", "tok") /\ Drop(Cs(t)) /\ Forget(t)
  /\ UNCHANGED <<curr, run, kernel, call, how, to>>

sl_cs_enter_contention(t) ==
  /\ At(t, "contend") /\ Cas(t, [w[t] EXCEPT !.contention = TRUE], "help", "tok")
  /\ UNCHANGED <<curr, toks, run, kernel, call, how, w, to>>

\* Mutant: wait for the owner without running it.
MutantSpin(t) ==
  /\ At(t, "help") /\ Goto(t, "tok")
  /\ Forget(t) /\ Return(t)
  /\ UNCHANGED <<curr, lock, toks, run, kernel, how, to>>

\* Mutant: the scheduler forgets its events when it cannot take the lock.
MutantForget(t) ==
  /\ At(t, "help") /\ Switch(t, Cs(t), w[t].owner, "tok", "tok", Skip)
  /\ Forget(t) /\ Return(t)
  /\ listed' = IF t = Sched /\ pc'[t] # "tok" THEN 0 ELSE listed
  /\ UNCHANGED <<lock, run, pend, ring, events, more, handled, how, to>>

\* Run the owner.  Whatever comes of it, try again, unless the scheduler has events.
enter_help(t) ==
  /\ At(t, "help") /\ Switch(t, Cs(t), w[t].owner, "tok", "tok", Skip)
  /\ Forget(t) /\ Return(t)
  /\ UNCHANGED <<lock, run, kernel, how, to>>

-----------------------------------------------------------------------------
(* In the critical section.                                                 *)

Leave(t, h) == how' = [how EXCEPT ![t] = h] /\ Goto(t, IF h = "exit" THEN "unlock" ELSE "sync")

\* sl_thd_block: if t was woken before, it does not block.
sl_thd_block(t) ==
  /\ call[t] = "block"
  /\ \/ run' = run \ {t} /\ Leave(t, "schedule")
     \/ run' = run /\ Leave(t, "schedule")
     \/ run' = run /\ Leave(t, "exit")
  /\ UNCHANGED to

sl_thd_yield(t) ==
  /\ call[t] = "yield" /\ Leave(t, "schedule") /\ UNCHANGED <<run, to>>

\* A thread whose switch was refused came back only to choose again.
again(t) ==
  /\ how[t] = "schedule" /\ Goto(t, "sync") /\ UNCHANGED <<run, to, how>>

cs_body(t) ==
  /\ At(t, "cs") /\ t \in Worker \cup {Idle}
  /\ \/ again(t)
     \/ /\ how[t] # "schedule"
        /\ sl_thd_block(t) \/ sl_thd_yield(t)
  /\ UNCHANGED <<curr, lock, toks, kernel, call, w>>

\* sl_xcpu_process_no_cs, by the scheduler after the listed events, or by sl_idle
sl_xcpu_process_no_cs(t) ==
  /\ At(t, "cs") /\ call[t] = "events"
  /\ ring' = 0 /\ listed' = IF t = Sched THEN 0 ELSE listed
  /\ handled' = handled + ring + IF t = Sched THEN listed ELSE 0
  /\ \E S \in SUBSET Worker : (ring = 0 => S = {}) /\ run' = run \cup S
  /\ Leave(t, "exit")
  /\ UNCHANGED <<curr, lock, toks, pend, events, more, call, w, to>>

\* The scheduler at the end of its loop
sched_schedule ==
  /\ At(Sched, "cs") /\ call[Sched] = "loop"
  /\ Leave(Sched, "schedule")
  /\ UNCHANGED <<curr, lock, toks, run, kernel, call, w, to>>

\* sl_cs_exit_schedule_nospin_arg: a token, then the choice of a thread.
schedule(t) ==
  /\ At(t, "sync") /\ Take(Act(t)) /\ Goto(t, "unlock")
  /\ \E n \in (IF run = {} THEN {Idle} ELSE run) : to' = [to EXCEPT ![t] = n]
  /\ UNCHANGED <<curr, lock, run, kernel, call, how, w>>

-----------------------------------------------------------------------------
(* sl_cs_exit, and the switch after it                                      *)

exit_sync(t) ==
  /\ At(t, "unlock") /\ Take(Cs(t)) /\ Goto(t, "xload")
  /\ UNCHANGED <<curr, lock, run, kernel, call, how, w, to>>

exit_load(t) ==
  /\ At(t, "xload") /\ w' = [w EXCEPT ![t] = lock]
  /\ Goto(t, IF lock.contention THEN "xcontend" ELSE "xcas")
  /\ UNCHANGED <<curr, lock, toks, run, kernel, call, how, to>>

exit_cas(t) ==
  /\ At(t, "xcas") /\ Cas(t, Free, AfterExit(t), "unlock") /\ Drop(Cs(t)) /\ Forget(t) /\ Return(t)
  /\ UNCHANGED <<curr, run, kernel, how, to>>

sl_cs_exit_contention(t) ==
  /\ At(t, "xcontend") /\ Cas(t, Free, "xswitch", "unlock") /\ Forget(t)
  /\ UNCHANGED <<curr, toks, run, kernel, call, how, to>>

\* Its result is ignored.
exit_switch(t) ==
  /\ At(t, "xswitch") /\ Switch(t, Cs(t), Sched, AfterExit(t), AfterExit(t), AfterExit(t))
  /\ Return(t)
  /\ UNCHANGED <<lock, run, kernel, how, w, to>>

\* sl_thd_activate.  If the token is outdated a worker chooses again and the scheduler
\* starts over.
activate(t) ==
  /\ At(t, "activate")
  /\ Switch(t, Act(t), to[t], AfterSwitch(t), IF t = Sched THEN "rcv" ELSE "tok", "rcv")
  /\ how' = [how EXCEPT ![t] = IF Valid(Act(t)) \/ t = Sched THEN "exit" ELSE "schedule"]
  /\ to' = [to EXCEPT ![t] = Idle] /\ Return(t)
  /\ UNCHANGED <<lock, run, kernel, w>>

-----------------------------------------------------------------------------
(* Outside the critical section.                                            *)

\* A thread calls sl; sl_idle looks at the ring and yields.
Calls(t) ==
  IF t = Idle THEN {"yield"} \cup IF ring > 0 THEN {"events"} ELSE {}
  ELSE {"block", "yield"}

user(t) ==
  /\ At(t, "user") /\ t # Sched
  /\ \E c \in Calls(t) : call' = [call EXCEPT ![t] = c]
  /\ Goto(t, "tok")
  /\ UNCHANGED <<curr, lock, toks, run, kernel, how, w, to>>

\* cos_sched_rcv and sl_thd_event_enqueue.  Without events the end-point of the first
\* scheduler of a core returns at once.
sched_rcv ==
  /\ At(Sched, "rcv")
  /\ pend' = IF pend > 0 THEN pend - 1 ELSE 0
  /\ more' = (pend > 1) /\ listed' = IF pend > 0 THEN listed + 1 ELSE listed
  /\ IF listed' > 0 \/ ring > 0
     THEN call' = [call EXCEPT ![Sched] = "events"] /\ Goto(Sched, "tok")
     ELSE UNCHANGED call /\ Goto(Sched, IF more' THEN "rcv" ELSE "loop")
  /\ UNCHANGED <<curr, lock, toks, run, ring, events, handled, how, w, to>>

sched_loop ==
  /\ At(Sched, "loop") /\ call' = [call EXCEPT ![Sched] = "loop"] /\ Goto(Sched, "tok")
  /\ UNCHANGED <<curr, lock, toks, run, kernel, how, w, to>>

\* timer_process: the scheduler preempts whatever runs.
timer_process ==
  /\ curr # Sched /\ curr' = Sched
  /\ UNCHANGED <<lock, toks, run, kernel, local>>

\* An interrupt (cap_hw_asnd) adds an event and may preempt; another core adds a request.
arrive ==
  /\ events > 0 /\ events' = events - 1
  /\ \/ pend' = pend + 1 /\ curr' \in {curr, Sched} /\ UNCHANGED ring
     \/ ring' = ring + 1 /\ UNCHANGED <<curr, pend>>
  /\ UNCHANGED <<lock, toks, run, listed, more, handled, local>>

Step(t) ==
  \/ enter_sync(t) \/ enter_load(t) \/ enter_take(t) \/ sl_cs_enter_contention(t) \/ enter_help(t)
  \/ cs_body(t) \/ sl_xcpu_process_no_cs(t) \/ schedule(t)
  \/ exit_sync(t) \/ exit_load(t) \/ exit_cas(t) \/ sl_cs_exit_contention(t) \/ exit_switch(t)
  \/ activate(t) \/ user(t)
  \/ t = Sched /\ (sched_rcv \/ sched_loop \/ sched_schedule)

Next == (\E t \in Thread : Step(t)) \/ timer_process \/ arrive

Spec == Init /\ [][Next]_vars

\* A thread that runs again and again takes a step.  The timer keeps coming, and not
\* only while some thread is in the critical section: it does not follow what they do.
Fairness ==
  /\ \A t \in Thread : SF_vars(Step(t))
  /\ SF_vars(timer_process /\ lock.owner = None)
LiveSpec == Spec /\ Fairness

-----------------------------------------------------------------------------
Word == [owner : Thread \cup {None}, contention : BOOLEAN]
Labels == {"user", "rcv", "loop", "tok", "load", "take", "contend", "help", "cs", "sync",
           "unlock", "xload", "xcas", "xcontend", "xswitch", "activate"}

TypeOK ==
  /\ curr \in Thread /\ lock \in Word
  /\ toks \subseteq Token \X Token /\ run \subseteq Worker
  /\ pend \in 0 .. MaxEvent /\ ring \in 0 .. MaxEvent /\ events \in 0 .. MaxEvent
  /\ listed \in Nat /\ handled \in Nat /\ more \in BOOLEAN
  /\ pc \in [Thread -> Labels]
  /\ how \in [Thread -> {"exit", "schedule"}]
  /\ w \in [Thread -> Word] /\ to \in [Thread -> Thread]

\* The places where a thread has the critical section.
InCs(t) == pc[t] \in {"cs", "sync", "unlock", "xload", "xcas", "xcontend"}

\* Wherever threads are preempted, at most one of them is between sl_cs_enter and
\* sl_cs_exit, and it is the owner of the word: assert(sl_cs_owner()) of sl_cs_exit and
\* the assertion against recursion in sl_cs_enter_contention hold.  The bit is never set
\* on a word without an owner, which would make the next owner's release look contended.
Exclusion ==
  /\ TypeOK
  /\ \A t \in Thread : InCs(t) <=> lock.owner = t
  /\ lock.contention => lock.owner # None

\* "If these values are out of date, the scheduler synchronization tok will catch it":
\* a thread that asked for a switch, was preempted and runs again never gets a switch to
\* a thread that is no longer runnable, or to an owner that has released the lock.
SwitchTo ==
  [][curr' # curr => curr' \in run \cup {Sched, Idle, lock.owner}]_vars

\* "To avoid dropping events, add the events to the scheduler event list": however often the
\* scheduler fails to take the critical section (-EBUSY), as many events as have come are
\* processed in it, in the end, and so are the requests of other cores, there or by sl_idle.
EventsProcessed == \A n \in 1 .. MaxEvent : MaxEvent - events >= n ~> handled >= n

\* The scheduler gets the critical section again and again, whoever is preempted in it.
SchedEnters == []<>(pc[Sched] = "cs")

\* Does not hold (README 3.3).
\* sl_cs_exit: "switch to the scheduler thread if there is pending contention"
ContendedExit ==
  [][\A t \in Thread : pc[t] = "xswitch" /\ pc'[t] # "xswitch" => curr' = Sched]_vars
=============================================================================
