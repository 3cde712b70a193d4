----------------------------- MODULE DreadThread -----------------------------
(***************************************************************************)
(* The coroutine threads of ports/dreadthread (dread.c on the chains of    *)
(* dread_chain.c): one run queue, semaphores, events, and a topmost thread *)
(* that gives stacks to new threads.                                       *)
(*                                                                         *)
(* A library routine is a sequence of operations (what dread.c calls       *)
(* ..._no_yield, and the yields between them).  Only the current thread    *)
(* runs; it changes when an operation yields or sleeps, so that todo, what *)
(* is left of the routine a thread is in, is the thread's saved context.   *)
(*                                                                         *)
(* The clients use semaphores as locks, the way test.c does: they drop     *)
(* what they took, wait for an event with its lock while a flag that the   *)
(* lock protects is not set, and broadcast when they have set it.          *)
(***************************************************************************)
EXTENDS Naturals, Sequences, FiniteSets

CONSTANTS Thread,     \* the thread descriptors of the program
          Main,       \* the one it passes to dthr_thread_multithread
          Topmost,    \* dthr_topmost_thread
          Nobody,     \* no thread runs: dthr_thread_multithread has returned
          Lock,       \* the semaphores of the program
          Initial,    \* and their dthr_semaphore_init values: 1 for a lock
          Event,      \* its events
          LockOf,     \* event -> the lock it is waited for with
          StackSize,  \* thread -> the stack size it asks for
          NoStack,    \* the thread has no stack
          MaxStacks   \* bound: the stacks that are allocated

ASSUME DreadThreadAssumption ==
    /\ IsFiniteSet(Thread)
    /\ Lock \cap (Event \cup Thread) = {} /\ Event \cap Thread = {}
    /\ {"runq", "newq", "newq_sema", "newq_event"} \cap (Lock \cup Event \cup Thread) = {}
    /\ Main \in Thread /\ Topmost \notin Thread /\ Nobody \notin Thread \cup {Topmost}
    /\ Initial \in [Lock -> Nat] /\ LockOf \in [Event -> Lock]
    /\ StackSize \in [Thread -> Nat]
    /\ MaxStacks \in Nat /\ NoStack \notin Nat

All == Thread \cup {Topmost}

\* The semaphores: of the program, of the new-thread queue, and the exit_sema of
\* a thread, which goes by the name of the thread.  All of them, the events and
\* the queues are anchors of chains.
Guard == Lock \cup {"newq_sema"}
Sema  == Guard \cup Thread
Evt   == Event \cup {"newq_event"}
Chain == {"runq", "newq"} \cup Sema \cup Evt

VARIABLES cur,      \* dthr_cur_thread
          chain,    \* anchor -> the threads that are linked to it
          value,    \* semaphore -> its count
          state,    \* thread -> its state
          todo,     \* thread -> the operations left of the routine it is in
          stack,    \* thread -> the stack it is bound to
          size,     \* the stacks that were allocated: their sizes
          free,     \* dthr_free_stacks
          onExit,   \* thread -> its exit functions: the locks they drop
          held,     \* history: which thread has which lock
          ready,    \* event -> the flag its waiters look at
          detached  \* the first thread has detached itself

threads == <<state, stack, size, free>>
client  == <<onExit, ready, detached>>
vars    == <<cur, chain, value, state, todo, stack, size, free, onExit, held, ready, detached>>

State == {"none", "runnable", "sema_wait", "event_wait", "exited"}

\* Threads that were run and have not exited.
Alive == {t \in Thread : state[t] \in {"runnable", "sema_wait", "event_wait"}}

-----------------------------------------------------------------------------
(* The operations, and the routines made of them *)

Yield      == <<"yield", "cpu">>
Take(s)    == <<"take", s>>
Drop(s)    == <<"drop", s>>
Wait(e, l) == <<"wait", <<e, l>>>>
Signal(e)  == <<"signal", e>>
Wake(e)    == <<"broadcast", e>>
Enqueue(t) == <<"enqueue", t>>
Fork(t)    == <<"fork", t>>
Launch     == <<"launch", Topmost>>
Exit       == <<"exit", Nobody>>

Operation == {Yield, Launch, Exit}
    \cup {Take(s) : s \in Sema} \cup {Drop(s) : s \in Sema}
    \cup {Wait(e, l) : e \in Evt, l \in Guard}
    \cup {Signal(e) : e \in Evt} \cup {Wake(e) : e \in Evt}
    \cup {Enqueue(t) : t \in Thread} \cup {Fork(t) : t \in Thread}

\* "yield -before- taking the semaphore!"
dthr_semaphore_take(s)  == <<Yield, Take(s)>>
dthr_semaphore_drop(s)  == <<Drop(s), Yield>>
dthr_event_wait(e, l)   == <<Wait(e, l), Take(l)>>
dthr_event_signal(e)    == <<Signal(e), Yield>>
dthr_event_broadcast(e) == <<Wake(e), Yield>>
dthr_thread_run(t)      == <<Take("newq_sema"), Enqueue(t), Signal("newq_event"),
                             Drop("newq_sema"), Yield>>
dthr_thread_wait(t)     == dthr_semaphore_take(t) \o dthr_semaphore_drop(t)
dthr_thread_detach(t)   == dthr_semaphore_drop(t)

\* The launcher takes the queue's lock, empties the queue and waits for more.
dthr_thread_launcher == <<Take("newq_sema"), Launch>>

-----------------------------------------------------------------------------
(* Running the operations *)

\* The current thread is at an operation of this kind, on x.
At(op, x) == cur # Nobody /\ todo[cur] # <<>> /\ Head(todo[cur]) = <<op, x>>
Done      == todo' = [todo EXCEPT ![cur] = Tail(@)]

\* The routine that u is in has this operation before it.
Pending(u, op) == \E i \in DOMAIN todo[u] : todo[u][i] = op

\* dthr_thread_sleep: to the first runnable thread; without one the program
\* goes back to where dthr_thread_multithread was called.
Sleep(c) ==
    IF c["runq"] = <<>>
    THEN cur' = Nobody /\ chain' = c
    ELSE cur' = Head(c["runq"]) /\ chain' = [c EXCEPT !["runq"] = Tail(@)]

\* The first thread of a queue, or all of them, become runnable.
Moved(c, q) == IF c[q] = <<>> THEN c
               ELSE [c EXCEPT !["runq"] = Append(@, Head(c[q])), ![q] = Tail(@)]
MovedAll(c, q) == [c EXCEPT !["runq"] = @ \o c[q], ![q] = <<>>]

Woken(c) == [t \in All |-> IF \E i \in DOMAIN c : c[i] = t THEN "runnable" ELSE state[t]]

\* Mutant: the thread that yields is pushed on the front of the run queue.
YieldInFront ==
    /\ At("yield", "cpu")
    /\ Done
    /\ IF chain["runq"] = <<>>
       THEN UNCHANGED <<cur, chain>>
       ELSE Sleep([chain EXCEPT !["runq"] = <<Head(@), cur>> \o Tail(@)])
    /\ UNCHANGED <<value, threads, client, held>>

DoYield ==
    /\ At("yield", "cpu")
    /\ Done
    /\ IF chain["runq"] = <<>>
       THEN UNCHANGED <<cur, chain>>
       ELSE Sleep([chain EXCEPT !["runq"] = Append(@, cur)])
    /\ UNCHANGED <<value, threads, client, held>>

\* dthr_semaphore_take_no_yield: a thread that is woken looks again.
DoTake(s) ==
    /\ At("take", s)
    /\ IF value[s] = 0
       THEN /\ Sleep([chain EXCEPT ![s] = Append(@, cur)])
            /\ state' = [state EXCEPT ![cur] = "sema_wait"]
            /\ UNCHANGED <<value, todo, held>>
       ELSE /\ value' = [value EXCEPT ![s] = @ - 1]
            /\ held' = held \cup {<<cur, s>>}
            /\ Done
            /\ UNCHANGED <<cur, chain, state>>
    /\ UNCHANGED <<stack, size, free, client>>

\* dthr_semaphore_drop_no_yield
DoDrop(s) ==
    /\ At("drop", s)
    /\ value' = [value EXCEPT ![s] = @ + 1]
    /\ chain' = Moved(chain, s)
    /\ state' = IF chain[s] = <<>> THEN state ELSE [state EXCEPT ![Head(chain[s])] = "runnable"]
    /\ held' = held \ {<<cur, s>>}
    /\ Done
    /\ UNCHANGED <<cur, stack, size, free, client>>

\* dthr_event_wait up to its sleep: the thread is in the queue of the event
\* before it drops the lock.
DoWait(e, l) ==
    /\ At("wait", <<e, l>>)
    /\ Done
    /\ value' = [value EXCEPT ![l] = @ + 1]
    /\ held' = held \ {<<cur, l>>}
    /\ state' = [t \in All |-> IF t = cur THEN "event_wait"
                               ELSE IF chain[l] # <<>> /\ t = Head(chain[l]) THEN "runnable"
                               ELSE state[t]]
    /\ Sleep(Moved([chain EXCEPT ![e] = Append(@, cur)], l))
    /\ UNCHANGED <<stack, size, free, client>>

\* dthr_eventq_to_runq, for one thread and for all of them.
DoSignal(e) ==
    /\ At("signal", e)
    /\ chain' = Moved(chain, e)
    /\ state' = IF chain[e] = <<>> THEN state ELSE [state EXCEPT ![Head(chain[e])] = "runnable"]
    /\ Done
    /\ UNCHANGED <<cur, value, stack, size, free, client, held>>

\* Mutant: a broadcast is a signal.
BroadcastToOne(e) ==
    /\ At("broadcast", e)
    /\ chain' = Moved(chain, e)
    /\ state' = IF chain[e] = <<>> THEN state ELSE [state EXCEPT ![Head(chain[e])] = "runnable"]
    /\ Done
    /\ UNCHANGED <<cur, value, stack, size, free, client, held>>

DoBroadcast(e) ==
    /\ At("broadcast", e)
    /\ chain' = MovedAll(chain, e)
    /\ state' = Woken(chain[e])
    /\ Done
    /\ UNCHANGED <<cur, value, stack, size, free, client, held>>

\* dthr_thread_run puts the thread on the queue of new threads.
DoEnqueue(t) ==
    /\ At("enqueue", t)
    /\ chain' = [chain EXCEPT !["newq"] = Append(@, t)]
    /\ Done
    /\ UNCHANGED <<cur, value, threads, client, held>>

-----------------------------------------------------------------------------
(* The launcher: the topmost thread *)

\* dthr_find_free_stack: the smallest stack that is larger than what the thread
\* asks for, the first of equal ones.  It stays on the list of free stacks.
Fitting(t) == {i \in DOMAIN free : size[free[i]] > StackSize[t]}
dthr_find_free_stack(t) ==
    free[CHOOSE i \in Fitting(t) :
            \A j \in Fitting(t) : \/ size[free[i]] < size[free[j]]
                                  \/ size[free[i]] = size[free[j]] /\ i <= j]

\* A thread gets a stack that is free and runs.
ReuseStack(t) ==
    /\ At("launch", Topmost)
    /\ chain["newq"] # <<>> /\ t = Head(chain["newq"]) /\ Fitting(t) # {}
    /\ stack' = [stack EXCEPT ![t] = dthr_find_free_stack(t)]
    /\ state' = [state EXCEPT ![t] = "runnable"]
    /\ chain' = [chain EXCEPT !["newq"] = Tail(@), !["runq"] = Append(@, t)]
    /\ UNCHANGED <<cur, value, todo, size, free, client, held>>

\* Or the launcher's own becomes the stack of the thread, and a new launcher
\* goes on above it (dthr_new_topmost_thread); for a while the thread is in no
\* queue.
NewStack(t) ==
    /\ At("launch", Topmost)
    /\ chain["newq"] # <<>> /\ t = Head(chain["newq"]) /\ Fitting(t) = {}
    /\ size' = Append(size, StackSize[t])
    /\ stack' = [stack EXCEPT ![t] = Len(size) + 1]
    /\ state' = [state EXCEPT ![t] = "runnable"]
    /\ chain' = [chain EXCEPT !["newq"] = Tail(@)]
    /\ todo' = [todo EXCEPT ![Topmost] = <<Drop("newq_sema"), Fork(t)>> \o dthr_thread_launcher]
    /\ UNCHANGED <<cur, value, free, client, held>>

DoFork(t) ==
    /\ At("fork", t)
    /\ chain' = [chain EXCEPT !["runq"] = Append(@, t)]
    /\ Done
    /\ UNCHANGED <<cur, value, threads, client, held>>

\* Mutant: one thread is launched, then the launcher waits for a signal.
LaunchOne ==
    /\ At("launch", Topmost)
    /\ chain["newq"] = <<>> \/ Len(size) > 0
    /\ todo' = [todo EXCEPT ![Topmost] = dthr_event_wait("newq_event", "newq_sema") \o <<Launch>>]
    /\ UNCHANGED <<cur, chain, value, threads, client, held>>

WaitForNew ==
    /\ At("launch", Topmost)
    /\ chain["newq"] = <<>>
    /\ todo' = [todo EXCEPT ![Topmost] = dthr_event_wait("newq_event", "newq_sema") \o <<Launch>>]
    /\ UNCHANGED <<cur, chain, value, threads, client, held>>

-----------------------------------------------------------------------------
(* dthr_thread_exit, and the same at the end of a thread's function *)

\* The exit functions are called, the last one that was added first.
ExitFunction ==
    /\ At("exit", Nobody)
    /\ onExit[cur] # <<>>
    /\ todo' = [todo EXCEPT ![cur] = dthr_semaphore_drop(Head(onExit[cur])) \o <<Exit>>]
    /\ onExit' = [onExit EXCEPT ![cur] = Tail(@)]
    /\ UNCHANGED <<cur, chain, value, threads, ready, detached, held>>

\* A link is in a chain once.
dthr_chain_delete(c, k) ==
    IF \A i \in DOMAIN c : c[i] # k THEN c
    ELSE LET p == CHOOSE i \in DOMAIN c : c[i] = k
         IN  [i \in 1 .. Len(c) - 1 |-> IF i < p THEN c[i] ELSE c[i + 1]]

\* The stack is freed when dthr_csw leaves it, for the last thread it is not.
DoExit ==
    /\ At("exit", Nobody)
    /\ onExit[cur] = <<>>
    /\ state' = [state EXCEPT ![cur] = "exited"]
    /\ todo' = [todo EXCEPT ![cur] = <<>>]
    /\ Sleep(chain)
    /\ IF chain["runq"] = <<>>
       THEN UNCHANGED <<stack, free>>
       ELSE /\ stack' = [stack EXCEPT ![cur] = NoStack]
            /\ free' = Append(dthr_chain_delete(free, stack[cur]), stack[cur])
    /\ UNCHANGED <<value, size, client, held>>

-----------------------------------------------------------------------------
(* The clients *)

Holds(s)  == <<cur, s>> \in held
DroppedAtExit(s) == \E i \in DOMAIN onExit[cur] : onExit[cur][i] = s
Client    == cur \in Thread /\ todo[cur] = <<>>
Call(ops) == Client /\ todo' = [todo EXCEPT ![cur] = ops]

CallYield ==
    /\ Call(<<Yield>>)
    /\ UNCHANGED <<cur, chain, value, threads, client, held>>

CallTake(l) ==
    /\ ~Holds(l)
    /\ Call(dthr_semaphore_take(l))
    /\ UNCHANGED <<cur, chain, value, threads, client, held>>

\* dthr_semaphore_try takes the semaphore if nothing has to be waited for.
CallTry(l) ==
    /\ Client /\ ~Holds(l)
    /\ value[l] > 0
    /\ value' = [value EXCEPT ![l] = @ - 1]
    /\ held' = held \cup {<<cur, l>>}
    /\ UNCHANGED <<cur, chain, todo, threads, client>>

\* Not a lock that an exit function will drop.
CallDrop(l) ==
    /\ Holds(l) /\ ~DroppedAtExit(l)
    /\ Call(dthr_semaphore_drop(l))
    /\ UNCHANGED <<cur, chain, value, threads, client, held>>

\* dthr_thread_on_exit, with a function that drops a lock.
CallOnExit(l) ==
    /\ Client /\ Holds(l) /\ ~DroppedAtExit(l)
    /\ onExit' = [onExit EXCEPT ![cur] = <<l>> \o @]
    /\ UNCHANGED <<cur, chain, value, todo, threads, ready, detached, held>>

\* "while (!all_go) dthr_event_wait(&go_eva, &go_sema)"
CallWait(e) ==
    /\ Holds(LockOf[e]) /\ ~ready[e]
    /\ Call(dthr_event_wait(e, LockOf[e]))
    /\ UNCHANGED <<cur, chain, value, threads, client, held>>

CallSignal(e) ==
    /\ Call(dthr_event_signal(e))
    /\ UNCHANGED <<cur, chain, value, threads, client, held>>

\* The flag is set with the lock, and announced after the lock was dropped.
CallOpen(e) ==
    /\ Holds(LockOf[e]) /\ ~ready[e] /\ ~DroppedAtExit(LockOf[e])
    /\ ready' = [ready EXCEPT ![e] = TRUE]
    /\ Call(dthr_semaphore_drop(LockOf[e]) \o dthr_event_broadcast(e))
    /\ UNCHANGED <<cur, chain, value, threads, onExit, detached, held>>

\* "dthr_thread_detach(dthr_thread_run(&th[i]))", after a dthr_thread_init of a
\* thread that does not run and nobody waits for.
CallRun(t) ==
    /\ state[t] \in {"none", "exited"} /\ chain[t] = <<>>
    /\ \A u \in All : ~Pending(u, Take(t)) /\ ~Pending(u, Drop(t))
    /\ Fitting(t) # {} \/ Len(size) + Cardinality({u \in Alive : stack[u] = NoStack}) < MaxStacks
    /\ Call(dthr_thread_run(t) \o dthr_thread_detach(t))
    /\ state' = [state EXCEPT ![t] = "runnable"]
    /\ stack' = [stack EXCEPT ![t] = NoStack]
    /\ value' = [value EXCEPT ![t] = 0]
    /\ UNCHANGED <<cur, chain, size, free, client, held>>

CallJoin(t) ==
    /\ t # cur /\ state[t] # "none"
    /\ Call(dthr_thread_wait(t))
    /\ UNCHANGED <<cur, chain, value, threads, client, held>>

\* The first thread is detached by itself.
CallDetach ==
    /\ cur = Main /\ ~detached
    /\ Call(dthr_thread_detach(Main))
    /\ detached' = TRUE
    /\ UNCHANGED <<cur, chain, value, threads, onExit, ready, held>>

\* A thread ends with no lock but those its exit functions drop.
CallExit ==
    /\ \A l \in Lock : Holds(l) => DroppedAtExit(l)
    /\ Call(<<Exit>>)
    /\ UNCHANGED <<cur, chain, value, threads, client, held>>

-----------------------------------------------------------------------------

\* In dthr_thread_multithread(Main), before the launcher takes its lock.
Init ==
    /\ cur = Topmost
    /\ chain = [q \in Chain |-> IF q = "newq" THEN <<Main>> ELSE <<>>]
    /\ value = [s \in Sema |-> IF s \in Lock THEN Initial[s] ELSE IF s = "newq_sema" THEN 1 ELSE 0]
    /\ state = [t \in All |-> IF t \in {Main, Topmost} THEN "runnable" ELSE "none"]
    /\ todo = [t \in All |-> IF t = Topmost THEN dthr_thread_launcher ELSE <<>>]
    /\ stack = [t \in Thread |-> NoStack]
    /\ size = <<>> /\ free = <<>>
    /\ onExit = [t \in Thread |-> <<>>]
    /\ held = {}
    /\ ready = [e \in Event |-> FALSE]
    /\ detached = FALSE

Synchronise ==
    \/ DoYield
    \/ \E s \in Sema : DoTake(s) \/ DoDrop(s)
    \/ \E e \in Evt : DoSignal(e) \/ DoBroadcast(e)
    \/ \E e \in Evt, l \in Guard : DoWait(e, l)

Launcher == WaitForNew \/ \E t \in Thread : DoEnqueue(t) \/ ReuseStack(t) \/ NewStack(t) \/ DoFork(t)

Calls ==
    \/ CallYield \/ CallDetach \/ CallExit
    \/ \E l \in Lock : CallTake(l) \/ CallTry(l) \/ CallDrop(l) \/ CallOnExit(l)
    \/ \E e \in Event : CallWait(e) \/ CallSignal(e) \/ CallOpen(e)
    \/ \E t \in Thread : CallRun(t) \/ CallJoin(t)

\* Two threads on one stack destroy each other: the model ends there.
StacksAreOwn == \A t, u \in Thread : stack[t] = stack[u] /\ stack[t] # NoStack => t = u

Next == StacksAreOwn /\ (Synchronise \/ Launcher \/ ExitFunction \/ DoExit \/ Calls)

Spec == Init /\ [][Next]_vars

\* The program goes on: its threads are coroutines of one process.
FairSpec == Spec /\ WF_vars(Next)

-----------------------------------------------------------------------------
(* Properties *)

InRunq(t)   == \E i \in DOMAIN chain["runq"] : chain["runq"][i] = t
CanRun(t)   == t = cur \/ InRunq(t)
\* The types of the state of dread.c; no count is below 0.
TypeOK ==
    /\ cur \in All \cup {Nobody}
    /\ chain \in [Chain -> Seq(All)]
    /\ value \in [Sema -> Nat]
    /\ state \in [All -> State]
    /\ todo \in [All -> Seq(Operation)]
    /\ size \in Seq(Nat) /\ stack \in [Thread -> Nat \cup {NoStack}]
    /\ free \in Seq(Nat)
    /\ onExit \in [Thread -> Seq(Lock)]
    /\ held \subseteq All \X Sema
    /\ ready \in [Event -> BOOLEAN] /\ detached \in BOOLEAN

\* A thread that waits for a flag that is set will be woken: the broadcast has
\* still to be made (dthr_event_wait is in the queue before it drops the lock).
NoForgottenWaiter ==
    \A e \in Event : ready[e] /\ chain[e] # <<>> =>
        \E t \in Thread : CanRun(t) /\ Pending(t, Wake(e))

\* dthr_thread_multithread returns when nothing can happen any more: every
\* thread that has not exited waits for an event or for a semaphore at 0.
EndIsDeadlock ==
    cur = Nobody =>
        /\ chain["runq"] = <<>> /\ chain["newq"] = <<>>
        /\ \A t \in Alive : \E q \in Sema \cup Evt :
               /\ \E i \in DOMAIN chain[q] : chain[q][i] = t
               /\ q \in Sema => value[q] = 0

\* A thread that can run has a stack, of at least the size it asked for, from
\* dthr_thread_launcher to its exit: dthr_csw goes to the stack of the thread it is
\* given and aborts if the current one has none.
RunsOnAStack ==
    \A t \in Thread : CanRun(t) => stack[t] # NoStack /\ size[stack[t]] >= StackSize[t]

\* The run queue is fair: whoever is in it runs.
RunnableRuns == \A t \in All : InRunq(t) ~> (cur = t)
=============================================================================
