---------------------------- MODULE SoScheduler ----------------------------
(***************************************************************************)
(* The user-level round-robin scheduler of Thread Scheduler/               *)
(* so_scheduler.c, at the grain of its API calls.                          *)
(*                                                                         *)
(* A thread that calls the library runs the call up to the sem_wait() that *)
(* gives the processor away, or to the return; that stretch of code is one *)
(* action here, and the thread's later return from sem_wait() is another   *)
(* (SemWait).                                                              *)
(*                                                                         *)
(* No lock makes a call one step.  What does is a convention of the        *)
(* clients: no handler forks a thread of a higher priority than its own,   *)
(* and main() calls the library only while no thread can run.              *)
(* SoSchedulerSteps models the same calls statement by statement and shows *)
(* both sides: clients that keep to the convention have one pthread at a   *)
(* time in the library, and a fork upward leaves two there.                *)
(***************************************************************************)
EXTENDS PriorityQueue, FiniteSets

CONSTANTS SO_MAX_PRIO,         \* the highest priority so_fork() accepts
          SO_MAX_NUM_EVENTS,   \* the most devices so_init() accepts
          MaxQuantum           \* bound: the largest quantum a client asks for

ASSUME LimitsAssumption ==
    /\ SO_MAX_PRIO \in Nat
    /\ SO_MAX_NUM_EVENTS \in Nat
    /\ MaxQuantum \in Nat \ {0}

VARIABLES
    quantum,   \* scheduler->time_quantum; 0 stands for scheduler == NULL
    io,        \* scheduler->io
    threads,   \* scheduler->threads, with its length n
    pq,        \* scheduler->pq
    running,   \* scheduler->running_thread
    prio,      \* thread->priority
    state,     \* thread->state
    left,      \* thread->time_quantum
    event,     \* thread->event
    sem,       \* the value of thread->semaphore
    at,        \* where the pthread is: in sem_wait(), in its handler, gone
    main,      \* whether the main thread is in so_end()
    joined,    \* how many pthread_join()s so_end() has made
    ret        \* the latest API call, its argument and value, or that it was refused

vars == << quantum, io, threads, pq, running, prio, state, left, event, sem,
           at, main, joined, ret >>

Priorities == 0 .. SO_MAX_PRIO
Devices    == 0 .. SO_MAX_NUM_EVENTS - 1
NoEvent    == -1
States     == {"NEW", "READY", "RUNNING", "WAITING", "TERMINATED"}
Operations == {"none", "so_init", "so_fork", "so_wait", "so_signal",
               "so_exec", "so_end"}

Answer(op, arg, value) == [op |-> op, arg |-> arg, value |-> value]
NoAnswer == Answer("none", 0, 0)
Refused  == Answer("none", 0, -1)

TypeOK ==
    /\ quantum \in 0 .. MaxQuantum
    /\ io \in 0 .. SO_MAX_NUM_EVENTS
    /\ threads \in Seq(Threads)
    /\ pq \in Seq(Threads)
    /\ running \in Threads \cup {NULL}
    /\ prio \in [Threads -> Priorities]
    /\ state \in [Threads -> States]
    /\ left \in [Threads -> 0 .. MaxQuantum]
    /\ event \in [Threads -> Devices \cup {NoEvent}]
    /\ sem \in [Threads -> Nat]
    /\ at \in [Threads -> {"none", "blocked", "run", "exited"}]
    /\ main \in {"client", "join"}
    /\ joined \in Nat
    /\ ret \in [op : Operations, arg : Nat, value : Int]

Init ==
    /\ quantum = 0 /\ io = 0
    /\ threads = << >> /\ pq = << >> /\ running = NULL
    /\ prio = [t \in Threads |-> 0]
    /\ state = [t \in Threads |-> "NEW"]
    /\ left = [t \in Threads |-> 0]
    /\ event = [t \in Threads |-> NoEvent]
    /\ sem = [t \in Threads |-> 0]
    /\ at = [t \in Threads |-> "none"]
    /\ main = "client" /\ joined = 0
    /\ ret = NoAnswer

-----------------------------------------------------------------------------
(* Parts of the library that more than one call goes through.              *)

(* The code that calls the library: the handler of the running thread, or  *)
(* main() while no thread is running (client convention: main() leaves the *)
(* processor to the threads it has started).                               *)
ThreadCalls == quantum # 0 /\ running # NULL /\ at[running] = "run"
MainCalls   == quantum # 0 /\ running = NULL /\ main = "client"

(* A mistaken check_preempt() that makes a thread the running one without  *)
(* taking it off the queue.                                                *)
DispatchWithoutDequeue(q, st, sm) ==
    LET n == FrontThread(q, st) IN
    /\ running' = n
    /\ pq' = q
    /\ state' = IF n = NULL THEN st ELSE [st EXCEPT ![n] = "RUNNING"]
    /\ sem' = IF n = NULL THEN sm ELSE [sm EXCEPT ![n] = @ + 1]

(* A mistaken check_preempt() that forgets the sem_post().                 *)
DispatchWithoutPost(q, st, sm) ==
    LET n == FrontThread(q, st) IN
    /\ running' = n
    /\ pq' = Dequeue(q, st)
    /\ state' = IF n = NULL THEN st ELSE [st EXCEPT ![n] = "RUNNING"]
    /\ sem' = sm

(* check_preempt(front(pq)) when no thread is running, from queue q, thread *)
(* states st and semaphores sm: the front thread becomes the running one    *)
(* and its semaphore is posted; without a front thread nothing happens.     *)
Dispatch(q, st, sm) ==
    LET n == FrontThread(q, st) IN
    /\ running' = n
    /\ pq' = Dequeue(q, st)
    /\ state' = IF n = NULL THEN st ELSE [st EXCEPT ![n] = "RUNNING"]
    /\ sem' = IF n = NULL THEN sm ELSE [sm EXCEPT ![n] = @ + 1]

(* A mistaken so_exec() that does not give an expired thread a new quantum. *)
ChargeWithoutReset(r, q, pr, st, sm, lf) ==
    /\ left' = [lf EXCEPT ![r] = @ - 1]
    /\ IF lf[r] - 1 # 0
       THEN running' = r /\ pq' = q /\ state' = st /\ sem' = sm
       ELSE Dispatch(Enqueue(q, pr, r), [st EXCEPT ![r] = "READY"], sm)

(* A mistaken so_exec() that never looks at the quantum.                    *)
ChargeNothing(r, q, pr, st, sm, lf) ==
    left' = lf /\ running' = r /\ pq' = q /\ state' = st /\ sem' = sm

(* so_exec() for the running thread r: one unit of its quantum; with the   *)
(* last one it gets a new quantum, goes back to the queue and the front    *)
(* thread is dispatched.                                                   *)
Charge(r, q, pr, st, sm, lf) ==
    IF lf[r] - 1 # 0
    THEN /\ left' = [lf EXCEPT ![r] = @ - 1]
         /\ running' = r /\ pq' = q /\ state' = st /\ sem' = sm
    ELSE /\ left' = [lf EXCEPT ![r] = quantum]
         /\ Dispatch(Enqueue(q, pr, r), [st EXCEPT ![r] = "READY"], sm)

-----------------------------------------------------------------------------
(* so_init() and so_end(), called by main().                               *)

SoInit(tq, n) ==
    /\ quantum = 0 /\ main = "client"
    /\ tq > 0 /\ n <= SO_MAX_NUM_EVENTS
    /\ quantum' = tq /\ io' = n
    /\ threads' = << >> /\ pq' = << >> /\ running' = NULL
    /\ ret' = Answer("so_init", n, 0)
    /\ UNCHANGED << prio, state, left, event, sem, at, main, joined >>

SoInitRefused(tq, n) ==
    /\ quantum = 0 \/ MainCalls
    /\ ~(tq > 0 /\ n <= SO_MAX_NUM_EVENTS /\ quantum = 0)
    /\ ret' = Refused
    /\ UNCHANGED << quantum, io, threads, pq, running, prio, state, left,
                    event, sem, at, main, joined >>

(* main() enters so_end() and waits for the threads one after another.     *)
SoEnd ==
    /\ quantum # 0 /\ main = "client"
    /\ main' = "join" /\ joined' = 0
    /\ ret' = NoAnswer
    /\ UNCHANGED << quantum, io, threads, pq, running, prio, state, left,
                    event, sem, at >>

Join ==
    /\ main = "join" /\ joined < Len(threads)
    /\ at[threads[joined + 1]] = "exited"
    /\ joined' = joined + 1
    /\ UNCHANGED << quantum, io, threads, pq, running, prio, state, left,
                    event, sem, at, main, ret >>

(* A mistaken so_end() without its join loop.                              *)
AllJoinedAtOnce == main = "join"

AllJoined == main = "join" /\ joined = Len(threads)

(* The free() calls at the end of so_end(): the structures can be handed   *)
(* out again by the next create_thread().                                  *)
FreeAll ==
    /\ AllJoined
    /\ quantum' = 0 /\ io' = 0
    /\ threads' = << >> /\ pq' = << >> /\ running' = NULL
    /\ prio' = [t \in Threads |-> 0]
    /\ state' = [t \in Threads |-> "NEW"]
    /\ left' = [t \in Threads |-> 0]
    /\ event' = [t \in Threads |-> NoEvent]
    /\ sem' = [t \in Threads |-> 0]
    /\ at' = [t \in Threads |-> "none"]
    /\ main' = "client" /\ joined' = 0
    /\ ret' = Answer("so_end", 0, 0)

-----------------------------------------------------------------------------
(* so_fork()                                                               *)

ForkedPrio(t, p) == [prio EXCEPT ![t] = p]

(* create_thread(), sem_init(), pthread_create() and add_thread(): the new *)
(* pthread goes to the sem_wait() of thread_task().                        *)
Create(t, p) ==
    /\ at[t] = "none"
    /\ threads' = Append(threads, t)
    /\ prio' = ForkedPrio(t, p)
    /\ event' = [event EXCEPT ![t] = NoEvent]
    /\ ret' = Answer("so_fork", p, 1)
    /\ UNCHANGED << quantum, io, main, joined >>

(* The forked thread as schedule_thread() leaves it.                       *)
ForkedQueue(t, p) == Enqueue(pq, ForkedPrio(t, p), t)
ForkedStates(t)   == [state EXCEPT ![t] = "READY"]
ForkedSems(t)     == [sem EXCEPT ![t] = 0]
ForkedLeft(t)     == [left EXCEPT ![t] = quantum]

(* main() forks while no thread is running.                                *)
SoForkByMain(t, p) ==
    /\ MainCalls
    /\ Create(t, p)
    /\ left' = ForkedLeft(t)
    /\ Dispatch(ForkedQueue(t, p), ForkedStates(t), ForkedSems(t))
    /\ at' = [at EXCEPT ![t] = "blocked"]

(* The test of check_preempt() for its second branch, which hands the      *)
(* processor to the new thread before the caller has queued itself.        *)
Preempts(t, p) ==
    ForkedPrio(t, p)[running] < ForkedPrio(t, p)[FrontThread(ForkedQueue(t, p), ForkedStates(t))]

(* The running thread forks (client convention: a thread of no higher      *)
(* priority, so that Preempts is false).  The fork costs the caller a unit *)
(* of its quantum.                                                         *)
SoForkByThread(t, p) ==
    /\ ThreadCalls /\ p <= prio[running]
    /\ Create(t, p)
    /\ ~Preempts(t, p)
    /\ Charge(running, ForkedQueue(t, p), ForkedPrio(t, p), ForkedStates(t),
              ForkedSems(t), ForkedLeft(t))
    /\ at' = [at EXCEPT ![t] = "blocked",
                        ![running] = IF left[running] - 1 # 0
                                     THEN "run" ELSE "blocked"]

SoForkRefused(p) ==
    /\ ThreadCalls \/ MainCalls
    /\ p > SO_MAX_PRIO
    /\ ret' = Refused
    /\ UNCHANGED << quantum, io, threads, pq, running, prio, state, left,
                    event, sem, at, main, joined >>

-----------------------------------------------------------------------------
(* so_wait(), so_signal(), so_exec()                                       *)

(* A mistaken so_wait() that does not look for a thread to run instead.    *)
OthersInQueue == pq # << >>

(* Some thread can take the processor over from the running one.           *)
OthersReady == FrontThread(pq, state) # NULL

(* The running thread waits for device i; its place in the queue is kept   *)
(* with state WAITING.                                                     *)
SoWait(i) ==
    /\ ThreadCalls
    /\ i < io /\ OthersReady
    /\ event' = [event EXCEPT ![running] = i]
    /\ Dispatch(Enqueue(pq, prio, running),
                [state EXCEPT ![running] = "WAITING"], sem)
    /\ at' = [at EXCEPT ![running] = "blocked"]
    /\ ret' = Answer("so_wait", i, 0)
    /\ UNCHANGED << quantum, io, threads, prio, left, main, joined >>

SoWaitRefused(i) ==
    /\ ThreadCalls \/ MainCalls
    /\ i >= io \/ running = NULL \/ ~OthersReady
    /\ ret' = Refused
    /\ UNCHANGED << quantum, io, threads, pq, running, prio, state, left,
                    event, sem, at, main, joined >>

(* A mistaken so_signal() that stops at the first thread it wakes.         *)
FirstWaiter(i) ==
    LET k == SelectInSeq(pq, LAMBDA u : event[u] = i)
    IN  IF k = 0 THEN {} ELSE {pq[k]}

(* The threads of the queue that wait for device i.                        *)
Waiters(i) == {t \in Threads : InQueue(pq, t) /\ event[t] = i}

(* so_signal() wakes them all and yields: the caller goes behind the       *)
(* threads of its priority.                                                *)
SoSignal(i) ==
    /\ ThreadCalls
    /\ i < io
    /\ event' = [t \in Threads |->
                   IF t \in Waiters(i) THEN NoEvent ELSE event[t]]
    /\ Dispatch(Enqueue(pq, prio, running),
                [t \in Threads |->
                   IF t \in Waiters(i) \/ t = running THEN "READY"
                   ELSE state[t]],
                sem)
    /\ at' = [at EXCEPT ![running] = "blocked"]
    /\ ret' = Answer("so_signal", i, Cardinality(Waiters(i)))
    /\ UNCHANGED << quantum, io, threads, prio, left, main, joined >>

SoSignalRefused(i) ==
    /\ ThreadCalls \/ MainCalls
    /\ i >= io \/ running = NULL
    /\ ret' = Refused
    /\ UNCHANGED << quantum, io, threads, pq, running, prio, state, left,
                    event, sem, at, main, joined >>

SoExec ==
    /\ ThreadCalls
    /\ Charge(running, pq, prio, state, sem, left)
    /\ at' = [at EXCEPT ![running] = IF left[running] - 1 # 0
                                     THEN "run" ELSE "blocked"]
    /\ ret' = Answer("so_exec", 0, 0)
    /\ UNCHANGED << quantum, io, threads, prio, event, main, joined >>

(* main() calls so_exec() while no thread is running.                      *)
SoExecIdle ==
    /\ MainCalls
    /\ ret' = NoAnswer
    /\ UNCHANGED << quantum, io, threads, pq, running, prio, state, left,
                    event, sem, at, main, joined >>

-----------------------------------------------------------------------------
(* thread_task()                                                           *)

(* The pthread of t gets through the sem_wait() it is in.                  *)
SemWait(t) ==
    /\ at[t] = "blocked" /\ sem[t] > 0
    /\ sem' = [sem EXCEPT ![t] = @ - 1]
    /\ at' = [at EXCEPT ![t] = "run"]
    /\ UNCHANGED << quantum, io, threads, pq, running, prio, state, left,
                    event, main, joined, ret >>

(* The handler of the running thread returns.                              *)
ThreadReturn ==
    /\ ThreadCalls
    /\ Dispatch(pq, [state EXCEPT ![running] = "TERMINATED"], sem)
    /\ at' = [at EXCEPT ![running] = "exited"]
    /\ ret' = NoAnswer
    /\ UNCHANGED << quantum, io, threads, prio, left, event, main, joined >>

-----------------------------------------------------------------------------

(* Arguments a client passes, the first illegal one included.              *)
PriorityArgs == 0 .. SO_MAX_PRIO + 1
DeviceArgs   == 0 .. SO_MAX_NUM_EVENTS

MainNext ==
    \/ \E tq \in 0 .. MaxQuantum, n \in 0 .. SO_MAX_NUM_EVENTS + 1 :
         SoInit(tq, n) \/ SoInitRefused(tq, n)
    \/ SoEnd \/ Join \/ FreeAll
    \/ \E t \in Threads, p \in Priorities : SoForkByMain(t, p)
    \/ SoExecIdle

ThreadNext ==
    \/ \E t \in Threads, p \in Priorities : SoForkByThread(t, p)
    \/ \E p \in PriorityArgs : SoForkRefused(p)
    \/ \E i \in DeviceArgs :
         SoWait(i) \/ SoWaitRefused(i) \/ SoSignal(i) \/ SoSignalRefused(i)
    \/ SoExec
    \/ ThreadReturn

Next == MainNext \/ ThreadNext \/ \E t \in Threads : SemWait(t)

Spec == Init /\ [][Next]_vars

(* The kernel resumes a pthread whose semaphore was posted; a handler      *)
(* keeps executing generic instructions.                                   *)
Fairness ==
    /\ \A t \in Threads : WF_vars(SemWait(t))
    /\ WF_vars(SoExec)

FairSpec == Spec /\ Fairness

(* Handlers that end: a thread that runs again and again returns at last,  *)
(* and main() goes on when the thread it joins has exited.                 *)
Finishing ==
    /\ \A t \in Threads : SF_vars(running = t /\ ThreadReturn)
    /\ WF_vars(Join) /\ WF_vars(FreeAll)

-----------------------------------------------------------------------------
(* Properties                                                              *)

Live(t) == at[t] \in {"blocked", "run"}

(* so_fork(), so_wait(), so_signal() and so_exec() move threads between    *)
(* the queue and running_thread by hand: a thread that has not exited is   *)
(* the running thread or is in the queue exactly once, and no other thread *)
(* is in either.  (Not so after a fork upward: SoSchedulerSteps.)          *)
NoThreadLost ==
    /\ Injective(pq)
    /\ \A t \in Threads : Live(t) <=> (InQueue(pq, t) \/ running = t)
    /\ running # NULL => ~InQueue(pq, running)

(* The semaphores hand over one processor: the running thread either is in *)
(* its handler or owns the only token, and no other thread does either     *)
(* (README.md:45, "there may be just one process running").                *)
OneProcessor ==
    \A t \in Threads :
        sem[t] + (IF at[t] = "run" THEN 1 ELSE 0)
            = (IF running = t THEN 1 ELSE 0)

(* enqueue() keeps the queue ordered although dequeue() takes threads out  *)
(* of its middle and waiting threads keep their places.                    *)
QueueSorted == Sorted(pq, prio)

(* No thread that could run has a higher priority than the running one,    *)
(* although only so_fork() compares priorities: a signal that wakes a      *)
(* higher thread, an expiry and a wait all go through the front of the     *)
(* queue.                                                                  *)
RunningIsHighest ==
    running # NULL =>
        \A t \in Threads : InQueue(pq, t) /\ state[t] # "WAITING"
                             => prio[t] <= prio[running]

(* The processor is idle only when every thread in the queue waits.        *)
WorkConserving ==
    running = NULL => \A t \in Threads : InQueue(pq, t) => state[t] = "WAITING"

(* The states and events the calls leave behind agree with the place of    *)
(* the thread; so_signal() finds its waiters by event alone.               *)
StatesAgree ==
    \A t \in Threads :
        /\ state[t] = "RUNNING" <=> running = t
        /\ InQueue(pq, t) => state[t] \in {"READY", "WAITING"}
        /\ state[t] = "WAITING" <=> event[t] # NoEvent
        /\ at[t] = "exited" => state[t] = "TERMINATED"

(* The decrement of so_exec() is of an unsigned quantum: it never starts   *)
(* from zero, for every thread of the queue keeps at least one unit.       *)
QuantumNeverWraps ==
    \A t \in Threads : Live(t) => left[t] \in 1 .. quantum

(* so_end() frees thread_t structures: none is still used by a pthread,    *)
(* queued, or due to be posted.                                            *)
FreedOnlyWhenDead ==
    [][quantum # 0 /\ quantum' = 0 =>
          /\ \A t \in Threads : ~Live(t) /\ sem[t] = 0
          /\ pq = << >> /\ running = NULL]_vars

(* so_wait()'s test for another ready thread (README.md:163): only the end *)
(* of a handler can leave the processor without a thread.                  *)
IdleOnlyAfterReturn ==
    [][running # NULL /\ running' = NULL =>
          at[running] = "run" /\ at'[running] = "exited"]_vars

(* A thread stops waiting only by so_signal() of its device, and then all  *)
(* the threads that wait for that device do, as many as the call returns.  *)
WakesExactlyTheWaiters ==
    [][LET woken == {t \in Threads : state[t] = "WAITING" /\ state'[t] # "WAITING"}
       IN  woken # {} =>
             \E i \in Devices :
                 /\ woken = {t \in Threads : state[t] = "WAITING" /\ event[t] = i}
                 /\ ret' = Answer("so_signal", i, Cardinality(woken))]_vars

(* Round robin: threads of one priority keep their order in the queue, one *)
(* that enters the queue goes behind them, and a thread of the queue that  *)
(* gets the processor was behind no thread that could run.                 *)
RoundRobinOrder ==
    [][/\ \A t, u \in Threads :
             /\ Ahead(pq, t, u) /\ prio[t] = prio[u]
             /\ InQueue(pq', t) /\ InQueue(pq', u)
             => Ahead(pq', t, u)
       /\ \A t, u \in Threads :
             /\ ~InQueue(pq, t) /\ InQueue(pq', t)
             /\ InQueue(pq, u) /\ InQueue(pq', u) /\ prio'[t] = prio'[u]
             => Ahead(pq', u, t)
       /\ \A t, u \in Threads :
             InQueue(pq, t) /\ running' = t /\ Ahead(pq, u, t)
             => state'[u] = "WAITING"]_vars

(* Starvation freedom: a ready thread gets the processor, begins to wait   *)
(* (it cannot), or a thread of higher priority is live again and again.    *)
ReadyThreadRuns ==
    \A t \in Threads :
        [](InQueue(pq, t) /\ state[t] = "READY" =>
             <>(running = t \/ \E u \in Threads : Live(u) /\ prio[u] > prio[t]))

(* so_end() returns, or every thread left waits for an event nobody is     *)
(* left to signal, provided that handlers end.                             *)
EndReturns ==
    Finishing => (main = "join" ~> \/ quantum = 0
                     \/ /\ running = NULL
                        /\ \A t \in Threads : Live(t) => state[t] = "WAITING")

(* What the state means as lines of threads, one for each priority: who is *)
(* there and with which priority, who is ahead of whom in one line, and    *)
(* who is passed over.                                                     *)
LineLevel == [t \in {u \in Threads : InQueue(pq, u) \/ running = u} |-> prio[t]]

LineOrder == {e \in Threads \X Threads :
                Ahead(pq, e[1], e[2]) /\ prio[e[1]] = prio[e[2]]}

PassedOver == {t \in Threads : state[t] = "WAITING"}

MLQ == INSTANCE MultilevelQueue WITH
         Levels <- Priorities, Nobody <- NULL, level <- LineLevel,
         ahead <- LineOrder, waiting <- PassedOver, cpu <- running

(* The library behaves as one FIFO line per priority, for clients that     *)
(* keep to the convention: the sorted array, the nested check_preempt()    *)
(* and so_exec() calls, the semaphores and the quanta implement            *)
(* MultilevelQueue.                                                        *)
ImplementsMultilevelQueue == MLQ!Spec
=============================================================================
