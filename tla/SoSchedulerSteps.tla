-------------------------- MODULE SoSchedulerSteps --------------------------
(***************************************************************************)
(* The calls of Thread Scheduler/so_scheduler.c statement by statement.    *)
(* No lock protects the scheduler: the code counts on one pthread running  *)
(* at a time.  Each pthread and the main thread has its own list of        *)
(* statements to go, todo, which grows by the body of a function when the  *)
(* function is called, and any of them may take the next step.  A          *)
(* statement that names a thread has captured it in a local variable.      *)
(***************************************************************************)
EXTENDS PriorityQueue, FiniteSets

CONSTANTS Main,              \* the main thread
          SO_MAX_PRIO,       \* the highest priority so_fork() accepts
          MaxQuantum,        \* bound: the largest quantum a client asks for
          Width,             \* bound: 2^32 for an unsigned int, here smaller
          EagerForks,        \* client: may main() fork while a thread can run?
          UpwardForks        \* client: may a handler fork a higher priority?

ASSUME StepsAssumption ==
    /\ Main \notin Threads
    /\ SO_MAX_PRIO \in Nat
    /\ MaxQuantum \in Nat \ {0} /\ Width \in Nat /\ Width > MaxQuantum
    /\ EagerForks \in BOOLEAN /\ UpwardForks \in BOOLEAN

VARIABLES
    quantum, threads, pq, running,      \* the fields of *scheduler
    prio, state, left, event, sem,      \* the fields of each *thread
    todo,      \* the statements each pthread has to go
    crashed    \* a NULL running_thread was dereferenced

fields == << prio, left, event >>
vars   == << quantum, threads, pq, running, prio, state, left, event, sem,
             todo, crashed >>

Priorities == 0 .. SO_MAX_PRIO
Device     == 0      \* one device is enough to block on
NoEvent    == -1
Actors     == Threads \cup {Main}

Do(op, t) == [op |-> op, t |-> t]

(* What a new pthread has to do: thread_task().                            *)
ThreadTask(t) == << Do("sem_wait", t), Do("handler", t), Do("terminate", t),
                    Do("check", NULL) >>

Statements == {"sem_wait", "handler", "terminate", "check",
               "schedule", "run", "dequeue", "post", "exec", "expire",
               "mark", "release", "client", "join"}

TypeOK ==
    /\ quantum \in 1 .. MaxQuantum
    /\ threads \in Seq(Threads) /\ pq \in Seq(Threads)
    /\ running \in Threads \cup {NULL}
    /\ prio \in [Threads -> Priorities]
    /\ state \in [Threads -> {"NEW", "READY", "RUNNING", "WAITING", "TERMINATED"}]
    /\ left \in [Threads -> 0 .. MaxQuantum]
    /\ event \in [Threads -> {Device, NoEvent}]
    /\ sem \in [Threads -> Nat]
    /\ todo \in [Actors -> Seq([op : Statements, t : Threads \cup {NULL}])]
    /\ crashed \in BOOLEAN

(* After so_init().                                                        *)
Init ==
    /\ quantum \in 1 .. MaxQuantum
    /\ threads = << >> /\ pq = << >> /\ running = NULL
    /\ prio = [t \in Threads |-> 0]
    /\ state = [t \in Threads |-> "NEW"]
    /\ left = [t \in Threads |-> 0]
    /\ event = [t \in Threads |-> NoEvent]
    /\ sem = [t \in Threads |-> 0]
    /\ todo = [a \in Actors |->
                 IF a = Main THEN << Do("client", NULL), Do("join", NULL) >>
                 ELSE << >>]
    /\ crashed = FALSE

-----------------------------------------------------------------------------

Next1(a, op) == ~crashed /\ todo[a] # << >> /\ Head(todo[a]).op = op
Captured(a)  == Head(todo[a]).t

(* Actor a is through with its statement and has more to do before the     *)
(* rest of its list.                                                       *)
Goes(a, more) == todo' = [todo EXCEPT ![a] = more \o Tail(@)]

(* The client code, a handler or main(), stays in the list while it calls. *)
Calls(a, body) == todo' = [todo EXCEPT ![a] = body \o @]

Ends(a) == Goes(a, << >>)

Crash == crashed' = TRUE /\ UNCHANGED << quantum, threads, pq, running, prio,
                                         state, left, event, sem, todo >>

(* sem_wait() of a captured thread's semaphore: lines 37, 73, 125, 150, 170 *)
SemWait(a) ==
    /\ Next1(a, "sem_wait")
    /\ sem[Captured(a)] > 0
    /\ sem' = [sem EXCEPT ![Captured(a)] = @ - 1]
    /\ Ends(a)
    /\ UNCHANGED << quantum, threads, pq, running, state, fields, crashed >>

-----------------------------------------------------------------------------
(* so_fork()                                                               *)

Unused == {t \in Threads : t \notin ToSet(threads)}

(* create_thread(), sem_init(), pthread_create() and add_thread().         *)
CreateThread(a, t, p) ==
    /\ threads' = Append(threads, t)
    /\ prio' = [prio EXCEPT ![t] = p]
    /\ state' = [state EXCEPT ![t] = "NEW"]
    /\ left' = [left EXCEPT ![t] = quantum]
    /\ event' = [event EXCEPT ![t] = NoEvent]
    /\ sem' = [sem EXCEPT ![t] = 0]
    /\ todo' = [todo EXCEPT ![t] = ThreadTask(t),
                            ![a] = << Do("schedule", t), Do("check", NULL) >> \o @]
    /\ UNCHANGED << quantum, pq, running, crashed >>

(* Every pthread has exited or waits for a token that is not there.        *)
Quiet ==
    \A t \in Threads :
        todo[t] # << >> => Head(todo[t]).op = "sem_wait" /\ sem[Captured(t)] = 0

ForkByMain(t, p) ==
    /\ Next1(Main, "client")
    /\ t \in Unused
    /\ EagerForks \/ Quiet
    /\ CreateThread(Main, t, p)

ForkByThread(a, t, p) ==
    /\ Next1(a, "handler")
    /\ t \in Unused
    /\ UpwardForks \/ p <= prio[a]
    /\ CreateThread(a, t, p)

(* schedule_thread(), lines 81-84; its line 86 is the "check" that follows. *)
Schedule(a) ==
    /\ Next1(a, "schedule")
    /\ LET t == Captured(a)
       IN  /\ pq' = Enqueue(pq, prio, t)
           /\ state' = IF state[t] = "WAITING" THEN state
                       ELSE [state EXCEPT ![t] = "READY"]
    /\ Ends(a)
    /\ UNCHANGED << quantum, threads, running, fields, sem, crashed >>

(* check_preempt(n): the calls of its branches, with the threads they      *)
(* capture; first without the dequeue() and without the sem_post().        *)
DispatchingWithoutDequeue(n) == << Do("run", n), Do("post", n) >>
DispatchingWithoutPost(n) == << Do("run", n), Do("dequeue", n) >>

Dispatching(n) == << Do("run", n), Do("dequeue", n), Do("post", n) >>

(* A mistaken copy of the three statements that end so_exec(), so_wait(),  *)
(* so_signal() and check_preempt(), without the last.                      *)
GivingUpWithoutWait(t) == << Do("schedule", t), Do("check", NULL) >>

GivingUp(t) == << Do("schedule", t), Do("check", NULL), Do("sem_wait", t) >>

Branch(n) ==
    CASE n = NULL -> << >>
      [] n # NULL /\ running = NULL -> Dispatching(n)
      [] n # NULL /\ running # NULL /\ prio[running] < prio[n] ->
           Dispatching(n) \o GivingUp(running)
      [] OTHER -> << Do("exec", NULL) >>

CheckPreempt(a) ==
    /\ Next1(a, "check")
    /\ Goes(a, Branch(FrontThread(pq, state)))
    /\ UNCHANGED << quantum, threads, pq, running, state, fields, sem, crashed >>

Run(a) ==
    /\ Next1(a, "run")
    /\ running' = Captured(a)
    /\ Ends(a)
    /\ UNCHANGED << quantum, threads, pq, state, fields, sem, crashed >>

(* dequeue() looks for the front thread anew.                              *)
DequeueFront(a) ==
    /\ Next1(a, "dequeue")
    /\ pq' = Dequeue(pq, state)
    /\ state' = [state EXCEPT ![Captured(a)] = "RUNNING"]
    /\ Ends(a)
    /\ UNCHANGED << quantum, threads, running, fields, sem, crashed >>

Post(a) ==
    /\ Next1(a, "post")
    /\ sem' = [sem EXCEPT ![Captured(a)] = @ + 1]
    /\ Ends(a)
    /\ UNCHANGED << quantum, threads, pq, running, state, fields, crashed >>

-----------------------------------------------------------------------------
(* so_exec()                                                               *)

CallExec(a) ==
    /\ Next1(a, "handler")
    /\ Calls(a, << Do("exec", NULL) >>)
    /\ UNCHANGED << quantum, threads, pq, running, state, fields, sem, crashed >>

(* Lines 157-160.                                                          *)
Exec(a) ==
    /\ Next1(a, "exec")
    /\ IF running = NULL
       THEN Ends(a) /\ UNCHANGED left
       ELSE /\ left' = [left EXCEPT ![running] = (@ + Width - 1) % Width]
            /\ Goes(a, << Do("expire", NULL) >>)
    /\ UNCHANGED << quantum, threads, pq, running, prio, state, event, sem, crashed >>

(* A mistaken so_exec() that leaves an expired quantum at zero.            *)
LeftAtZero == 0

Refilled == quantum

(* Lines 162-170 read running_thread again.                                *)
Expire(a) ==
    /\ Next1(a, "expire")
    /\ IF running = NULL
       THEN Crash
       ELSE /\ IF left[running] # 0
               THEN Ends(a) /\ UNCHANGED << left, state, running >>
               ELSE /\ left' = [left EXCEPT ![running] = Refilled]
                    /\ state' = [state EXCEPT ![running] = "READY"]
                    /\ running' = NULL
                    /\ Goes(a, GivingUp(running))
            /\ UNCHANGED << quantum, threads, pq, prio, event, sem, crashed >>

-----------------------------------------------------------------------------
(* so_wait() and so_signal()                                               *)

CallWait(a) ==
    /\ Next1(a, "handler")
    /\ running # NULL /\ FrontThread(pq, state) # NULL
    /\ Calls(a, << Do("mark", NULL) >>)
    /\ UNCHANGED << quantum, threads, pq, running, state, fields, sem, crashed >>

(* Lines 116-125, after the test of 110-113.                               *)
MarkWaiting(a) ==
    /\ Next1(a, "mark")
    /\ IF running = NULL
       THEN Crash
       ELSE /\ state' = [state EXCEPT ![running] = "WAITING"]
            /\ event' = [event EXCEPT ![running] = Device]
            /\ running' = NULL
            /\ Goes(a, GivingUp(running))
            /\ UNCHANGED << quantum, threads, pq, prio, left, sem, crashed >>

(* Lines 133-142: the loop over the queue.                                 *)
CallSignal(a) ==
    /\ Next1(a, "handler")
    /\ running # NULL
    /\ LET woken == {t \in ToSet(pq) : event[t] = Device}
       IN  /\ state' = [t \in Threads |-> IF t \in woken THEN "READY" ELSE state[t]]
           /\ event' = [t \in Threads |-> IF t \in woken THEN NoEvent ELSE event[t]]
    /\ Calls(a, << Do("release", NULL) >>)
    /\ UNCHANGED << quantum, threads, pq, running, prio, left, sem, crashed >>

(* Lines 144-150.  Had running_thread become NULL, schedule_thread() would *)
(* dereference it.                                                         *)
ReleaseRunning(a) ==
    /\ Next1(a, "release")
    /\ IF running = NULL
       THEN Crash
       ELSE /\ running' = NULL
            /\ Goes(a, GivingUp(running))
            /\ UNCHANGED << quantum, threads, pq, state, fields, sem, crashed >>

-----------------------------------------------------------------------------
(* thread_task() and so_end()                                              *)

HandlerReturns(a) ==
    /\ Next1(a, "handler")
    /\ Ends(a)
    /\ UNCHANGED << quantum, threads, pq, running, state, fields, sem, crashed >>

(* Lines 41-43.                                                            *)
Terminate(a) ==
    /\ Next1(a, "terminate")
    /\ state' = [state EXCEPT ![Captured(a)] = "TERMINATED"]
    /\ running' = NULL
    /\ Ends(a)
    /\ UNCHANGED << quantum, threads, pq, fields, sem, crashed >>

(* main() calls so_end() when it likes, which waits for the threads.       *)
SoEnd ==
    /\ Next1(Main, "client")
    /\ Ends(Main)
    /\ UNCHANGED << quantum, threads, pq, running, state, fields, sem, crashed >>

(* so_end() has joined every thread.                                       *)
JoinAll ==
    /\ Next1(Main, "join")
    /\ \A t \in ToSet(threads) : todo[t] = << >>
    /\ Ends(Main)
    /\ UNCHANGED << quantum, threads, pq, running, state, fields, sem, crashed >>

-----------------------------------------------------------------------------

Next ==
    \/ \E t \in Threads, p \in Priorities : ForkByMain(t, p)
    \/ \E a, t \in Threads, p \in Priorities : ForkByThread(a, t, p)
    \/ \E a \in Threads : \/ CallExec(a) \/ CallWait(a) \/ CallSignal(a)
                          \/ MarkWaiting(a) \/ ReleaseRunning(a)
                          \/ HandlerReturns(a) \/ Terminate(a)
    \/ \E a \in Actors : \/ SemWait(a) \/ Schedule(a) \/ CheckPreempt(a)
                         \/ Run(a) \/ DequeueFront(a) \/ Post(a)
                         \/ Exec(a) \/ Expire(a)
    \/ SoEnd \/ JoinAll

Spec == Init /\ [][Next]_vars

-----------------------------------------------------------------------------
(* Properties                                                              *)

(* Actor a is in its handler or in the middle of a library function, at a  *)
(* statement that reads or writes the scheduler.                           *)
Busy(a) ==
    todo[a] # << >> /\ Head(todo[a]).op \notin {"sem_wait", "client", "join"}

(* README.md:45, "there may be just one process running": no lock guards   *)
(* the queue, running_thread and the thread fields, so no two pthreads may *)
(* be among the statements that touch them.                                *)
OneAtATime == \A a, b \in Actors : Busy(a) /\ Busy(b) => a = b

(* so_exec(), so_wait() and so_signal() read running_thread again after    *)
(* having tested it; it is never NULL by then.                             *)
NoNullDereference == ~crashed

(* Nobody is inside a library function.                                    *)
AtRest == \A a \in Actors : Busy(a) => Head(todo[a]).op = "handler"

(* Between calls, the many small writes have left a consistent scheduler:  *)
(* each live thread is the running one or in the queue once, and only the  *)
(* running thread has a token or is out of its sem_wait().                 *)
ConsistentAtRest ==
    AtRest =>
        /\ Injective(pq) /\ Sorted(pq, prio)
        /\ \A t \in Threads :
             /\ todo[t] # << >> <=> (InQueue(pq, t) \/ running = t)
             /\ ~(InQueue(pq, t) /\ running = t)
             /\ sem[t] + (IF Busy(t) THEN 1 ELSE 0) = (IF running = t THEN 1 ELSE 0)
             /\ state[t] = "RUNNING" <=> running = t

CanStep(a) ==
    /\ todo[a] # << >>
    /\ \/ Busy(a)
       \/ Head(todo[a]).op = "sem_wait" /\ sem[Captured(a)] > 0
       \/ Head(todo[a]).op = "client"
       \/ Head(todo[a]).op = "join" /\ \A t \in ToSet(threads) : todo[t] = << >>

(* The pthreads come to a stop only if each of those left waits for an     *)
(* event: no post is missing and no token was taken by another thread.     *)
StuckOnlyWhenWaiting ==
    (\A a \in Actors : ~CanStep(a)) =>
        \A t \in Threads : todo[t] # << >> => state[t] = "WAITING"

=============================================================================
