---------------------------- MODULE PriorityQueue ----------------------------
(***************************************************************************)
(* The scheduler's queue of threads (Thread Scheduler/priority_queue.c) as *)
(* operators on a sequence.  The C array q[0 .. size-1] is the sequence q, *)
(* its cell 0 being q[1].  A thread is its identity; the thread_t fields   *)
(* the queue reads, priority and state, are the functions prio and state.  *)
(* The storage of the array is not described here: PqStorage does that.    *)
(***************************************************************************)
EXTENDS Integers, SequencesExt

CONSTANTS Threads,   \* the thread_t structures the process may ever allocate
          NULL       \* the C null pointer

ASSUME NullAssumption == NULL \notin Threads

-----------------------------------------------------------------------------

(* A mistaken enqueue() that compares with >= : t goes before its equals.  *)
EnqueueSlotBeforeEquals(q, prio, t) ==
    LET i == SelectInSeq(q, LAMBDA u : prio[t] >= prio[u])
    IN  IF i = 0 THEN Len(q) + 1 ELSE i

(* A mistaken enqueue() that does not move t past the lower priorities.    *)
EnqueueSlotAtEnd(q, prio, t) == Len(q) + 1

(* The slot enqueue() moves t to: the first one whose thread has a lower   *)
(* priority, or the free one past the end.                                 *)
EnqueueSlot(q, prio, t) ==
    LET i == SelectInSeq(q, LAMBDA u : prio[t] > prio[u])
    IN  IF i = 0 THEN Len(q) + 1 ELSE i

Enqueue(q, prio, t) == InsertAt(q, EnqueueSlot(q, prio, t), t)

(* A mistaken search that stops one cell before the end.                   *)
FrontSlotShort(q, state) ==
    SelectInSeq(SubSeq(q, 1, Len(q) - 1), LAMBDA u : state[u] # "WAITING")

(* The index of the first thread that is not WAITING, 0 if there is none.  *)
FrontSlot(q, state) == SelectInSeq(q, LAMBDA u : state[u] # "WAITING")

FrontThread(q, state) ==
    IF FrontSlot(q, state) = 0 THEN NULL ELSE q[FrontSlot(q, state)]

(* A mistaken dequeue() that removes the head, whatever front() returned.  *)
DequeueHead(q, state) == IF q = << >> THEN q ELSE Tail(q)

(* dequeue() leaves the queue as it is when every thread in it is WAITING. *)
Dequeue(q, state) ==
    IF FrontSlot(q, state) = 0 THEN q ELSE RemoveAt(q, FrontSlot(q, state))

-----------------------------------------------------------------------------

(* Reading aids for the properties of the modules that own a queue.        *)
InQueue(q, t) == \E i \in DOMAIN q : q[i] = t

Sorted(q, prio) ==
    \A i, j \in DOMAIN q : i < j => prio[q[i]] >= prio[q[j]]

Injective(q) == \A i, j \in DOMAIN q : q[i] = q[j] => i = j

Ahead(q, t, u) ==
    \E i, j \in DOMAIN q : i < j /\ q[i] = t /\ q[j] = u

=============================================================================
