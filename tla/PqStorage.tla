----------------------------- MODULE PqStorage -----------------------------
(***************************************************************************)
(* The array under the scheduler's queue, Thread Scheduler/                *)
(* priority_queue.c: its cells, its size and capacity, and the memory that *)
(* is really allocated for it.  The variable want is not in the program:   *)
(* it is the sequence the operators of PriorityQueue say the queue holds.  *)
(***************************************************************************)
EXTENDS PriorityQueue

CONSTANTS Junk,        \* what an allocated cell holds before it is written
          Priorities   \* the priorities of the threads

ASSUME StorageAssumption == Junk \notin Threads /\ Priorities \subseteq Nat

VARIABLES
    cells,      \* pq->q: a function on 0 .. allocated - 1
    allocated,  \* how many cells malloc() and realloc() have provided
    size,       \* pq->size
    capacity,   \* pq->capacity
    prio,       \* thread->priority
    state,      \* thread->state, as far as the queue tells states apart
    want        \* the queue as a sequence

vars == << cells, allocated, size, capacity, prio, state, want >>

TypeOK ==
    /\ allocated \in Nat /\ size \in Nat /\ capacity \in Nat
    /\ cells \in [0 .. allocated - 1 -> Threads \cup {Junk}]
    /\ prio \in [Threads -> Priorities]
    /\ state \in [Threads -> {"READY", "WAITING"}]
    /\ want \in Seq(Threads)

Queued(t) == \E i \in 0 .. size - 1 : cells[i] = t

(* pq_create()                                                             *)
Init ==
    /\ cells = << >> /\ allocated = 0
    /\ size = 0 /\ capacity = 1
    /\ prio \in [Threads -> Priorities]
    /\ state = [t \in Threads |-> "READY"]
    /\ want = << >>

-----------------------------------------------------------------------------
(* enqueue()                                                               *)

Grown == size + 1

(* A mistaken test that waits until the array has overflowed.              *)
FullTooLate == Grown > capacity

(* The test of enqueue() for a full array.                                 *)
Full == Grown = capacity

(* alloc_memory_for_pq(): the capacity doubles, but the first allocation   *)
(* is of one cell.                                                         *)
Allocation == IF ~Full THEN allocated
              ELSE IF allocated = 0 THEN 1 ELSE 2 * capacity

(* A mistaken search that passes equal priorities only.                    *)
LowerOrEqual(t) == {i \in 0 .. size - 1 : prio[t] >= prio[cells[i]]}

(* The cells the search loop of enqueue() stops at.                        *)
Lower(t) == {i \in 0 .. size - 1 : prio[t] > prio[cells[i]]}

(* Mistaken shift, from the left: one thread is copied over the others.    *)
ShiftedFromLeft(slot, j) == cells[slot]

(* What cell j > slot receives when cells slot to size - 1 shift right.    *)
Shifted(slot, j) == cells[j - 1]

Enqueued(t) ==
    LET slot == IF Lower(t) = {} THEN size
                ELSE CHOOSE i \in Lower(t) : \A j \in Lower(t) : i <= j
    IN  [j \in 0 .. Allocation - 1 |->
           IF j = slot THEN t
           ELSE IF slot < j /\ j <= size THEN Shifted(slot, j)
           ELSE IF j < allocated THEN cells[j] ELSE Junk]

EnqueueThread(t) ==
    /\ ~Queued(t)
    /\ size' = Grown
    /\ capacity' = IF Full THEN 2 * capacity ELSE capacity
    /\ allocated' = Allocation
    /\ cells' = Enqueued(t)
    /\ want' = Enqueue(want, prio, t)
    /\ UNCHANGED << prio, state >>

-----------------------------------------------------------------------------
(* front() and dequeue()                                                   *)

(* The cells front() would accept.                                        *)
Ready == {i \in 0 .. size - 1 : state[cells[i]] # "WAITING"}

FirstReady == CHOOSE i \in Ready : \A j \in Ready : i <= j

(* A mistaken dequeue() whose size is taken down again by its caller.      *)
ShrunkTwice == size - 2

Shrunk == size - 1

(* The memory is kept: pq->q only shrinks logically.                       *)
DequeueThread ==
    /\ Ready # {}
    /\ size' = Shrunk
    /\ cells' = [j \in 0 .. allocated - 1 |->
                   IF FirstReady <= j /\ j < size - 1 THEN cells[j + 1]
                   ELSE cells[j]]
    /\ want' = Dequeue(want, state)
    /\ UNCHANGED << allocated, capacity, prio, state >>

(* so_wait() and so_signal() write the state of threads between calls.     *)
ChangeState(t) ==
    /\ state' = [state EXCEPT ![t] = IF @ = "READY" THEN "WAITING" ELSE "READY"]
    /\ UNCHANGED << cells, allocated, size, capacity, prio, want >>

Next ==
    \/ \E t \in Threads : EnqueueThread(t) \/ ChangeState(t)
    \/ DequeueThread

Spec == Init /\ [][Next]_vars

-----------------------------------------------------------------------------
(* Properties                                                              *)

(* enqueue() reads and writes cells 0 to size - 1.  The first malloc() is  *)
(* of one cell while the capacity says two; the array still never holds    *)
(* more threads than there are cells.                                      *)
InBounds == size <= allocated

(* enqueue()'s test for equality with the capacity catches every growth.   *)
BelowCapacity == size < capacity

(* The three stages of the memory: none, one cell (with a capacity of      *)
(* two), and from then on as many cells as the capacity says.              *)
Growth ==
    \/ allocated = 0 /\ capacity = 1
    \/ allocated = 1 /\ capacity = 2
    \/ allocated = capacity /\ capacity >= 4

(* The shifting loops leave the sequence the other modules reason about.   *)
HoldsWhatItShould ==
    /\ Len(want) = size
    /\ \A i \in 1 .. size : cells[i - 1] = want[i]

=============================================================================
