-------------------------- MODULE PqStorage_proof --------------------------
(* Proofs about the storage of the scheduler's queue, for any number of     *)
(* threads and any priorities.                                              *)
EXTENDS PqStorage, QueueLemmas

(* Bounds alone are not inductive: that the array has a cell for the next   *)
(* thread depends on how far its capacity is ahead of its memory.           *)
StorageInv == TypeOK /\ BelowCapacity /\ Growth

LEMMA SizeFits ==
    ASSUME StorageInv
    PROVE  size <= allocated
BY DEF StorageInv, TypeOK, BelowCapacity, Growth

(* The memory enqueue() ends up with has a cell for the new thread.         *)
LEMMA EnqueueGrows ==
    ASSUME StorageInv
    PROVE  LET cap == IF Full THEN 2 * capacity ELSE capacity
           IN  /\ Allocation \in Nat /\ cap \in Nat
               /\ allocated <= Allocation /\ Grown < cap
               /\ \/ Allocation = 1 /\ cap = 2
                  \/ Allocation = cap /\ cap >= 4
BY DEF StorageInv, TypeOK, BelowCapacity, Growth, Allocation, Full, Grown

(* The slot enqueue() writes to lies among the cells in use or is the one   *)
(* behind them, so the new array is made of threads and junk only.          *)
LEMMA EnqueuedType ==
    ASSUME StorageInv, NEW t \in Threads
    PROVE  Enqueued(t) \in [0 .. Allocation - 1 -> Threads \cup {Junk}]
<1> DEFINE slot == IF Lower(t) = {} THEN size
                   ELSE CHOOSE i \in Lower(t) : \A j \in Lower(t) : i <= j
<1>1. /\ size \in Nat /\ allocated \in Nat /\ size <= allocated
      /\ cells \in [0 .. allocated - 1 -> Threads \cup {Junk}]
  BY SizeFits DEF StorageInv, TypeOK
<1>2. Lower(t) \subseteq 0 .. size - 1 /\ Lower(t) \in SUBSET Nat
  BY <1>1 DEF Lower
<1>3. slot \in 0 .. size
  <2>1. CASE Lower(t) = {}
    BY <1>1, <2>1
  <2>2. CASE Lower(t) # {}
    <3>1. \E i \in Lower(t) : \A j \in Lower(t) : i <= j
      BY <1>2, <2>2, LeastExists
    <3>2. slot \in Lower(t)
      BY <2>2, <3>1
    <3> QED BY <1>1, <1>2, <3>2
  <2> QED BY <2>1, <2>2
<1>4. Enqueued(t) = [j \in 0 .. Allocation - 1 |->
                       IF j = slot THEN t
                       ELSE IF slot < j /\ j <= size THEN Shifted(slot, j)
                       ELSE IF j < allocated THEN cells[j] ELSE Junk]
  BY DEF Enqueued
<1> HIDE DEF slot
<1>5. \A j \in 0 .. Allocation - 1 :
        slot < j /\ j <= size => Shifted(slot, j) \in Threads \cup {Junk}
  BY <1>1, <1>3, EnqueueGrows DEF Shifted
<1>6. \A j \in 0 .. Allocation - 1 : j < allocated => cells[j] \in Threads \cup {Junk}
  BY <1>1, EnqueueGrows
<1> QED BY <1>4, <1>5, <1>6

LEMMA StorageInvInit == Init => StorageInv
BY EmptySeq DEF Init, StorageInv, TypeOK, BelowCapacity, Growth

LEMMA StorageInvNext == StorageInv /\ [Next]_vars => StorageInv'
<1> SUFFICES ASSUME StorageInv, [Next]_vars
             PROVE  StorageInv'
  OBVIOUS
<1>0. /\ allocated \in Nat /\ size \in Nat /\ capacity \in Nat
      /\ cells \in [0 .. allocated - 1 -> Threads \cup {Junk}]
      /\ prio \in [Threads -> Priorities] /\ prio \in [Threads -> Nat]
      /\ state \in [Threads -> {"READY", "WAITING"}]
      /\ want \in Seq(Threads)
  BY StorageAssumption DEF StorageInv, TypeOK
<1>1. ASSUME NEW t \in Threads, EnqueueThread(t)
      PROVE  StorageInv'
  <2>1. want' \in Seq(Threads)
    BY <1>0, <1>1, EnqueueMembers DEF EnqueueThread
  <2>2. cells' \in [0 .. allocated' - 1 -> Threads \cup {Junk}]
    BY <1>1, EnqueuedType DEF EnqueueThread
  <2>3. /\ allocated' \in Nat /\ size' \in Nat /\ capacity' \in Nat
        /\ size' < capacity'
        /\ \/ allocated' = 1 /\ capacity' = 2
           \/ allocated' = capacity' /\ capacity' >= 4
    BY <1>0, <1>1, EnqueueGrows DEF EnqueueThread, Grown
  <2>4. UNCHANGED << prio, state >>
    BY <1>1 DEF EnqueueThread
  <2> QED BY <1>0, <2>1, <2>2, <2>3, <2>4 DEF StorageInv, TypeOK, BelowCapacity, Growth
<1>2. CASE DequeueThread
  <2>1. Ready \subseteq 0 .. size - 1 /\ Ready \in SUBSET Nat /\ Ready # {}
    BY <1>0, <1>2 DEF DequeueThread, Ready
  <2>2. FirstReady \in 0 .. size - 1
    <3>1. \E i \in Ready : \A j \in Ready : i <= j
      BY <2>1, LeastExists
    <3> QED BY <2>1, <3>1 DEF FirstReady
  <2>3. cells' \in [0 .. allocated' - 1 -> Threads \cup {Junk}]
    BY <1>0, <1>2, <2>2, SizeFits DEF DequeueThread
  <2>4. want' \in Seq(Threads)
    <3>1. CASE FrontSlot(want, state) = 0
      BY <1>0, <1>2, <3>1 DEF DequeueThread, Dequeue
    <3>2. CASE FrontSlot(want, state) # 0
      <4>1. FrontSlot(want, state) \in 1 .. Len(want)
        BY <1>0, <3>2, FrontSlotRange, LenProperties
      <4> QED BY <1>0, <1>2, <3>2, <4>1, RemoveCells DEF DequeueThread, Dequeue
    <3> QED BY <3>1, <3>2
  <2>5. size' = size - 1 /\ size' \in Nat
    BY <1>0, <1>2, <2>2 DEF DequeueThread, Shrunk
  <2>6. UNCHANGED << allocated, capacity, prio, state >>
    BY <1>2 DEF DequeueThread
  <2> QED BY <1>0, <2>3, <2>4, <2>5, <2>6 DEF StorageInv, TypeOK, BelowCapacity, Growth
<1>3. ASSUME NEW t \in Threads, ChangeState(t)
      PROVE  StorageInv'
  <2>1. state' \in [Threads -> {"READY", "WAITING"}]
    BY <1>0, <1>3 DEF ChangeState
  <2> QED BY <1>3, <2>1 DEF ChangeState, StorageInv, TypeOK, BelowCapacity, Growth
<1>4. CASE UNCHANGED vars
  BY <1>4 DEF vars, StorageInv, TypeOK, BelowCapacity, Growth
<1> QED BY <1>1, <1>2, <1>3, <1>4 DEF Next

(* The invariant of the storage holds in every reachable state.             *)
THEOREM StorageSafe == Spec => []StorageInv
BY StorageInvInit, StorageInvNext, PTL DEF Spec

(* alloc_memory_for_pq(), which allocates less than it says the first time, *)
(* always leaves enough memory for the threads enqueue() writes.            *)
THEOREM QueueInBounds == Spec => []InBounds
<1>1. StorageInv => InBounds
  BY SizeFits DEF InBounds
<1> QED BY <1>1, StorageSafe, PTL

(* The test of enqueue() for a full array, an equality, is never jumped.    *)
THEOREM QueueBelowCapacity == Spec => []BelowCapacity
<1>1. StorageInv => BelowCapacity
  BY DEF StorageInv
<1> QED BY <1>1, StorageSafe, PTL

-----------------------------------------------------------------------------
(* What the cells hold.  The search loops of the program look at the cells, *)
(* the operators of PriorityQueue at the sequence: while both hold the same *)
(* threads they stop at the same place.                                     *)
ContentsInv == StorageInv /\ HoldsWhatItShould

LEMMA SameCells ==
    ASSUME ContentsInv
    PROVE  /\ size \in Nat /\ allocated \in Nat /\ size <= allocated
           /\ want \in Seq(Threads) /\ Len(want) = size
           /\ prio \in [Threads -> Nat] /\ DOMAIN cells = 0 .. allocated - 1
           /\ \A i \in 0 .. size - 1 : cells[i] = want[i + 1] /\ want[i + 1] \in Threads
<1>1. /\ size \in Nat /\ allocated \in Nat /\ want \in Seq(Threads)
      /\ prio \in [Threads -> Nat] /\ DOMAIN cells = 0 .. allocated - 1
  BY StorageAssumption DEF ContentsInv, StorageInv, TypeOK
<1>2. Len(want) = size /\ \A i \in 1 .. size : cells[i - 1] = want[i]
  BY DEF ContentsInv, HoldsWhatItShould
<1>3. \A i \in 1 .. size : want[i] \in Threads
  BY <1>1, <1>2, ElementOfSeq
<1>4. ASSUME NEW i \in 0 .. size - 1
      PROVE  cells[i] = want[i + 1] /\ want[i + 1] \in Threads
  <2>1. i + 1 \in 1 .. size /\ (i + 1) - 1 = i
    BY <1>1
  <2> QED BY <1>2, <1>3, <2>1
<1> QED BY <1>1, <1>2, <1>4, SizeFits DEF ContentsInv

(* The search loop of enqueue() stops at the slot the sequence says.        *)
LEMMA SameSlot ==
    ASSUME ContentsInv, NEW t \in Threads
    PROVE  (IF Lower(t) = {} THEN size
            ELSE CHOOSE i \in Lower(t) : \A j \in Lower(t) : i <= j)
               = EnqueueSlot(want, prio, t) - 1
<1> DEFINE s == EnqueueSlot(want, prio, t)
           least(i) == i \in Lower(t) /\ \A j \in Lower(t) : i <= j
<1>0. /\ size \in Nat /\ Len(want) = size
      /\ \A i \in 0 .. size - 1 : cells[i] = want[i + 1] /\ prio[want[i + 1]] \in Nat
      /\ prio[t] \in Nat
  BY SameCells
<1>1. /\ s \in 1 .. size + 1
      /\ \A i \in 1 .. size : i < s => prio[want[i]] >= prio[t]
      /\ s <= size => prio[t] > prio[want[s]]
  BY <1>0, SameCells, EnqueueSlotRange
<1> HIDE DEF s
<1>2. \A i \in Lower(t) : i \in 0 .. size - 1 /\ ~(i + 1 < s)
  <2> TAKE i \in Lower(t)
  <2>1. i \in 0 .. size - 1 /\ prio[t] > prio[want[i + 1]]
    BY <1>0 DEF Lower
  <2>2. i + 1 \in 1 .. size
    BY <1>0, <2>1
  <2> QED BY <1>0, <1>1, <2>1, <2>2
<1>3. CASE s = size + 1
  <2>1. Lower(t) = {}
    BY <1>0, <1>2, <1>3
  <2> QED BY <1>0, <1>3, <2>1 DEF s
<1>4. CASE s # size + 1
  <2>1. s - 1 \in 0 .. size - 1 /\ (s - 1) + 1 = s /\ s <= size
    BY <1>0, <1>1, <1>4
  <2>2. s - 1 \in Lower(t)
    BY <1>0, <1>1, <2>1 DEF Lower
  <2>3. least(s - 1) /\ \A i : least(i) => i = s - 1
    BY <1>0, <1>2, <2>1, <2>2
  <2>4. (CHOOSE i \in Lower(t) : \A j \in Lower(t) : i <= j) = s - 1
    BY <2>3
  <2> QED BY <2>2, <2>4 DEF s
<1> QED BY <1>3, <1>4

(* front() accepts the cell the sequence says.                              *)
LEMMA SameFront ==
    ASSUME ContentsInv, Ready # {}
    PROVE  /\ FrontSlot(want, state) \in 1 .. size
           /\ FirstReady = FrontSlot(want, state) - 1
<1> DEFINE s == FrontSlot(want, state)
           least(i) == i \in Ready /\ \A j \in Ready : i <= j
<1>0. /\ size \in Nat /\ Len(want) = size
      /\ \A i \in 0 .. size - 1 : cells[i] = want[i + 1]
  BY SameCells
<1>1. /\ s \in 0 .. size
      /\ s = 0 => \A i \in 1 .. size : state[want[i]] = "WAITING"
      /\ s # 0 => /\ state[want[s]] # "WAITING"
                  /\ \A i \in 1 .. size : i < s => state[want[i]] = "WAITING"
  BY <1>0, SameCells, FrontSlotRange
<1> HIDE DEF s
<1>2. \A i \in Ready : i + 1 \in 1 .. size /\ state[want[i + 1]] # "WAITING"
  BY <1>0 DEF Ready
<1>3. s # 0
  BY <1>1, <1>2
<1>4. s - 1 \in 0 .. size - 1 /\ (s - 1) + 1 = s
  BY <1>0, <1>1, <1>3
<1>5. s - 1 \in Ready
  BY <1>0, <1>1, <1>3, <1>4 DEF Ready
<1>6. \A i \in Ready : i \in Int /\ s - 1 <= i
  <2> TAKE i \in Ready
  <2>1. i \in Int
    BY DEF Ready
  <2> QED BY <1>0, <1>1, <1>2, <1>3, <2>1
<1>7. least(s - 1) /\ \A i : least(i) => i = s - 1
  BY <1>0, <1>1, <1>5, <1>6
<1>8. FirstReady = s - 1
  BY <1>7 DEF FirstReady
<1> QED BY <1>0, <1>4, <1>8 DEF s

LEMMA EnqueueKeepsContents ==
    ASSUME ContentsInv, NEW t \in Threads, EnqueueThread(t)
    PROVE  HoldsWhatItShould'
<1> DEFINE s == EnqueueSlot(want, prio, t)
<1>0. /\ size \in Nat /\ allocated \in Nat /\ size <= allocated
      /\ want \in Seq(Threads) /\ Len(want) = size /\ prio \in [Threads -> Nat]
      /\ \A i \in 0 .. size - 1 : cells[i] = want[i + 1]
  BY SameCells
<1>1. s \in 1 .. size + 1
  BY <1>0, EnqueueSlotRange
<1>2. /\ Allocation \in Nat /\ size + 1 <= Allocation
  <2>1. ContentsInv => StorageInv
    BY DEF ContentsInv
  <2>2. size' <= allocated'
    <3>1. StorageInv'
      BY <2>1, StorageInvNext DEF Next
    <3> QED BY <3>1 DEF StorageInv, TypeOK, BelowCapacity, Growth
  <2> QED BY <2>1, <2>2, EnqueueGrows DEF EnqueueThread, Grown
<1>3. /\ Len(want') = size + 1
      /\ \A i \in 1 .. size + 1 :
           want'[i] = IF i < s THEN want[i] ELSE IF i = s THEN t ELSE want[i - 1]
  <2>1. want' = Enqueue(want, prio, t)
    BY DEF EnqueueThread
  <2>2. /\ Len(Enqueue(want, prio, t)) = Len(want) + 1
        /\ \A i \in 1 .. Len(want) + 1 :
             Enqueue(want, prio, t)[i] = Inserted(want, s, t, i)
    BY <1>0, EnqueueCells
  <2> QED BY <1>0, <2>1, <2>2, Zenon DEF Inserted
<1>4. cells' = [j \in 0 .. Allocation - 1 |->
                   IF j = s - 1 THEN t
                   ELSE IF s - 1 < j /\ j <= size THEN cells[j - 1]
                   ELSE IF j < allocated THEN cells[j] ELSE Junk]
  BY SameSlot DEF EnqueueThread, Enqueued, Shifted
<1> HIDE DEF s
<1>5. ASSUME NEW i \in 1 .. size + 1
      PROVE  cells'[i - 1] = want'[i]
  <2>1. i - 1 \in 0 .. Allocation - 1
    BY <1>0, <1>2
  <2>2. CASE i < s
    <3>1. i - 1 \in 0 .. size - 1 /\ i - 1 < allocated /\ ~(s - 1 < i - 1) /\ i - 1 # s - 1
      BY <1>0, <1>1, <2>2
    <3>2. cells'[i - 1] = cells[i - 1] /\ cells[i - 1] = want[(i - 1) + 1]
      BY <1>0, <1>4, <2>1, <3>1
    <3> QED BY <1>3, <2>2, <3>2
  <2>3. CASE i = s
    BY <1>1, <1>3, <1>4, <2>1, <2>3
  <2>4. CASE i > s
    <3>1. s - 1 < i - 1 /\ i - 1 <= size /\ i - 1 # s - 1 /\ (i - 1) - 1 \in 0 .. size - 1
      BY <1>0, <1>1, <2>4
    <3>2. cells'[i - 1] = cells[(i - 1) - 1] /\ cells[(i - 1) - 1] = want[((i - 1) - 1) + 1]
      BY <1>0, <1>4, <2>1, <3>1
    <3>3. ((i - 1) - 1) + 1 = i - 1 /\ ~(i < s) /\ i # s
      BY <1>0, <1>1, <2>4
    <3> QED BY <1>3, <3>2, <3>3
  <2> QED BY <1>0, <1>1, <2>2, <2>3, <2>4
<1> QED BY <1>3, <1>5 DEF HoldsWhatItShould, EnqueueThread, Grown

LEMMA DequeueKeepsContents ==
    ASSUME ContentsInv, DequeueThread
    PROVE  HoldsWhatItShould'
<1> DEFINE s == FrontSlot(want, state)
<1>0. /\ size \in Nat /\ allocated \in Nat /\ size <= allocated
      /\ want \in Seq(Threads) /\ Len(want) = size
      /\ \A i \in 0 .. size - 1 : cells[i] = want[i + 1]
  BY SameCells
<1>1. s \in 1 .. size /\ FirstReady = s - 1
  BY SameFront DEF DequeueThread
<1>2. /\ Len(want') = size - 1
      /\ \A i \in 1 .. size - 1 : want'[i] = IF i < s THEN want[i] ELSE want[i + 1]
  <2>1. want' = RemoveAt(want, s)
    BY <1>0, <1>1 DEF DequeueThread, Dequeue
  <2> HIDE DEF s
  <2> QED BY <1>0, <1>1, <2>1, RemoveCells
<1>3. cells' = [j \in 0 .. allocated - 1 |->
                   IF s - 1 <= j /\ j < size - 1 THEN cells[j + 1] ELSE cells[j]]
  BY <1>1 DEF DequeueThread
<1> HIDE DEF s
<1>4. ASSUME NEW i \in 1 .. size - 1
      PROVE  cells'[i - 1] = want'[i]
  <2>1. i - 1 \in 0 .. allocated - 1 /\ i - 1 \in 0 .. size - 1 /\ (i - 1) + 1 = i
    BY <1>0
  <2>2. CASE i < s
    <3>1. ~(s - 1 <= i - 1)
      BY <1>1, <2>2
    <3> QED BY <1>0, <1>2, <1>3, <2>1, <2>2, <3>1
  <2>3. CASE i >= s
    <3>1. s - 1 <= i - 1 /\ i - 1 < size - 1 /\ i \in 0 .. size - 1 /\ ~(i < s)
      BY <1>0, <1>1, <2>3
    <3> QED BY <1>0, <1>2, <1>3, <2>1, <3>1
  <2> QED BY <1>1, <2>2, <2>3
<1> QED BY <1>2, <1>4 DEF HoldsWhatItShould, DequeueThread, Shrunk

LEMMA ContentsInvNext == ContentsInv /\ [Next]_vars => ContentsInv'
<1> SUFFICES ASSUME ContentsInv, [Next]_vars
             PROVE  HoldsWhatItShould'
  BY StorageInvNext DEF ContentsInv
<1>1. ASSUME NEW t \in Threads, ChangeState(t)
      PROVE  HoldsWhatItShould'
  BY <1>1 DEF ChangeState, ContentsInv, HoldsWhatItShould
<1>2. CASE UNCHANGED vars
  BY <1>2 DEF vars, ContentsInv, HoldsWhatItShould
<1> QED BY <1>1, <1>2, EnqueueKeepsContents, DequeueKeepsContents DEF Next

(* Sizes, capacity and cells stay of their types.                           *)
THEOREM StorageTypeCorrect == Spec => []TypeOK
<1>1. StorageInv => TypeOK
  BY DEF StorageInv
<1> QED BY <1>1, StorageSafe, PTL

(* The loops of enqueue() and dequeue(), which shift threads in place in an *)
(* array that grows on the way, leave the sequence of threads that          *)
(* PriorityQueue computes: what is proved of its operators holds of the     *)
(* array.                                                                   *)
THEOREM ArrayHoldsSequence == Spec => []HoldsWhatItShould
<1>1. Init => ContentsInv
  <2>1. Init => HoldsWhatItShould
    BY EmptySeq DEF Init, HoldsWhatItShould
  <2> QED BY <2>1, StorageInvInit DEF ContentsInv
<1>2. ContentsInv => HoldsWhatItShould
  BY DEF ContentsInv
<1> QED BY <1>1, <1>2, ContentsInvNext, PTL DEF Spec

=============================================================================
