---------------------------- MODULE QueueLemmas ----------------------------
(* What enqueue(), front() and dequeue() do to a queue of any length.       *)
EXTENDS PriorityQueue, NaturalLemmas, TLAPS, SequenceTheorems, WellFoundedInduction

(* enqueue() stops at the first thread of lower priority, or at the end.    *)
LEMMA EnqueueSlotRange ==
    ASSUME NEW q \in Seq(Threads), NEW prio \in [Threads -> Nat], NEW t \in Threads
    PROVE  /\ EnqueueSlot(q, prio, t) \in 1 .. Len(q) + 1
           /\ \A i \in 1 .. Len(q) :
                i < EnqueueSlot(q, prio, t) => prio[q[i]] >= prio[t]
           /\ EnqueueSlot(q, prio, t) <= Len(q) =>
                prio[t] > prio[q[EnqueueSlot(q, prio, t)]]
<1> DEFINE I == {i \in 1 .. Len(q) : prio[t] > prio[q[i]]}
<1>0. Len(q) \in Nat /\ \A i \in 1 .. Len(q) : prio[q[i]] \in Nat
  BY LenProperties, ElementOfSeq
<1>1. CASE I = {}
  <2>1. EnqueueSlot(q, prio, t) = Len(q) + 1
    BY <1>1 DEF EnqueueSlot, SelectInSeq
  <2>2. \A i \in 1 .. Len(q) : ~(prio[t] > prio[q[i]])
    BY <1>1
  <2> QED BY <1>0, <2>1, <2>2
<1>2. CASE I # {}
  <2>1. I \subseteq 1 .. Len(q) /\ I \in SUBSET Nat
    BY <1>0
  <2>2. Min(I) \in I /\ \A y \in I : Min(I) <= y
    BY <1>2, <2>1, MinIsLeast
  <2>3. Min(I) # 0
    BY <2>1, <2>2
  <2>4. EnqueueSlot(q, prio, t) = Min(I)
    BY <1>2, <2>3 DEF EnqueueSlot, SelectInSeq
  <2>5. \A i \in 1 .. Len(q) : i \in I <=> prio[t] > prio[q[i]]
    OBVIOUS
  <2> HIDE DEF I
  <2>6. Min(I) \in 1 .. Len(q) /\ prio[t] > prio[q[Min(I)]]
    BY <2>1, <2>2, <2>5
  <2>7. ASSUME NEW i \in 1 .. Len(q), i < Min(I)
        PROVE  prio[q[i]] >= prio[t]
    <3>1. i \notin I
      BY <2>2, <2>6, <2>7, <1>0
    <3> QED BY <1>0, <2>5, <3>1
  <2> QED BY <1>0, <2>4, <2>6, <2>7
<1> QED BY <1>1, <1>2

(* Cell by cell, the queue with t put into slot s.                          *)
Inserted(q, s, t, i) == IF i < s THEN q[i] ELSE IF i = s THEN t ELSE q[i - 1]

LEMMA InsertCells ==
    ASSUME NEW q \in Seq(Threads), NEW t \in Threads, NEW s \in 1 .. Len(q) + 1
    PROVE  /\ InsertAt(q, s, t) \in Seq(Threads)
           /\ Len(InsertAt(q, s, t)) = Len(q) + 1
           /\ \A i \in 1 .. Len(q) + 1 : InsertAt(q, s, t)[i] = Inserted(q, s, t, i)
<1> DEFINE left  == SubSeq(q, 1, s - 1)
           mid   == << t >>
           right == SubSeq(q, s, Len(q))
<1>0. Len(q) \in Nat /\ \A i \in 1 .. Len(q) : q[i] \in Threads
  BY LenProperties, ElementOfSeq
<1>1. /\ left \in Seq(Threads) /\ Len(left) = s - 1
      /\ \A i \in 1 .. s - 1 : left[i] = q[i]
  BY <1>0, SubSeqProperties
<1>2. /\ right \in Seq(Threads) /\ Len(right) = Len(q) - s + 1
      /\ \A i \in 1 .. Len(q) - s + 1 : right[i] = q[s + i - 1]
  BY <1>0, SubSeqProperties
<1>3. mid \in Seq(Threads) /\ Len(mid) = 1 /\ mid[1] = t
  OBVIOUS
<1> HIDE DEF left, mid, right
<1>4. /\ left \o mid \in Seq(Threads) /\ Len(left \o mid) = s
      /\ \A i \in 1 .. s : (left \o mid)[i] = IF i < s THEN q[i] ELSE t
  <2>1. /\ left \o mid \in Seq(Threads) /\ Len(left \o mid) = Len(left) + Len(mid)
        /\ \A i \in 1 .. Len(left) + Len(mid) : (left \o mid)[i] =
             IF i <= Len(left) THEN left[i] ELSE mid[i - Len(left)]
    BY <1>1, <1>3, ConcatProperties
  <2> QED BY <1>0, <1>1, <1>3, <2>1
<1> DEFINE front == left \o mid
<1>5. InsertAt(q, s, t) = front \o right
  BY DEF InsertAt, left, mid, right
<1>6. front \in Seq(Threads) /\ right \in Seq(Threads)
  BY <1>2, <1>4
<1> HIDE DEF front
<1>7. /\ front \o right \in Seq(Threads)
      /\ Len(front \o right) = Len(front) + Len(right)
      /\ \A i \in 1 .. Len(front) + Len(right) :
           (front \o right)[i] = IF i <= Len(front) THEN front[i]
                                 ELSE right[i - Len(front)]
  BY <1>6, ConcatProperties
<1>8. /\ Len(front) = s
      /\ \A i \in 1 .. s : front[i] = IF i < s THEN q[i] ELSE t
  BY <1>4 DEF front
<1> QED BY <1>0, <1>2, <1>5, <1>7, <1>8 DEF Inserted

(* Cell by cell, the queue without its slot s.                              *)
LEMMA RemoveCells ==
    ASSUME NEW q \in Seq(Threads), NEW s \in 1 .. Len(q)
    PROVE  /\ RemoveAt(q, s) \in Seq(Threads)
           /\ Len(RemoveAt(q, s)) = Len(q) - 1
           /\ \A i \in 1 .. Len(q) - 1 :
                RemoveAt(q, s)[i] = IF i < s THEN q[i] ELSE q[i + 1]
<1> DEFINE left  == SubSeq(q, 1, s - 1)
           right == SubSeq(q, s + 1, Len(q))
<1>0. Len(q) \in Nat /\ \A i \in 1 .. Len(q) : q[i] \in Threads
  BY LenProperties, ElementOfSeq
<1>1. /\ left \in Seq(Threads) /\ Len(left) = s - 1
      /\ \A i \in 1 .. s - 1 : left[i] = q[i]
  BY <1>0, SubSeqProperties
<1>2. /\ right \in Seq(Threads) /\ Len(right) = Len(q) - s
      /\ \A i \in 1 .. Len(q) - s : right[i] = q[s + i]
  BY <1>0, SubSeqProperties
<1>3. RemoveAt(q, s) = left \o right
  BY DEF RemoveAt
<1> HIDE DEF left, right
<1>4. /\ left \o right \in Seq(Threads)
      /\ Len(left \o right) = Len(left) + Len(right)
      /\ \A i \in 1 .. Len(left) + Len(right) : (left \o right)[i] =
           IF i <= Len(left) THEN left[i] ELSE right[i - Len(left)]
  BY <1>1, <1>2, ConcatProperties
<1> QED BY <1>0, <1>1, <1>2, <1>3, <1>4

-----------------------------------------------------------------------------
(* enqueue() of a thread that is not in the queue                           *)

(* enqueue(), cell by cell.                                                 *)
LEMMA EnqueueCells ==
    ASSUME NEW q \in Seq(Threads), NEW prio \in [Threads -> Nat], NEW t \in Threads
    PROVE  /\ Enqueue(q, prio, t) \in Seq(Threads)
           /\ Len(Enqueue(q, prio, t)) = Len(q) + 1
           /\ \A i \in 1 .. Len(q) + 1 :
                Enqueue(q, prio, t)[i] = Inserted(q, EnqueueSlot(q, prio, t), t, i)
<1> DEFINE s == EnqueueSlot(q, prio, t)
<1>1. s \in 1 .. Len(q) + 1
  BY EnqueueSlotRange
<1> HIDE DEF s
<1>2. /\ InsertAt(q, s, t) \in Seq(Threads)
      /\ Len(InsertAt(q, s, t)) = Len(q) + 1
      /\ \A i \in 1 .. Len(q) + 1 : InsertAt(q, s, t)[i] = Inserted(q, s, t, i)
  BY <1>1, InsertCells
<1> QED BY <1>2 DEF Enqueue, s

(* The queue gains t and nothing else, and every thread keeps being there   *)
(* once.                                                                    *)
LEMMA EnqueueMembers ==
    ASSUME NEW q \in Seq(Threads), NEW prio \in [Threads -> Nat],
           NEW t \in Threads
    PROVE  /\ Enqueue(q, prio, t) \in Seq(Threads)
           /\ \A u : InQueue(Enqueue(q, prio, t), u) <=> InQueue(q, u) \/ u = t
           /\ Injective(q) /\ ~InQueue(q, t) => Injective(Enqueue(q, prio, t))
<1> DEFINE s == EnqueueSlot(q, prio, t)
           r == Enqueue(q, prio, t)
<1>0. /\ Len(q) \in Nat /\ DOMAIN q = 1 .. Len(q)
      /\ \A i \in 1 .. Len(q) : q[i] \in Threads
  BY LenProperties, ElementOfSeq
<1>1. s \in 1 .. Len(q) + 1
  BY EnqueueSlotRange
<1>2. /\ r \in Seq(Threads) /\ Len(r) = Len(q) + 1
      /\ \A i \in 1 .. Len(q) + 1 :
           r[i] = IF i < s THEN q[i] ELSE IF i = s THEN t ELSE q[i - 1]
  <2>1. /\ r \in Seq(Threads) /\ Len(r) = Len(q) + 1
        /\ \A i \in 1 .. Len(q) + 1 : r[i] = Inserted(q, s, t, i)
    BY EnqueueCells
  <2> QED BY <2>1, Zenon DEF Inserted
<1>3. DOMAIN r = 1 .. Len(q) + 1
  BY <1>2, LenProperties
<1> HIDE DEF s, r
<1>4. ASSUME NEW u, InQueue(r, u)
      PROVE  InQueue(q, u) \/ u = t
  <2>1. PICK i \in 1 .. Len(q) + 1 : r[i] = u
    BY <1>3, <1>4 DEF InQueue
  <2>2. CASE i < s
    <3>1. i \in 1 .. Len(q) /\ q[i] = u
      BY <1>0, <1>1, <1>2, <2>1, <2>2
    <3> QED BY <1>0, <3>1 DEF InQueue
  <2>3. CASE i = s
    BY <1>2, <2>1, <2>3
  <2>4. CASE i > s
    <3>1. i - 1 \in 1 .. Len(q) /\ q[i - 1] = u
      BY <1>0, <1>1, <1>2, <2>1, <2>4
    <3> QED BY <1>0, <3>1 DEF InQueue
  <2> QED BY <1>0, <1>1, <2>2, <2>3, <2>4
<1>5. ASSUME NEW u, InQueue(q, u) \/ u = t
      PROVE  InQueue(r, u)
  <2>1. CASE u = t
    <3>1. s \in 1 .. Len(q) + 1 /\ r[s] = u
      BY <1>0, <1>1, <1>2, <2>1
    <3> QED BY <1>3, <3>1 DEF InQueue
  <2>2. CASE InQueue(q, u)
    <3>1. PICK i \in 1 .. Len(q) : q[i] = u
      BY <1>0, <2>2 DEF InQueue
    <3>2. CASE i < s
      <4>1. i \in 1 .. Len(q) + 1 /\ r[i] = u
        BY <1>0, <1>1, <1>2, <3>1, <3>2
      <4> QED BY <1>3, <4>1 DEF InQueue
    <3>3. CASE i >= s
      <4>1. /\ i + 1 \in 1 .. Len(q) + 1 /\ ~(i + 1 < s) /\ i + 1 # s
            /\ (i + 1) - 1 = i
        BY <1>0, <1>1, <3>3
      <4>2. r[i + 1] = u
        BY <1>2, <3>1, <4>1
      <4> QED BY <1>3, <4>1, <4>2 DEF InQueue
    <3> QED BY <1>0, <1>1, <3>2, <3>3
  <2> QED BY <1>5, <2>1, <2>2
<1>6. ASSUME Injective(q), ~InQueue(q, t)
      PROVE  Injective(r)
  <2> SUFFICES ASSUME NEW i \in 1 .. Len(q) + 1, NEW j \in 1 .. Len(q) + 1,
                      r[i] = r[j], i < j
               PROVE  FALSE
    BY <1>0, <1>3 DEF Injective
  <2>1. \A k \in 1 .. Len(q) : q[k] # t
    BY <1>0, <1>6 DEF InQueue
  <2>2. \A k, l \in 1 .. Len(q) : q[k] = q[l] => k = l
    BY <1>0, <1>6 DEF Injective
  <2>3. CASE i < s /\ j < s
    BY <1>0, <1>1, <1>2, <2>2, <2>3
  <2>4. CASE i < s /\ j = s
    BY <1>0, <1>1, <1>2, <2>1, <2>4
  <2>5. CASE i < s /\ j > s
    <3>1. i \in 1 .. Len(q) /\ j - 1 \in 1 .. Len(q) /\ q[i] = q[j - 1] /\ i # j - 1
      BY <1>0, <1>1, <1>2, <2>5
    <3> QED BY <2>2, <3>1
  <2>6. CASE i = s /\ j > s
    <3>1. j - 1 \in 1 .. Len(q) /\ q[j - 1] = t
      BY <1>0, <1>1, <1>2, <2>6
    <3> QED BY <2>1, <3>1
  <2>7. CASE i > s /\ j > s
    <3>1. /\ i - 1 \in 1 .. Len(q) /\ j - 1 \in 1 .. Len(q)
          /\ q[i - 1] = q[j - 1] /\ i - 1 # j - 1
      BY <1>0, <1>1, <1>2, <2>7
    <3> QED BY <2>2, <3>1
  <2> QED BY <1>0, <1>1, <2>3, <2>4, <2>5, <2>6, <2>7
<1> QED BY <1>2, <1>4, <1>5, <1>6 DEF r

(* The queue stays ordered by priority.                                     *)
LEMMA EnqueueSorted ==
    ASSUME NEW q \in Seq(Threads), NEW prio \in [Threads -> Nat],
           NEW t \in Threads, Sorted(q, prio)
    PROVE  Sorted(Enqueue(q, prio, t), prio)
<1> DEFINE s == EnqueueSlot(q, prio, t)
           r == Enqueue(q, prio, t)
<1>0. /\ Len(q) \in Nat /\ DOMAIN q = 1 .. Len(q)
      /\ \A i \in 1 .. Len(q) : prio[q[i]] \in Nat
  BY LenProperties, ElementOfSeq
<1>1. /\ s \in 1 .. Len(q) + 1
      /\ \A i \in 1 .. Len(q) : i < s => prio[q[i]] >= prio[t]
      /\ s <= Len(q) => prio[t] > prio[q[s]]
  BY EnqueueSlotRange
<1>2. /\ r \in Seq(Threads) /\ Len(r) = Len(q) + 1
      /\ \A i \in 1 .. Len(q) + 1 :
           r[i] = IF i < s THEN q[i] ELSE IF i = s THEN t ELSE q[i - 1]
  <2>1. /\ r \in Seq(Threads) /\ Len(r) = Len(q) + 1
        /\ \A i \in 1 .. Len(q) + 1 : r[i] = Inserted(q, s, t, i)
    BY EnqueueCells
  <2> QED BY <2>1, Zenon DEF Inserted
<1>3. DOMAIN r = 1 .. Len(q) + 1
  BY <1>2, LenProperties
<1>4. \A i, j \in 1 .. Len(q) : i < j => prio[q[i]] >= prio[q[j]]
  BY <1>0 DEF Sorted
<1>5. \A i \in 1 .. Len(q) : i >= s => prio[t] >= prio[q[i]]
  BY <1>0, <1>1, <1>4
<1> HIDE DEF s, r
<1> SUFFICES ASSUME NEW i \in 1 .. Len(q) + 1, NEW j \in 1 .. Len(q) + 1, i < j
             PROVE  prio[r[i]] >= prio[r[j]]
  BY <1>3 DEF Sorted, r
<1>6. CASE j < s
  BY <1>0, <1>1, <1>2, <1>4, <1>6
<1>7. CASE j = s
  BY <1>0, <1>1, <1>2, <1>7
<1>8. CASE i < s /\ j > s
  <2>1. r[i] = q[i] /\ r[j] = q[j - 1] /\ i \in 1 .. Len(q) /\ j - 1 \in 1 .. Len(q)
    BY <1>0, <1>1, <1>2, <1>8
  <2>2. prio[q[i]] >= prio[t] /\ prio[t] >= prio[q[j - 1]]
    BY <1>0, <1>1, <1>5, <1>8, <2>1
  <2> QED BY <1>0, <2>1, <2>2
<1>9. CASE i = s
  <2>1. r[i] = t /\ r[j] = q[j - 1] /\ j - 1 \in 1 .. Len(q) /\ j - 1 >= s
    BY <1>0, <1>1, <1>2, <1>9
  <2> QED BY <1>5, <2>1
<1>10. CASE i > s
  <2>1. /\ r[i] = q[i - 1] /\ r[j] = q[j - 1] /\ i - 1 < j - 1
        /\ i - 1 \in 1 .. Len(q) /\ j - 1 \in 1 .. Len(q)
    BY <1>0, <1>1, <1>2, <1>10
  <2> QED BY <1>4, <2>1
<1> QED BY <1>0, <1>1, <1>6, <1>7, <1>8, <1>9, <1>10

-----------------------------------------------------------------------------
(* front() and dequeue()                                                    *)

(* front() stops at the first thread that does not wait.                    *)
LEMMA FrontSlotRange ==
    ASSUME NEW q \in Seq(Threads), NEW state
    PROVE  /\ FrontSlot(q, state) \in 0 .. Len(q)
           /\ FrontSlot(q, state) = 0 =>
                \A i \in 1 .. Len(q) : state[q[i]] = "WAITING"
           /\ FrontSlot(q, state) # 0 =>
                /\ state[q[FrontSlot(q, state)]] # "WAITING"
                /\ \A i \in 1 .. Len(q) :
                     i < FrontSlot(q, state) => state[q[i]] = "WAITING"
<1> DEFINE I == {i \in 1 .. Len(q) : state[q[i]] # "WAITING"}
<1>0. Len(q) \in Nat
  BY LenProperties
<1>1. CASE I = {}
  <2>1. FrontSlot(q, state) = 0
    BY <1>1 DEF FrontSlot, SelectInSeq
  <2> QED BY <1>0, <1>1, <2>1
<1>2. CASE I # {}
  <2>1. I \subseteq 1 .. Len(q) /\ I \in SUBSET Nat
    BY <1>0
  <2>2. Min(I) \in I /\ \A y \in I : Min(I) <= y
    BY <1>2, <2>1, MinIsLeast
  <2>3. FrontSlot(q, state) = Min(I)
    BY <1>2 DEF FrontSlot, SelectInSeq
  <2>4. \A i \in 1 .. Len(q) : i \in I <=> state[q[i]] # "WAITING"
    OBVIOUS
  <2> HIDE DEF I
  <2>5. Min(I) \in 1 .. Len(q) /\ state[q[Min(I)]] # "WAITING"
    BY <2>1, <2>2, <2>4
  <2>6. ASSUME NEW i \in 1 .. Len(q), i < Min(I)
        PROVE  state[q[i]] = "WAITING"
    <3>1. i \notin I
      BY <2>2, <2>5, <2>6, <1>0
    <3> QED BY <2>4, <3>1
  <2> QED BY <1>0, <2>3, <2>5, <2>6
<1> QED BY <1>1, <1>2

(* What front() returns: NULL if every thread of the queue waits, and else  *)
(* a thread of the queue that does not wait.                                *)
LEMMA FrontThreadRange ==
    ASSUME NEW q \in Seq(Threads), NEW state
    PROVE  /\ FrontThread(q, state) = NULL =>
                \A u : InQueue(q, u) => state[u] = "WAITING"
           /\ FrontThread(q, state) # NULL =>
                /\ FrontThread(q, state) \in Threads
                /\ InQueue(q, FrontThread(q, state))
                /\ state[FrontThread(q, state)] # "WAITING"
<1> DEFINE s == FrontSlot(q, state)
<1>0. /\ Len(q) \in Nat /\ DOMAIN q = 1 .. Len(q)
      /\ \A i \in 1 .. Len(q) : q[i] \in Threads
  BY LenProperties, ElementOfSeq
<1>1. /\ s \in 0 .. Len(q)
      /\ s = 0 => \A i \in 1 .. Len(q) : state[q[i]] = "WAITING"
      /\ s # 0 => state[q[s]] # "WAITING"
  BY FrontSlotRange
<1> HIDE DEF s
<1>2. FrontThread(q, state) = IF s = 0 THEN NULL ELSE q[s]
  BY DEF FrontThread, s
<1>3. s # 0 => s \in 1 .. Len(q) /\ q[s] # NULL
  BY <1>0, <1>1, NullAssumption
<1> QED BY <1>0, <1>1, <1>2, <1>3 DEF InQueue

(* In an ordered queue no thread that could run has a higher priority than  *)
(* the one front() returns.                                                 *)
LEMMA FrontThreadHighest ==
    ASSUME NEW q \in Seq(Threads), NEW prio \in [Threads -> Nat], NEW state,
           Sorted(q, prio), FrontThread(q, state) # NULL,
           NEW u, InQueue(q, u), state[u] # "WAITING"
    PROVE  prio[u] <= prio[FrontThread(q, state)]
<1> DEFINE s == FrontSlot(q, state)
<1>0. /\ Len(q) \in Nat /\ DOMAIN q = 1 .. Len(q)
      /\ \A i \in 1 .. Len(q) : prio[q[i]] \in Nat
  BY LenProperties, ElementOfSeq
<1>1. s \in 1 .. Len(q) /\ FrontThread(q, state) = q[s]
  BY <1>0, FrontSlotRange DEF FrontThread
<1>2. \A i \in 1 .. Len(q) : i < s => state[q[i]] = "WAITING"
  BY <1>1, FrontSlotRange
<1> HIDE DEF s
<1>3. PICK i \in 1 .. Len(q) : q[i] = u
  BY <1>0 DEF InQueue
<1>4. i >= s
  BY <1>0, <1>1, <1>2, <1>3
<1>5. CASE i = s
  BY <1>0, <1>1, <1>3, <1>5
<1>6. CASE i > s
  BY <1>0, <1>1, <1>3, <1>6 DEF Sorted
<1> QED BY <1>0, <1>1, <1>4, <1>5, <1>6

(* dequeue() takes out the thread front() returns and nothing else, and the *)
(* queue stays ordered.                                                     *)
LEMMA DequeueMembers ==
    ASSUME NEW q \in Seq(Threads), NEW state, Injective(q)
    PROVE  /\ Dequeue(q, state) \in Seq(Threads)
           /\ Injective(Dequeue(q, state))
           /\ \A u : InQueue(Dequeue(q, state), u) <=>
                        InQueue(q, u) /\ u # FrontThread(q, state)
           /\ \A prio : Sorted(q, prio) => Sorted(Dequeue(q, state), prio)
<1> DEFINE s == FrontSlot(q, state)
           r == Dequeue(q, state)
<1>0. /\ Len(q) \in Nat /\ DOMAIN q = 1 .. Len(q)
      /\ \A i \in 1 .. Len(q) : q[i] \in Threads
  BY LenProperties, ElementOfSeq
<1>1. CASE s = 0
  <2>1. r = q /\ FrontThread(q, state) = NULL
    BY <1>1 DEF Dequeue, FrontThread
  <2>2. ~InQueue(q, NULL)
    BY <1>0, NullAssumption DEF InQueue
  <2> QED BY <2>1, <2>2
<1>2. CASE s # 0
  <2>1. s \in 1 .. Len(q) /\ FrontThread(q, state) = q[s]
    BY <1>0, <1>2, FrontSlotRange DEF FrontThread
  <2>2. /\ r \in Seq(Threads) /\ Len(r) = Len(q) - 1
        /\ \A i \in 1 .. Len(q) - 1 : r[i] = IF i < s THEN q[i] ELSE q[i + 1]
    BY <1>2, <2>1, RemoveCells DEF Dequeue
  <2>3. DOMAIN r = 1 .. Len(q) - 1
    BY <2>2, LenProperties
  <2> HIDE DEF s, r
  (* where cell i of the new queue was in the old one                       *)
  <2> DEFINE old(i) == IF i < s THEN i ELSE i + 1
  <2>4. \A i \in 1 .. Len(q) - 1 : /\ old(i) \in 1 .. Len(q) /\ old(i) # s
                                   /\ r[i] = q[old(i)]
    BY <1>0, <2>1, <2>2
  <2>5. \A i, j \in 1 .. Len(q) - 1 : i < j <=> old(i) < old(j)
    BY <1>0, <2>1
  <2>6. \A k \in 1 .. Len(q) : k # s =>
           \E i \in 1 .. Len(q) - 1 : old(i) = k
    <3> TAKE k \in 1 .. Len(q)
    <3> HAVE k # s
    <3>1. CASE k < s
      <4>1. k \in 1 .. Len(q) - 1 /\ old(k) = k
        BY <1>0, <2>1, <3>1
      <4> QED BY <4>1
    <3>2. CASE k > s
      <4>1. k - 1 \in 1 .. Len(q) - 1 /\ old(k - 1) = k
        BY <1>0, <2>1, <3>2
      <4> QED BY <4>1
    <3> QED BY <1>0, <2>1, <3>1, <3>2
  <2> HIDE DEF old
  <2>7. \A k, l \in 1 .. Len(q) : q[k] = q[l] => k = l
    BY <1>0 DEF Injective
  <2>8. Injective(r)
    <3> SUFFICES ASSUME NEW i \in 1 .. Len(q) - 1, NEW j \in 1 .. Len(q) - 1,
                        r[i] = r[j]
                 PROVE  i = j
      BY <2>3 DEF Injective
    <3>1. old(i) = old(j)
      BY <2>4, <2>7
    <3>2. ~(i < j) /\ ~(j < i)
      BY <1>0, <2>4, <2>5, <3>1
    <3> QED BY <1>0, <3>2
  <2>9. \A u : InQueue(r, u) <=> InQueue(q, u) /\ u # q[s]
    <3> TAKE u
    <3>1. ASSUME InQueue(r, u) PROVE InQueue(q, u) /\ u # q[s]
      <4>1. PICK i \in 1 .. Len(q) - 1 : r[i] = u
        BY <2>3, <3>1 DEF InQueue
      <4> QED BY <1>0, <2>1, <2>4, <2>7, <4>1 DEF InQueue
    <3>2. ASSUME InQueue(q, u), u # q[s] PROVE InQueue(r, u)
      <4>1. PICK k \in 1 .. Len(q) : q[k] = u
        BY <1>0, <3>2 DEF InQueue
      <4>2. PICK i \in 1 .. Len(q) - 1 : old(i) = k
        BY <2>6, <3>2, <4>1
      <4> QED BY <2>3, <2>4, <4>1, <4>2 DEF InQueue
    <3> QED BY <3>1, <3>2
  <2>10. ASSUME NEW prio, Sorted(q, prio) PROVE Sorted(r, prio)
    <3> SUFFICES ASSUME NEW i \in 1 .. Len(q) - 1, NEW j \in 1 .. Len(q) - 1, i < j
                 PROVE  prio[r[i]] >= prio[r[j]]
      BY <2>3 DEF Sorted
    <3>1. old(i) \in 1 .. Len(q) /\ old(j) \in 1 .. Len(q) /\ old(i) < old(j)
      BY <2>4, <2>5
    <3> QED BY <1>0, <2>4, <2>10, <3>1 DEF Sorted
  <2> QED BY <2>1, <2>2, <2>8, <2>9, <2>10 DEF r
<1> QED BY <1>1, <1>2

-----------------------------------------------------------------------------
(* The order of the queue                                                   *)

(* enqueue() keeps the order of the threads that are there, and puts t      *)
(* behind those of its priority or a higher one and before the others.      *)
LEMMA EnqueueOrder ==
    ASSUME NEW q \in Seq(Threads), NEW prio \in [Threads -> Nat],
           NEW t \in Threads, Sorted(q, prio), ~InQueue(q, t)
    PROVE  \A u, v \in Threads :
             Ahead(Enqueue(q, prio, t), u, v) <=>
               \/ u # t /\ v # t /\ Ahead(q, u, v)
               \/ InQueue(q, u) /\ v = t /\ prio[u] >= prio[t]
               \/ InQueue(q, v) /\ u = t /\ prio[v] < prio[t]
<1> DEFINE s == EnqueueSlot(q, prio, t)
           r == Enqueue(q, prio, t)
           new(i) == IF i < s THEN i ELSE i + 1
<1>0. /\ Len(q) \in Nat /\ DOMAIN q = 1 .. Len(q)
      /\ \A i \in 1 .. Len(q) : prio[q[i]] \in Nat /\ q[i] # t
  BY LenProperties, ElementOfSeq DEF InQueue
<1>1. /\ s \in 1 .. Len(q) + 1
      /\ \A i \in 1 .. Len(q) : i < s => prio[q[i]] >= prio[t]
      /\ s <= Len(q) => prio[t] > prio[q[s]]
  BY EnqueueSlotRange
<1>2. /\ r \in Seq(Threads) /\ Len(r) = Len(q) + 1
      /\ \A i \in 1 .. Len(q) + 1 :
           r[i] = IF i < s THEN q[i] ELSE IF i = s THEN t ELSE q[i - 1]
  <2>1. /\ r \in Seq(Threads) /\ Len(r) = Len(q) + 1
        /\ \A i \in 1 .. Len(q) + 1 : r[i] = Inserted(q, s, t, i)
    BY EnqueueCells
  <2> QED BY <2>1, Zenon DEF Inserted
<1>3. DOMAIN r = 1 .. Len(q) + 1
  BY <1>2, LenProperties
<1>4. \A i \in 1 .. Len(q) : i < s <=> prio[q[i]] >= prio[t]
  <2> TAKE i \in 1 .. Len(q)
  <2>1. CASE i < s
    BY <1>1, <2>1
  <2>2. CASE i >= s
    <3>1. s \in 1 .. Len(q) /\ prio[t] > prio[q[s]] /\ prio[t] \in Nat
      BY <1>0, <1>1, <2>2
    <3>2. prio[q[s]] >= prio[q[i]]
      BY <1>0, <2>2, <3>1 DEF Sorted
    <3> QED BY <1>0, <1>1, <2>2, <3>1, <3>2
  <2> QED BY <1>0, <1>1, <2>1, <2>2
<1> HIDE DEF s, r
<1>5. /\ r[s] = t
      /\ \A i \in 1 .. Len(q) : new(i) \in 1 .. Len(q) + 1 /\ new(i) # s /\ r[new(i)] = q[i]
      /\ \A i, j \in 1 .. Len(q) : i < j <=> new(i) < new(j)
      /\ \A i \in 1 .. Len(q) : new(i) < s <=> i < s
      /\ \A i \in 1 .. Len(q) : s < new(i) <=> ~(i < s)
  <2>1. r[s] = t
    BY <1>0, <1>1, <1>2
  <2>2. ASSUME NEW i \in 1 .. Len(q)
        PROVE  /\ new(i) \in 1 .. Len(q) + 1 /\ new(i) # s
               /\ new(i) < s <=> i < s
               /\ s < new(i) <=> ~(i < s)
               /\ i < s => new(i) = i
               /\ ~(i < s) => new(i) - 1 = i
    BY <1>0, <1>1
  <2>3. ASSUME NEW i \in 1 .. Len(q)
        PROVE  r[new(i)] = q[i]
    <3> DEFINE k == new(i)
    <3> HIDE DEF k
    <3>1. /\ k \in 1 .. Len(q) + 1 /\ k # s /\ (k < s <=> i < s)
          /\ i < s => k = i
          /\ ~(i < s) => k - 1 = i
      BY <2>2 DEF k
    <3>2. r[k] = IF k < s THEN q[k] ELSE IF k = s THEN t ELSE q[k - 1]
      BY <1>2, <3>1
    <3>3. r[k] = q[i]
      BY <3>1, <3>2
    <3> QED BY <3>3 DEF k
  <2>4. \A i, j \in 1 .. Len(q) : i < j <=> new(i) < new(j)
    BY <1>0, <1>1
  <2> QED BY <2>1, <2>2, <2>3, <2>4
<1>6. \A k \in 1 .. Len(q) + 1 : k # s => \E i \in 1 .. Len(q) : new(i) = k
  <2> TAKE k \in 1 .. Len(q) + 1
  <2> HAVE k # s
  <2>1. CASE k < s
    BY <1>0, <1>1, <2>1
  <2>2. CASE k > s
    <3>1. k - 1 \in 1 .. Len(q) /\ new(k - 1) = k
      BY <1>0, <1>1, <2>2
    <3> QED BY <3>1
  <2> QED BY <1>0, <1>1, <2>1, <2>2
<1> HIDE DEF new
<1>7. \A k \in 1 .. Len(q) + 1 : r[k] = t => k = s
  BY <1>0, <1>5, <1>6
<1>8. s \in 1 .. Len(q) + 1
  BY <1>1
<1> SUFFICES ASSUME NEW u \in Threads, NEW v \in Threads
             PROVE  Ahead(r, u, v) <=>
                      \/ u # t /\ v # t /\ Ahead(q, u, v)
                      \/ InQueue(q, u) /\ v = t /\ prio[u] >= prio[t]
                      \/ InQueue(q, v) /\ u = t /\ prio[v] < prio[t]
  BY DEF r
<1>9. ASSUME Ahead(r, u, v)
      PROVE  \/ u # t /\ v # t /\ Ahead(q, u, v)
             \/ InQueue(q, u) /\ v = t /\ prio[u] >= prio[t]
             \/ InQueue(q, v) /\ u = t /\ prio[v] < prio[t]
  <2>1. PICK k \in 1 .. Len(q) + 1, l \in 1 .. Len(q) + 1 :
          k < l /\ r[k] = u /\ r[l] = v
    BY <1>3, <1>9 DEF Ahead
  <2>2. CASE k # s /\ l # s
    <3>1. PICK i \in 1 .. Len(q), j \in 1 .. Len(q) : new(i) = k /\ new(j) = l
      BY <1>6, <2>2
    <3>2. i < j /\ q[i] = u /\ q[j] = v
      BY <1>5, <2>1, <3>1
    <3> QED BY <1>0, <3>2 DEF Ahead
  <2>3. CASE l = s
    <3>1. k # s
      BY <2>1, <2>3
    <3>2. PICK i \in 1 .. Len(q) : new(i) = k
      BY <1>6, <3>1
    <3>3. q[i] = u /\ i < s /\ v = t
      BY <1>5, <2>1, <2>3, <3>2
    <3> QED BY <1>0, <1>4, <3>3 DEF InQueue
  <2>4. CASE k = s
    <3>1. l # s
      BY <2>1, <2>4
    <3>2. PICK i \in 1 .. Len(q) : new(i) = l
      BY <1>6, <3>1
    <3>3. q[i] = v /\ ~(i < s) /\ u = t
      BY <1>5, <2>1, <2>4, <3>2
    <3>4. ~(prio[v] >= prio[t])
      BY <1>4, <3>3
    <3> QED BY <1>0, <3>3, <3>4 DEF InQueue
  <2> QED BY <2>2, <2>3, <2>4
<1>10. ASSUME u # t, v # t, Ahead(q, u, v)
       PROVE  Ahead(r, u, v)
  <2>1. PICK i \in 1 .. Len(q), j \in 1 .. Len(q) : i < j /\ q[i] = u /\ q[j] = v
    BY <1>0, <1>10 DEF Ahead
  <2>2. /\ new(i) \in 1 .. Len(q) + 1 /\ new(j) \in 1 .. Len(q) + 1
        /\ new(i) < new(j) /\ r[new(i)] = u /\ r[new(j)] = v
    BY <1>5, <2>1
  <2> QED BY <1>3, <2>2 DEF Ahead
<1>11. ASSUME InQueue(q, u), v = t, prio[u] >= prio[t]
       PROVE  Ahead(r, u, v)
  <2>1. PICK i \in 1 .. Len(q) : q[i] = u
    BY <1>0, <1>11 DEF InQueue
  <2>2. new(i) \in 1 .. Len(q) + 1 /\ new(i) < s /\ r[new(i)] = u /\ r[s] = v
    BY <1>4, <1>5, <1>11, <2>1
  <2> QED BY <1>3, <1>8, <2>2 DEF Ahead
<1>12. ASSUME InQueue(q, v), u = t, prio[v] < prio[t]
       PROVE  Ahead(r, u, v)
  <2>1. PICK i \in 1 .. Len(q) : q[i] = v
    BY <1>0, <1>12 DEF InQueue
  <2>2. ~(prio[q[i]] >= prio[t])
    BY <1>0, <1>12, <2>1
  <2>3. new(i) \in 1 .. Len(q) + 1 /\ s < new(i) /\ r[new(i)] = v /\ r[s] = u
    BY <1>4, <1>5, <1>12, <2>1, <2>2
  <2> QED BY <1>3, <1>8, <2>3 DEF Ahead
<1> QED BY <1>9, <1>10, <1>11, <1>12

(* dequeue() keeps the order of the threads that stay.                      *)
LEMMA DequeueOrder ==
    ASSUME NEW q \in Seq(Threads), NEW state, Injective(q)
    PROVE  \A u, v \in Threads :
             Ahead(Dequeue(q, state), u, v) <=>
               /\ Ahead(q, u, v)
               /\ u # FrontThread(q, state) /\ v # FrontThread(q, state)
<1> DEFINE s == FrontSlot(q, state)
           r == Dequeue(q, state)
           old(i) == IF i < s THEN i ELSE i + 1
<1>0. /\ Len(q) \in Nat /\ DOMAIN q = 1 .. Len(q)
      /\ \A i \in 1 .. Len(q) : q[i] \in Threads
  BY LenProperties, ElementOfSeq
<1>1. CASE s = 0
  <2>1. r = q /\ FrontThread(q, state) = NULL
    BY <1>1 DEF Dequeue, FrontThread
  <2> QED BY <2>1, NullAssumption
<1>2. CASE s # 0
  <2>1. s \in 1 .. Len(q) /\ FrontThread(q, state) = q[s]
    BY <1>0, <1>2, FrontSlotRange DEF FrontThread
  <2>2. /\ r \in Seq(Threads) /\ Len(r) = Len(q) - 1
        /\ \A i \in 1 .. Len(q) - 1 : r[i] = IF i < s THEN q[i] ELSE q[i + 1]
    BY <1>2, <2>1, RemoveCells DEF Dequeue
  <2>3. DOMAIN r = 1 .. Len(q) - 1
    BY <2>2, LenProperties
  <2> HIDE DEF s, r
  <2>4. \A i \in 1 .. Len(q) - 1 : /\ old(i) \in 1 .. Len(q) /\ old(i) # s
                                   /\ r[i] = q[old(i)]
    BY <1>0, <2>1, <2>2
  <2>5. \A i, j \in 1 .. Len(q) - 1 : i < j <=> old(i) < old(j)
    BY <1>0, <2>1
  <2>6. \A k \in 1 .. Len(q) : k # s => \E i \in 1 .. Len(q) - 1 : old(i) = k
    <3> TAKE k \in 1 .. Len(q)
    <3> HAVE k # s
    <3>1. CASE k < s
      <4>1. k \in 1 .. Len(q) - 1 /\ old(k) = k
        BY <1>0, <2>1, <3>1
      <4> QED BY <4>1
    <3>2. CASE k > s
      <4>1. k - 1 \in 1 .. Len(q) - 1 /\ old(k - 1) = k
        BY <1>0, <2>1, <3>2
      <4> QED BY <4>1
    <3> QED BY <1>0, <2>1, <3>1, <3>2
  <2> HIDE DEF old
  <2>7. \A k, l \in 1 .. Len(q) : q[k] = q[l] => k = l
    BY <1>0 DEF Injective
  <2> SUFFICES ASSUME NEW u \in Threads, NEW v \in Threads
               PROVE  Ahead(r, u, v) <=> Ahead(q, u, v) /\ u # q[s] /\ v # q[s]
    BY <2>1 DEF r
  <2>8. ASSUME Ahead(r, u, v) PROVE Ahead(q, u, v) /\ u # q[s] /\ v # q[s]
    <3>1. PICK i \in 1 .. Len(q) - 1, j \in 1 .. Len(q) - 1 :
            i < j /\ r[i] = u /\ r[j] = v
      BY <2>3, <2>8 DEF Ahead
    <3>2. old(i) < old(j) /\ q[old(i)] = u /\ q[old(j)] = v
      BY <2>4, <2>5, <3>1
    <3> QED BY <1>0, <2>1, <2>4, <2>7, <3>1, <3>2 DEF Ahead
  <2>9. ASSUME Ahead(q, u, v), u # q[s], v # q[s] PROVE Ahead(r, u, v)
    <3>1. PICK k \in 1 .. Len(q), l \in 1 .. Len(q) : k < l /\ q[k] = u /\ q[l] = v
      BY <1>0, <2>9 DEF Ahead
    <3>2. PICK i \in 1 .. Len(q) - 1, j \in 1 .. Len(q) - 1 : old(i) = k /\ old(j) = l
      BY <2>6, <2>9, <3>1
    <3> QED BY <2>3, <2>4, <2>5, <3>1, <3>2 DEF Ahead
  <2> QED BY <2>8, <2>9
<1> QED BY <1>1, <1>2

(* Only waiting threads are ahead of the one front() returns.               *)
LEMMA FrontOrder ==
    ASSUME NEW q \in Seq(Threads), NEW state, Injective(q),
           NEW u, Ahead(q, u, FrontThread(q, state)), FrontThread(q, state) # NULL
    PROVE  state[u] = "WAITING"
<1> DEFINE s == FrontSlot(q, state)
<1>0. Len(q) \in Nat /\ DOMAIN q = 1 .. Len(q)
  BY LenProperties
<1>1. s \in 1 .. Len(q) /\ FrontThread(q, state) = q[s]
  BY <1>0, FrontSlotRange DEF FrontThread
<1>2. \A i \in 1 .. Len(q) : i < s => state[q[i]] = "WAITING"
  BY <1>1, FrontSlotRange
<1> HIDE DEF s
<1>3. PICK i \in 1 .. Len(q), j \in 1 .. Len(q) : i < j /\ q[i] = u /\ q[j] = q[s]
  BY <1>0, <1>1 DEF Ahead
<1>4. j = s
  BY <1>0, <1>1, <1>3 DEF Injective
<1> QED BY <1>2, <1>3, <1>4

(* The threads of a queue that holds each once are in a total order.        *)
LEMMA AheadIsAnOrder ==
    ASSUME NEW q \in Seq(Threads), Injective(q)
    PROVE  /\ \A u, v : Ahead(q, u, v) =>
                InQueue(q, u) /\ InQueue(q, v) /\ u # v /\ ~Ahead(q, v, u)
           /\ \A u, v : InQueue(q, u) /\ InQueue(q, v) /\ u # v =>
                Ahead(q, u, v) \/ Ahead(q, v, u)
           /\ \A u, v, w : Ahead(q, u, v) /\ Ahead(q, v, w) => Ahead(q, u, w)
<1>0. Len(q) \in Nat /\ DOMAIN q = 1 .. Len(q)
  BY LenProperties
<1>1. \A k, l \in 1 .. Len(q) : q[k] = q[l] => k = l
  BY <1>0 DEF Injective
<1>2. ASSUME NEW u, NEW v, Ahead(q, u, v)
      PROVE  InQueue(q, u) /\ InQueue(q, v) /\ u # v /\ ~Ahead(q, v, u)
  <2>1. PICK i \in 1 .. Len(q), j \in 1 .. Len(q) : i < j /\ q[i] = u /\ q[j] = v
    BY <1>0, <1>2 DEF Ahead
  <2>2. ASSUME Ahead(q, v, u) PROVE FALSE
    <3>1. PICK k \in 1 .. Len(q), l \in 1 .. Len(q) : k < l /\ q[k] = v /\ q[l] = u
      BY <1>0, <2>2 DEF Ahead
    <3>2. k = j /\ l = i
      BY <1>1, <2>1, <3>1
    <3> QED BY <1>0, <2>1, <3>1, <3>2
  <2>3. u # v
    BY <1>0, <1>1, <2>1
  <2> QED BY <1>0, <2>1, <2>2, <2>3 DEF InQueue
<1>3. ASSUME NEW u, NEW v, InQueue(q, u), InQueue(q, v), u # v
      PROVE  Ahead(q, u, v) \/ Ahead(q, v, u)
  <2>1. PICK i \in 1 .. Len(q), j \in 1 .. Len(q) : q[i] = u /\ q[j] = v
    BY <1>0, <1>3 DEF InQueue
  <2>2. i < j \/ j < i
    BY <1>0, <1>3, <2>1
  <2> QED BY <1>0, <2>1, <2>2 DEF Ahead
<1>4. ASSUME NEW u, NEW v, NEW w, Ahead(q, u, v), Ahead(q, v, w)
      PROVE  Ahead(q, u, w)
  <2>1. PICK i \in 1 .. Len(q), j \in 1 .. Len(q) : i < j /\ q[i] = u /\ q[j] = v
    BY <1>0, <1>4 DEF Ahead
  <2>2. PICK k \in 1 .. Len(q), l \in 1 .. Len(q) : k < l /\ q[k] = v /\ q[l] = w
    BY <1>0, <1>4 DEF Ahead
  <2>3. j = k
    BY <1>1, <2>1, <2>2
  <2>4. i < l
    BY <1>0, <2>1, <2>2, <2>3
  <2> QED BY <1>0, <2>1, <2>2, <2>4 DEF Ahead
<1> QED BY <1>2, <1>3, <1>4

=============================================================================
