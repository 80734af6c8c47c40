------------------------- MODULE SoScheduler_proof -------------------------
(***************************************************************************)
(* Proofs about SoScheduler for any number of threads, priorities, devices *)
(* and any quantum, and for clients that keep to its convention: no        *)
(* handler forks a thread of a higher priority than its own, and main()    *)
(* calls the library while no thread can run.                              *)
(*                                                                         *)
(* Every call takes the scheduler apart and puts it together again: it     *)
(* queues the running thread, wakes or adds threads, dispatches the front  *)
(* thread.  Consistent is the invariant as a condition on the values the   *)
(* code has at any point of that; the lemmas about it are the pieces, and  *)
(* each action is put together from them.                                  *)
(***************************************************************************)
EXTENDS SoScheduler, QueueLemmas, FiniteSetTheorems

(* Queue q, running thread r and the fields of the threads agree.           *)
Consistent(q, r, pr, st, sm, pc, lf, ev, qt) ==
    /\ Injective(q) /\ Sorted(q, pr)
    /\ r # NULL => ~InQueue(q, r)
    /\ \A t \in Threads :
         /\ pc[t] \in {"blocked", "run"} <=> (InQueue(q, t) \/ r = t)
         /\ sm[t] + (IF pc[t] = "run" THEN 1 ELSE 0) = (IF r = t THEN 1 ELSE 0)
         /\ st[t] = "RUNNING" <=> r = t
         /\ InQueue(q, t) => st[t] \in {"READY", "WAITING"}
         /\ st[t] = "WAITING" <=> ev[t] # NoEvent
         /\ pc[t] = "exited" => st[t] = "TERMINATED"
         /\ pc[t] \in {"blocked", "run"} => lf[t] \in 1 .. qt

(* The values have their types.                                             *)
Typed(q, pr, st, sm, pc, lf, ev, qt) ==
    /\ q \in Seq(Threads)
    /\ pr \in [Threads -> Priorities]
    /\ st \in [Threads -> States]
    /\ sm \in [Threads -> Nat]
    /\ pc \in [Threads -> {"none", "blocked", "run", "exited"}]
    /\ lf \in [Threads -> 0 .. MaxQuantum]
    /\ ev \in [Threads -> Devices \cup {NoEvent}]
    /\ qt \in 0 .. MaxQuantum

(* Nobody in the queue could run instead of r with a higher priority.       *)
Highest(q, r, pr, st) ==
    /\ r # NULL => \A t \in Threads :
                     InQueue(q, t) /\ st[t] # "WAITING" => pr[t] <= pr[r]
    /\ r = NULL => \A t \in Threads : InQueue(q, t) => st[t] = "WAITING"

(* The bookkeeping of so_end(): every thread that exists is in the array    *)
(* threads, those joined have exited, and without a scheduler none exists.  *)
MainInv ==
    /\ \A t \in Threads : at[t] # "none" => \E i \in 1 .. Len(threads) : threads[i] = t
    /\ main = "join" =>
         /\ quantum # 0 /\ joined <= Len(threads)
         /\ \A i \in 1 .. joined : at[threads[i]] = "exited"
    /\ quantum = 0 => \A t \in Threads : at[t] = "none"

SchedulerConsistent ==
    Consistent(pq, running, prio, state, sem, at, left, event, quantum)

SchedulerInv ==
    /\ TypeOK
    /\ SchedulerConsistent
    /\ Highest(pq, running, prio, state)
    /\ MainInv

-----------------------------------------------------------------------------
(* The pieces the calls are made of                                         *)

LEMMA PrioritiesNat == Priorities \subseteq Nat /\ \A f \in [Threads -> Priorities] : f \in [Threads -> Nat]
BY LimitsAssumption DEF Priorities

(* check_preempt() with no running thread: the front thread is dispatched.  *)
LEMMA DispatchKeeps ==
    ASSUME NEW q, NEW pr, NEW st, NEW sm, NEW pc, NEW lf, NEW ev, NEW qt,
           Typed(q, pr, st, sm, pc, lf, ev, qt),
           Consistent(q, NULL, pr, st, sm, pc, lf, ev, qt),
           Dispatch(q, st, sm)
    PROVE  /\ Typed(pq', pr, state', sem', pc, lf, ev, qt)
           /\ running' \in Threads \cup {NULL}
           /\ running' # NULL => InQueue(q, running')
           /\ (\E t \in Threads : InQueue(q, t) /\ st[t] # "WAITING") => running' # NULL
           /\ Consistent(pq', running', pr, state', sem', pc, lf, ev, qt)
           /\ Highest(pq', running', pr, state')
<1> DEFINE n == FrontThread(q, st)
<1>0. /\ q \in Seq(Threads) /\ pr \in [Threads -> Nat]
      /\ st \in [Threads -> States] /\ sm \in [Threads -> Nat]
  BY PrioritiesNat DEF Typed
<1>1. /\ n = NULL => \A t \in Threads : InQueue(q, t) => st[t] = "WAITING"
      /\ n # NULL => n \in Threads /\ InQueue(q, n) /\ st[n] # "WAITING"
  BY <1>0, FrontThreadRange
<1>2. /\ pq' \in Seq(Threads) /\ Injective(pq') /\ Sorted(pq', pr)
      /\ \A u : InQueue(pq', u) <=> InQueue(q, u) /\ u # n
  BY <1>0, DequeueMembers DEF Dispatch, Consistent
<1>3. n # NULL => \A u \in Threads : InQueue(q, u) /\ st[u] # "WAITING" => pr[u] <= pr[n]
  BY <1>0, FrontThreadHighest DEF Consistent
<1>4. running' = n
  BY DEF Dispatch
<1>5. /\ state' \in [Threads -> States] /\ sem' \in [Threads -> Nat]
      /\ \A t \in Threads : /\ state'[t] = IF t = n THEN "RUNNING" ELSE st[t]
                            /\ sem'[t] = IF t = n THEN sm[t] + 1 ELSE sm[t]
  BY <1>0, <1>1, NullAssumption DEF Dispatch, States
<1> HIDE DEF n
<1>6. Typed(pq', pr, state', sem', pc, lf, ev, qt)
  BY <1>2, <1>5 DEF Typed
<1>7. Highest(pq', running', pr, state')
  BY <1>1, <1>2, <1>3, <1>4, <1>5, NullAssumption DEF Highest
<1>8. Consistent(pq', running', pr, state', sem', pc, lf, ev, qt)
  <2> SUFFICES ASSUME NEW t \in Threads
               PROVE  /\ pc[t] \in {"blocked", "run"} <=> (InQueue(pq', t) \/ n = t)
                      /\ sem'[t] + (IF pc[t] = "run" THEN 1 ELSE 0)
                           = (IF n = t THEN 1 ELSE 0)
                      /\ state'[t] = "RUNNING" <=> n = t
                      /\ InQueue(pq', t) => state'[t] \in {"READY", "WAITING"}
                      /\ state'[t] = "WAITING" <=> ev[t] # NoEvent
                      /\ pc[t] = "exited" => state'[t] = "TERMINATED"
                      /\ pc[t] \in {"blocked", "run"} => lf[t] \in 1 .. qt
    BY <1>2, <1>4 DEF Consistent
  <2>1. /\ pc[t] \in {"blocked", "run"} <=> InQueue(q, t)
        /\ sm[t] + (IF pc[t] = "run" THEN 1 ELSE 0) = 0
        /\ st[t] # "RUNNING"
        /\ InQueue(q, t) => st[t] \in {"READY", "WAITING"}
        /\ st[t] = "WAITING" <=> ev[t] # NoEvent
        /\ pc[t] = "exited" => st[t] = "TERMINATED"
        /\ pc[t] \in {"blocked", "run"} => lf[t] \in 1 .. qt
    BY NullAssumption DEF Consistent
  <2>2. sm[t] \in Nat
    BY <1>0
  <2>3. CASE t = n
    <3>1. n # NULL
      BY <2>3, NullAssumption
    <3>2. /\ InQueue(q, t) /\ st[t] = "READY" /\ ~InQueue(pq', t)
          /\ state'[t] = "RUNNING" /\ sem'[t] = sm[t] + 1
      BY <1>1, <1>2, <1>5, <2>1, <2>3, <3>1
    <3> QED BY <2>1, <2>2, <2>3, <3>2
  <2>4. CASE t # n
    <3>1. /\ InQueue(pq', t) <=> InQueue(q, t)
          /\ state'[t] = st[t] /\ sem'[t] = sm[t]
      BY <1>2, <1>5, <2>4
    <3> QED BY <2>1, <2>2, <2>4, <3>1
  <2> QED BY <2>3, <2>4
<1> QED BY <1>1, <1>4, <1>6, <1>7, <1>8, NullAssumption

(* The thread r on the processor goes back to the queue, and the pthread    *)
(* that has it waits for its semaphore.                                     *)
LEMMA ReleaseKeeps ==
    ASSUME NEW q, NEW r \in Threads, NEW pr, NEW st, NEW sm, NEW pc, NEW lf,
           NEW ev, NEW qt,
           Typed(q, pr, st, sm, pc, lf, ev, qt),
           Consistent(q, r, pr, st, sm, pc, lf, ev, qt),
           NEW st2, NEW sm2, NEW pc2, NEW lf2, NEW ev2,
           Typed(q, pr, st2, sm2, pc2, lf2, ev2, qt),
           \A t \in Threads \ {r} :
               /\ st2[t] = st[t] /\ sm2[t] = sm[t] /\ pc2[t] = pc[t]
               /\ lf2[t] = lf[t] /\ ev2[t] = ev[t],
           st2[r] \in {"READY", "WAITING"}, st2[r] = "WAITING" <=> ev2[r] # NoEvent,
           sm2[r] = 0, pc2[r] = "blocked", lf2[r] \in 1 .. qt
    PROVE  /\ Typed(Enqueue(q, pr, r), pr, st2, sm2, pc2, lf2, ev2, qt)
           /\ Consistent(Enqueue(q, pr, r), NULL, pr, st2, sm2, pc2, lf2, ev2, qt)
           /\ InQueue(Enqueue(q, pr, r), r)
<1> DEFINE q2 == Enqueue(q, pr, r)
<1>0. /\ q \in Seq(Threads) /\ pr \in [Threads -> Nat] /\ r # NULL
      /\ \A t \in Threads : sm[t] \in Nat
  BY PrioritiesNat, NullAssumption DEF Typed
<1>1. /\ q2 \in Seq(Threads) /\ Injective(q2)
      /\ \A u : InQueue(q2, u) <=> InQueue(q, u) \/ u = r
  BY <1>0, EnqueueMembers DEF Consistent
<1>2. Sorted(q2, pr)
  BY <1>0, EnqueueSorted DEF Consistent
<1> HIDE DEF q2
<1>3. Typed(q2, pr, st2, sm2, pc2, lf2, ev2, qt)
  BY <1>1 DEF Typed
<1>4. ASSUME NEW t \in Threads
      PROVE  /\ pc2[t] \in {"blocked", "run"} <=> (InQueue(q2, t) \/ NULL = t)
             /\ sm2[t] + (IF pc2[t] = "run" THEN 1 ELSE 0)
                  = (IF NULL = t THEN 1 ELSE 0)
             /\ st2[t] = "RUNNING" <=> NULL = t
             /\ InQueue(q2, t) => st2[t] \in {"READY", "WAITING"}
             /\ st2[t] = "WAITING" <=> ev2[t] # NoEvent
             /\ pc2[t] = "exited" => st2[t] = "TERMINATED"
             /\ pc2[t] \in {"blocked", "run"} => lf2[t] \in 1 .. qt
  <2>1. t # NULL
    BY NullAssumption
  <2>2. CASE t = r
    BY <1>1, <2>1, <2>2
  <2>3. CASE t # r
    <3>1. /\ pc[t] \in {"blocked", "run"} <=> InQueue(q, t)
          /\ sm[t] + (IF pc[t] = "run" THEN 1 ELSE 0) = 0
          /\ st[t] # "RUNNING"
          /\ InQueue(q, t) => st[t] \in {"READY", "WAITING"}
          /\ st[t] = "WAITING" <=> ev[t] # NoEvent
          /\ pc[t] = "exited" => st[t] = "TERMINATED"
          /\ pc[t] \in {"blocked", "run"} => lf[t] \in 1 .. qt
      BY <2>3 DEF Consistent
    <3>2. /\ st2[t] = st[t] /\ sm2[t] = sm[t] /\ pc2[t] = pc[t]
          /\ lf2[t] = lf[t] /\ ev2[t] = ev[t]
      BY <2>3
    <3>3. InQueue(q2, t) <=> InQueue(q, t)
      BY <1>1, <2>3
    <3> QED BY <1>0, <2>1, <3>1, <3>2, <3>3
  <2> QED BY <2>2, <2>3
<1>5. Consistent(q2, NULL, pr, st2, sm2, pc2, lf2, ev2, qt)
  BY <1>1, <1>2, <1>4 DEF Consistent
<1> QED BY <1>1, <1>3, <1>5 DEF q2

(* so_fork() up to the check: the new thread t is in the queue, whatever is *)
(* on the processor.                                                        *)
LEMMA CreateKeeps ==
    ASSUME SchedulerInv, quantum # 0,
           NEW t \in Threads, NEW p \in Priorities, at[t] = "none"
    PROVE  LET pc == [at EXCEPT ![t] = "blocked"]
               ev == [event EXCEPT ![t] = NoEvent]
           IN  /\ Typed(ForkedQueue(t, p), ForkedPrio(t, p), ForkedStates(t),
                        ForkedSems(t), pc, ForkedLeft(t), ev, quantum)
               /\ Consistent(ForkedQueue(t, p), running, ForkedPrio(t, p),
                             ForkedStates(t), ForkedSems(t), pc, ForkedLeft(t),
                             ev, quantum)
               /\ \A u : InQueue(ForkedQueue(t, p), u) <=> InQueue(pq, u) \/ u = t
<1> DEFINE q2 == ForkedQueue(t, p)
           pr2 == ForkedPrio(t, p)
           st2 == ForkedStates(t)
           sm2 == ForkedSems(t)
           lf2 == ForkedLeft(t)
           pc2 == [at EXCEPT ![t] = "blocked"]
           ev2 == [event EXCEPT ![t] = NoEvent]
<1>0. /\ TypeOK /\ SchedulerConsistent /\ quantum \in 1 .. MaxQuantum
      /\ pq \in Seq(Threads) /\ sem \in [Threads -> Nat]
  BY DEF SchedulerInv, TypeOK
<1>1. /\ pr2 \in [Threads -> Priorities] /\ pr2 \in [Threads -> Nat]
      /\ pr2[t] = p /\ \A u \in Threads \ {t} : pr2[u] = prio[u]
  <2>1. pr2 \in [Threads -> Priorities]
    BY <1>0 DEF TypeOK, ForkedPrio
  <2> QED BY <1>0, <2>1, PrioritiesNat DEF TypeOK, ForkedPrio
<1>2. /\ st2 \in [Threads -> States] /\ sm2 \in [Threads -> Nat]
      /\ lf2 \in [Threads -> 0 .. MaxQuantum]
      /\ pc2 \in [Threads -> {"none", "blocked", "run", "exited"}]
      /\ ev2 \in [Threads -> Devices \cup {NoEvent}]
  BY <1>0, LimitsAssumption DEF TypeOK, States, ForkedStates, ForkedSems, ForkedLeft
<1>3. /\ st2[t] = "READY" /\ sm2[t] = 0 /\ lf2[t] = quantum
      /\ pc2[t] = "blocked" /\ ev2[t] = NoEvent
      /\ \A u \in Threads \ {t} :
           /\ st2[u] = state[u] /\ sm2[u] = sem[u] /\ lf2[u] = left[u]
           /\ pc2[u] = at[u] /\ ev2[u] = event[u]
  BY <1>0 DEF TypeOK, ForkedStates, ForkedSems, ForkedLeft
<1>4. ~InQueue(pq, t) /\ running # t
  BY <1>0 DEF SchedulerConsistent, Consistent
<1>5. Injective(pq) /\ Sorted(pq, pr2)
  <2>1. DOMAIN pq = 1 .. Len(pq) /\ \A i \in 1 .. Len(pq) : pq[i] \in Threads \ {t}
    BY <1>0, <1>4, LenProperties, ElementOfSeq DEF InQueue
  <2> QED BY <1>0, <1>1, <2>1 DEF SchedulerConsistent, Consistent, Sorted
<1>6. /\ q2 \in Seq(Threads) /\ Injective(q2) /\ Sorted(q2, pr2)
      /\ \A u : InQueue(q2, u) <=> InQueue(pq, u) \/ u = t
  BY <1>0, <1>1, <1>4, <1>5, EnqueueMembers, EnqueueSorted DEF ForkedQueue
<1>7. running # NULL => ~InQueue(q2, running)
  BY <1>0, <1>4, <1>6 DEF SchedulerConsistent, Consistent
<1> HIDE DEF q2, pr2, st2, sm2, lf2, pc2, ev2
<1>8. ASSUME NEW u \in Threads
      PROVE  /\ pc2[u] \in {"blocked", "run"} <=> (InQueue(q2, u) \/ running = u)
             /\ sm2[u] + (IF pc2[u] = "run" THEN 1 ELSE 0)
                  = (IF running = u THEN 1 ELSE 0)
             /\ st2[u] = "RUNNING" <=> running = u
             /\ InQueue(q2, u) => st2[u] \in {"READY", "WAITING"}
             /\ st2[u] = "WAITING" <=> ev2[u] # NoEvent
             /\ pc2[u] = "exited" => st2[u] = "TERMINATED"
             /\ pc2[u] \in {"blocked", "run"} => lf2[u] \in 1 .. quantum
  <2>1. CASE u = t
    BY <1>0, <1>3, <1>4, <1>6, <2>1
  <2>2. CASE u # t
    <3>1. /\ at[u] \in {"blocked", "run"} <=> (InQueue(pq, u) \/ running = u)
          /\ sem[u] + (IF at[u] = "run" THEN 1 ELSE 0) = (IF running = u THEN 1 ELSE 0)
          /\ state[u] = "RUNNING" <=> running = u
          /\ InQueue(pq, u) => state[u] \in {"READY", "WAITING"}
          /\ state[u] = "WAITING" <=> event[u] # NoEvent
          /\ at[u] = "exited" => state[u] = "TERMINATED"
          /\ at[u] \in {"blocked", "run"} => left[u] \in 1 .. quantum
      BY <1>0 DEF SchedulerConsistent, Consistent
    <3>2. /\ st2[u] = state[u] /\ sm2[u] = sem[u] /\ lf2[u] = left[u]
          /\ pc2[u] = at[u] /\ ev2[u] = event[u]
          /\ InQueue(q2, u) <=> InQueue(pq, u)
      BY <1>3, <1>6, <2>2
    <3> QED BY <3>1, <3>2
  <2> QED BY <2>1, <2>2
<1>9. Consistent(q2, running, pr2, st2, sm2, pc2, lf2, ev2, quantum)
  BY <1>6, <1>7, <1>8 DEF Consistent
<1>10. Typed(q2, pr2, st2, sm2, pc2, lf2, ev2, quantum)
  BY <1>0, <1>1, <1>2, <1>6 DEF Typed
<1> QED BY <1>6, <1>9, <1>10 DEF q2, pr2, st2, sm2, lf2, pc2, ev2

(* so_exec() for r: r keeps the processor with a unit less, or goes back to *)
(* the queue with a new quantum.                                            *)
LEMMA ChargeKeeps ==
    ASSUME NEW q, NEW r \in Threads, NEW pr, NEW st, NEW sm, NEW pc, NEW lf, NEW ev,
           quantum # 0,
           Typed(q, pr, st, sm, pc, lf, ev, quantum),
           Consistent(q, r, pr, st, sm, pc, lf, ev, quantum),
           Highest(q, r, pr, st),
           NEW sm2 \in [Threads -> Nat],
           NEW pc2 \in [Threads -> {"none", "blocked", "run", "exited"}],
           lf[r] - 1 # 0 => sm2 = sm /\ pc2 = pc,
           lf[r] - 1 = 0 => /\ sm2[r] = 0 /\ pc2[r] = "blocked"
                            /\ \A t \in Threads \ {r} : sm2[t] = sm[t] /\ pc2[t] = pc[t],
           Charge(r, q, pr, st, sm2, lf)
    PROVE  /\ Typed(pq', pr, state', sem', pc2, left', ev, quantum)
           /\ running' \in Threads
           /\ running' # r => InQueue(q, running')
           /\ Consistent(pq', running', pr, state', sem', pc2, left', ev, quantum)
           /\ Highest(pq', running', pr, state')
<1>0. /\ r # NULL /\ lf \in [Threads -> 0 .. MaxQuantum] /\ quantum \in 1 .. MaxQuantum
      /\ st \in [Threads -> States] /\ lf[r] \in 1 .. quantum
      /\ MaxQuantum \in Nat /\ st[r] = "RUNNING" /\ ev[r] = NoEvent
  BY NullAssumption, LimitsAssumption DEF Typed, Consistent
<1>1. CASE lf[r] - 1 # 0
  <2>1. /\ left' = [lf EXCEPT ![r] = @ - 1] /\ running' = r /\ pq' = q
        /\ state' = st /\ sem' = sm /\ pc2 = pc
    BY <1>1 DEF Charge
  <2>2. /\ left' \in [Threads -> 0 .. MaxQuantum] /\ left'[r] \in 1 .. quantum
        /\ \A t \in Threads \ {r} : left'[t] = lf[t]
    BY <1>0, <1>1, <2>1
  <2>3. Typed(pq', pr, state', sem', pc2, left', ev, quantum)
    BY <2>1, <2>2 DEF Typed
  <2>4. Consistent(pq', running', pr, state', sem', pc2, left', ev, quantum)
    BY <2>1, <2>2 DEF Consistent
  <2> QED BY <2>1, <2>3, <2>4
<1>2. CASE lf[r] - 1 = 0
  <2> DEFINE st2 == [st EXCEPT ![r] = "READY"]
             q2 == Enqueue(q, pr, r)
  <2>1. left' = [lf EXCEPT ![r] = quantum] /\ Dispatch(q2, st2, sm2)
    BY <1>2 DEF Charge
  <2>2. /\ left' \in [Threads -> 0 .. MaxQuantum] /\ left'[r] \in 1 .. quantum
        /\ \A t \in Threads \ {r} : left'[t] = lf[t]
    BY <1>0, <2>1
  <2>3. /\ st2 \in [Threads -> States] /\ st2[r] = "READY"
        /\ \A t \in Threads \ {r} : st2[t] = st[t]
    BY <1>0 DEF States
  <2> HIDE DEF st2, q2
  <2>4. Typed(q, pr, st2, sm2, pc2, left', ev, quantum)
    BY <2>2, <2>3 DEF Typed
  <2>5. /\ \A t \in Threads \ {r} :
             /\ st2[t] = st[t] /\ sm2[t] = sm[t] /\ pc2[t] = pc[t]
             /\ left'[t] = lf[t] /\ ev[t] = ev[t]
        /\ st2[r] \in {"READY", "WAITING"} /\ (st2[r] = "WAITING" <=> ev[r] # NoEvent)
        /\ sm2[r] = 0 /\ pc2[r] = "blocked"
    BY <1>0, <1>2, <2>2, <2>3
  <2>6. /\ Typed(q2, pr, st2, sm2, pc2, left', ev, quantum)
        /\ Consistent(q2, NULL, pr, st2, sm2, pc2, left', ev, quantum)
        /\ InQueue(q2, r)
    <3>1. left'[r] \in 1 .. quantum
      BY <2>2
    <3> QED BY <2>4, <2>5, <3>1, ReleaseKeeps DEF q2
  <2>7. /\ Typed(pq', pr, state', sem', pc2, left', ev, quantum)
        /\ running' \in Threads \cup {NULL}
        /\ running' # NULL => InQueue(q2, running')
        /\ (\E t \in Threads : InQueue(q2, t) /\ st2[t] # "WAITING") => running' # NULL
        /\ Consistent(pq', running', pr, state', sem', pc2, left', ev, quantum)
        /\ Highest(pq', running', pr, state')
    BY <2>1, <2>6, DispatchKeeps
  <2>8. running' \in Threads
    BY <2>3, <2>6, <2>7
  <2>9. \A u : InQueue(q2, u) <=> InQueue(q, u) \/ u = r
    BY EnqueueMembers, PrioritiesNat DEF Typed, q2
  <2> QED BY <2>7, <2>8, <2>9, NullAssumption
<1> QED BY <1>1, <1>2

-----------------------------------------------------------------------------
(* The actions                                                              *)

(* What a call leaves behind is put together from its parts.                *)
LEMMA Assembled ==
    ASSUME Typed(pq, prio, state, sem, at, left, event, quantum)',
           running' \in Threads \cup {NULL},
           SchedulerConsistent', Highest(pq, running, prio, state)', MainInv',
           io' \in 0 .. SO_MAX_NUM_EVENTS, threads' \in Seq(Threads),
           main' \in {"client", "join"}, joined' \in Nat,
           ret' \in [op : Operations, arg : Nat, value : Int]
    PROVE  SchedulerInv'
BY DEF Typed, SchedulerInv, TypeOK

(* What the invariant says of the calling thread.                           *)
LEMMA CallerFacts ==
    ASSUME SchedulerInv, ThreadCalls
    PROVE  /\ running \in Threads /\ at[running] = "run" /\ sem[running] = 0
           /\ state[running] = "RUNNING" /\ event[running] = NoEvent
           /\ left[running] \in 1 .. quantum /\ quantum \in 1 .. MaxQuantum
           /\ Typed(pq, prio, state, sem, at, left, event, quantum)
<1>1. TypeOK /\ running \in Threads /\ at[running] = "run" /\ quantum # 0
  BY DEF SchedulerInv, ThreadCalls, TypeOK
<1>2. /\ sem[running] + 1 = 1 /\ state[running] = "RUNNING"
      /\ event[running] = NoEvent /\ left[running] \in 1 .. quantum
  BY <1>1 DEF SchedulerInv, SchedulerConsistent, Consistent
<1>3. sem[running] \in Nat /\ quantum \in 0 .. MaxQuantum
  BY <1>1 DEF TypeOK
<1>4. Typed(pq, prio, state, sem, at, left, event, quantum)
  BY <1>1 DEF TypeOK, Typed
<1> QED BY <1>1, <1>2, <1>3, <1>4, LimitsAssumption

LEMMA AnswerType ==
    /\ {NoAnswer, Refused} \subseteq [op : Operations, arg : Nat, value : Int]
    /\ \A op \in Operations, arg \in Nat, value \in Int :
         Answer(op, arg, value) \in [op : Operations, arg : Nat, value : Int]
<1>1. "none" \in Operations
  BY DEF Operations
<1> QED BY <1>1 DEF NoAnswer, Refused, Answer

(* A call that creates no thread does not disturb so_end()'s bookkeeping.   *)
LEMMA MainInvKept ==
    ASSUME SchedulerInv, quantum # 0,
           UNCHANGED << quantum, threads, main, joined >>,
           \A t \in Threads : at'[t] # "none" => at[t] # "none",
           \A t \in Threads : at[t] = "exited" => at'[t] = "exited"
    PROVE  MainInv'
<1>1. MainInv /\ threads \in Seq(Threads) /\ joined \in Nat
  BY DEF SchedulerInv, TypeOK
<1>2. \A i \in 1 .. Len(threads) : threads[i] \in Threads
  BY <1>1, ElementOfSeq
<1>3. Len(threads) \in Nat
  BY <1>1, LenProperties
<1>4. \A i \in 1 .. joined : main = "join" => i \in 1 .. Len(threads)
  BY <1>1, <1>3 DEF MainInv
<1> QED BY <1>1, <1>2, <1>4 DEF MainInv

(* add_thread() keeps the array threads complete.                           *)
LEMMA MainInvCreated ==
    ASSUME SchedulerInv, quantum # 0, NEW t \in Threads, at[t] = "none",
           threads' = Append(threads, t), UNCHANGED << quantum, main, joined >>,
           \A u \in Threads \ {t} : at'[u] # "none" => at[u] # "none",
           \A u \in Threads \ {t} : at[u] = "exited" => at'[u] = "exited"
    PROVE  MainInv'
<1>1. MainInv /\ threads \in Seq(Threads) /\ joined \in Nat
  BY DEF SchedulerInv, TypeOK
<1>2. /\ Len(threads) \in Nat /\ Len(threads') = Len(threads) + 1
      /\ \A i \in 1 .. Len(threads) : threads'[i] = threads[i] /\ threads[i] \in Threads
      /\ threads'[Len(threads) + 1] = t
  BY <1>1, AppendProperties, LenProperties, ElementOfSeq
<1>3. ASSUME NEW u \in Threads, at'[u] # "none"
      PROVE  \E i \in 1 .. Len(threads') : threads'[i] = u
  <2>1. CASE u = t
    BY <1>2, <2>1
  <2>2. CASE u # t
    <3>1. PICK i \in 1 .. Len(threads) : threads[i] = u
      BY <1>1, <1>3, <2>2 DEF MainInv
    <3>2. i \in 1 .. Len(threads') /\ threads'[i] = u
      BY <1>2, <3>1
    <3> QED BY <3>2
  <2> QED BY <2>1, <2>2
<1>4. ASSUME main = "join"
      PROVE  /\ joined <= Len(threads')
             /\ \A i \in 1 .. joined : at'[threads'[i]] = "exited"
  <2>1. joined <= Len(threads) /\ \A i \in 1 .. joined : at[threads[i]] = "exited"
    BY <1>1, <1>4 DEF MainInv
  <2>2. ASSUME NEW i \in 1 .. joined
        PROVE  at'[threads'[i]] = "exited"
    <3>1. i \in 1 .. Len(threads) /\ at[threads[i]] = "exited"
      BY <1>1, <1>2, <2>1
    <3>2. threads'[i] = threads[i] /\ threads[i] \in Threads /\ threads[i] # t
      BY <1>2, <3>1
    <3> QED BY <3>1, <3>2
  <2> QED BY <1>1, <1>2, <2>1, <2>2
<1> QED BY <1>3, <1>4 DEF MainInv

LEMMA SemWaitKeeps ==
    ASSUME SchedulerInv, NEW t \in Threads, SemWait(t)
    PROVE  SchedulerInv'
<1>0. /\ TypeOK /\ SchedulerConsistent /\ at[t] = "blocked" /\ sem[t] > 0
      /\ sem \in [Threads -> Nat] /\ quantum # 0
  <2>1. TypeOK /\ MainInv /\ at[t] = "blocked"
    BY DEF SchedulerInv, SemWait
  <2>2. quantum # 0
    BY <2>1 DEF MainInv
  <2> QED BY <2>2 DEF SchedulerInv, SemWait, TypeOK
<1>1. /\ running = t /\ sem[t] = 1
  <2>1. sem[t] + 0 = (IF running = t THEN 1 ELSE 0)
    BY <1>0 DEF SchedulerConsistent, Consistent
  <2> QED BY <1>0, <2>1
<1>2. /\ sem' \in [Threads -> Nat] /\ sem'[t] = 0
      /\ at' \in [Threads -> {"none", "blocked", "run", "exited"}] /\ at'[t] = "run"
      /\ \A u \in Threads \ {t} : sem'[u] = sem[u] /\ at'[u] = at[u]
  <2>1. sem' \in [Threads -> Nat] /\ sem'[t] = 0 /\ \A u \in Threads \ {t} : sem'[u] = sem[u]
    BY <1>0, <1>1 DEF SemWait
  <2>2. /\ at' \in [Threads -> {"none", "blocked", "run", "exited"}] /\ at'[t] = "run"
        /\ \A u \in Threads \ {t} : at'[u] = at[u]
    BY <1>0 DEF SemWait, TypeOK
  <2> QED BY <2>1, <2>2
<1>3. UNCHANGED << quantum, io, threads, pq, running, prio, state, left, event,
                   main, joined, ret >>
  BY DEF SemWait
<1>4. SchedulerConsistent'
  BY <1>0, <1>1, <1>2, <1>3 DEF SchedulerConsistent, Consistent
<1>5. MainInv'
  BY <1>0, <1>2, <1>3, MainInvKept
<1>6. TypeOK'
  BY <1>0, <1>2, <1>3 DEF TypeOK
<1>7. Highest(pq, running, prio, state)'
  BY <1>3 DEF SchedulerInv, Highest
<1> QED BY <1>4, <1>5, <1>6, <1>7 DEF SchedulerInv

LEMMA SoExecKeeps ==
    ASSUME SchedulerInv, SoExec
    PROVE  SchedulerInv' /\ running' # NULL
<1>0. /\ SchedulerConsistent /\ ThreadCalls
      /\ UNCHANGED << quantum, io, threads, prio, event, main, joined >>
      /\ Charge(running, pq, prio, state, sem, left)
      /\ Highest(pq, running, prio, state)
      /\ ret' = Answer("so_exec", 0, 0)
      /\ TypeOK
  BY DEF SchedulerInv, SoExec
<1>1. /\ running \in Threads /\ at[running] = "run" /\ sem[running] = 0
      /\ left[running] \in 1 .. quantum /\ quantum \in 1 .. MaxQuantum
      /\ Typed(pq, prio, state, sem, at, left, event, quantum)
      /\ at \in [Threads -> {"none", "blocked", "run", "exited"}]
      /\ sem \in [Threads -> Nat]
  BY <1>0, CallerFacts DEF Typed
<1>2. /\ at' \in [Threads -> {"none", "blocked", "run", "exited"}]
      /\ left[running] - 1 # 0 => at' = at
      /\ left[running] - 1 = 0 => at'[running] = "blocked"
      /\ \A u \in Threads \ {running} : at'[u] = at[u]
      /\ at'[running] \in {"run", "blocked"}
  <2>1. at' = [at EXCEPT ![running] = IF left[running] - 1 # 0 THEN "run" ELSE "blocked"]
    BY DEF SoExec
  <2> QED BY <1>1, <2>1
<1>3. /\ Typed(pq', prio, state', sem', at', left', event, quantum)
      /\ running' \in Threads
      /\ Consistent(pq', running', prio, state', sem', at', left', event, quantum)
      /\ Highest(pq', running', prio, state')
  <2>1. /\ left[running] - 1 # 0 => sem = sem /\ at' = at
        /\ left[running] - 1 = 0 =>
             /\ sem[running] = 0 /\ at'[running] = "blocked"
             /\ \A t \in Threads \ {running} : sem[t] = sem[t] /\ at'[t] = at[t]
    BY <1>1, <1>2
  <2>2. quantum # 0
    BY <1>1, LimitsAssumption
  <2> QED BY <1>0, <1>1, <1>2, <2>1, <2>2, ChargeKeeps DEF SchedulerConsistent
<1>4. MainInv'
  <2>1. /\ \A t \in Threads : at'[t] # "none" => at[t] # "none"
        /\ \A t \in Threads : at[t] = "exited" => at'[t] = "exited"
    BY <1>1, <1>2
  <2>2. quantum # 0 /\ UNCHANGED << quantum, threads, main, joined >>
    BY <1>0, <1>1, LimitsAssumption
  <2> QED BY <2>1, <2>2, MainInvKept
<1>5. ret' \in [op : Operations, arg : Nat, value : Int]
  BY <1>0, AnswerType DEF Operations
<1> QED BY <1>0, <1>3, <1>4, <1>5, Assembled, NullAssumption DEF SchedulerConsistent, TypeOK

LEMMA SoWaitKeeps ==
    ASSUME SchedulerInv, NEW i \in DeviceArgs, SoWait(i)
    PROVE  SchedulerInv' /\ running' # NULL
<1> DEFINE st2 == [state EXCEPT ![running] = "WAITING"]
           q2 == Enqueue(pq, prio, running)
<1>0. /\ SchedulerConsistent /\ ThreadCalls /\ TypeOK
      /\ UNCHANGED << quantum, io, threads, prio, left, main, joined >>
      /\ Dispatch(q2, st2, sem)
      /\ at' = [at EXCEPT ![running] = "blocked"]
      /\ event' = [event EXCEPT ![running] = i]
      /\ ret' = Answer("so_wait", i, 0) /\ i < io /\ OthersReady
  BY DEF SchedulerInv, SoWait
<1>1. /\ running \in Threads /\ at[running] = "run" /\ sem[running] = 0
      /\ left[running] \in 1 .. quantum /\ quantum \in 1 .. MaxQuantum
      /\ Typed(pq, prio, state, sem, at, left, event, quantum)
      /\ state \in [Threads -> States] /\ pq \in Seq(Threads)
      /\ prio \in [Threads -> Nat]
  BY <1>0, CallerFacts, PrioritiesNat DEF Typed
<1>2. i \in Devices /\ i # NoEvent /\ i \in Nat
  BY <1>0, LimitsAssumption DEF DeviceArgs, Devices, NoEvent, TypeOK
<1>3. /\ at' \in [Threads -> {"none", "blocked", "run", "exited"}]
      /\ at'[running] = "blocked" /\ \A u \in Threads \ {running} : at'[u] = at[u]
      /\ event' \in [Threads -> Devices \cup {NoEvent}]
      /\ event'[running] = i /\ \A u \in Threads \ {running} : event'[u] = event[u]
  BY <1>0, <1>1, <1>2 DEF TypeOK
<1>4. /\ st2 \in [Threads -> States] /\ st2[running] = "WAITING"
      /\ \A u \in Threads \ {running} : st2[u] = state[u]
  BY <1>1 DEF States
(* the thread so_wait() saw ready is still there to be dispatched           *)
<1>5. \E u \in Threads : InQueue(q2, u) /\ st2[u] # "WAITING"
  <2> DEFINE u == FrontThread(pq, state)
  <2>1. u \in Threads /\ InQueue(pq, u) /\ state[u] # "WAITING"
    BY <1>0, <1>1, FrontThreadRange DEF OthersReady
  <2>2. u # running
    BY <1>0, <1>1, <2>1, NullAssumption DEF SchedulerConsistent, Consistent
  <2>3. InQueue(q2, u) /\ st2[u] # "WAITING"
    BY <1>1, <1>4, <2>1, <2>2, EnqueueMembers
  <2> QED BY <2>1, <2>3
<1> HIDE DEF st2
<1> HIDE DEF q2
<1>6. /\ Typed(q2, prio, st2, sem, at', left, event', quantum)
      /\ Consistent(q2, NULL, prio, st2, sem, at', left, event', quantum)
  <2>1. Typed(pq, prio, st2, sem, at', left, event', quantum)
    BY <1>1, <1>3, <1>4 DEF Typed
  <2>2. Consistent(pq, running, prio, state, sem, at, left, event, quantum)
    BY <1>0 DEF SchedulerConsistent
  <2>3. \A t \in Threads \ {running} :
             /\ st2[t] = state[t] /\ sem[t] = sem[t] /\ at'[t] = at[t]
             /\ left[t] = left[t] /\ event'[t] = event[t]
    BY <1>3, <1>4
  <2>4. /\ st2[running] \in {"READY", "WAITING"}
        /\ st2[running] = "WAITING" <=> event'[running] # NoEvent
        /\ sem[running] = 0 /\ at'[running] = "blocked"
        /\ left[running] \in 1 .. quantum /\ running \in Threads
        /\ Typed(pq, prio, state, sem, at, left, event, quantum)
    BY <1>1, <1>2, <1>3, <1>4
  <2> QED BY <2>1, <2>2, <2>3, <2>4, ReleaseKeeps DEF q2
<1> HIDE DEF q2
<1>7. /\ Typed(pq', prio, state', sem', at', left, event', quantum)
      /\ running' \in Threads \cup {NULL} /\ running' # NULL
      /\ Consistent(pq', running', prio, state', sem', at', left, event', quantum)
      /\ Highest(pq', running', prio, state')
  BY <1>0, <1>5, <1>6, DispatchKeeps
<1>8. MainInv'
  <2>1. /\ \A t \in Threads : at'[t] # "none" => at[t] # "none"
        /\ \A t \in Threads : at[t] = "exited" => at'[t] = "exited"
    BY <1>1, <1>3
  <2>2. quantum # 0 /\ UNCHANGED << quantum, threads, main, joined >>
    BY <1>0, <1>1, LimitsAssumption
  <2> QED BY <2>1, <2>2, MainInvKept
<1>9. ret' \in [op : Operations, arg : Nat, value : Int]
  BY <1>0, <1>2, AnswerType DEF Operations
<1> QED BY <1>0, <1>7, <1>8, <1>9, Assembled DEF SchedulerConsistent, TypeOK

(* The loop of so_signal(): the waiters of a device become ready.           *)
LEMMA WakeKeeps ==
    ASSUME SchedulerInv, NEW i \in Nat
    PROVE  LET st2 == [t \in Threads |-> IF t \in Waiters(i) THEN "READY" ELSE state[t]]
               ev2 == [t \in Threads |-> IF t \in Waiters(i) THEN NoEvent ELSE event[t]]
           IN  /\ Typed(pq, prio, st2, sem, at, left, ev2, quantum)
               /\ Consistent(pq, running, prio, st2, sem, at, left, ev2, quantum)
<1> DEFINE W == Waiters(i)
           st2 == [t \in Threads |-> IF t \in W THEN "READY" ELSE state[t]]
           ev2 == [t \in Threads |-> IF t \in W THEN NoEvent ELSE event[t]]
<1>0. TypeOK /\ SchedulerConsistent
  BY DEF SchedulerInv
<1>1. \A t \in W : t \in Threads /\ InQueue(pq, t)
  BY DEF Waiters
<1> HIDE DEF W
<1>2. Typed(pq, prio, st2, sem, at, left, ev2, quantum)
  BY <1>0 DEF TypeOK, Typed, States
<1>3. \A t \in W : st2[t] = "READY" /\ ev2[t] = NoEvent /\ running # t
  BY <1>0, <1>1, NullAssumption DEF SchedulerConsistent, Consistent
<1>4. \A t \in Threads \ W : st2[t] = state[t] /\ ev2[t] = event[t]
  OBVIOUS
<1> HIDE DEF st2, ev2
<1>5. Consistent(pq, running, prio, st2, sem, at, left, ev2, quantum)
  <2> SUFFICES ASSUME NEW u \in Threads
               PROVE  /\ st2[u] = "RUNNING" <=> running = u
                      /\ InQueue(pq, u) => st2[u] \in {"READY", "WAITING"}
                      /\ st2[u] = "WAITING" <=> ev2[u] # NoEvent
                      /\ at[u] = "exited" => st2[u] = "TERMINATED"
    BY <1>0 DEF SchedulerConsistent, Consistent
  <2>1. /\ state[u] = "RUNNING" <=> running = u
        /\ InQueue(pq, u) => state[u] \in {"READY", "WAITING"}
        /\ state[u] = "WAITING" <=> event[u] # NoEvent
        /\ at[u] = "exited" => state[u] = "TERMINATED"
        /\ at[u] \in {"blocked", "run"} <=> (InQueue(pq, u) \/ running = u)
    BY <1>0 DEF SchedulerConsistent, Consistent
  <2>2. CASE u \in W
    BY <1>1, <1>3, <2>1, <2>2
  <2>3. CASE u \notin W
    BY <1>4, <2>1, <2>3
  <2> QED BY <2>2, <2>3
<1> QED BY <1>2, <1>5 DEF W, st2, ev2

LEMMA SoSignalKeeps ==
    ASSUME SchedulerInv, NEW i \in DeviceArgs, SoSignal(i)
    PROVE  SchedulerInv' /\ running' # NULL
<1> DEFINE W   == Waiters(i)
           st1 == [t \in Threads |-> IF t \in W THEN "READY" ELSE state[t]]
           st2 == [t \in Threads |-> IF t \in W \/ t = running THEN "READY" ELSE state[t]]
           q2  == Enqueue(pq, prio, running)
<1>0. /\ SchedulerConsistent /\ ThreadCalls /\ TypeOK /\ i \in Nat
      /\ UNCHANGED << quantum, io, threads, prio, left, main, joined >>
      /\ Dispatch(q2, st2, sem)
      /\ at' = [at EXCEPT ![running] = "blocked"]
      /\ event' = [t \in Threads |-> IF t \in W THEN NoEvent ELSE event[t]]
      /\ ret' = Answer("so_signal", i, Cardinality(W))
  BY LimitsAssumption DEF SchedulerInv, SoSignal, DeviceArgs
<1>1. /\ running \in Threads /\ at[running] = "run" /\ sem[running] = 0
      /\ left[running] \in 1 .. quantum /\ quantum \in 1 .. MaxQuantum
      /\ event[running] = NoEvent /\ state[running] = "RUNNING"
      /\ Typed(pq, prio, state, sem, at, left, event, quantum)
      /\ pq \in Seq(Threads) /\ prio \in [Threads -> Nat]
  BY <1>0, CallerFacts, PrioritiesNat DEF Typed
<1>2. /\ Typed(pq, prio, st1, sem, at, left, event', quantum)
      /\ Consistent(pq, running, prio, st1, sem, at, left, event', quantum)
  BY <1>0, WakeKeeps
<1>3. /\ st2 \in [Threads -> States] /\ st2[running] = "READY"
      /\ \A u \in Threads \ {running} : st2[u] = st1[u]
  <2>1. state \in [Threads -> States]
    BY <1>0 DEF TypeOK
  <2> QED BY <1>1, <2>1 DEF States
<1>4. event'[running] = NoEvent
  BY <1>0, <1>1
<1>5. /\ at' \in [Threads -> {"none", "blocked", "run", "exited"}]
      /\ at'[running] = "blocked" /\ \A u \in Threads \ {running} : at'[u] = at[u]
  BY <1>0, <1>1 DEF TypeOK
<1> HIDE DEF W, st1, st2, q2
<1>6. /\ Typed(q2, prio, st2, sem, at', left, event', quantum)
      /\ Consistent(q2, NULL, prio, st2, sem, at', left, event', quantum)
      /\ InQueue(q2, running)
  <2>1. Typed(pq, prio, st2, sem, at', left, event', quantum)
    BY <1>2, <1>3, <1>5 DEF Typed
  <2>2. /\ \A t \in Threads \ {running} :
             /\ st2[t] = st1[t] /\ sem[t] = sem[t] /\ at'[t] = at[t]
             /\ left[t] = left[t] /\ event'[t] = event'[t]
        /\ st2[running] \in {"READY", "WAITING"}
        /\ st2[running] = "WAITING" <=> event'[running] # NoEvent
        /\ sem[running] = 0 /\ at'[running] = "blocked"
    BY <1>1, <1>3, <1>4, <1>5
  <2>3. left[running] \in 1 .. quantum /\ running \in Threads
    BY <1>1
  <2> QED BY <1>2, <2>1, <2>2, <2>3, ReleaseKeeps DEF q2
<1>7. \E u \in Threads : InQueue(q2, u) /\ st2[u] # "WAITING"
  BY <1>1, <1>3, <1>6
<1>8. /\ Typed(pq', prio, state', sem', at', left, event', quantum)
      /\ running' \in Threads \cup {NULL} /\ running' # NULL
      /\ Consistent(pq', running', prio, state', sem', at', left, event', quantum)
      /\ Highest(pq', running', prio, state')
  BY <1>0, <1>6, <1>7, DispatchKeeps
<1>9. MainInv'
  <2>1. /\ \A t \in Threads : at'[t] # "none" => at[t] # "none"
        /\ \A t \in Threads : at[t] = "exited" => at'[t] = "exited"
    BY <1>1, <1>5
  <2>2. quantum # 0 /\ UNCHANGED << quantum, threads, main, joined >>
    BY <1>0, <1>1, LimitsAssumption
  <2> QED BY <2>1, <2>2, MainInvKept
<1>10. ret' \in [op : Operations, arg : Nat, value : Int]
  <2>1. W \subseteq {pq[k] : k \in 1 .. Len(pq)} /\ Len(pq) \in Nat
    BY <1>1, LenProperties DEF W, Waiters, InQueue
  <2> DEFINE places == 1 .. Len(pq)
             members == {pq[k] : k \in places}
             at_place == [k \in places |-> pq[k]]
  <2>2. IsFiniteSet(places)
    BY <2>1, FS_Interval
  <2>3. IsFiniteSet(members)
    <3>1. /\ at_place \in [places -> members]
          /\ \A m \in members : \E k \in places : at_place[k] = m
      <4> HIDE DEF places
      <4> QED OBVIOUS
    <3> HIDE DEF places, members, at_place
    <3>2. at_place \in Surjection(places, members)
      BY <3>1 DEF Surjection
    <3> QED BY <2>2, <3>2, FS_Surjection
  <2>4. IsFiniteSet(W)
    BY <2>1, <2>3, FS_Subset
  <2>5. Cardinality(W) \in Nat
    BY <2>4, FS_CardinalityType
  <2> QED BY <1>0, <2>5, AnswerType DEF Operations
<1> QED BY <1>0, <1>8, <1>9, <1>10, Assembled DEF SchedulerConsistent, TypeOK

LEMMA ThreadReturnKeeps ==
    ASSUME SchedulerInv, ThreadReturn
    PROVE  SchedulerInv'
<1> DEFINE st2 == [state EXCEPT ![running] = "TERMINATED"]
<1>0. /\ SchedulerConsistent /\ ThreadCalls /\ TypeOK
      /\ UNCHANGED << quantum, io, threads, prio, left, event, main, joined >>
      /\ Dispatch(pq, st2, sem)
      /\ at' = [at EXCEPT ![running] = "exited"]
      /\ ret' = NoAnswer
  BY DEF SchedulerInv, ThreadReturn
<1>1. /\ running \in Threads /\ at[running] = "run" /\ sem[running] = 0
      /\ event[running] = NoEvent /\ quantum \in 1 .. MaxQuantum
      /\ Typed(pq, prio, state, sem, at, left, event, quantum)
  BY <1>0, CallerFacts
<1>2. /\ st2 \in [Threads -> States] /\ st2[running] = "TERMINATED"
      /\ \A u \in Threads \ {running} : st2[u] = state[u]
  <2>1. state \in [Threads -> States]
    BY <1>0 DEF TypeOK
  <2> QED BY <1>1, <2>1 DEF States
<1>3. /\ at' \in [Threads -> {"none", "blocked", "run", "exited"}]
      /\ at'[running] = "exited" /\ \A u \in Threads \ {running} : at'[u] = at[u]
  BY <1>0, <1>1 DEF TypeOK
<1> HIDE DEF st2
<1>4. Typed(pq, prio, st2, sem, at', left, event, quantum)
  BY <1>1, <1>2, <1>3 DEF Typed
<1>5. Consistent(pq, NULL, prio, st2, sem, at', left, event, quantum)
  <2>1. ASSUME NEW u \in Threads
        PROVE  /\ at'[u] \in {"blocked", "run"} <=> (InQueue(pq, u) \/ NULL = u)
               /\ sem[u] + (IF at'[u] = "run" THEN 1 ELSE 0)
                    = (IF NULL = u THEN 1 ELSE 0)
               /\ st2[u] = "RUNNING" <=> NULL = u
               /\ InQueue(pq, u) => st2[u] \in {"READY", "WAITING"}
               /\ st2[u] = "WAITING" <=> event[u] # NoEvent
               /\ at'[u] = "exited" => st2[u] = "TERMINATED"
               /\ at'[u] \in {"blocked", "run"} => left[u] \in 1 .. quantum
    <3>1. /\ at[u] \in {"blocked", "run"} <=> (InQueue(pq, u) \/ running = u)
          /\ sem[u] + (IF at[u] = "run" THEN 1 ELSE 0) = (IF running = u THEN 1 ELSE 0)
          /\ state[u] = "RUNNING" <=> running = u
          /\ InQueue(pq, u) => state[u] \in {"READY", "WAITING"}
          /\ state[u] = "WAITING" <=> event[u] # NoEvent
          /\ at[u] = "exited" => state[u] = "TERMINATED"
          /\ at[u] \in {"blocked", "run"} => left[u] \in 1 .. quantum
          /\ u # NULL /\ sem[u] \in Nat
          /\ ~InQueue(pq, running)
      BY <1>0, <1>1, NullAssumption DEF SchedulerConsistent, Consistent, TypeOK
    <3>2. CASE u = running
      BY <1>1, <1>2, <1>3, <3>1, <3>2
    <3>3. CASE u # running
      BY <1>2, <1>3, <3>1, <3>3
    <3> QED BY <3>2, <3>3
  <2> QED BY <1>0, <2>1 DEF SchedulerConsistent, Consistent
<1>6. /\ Typed(pq', prio, state', sem', at', left, event, quantum)
      /\ running' \in Threads \cup {NULL}
      /\ Consistent(pq', running', prio, state', sem', at', left, event, quantum)
      /\ Highest(pq', running', prio, state')
  BY <1>0, <1>4, <1>5, DispatchKeeps
<1>7. MainInv'
  <2>1. \A t \in Threads : at'[t] # "none" => at[t] # "none"
    BY <1>1, <1>3
  <2>2. \A t \in Threads : at[t] = "exited" => at'[t] = "exited"
    BY <1>1, <1>3
  <2>3. quantum # 0 /\ UNCHANGED << quantum, threads, main, joined >>
    BY <1>0, <1>1, LimitsAssumption
  <2> QED BY <2>1, <2>2, <2>3, MainInvKept
<1> QED BY <1>0, <1>6, <1>7, AnswerType, Assembled DEF SchedulerConsistent, TypeOK

(* The parts of so_fork() that all three of its actions share.              *)
LEMMA CreateRest ==
    ASSUME SchedulerInv, quantum # 0, NEW t \in Threads, NEW p \in Priorities,
           Create(t, p),
           \A u \in Threads \ {t} : at'[u] # "none" => at[u] # "none",
           \A u \in Threads \ {t} : at[u] = "exited" => at'[u] = "exited"
    PROVE  /\ MainInv'
           /\ io' \in 0 .. SO_MAX_NUM_EVENTS /\ threads' \in Seq(Threads)
           /\ main' \in {"client", "join"} /\ joined' \in Nat
           /\ ret' \in [op : Operations, arg : Nat, value : Int]
<1>1. /\ at[t] = "none" /\ threads' = Append(threads, t)
      /\ UNCHANGED << quantum, io, main, joined >>
      /\ ret' = Answer("so_fork", p, 1) /\ TypeOK
  BY DEF Create, SchedulerInv
<1>2. MainInv'
  BY <1>1, MainInvCreated
<1>3. ret' \in [op : Operations, arg : Nat, value : Int]
  <2>1. p \in Nat /\ "so_fork" \in Operations /\ 1 \in Int
    BY LimitsAssumption DEF Operations, Priorities
  <2> QED BY <1>1, <2>1, AnswerType
<1>4. threads' \in Seq(Threads)
  BY <1>1, AppendProperties DEF TypeOK
<1> QED BY <1>1, <1>2, <1>3, <1>4 DEF TypeOK

LEMMA SoForkByMainKeeps ==
    ASSUME SchedulerInv, NEW t \in Threads, NEW p \in Priorities, SoForkByMain(t, p)
    PROVE  SchedulerInv'
<1>0. /\ quantum # 0 /\ running = NULL /\ Create(t, p) /\ at[t] = "none"
      /\ prio' = ForkedPrio(t, p) /\ event' = [event EXCEPT ![t] = NoEvent]
      /\ quantum' = quantum /\ left' = ForkedLeft(t)
      /\ Dispatch(ForkedQueue(t, p), ForkedStates(t), ForkedSems(t))
      /\ at' = [at EXCEPT ![t] = "blocked"]
  BY DEF SoForkByMain, MainCalls, Create
<1>1. /\ Typed(ForkedQueue(t, p), prio', ForkedStates(t), ForkedSems(t), at',
               left', event', quantum)
      /\ Consistent(ForkedQueue(t, p), NULL, prio', ForkedStates(t),
                    ForkedSems(t), at', left', event', quantum)
  BY <1>0, CreateKeeps
<1>2. /\ Typed(pq', prio', state', sem', at', left', event', quantum)
      /\ running' \in Threads \cup {NULL}
      /\ Consistent(pq', running', prio', state', sem', at', left', event', quantum)
      /\ Highest(pq', running', prio', state')
  BY <1>0, <1>1, DispatchKeeps
<1>3. \A u \in Threads \ {t} : at'[u] = at[u]
  BY <1>0
<1> QED BY <1>0, <1>2, <1>3, CreateRest, Assembled DEF SchedulerConsistent

(* The facts so_fork() by a thread starts from.                             *)
LEMMA ForkFacts ==
    ASSUME SchedulerInv, ThreadCalls, NEW t \in Threads, NEW p \in Priorities,
           Create(t, p)
    PROVE  LET n == FrontThread(ForkedQueue(t, p), ForkedStates(t))
               pc == [at EXCEPT ![t] = "blocked"]
           IN  /\ quantum # 0 /\ quantum' = quantum /\ prio' = ForkedPrio(t, p)
               /\ at[t] = "none" /\ t # running /\ running \in Threads
               /\ Typed(ForkedQueue(t, p), prio', ForkedStates(t), ForkedSems(t),
                        pc, ForkedLeft(t), event', quantum)
               /\ Consistent(ForkedQueue(t, p), running, prio', ForkedStates(t),
                             ForkedSems(t), pc, ForkedLeft(t), event', quantum)
               /\ pc[running] = "run" /\ ForkedSems(t)[running] = 0
               /\ ForkedLeft(t)[running] = left[running]
               /\ n \in Threads /\ n # NULL
               /\ \A u \in Threads :
                    InQueue(ForkedQueue(t, p), u) /\ ForkedStates(t)[u] # "WAITING"
                      => prio'[u] <= prio'[n]
               /\ prio' \in [Threads -> Nat]
<1> DEFINE q2 == ForkedQueue(t, p)
           st2 == ForkedStates(t)
           n == FrontThread(q2, st2)
           pc == [at EXCEPT ![t] = "blocked"]
<1>1. /\ at[t] = "none" /\ prio' = ForkedPrio(t, p) /\ quantum' = quantum
      /\ event' = [event EXCEPT ![t] = NoEvent] /\ quantum # 0
  BY DEF Create, ThreadCalls
<1>2. /\ running \in Threads /\ at[running] = "run" /\ sem[running] = 0 /\ t # running
  BY <1>1, CallerFacts
<1>3. TypeOK
  BY DEF SchedulerInv
<1>4. /\ pc[running] = "run" /\ ForkedSems(t)[running] = 0
      /\ ForkedLeft(t)[running] = left[running]
      /\ st2[t] = "READY"
  BY <1>2, <1>3 DEF TypeOK, ForkedSems, ForkedLeft, ForkedStates
<1>5. /\ Typed(q2, prio', st2, ForkedSems(t), pc, ForkedLeft(t), event', quantum)
      /\ Consistent(q2, running, prio', st2, ForkedSems(t), pc, ForkedLeft(t),
                    event', quantum)
      /\ InQueue(q2, t)
  BY <1>1, CreateKeeps
<1>6. /\ q2 \in Seq(Threads) /\ st2 \in [Threads -> States]
      /\ prio' \in [Threads -> Nat] /\ Sorted(q2, prio')
  BY <1>5, PrioritiesNat DEF Typed, Consistent
<1> HIDE DEF q2, st2
<1>7. n \in Threads /\ n # NULL
  <2>1. n = NULL => \A u \in Threads : InQueue(q2, u) => st2[u] = "WAITING"
    BY <1>6, FrontThreadRange
  <2>2. n # NULL
    BY <1>4, <1>5, <2>1
  <2> QED BY <1>6, <2>2, FrontThreadRange
<1>8. \A u \in Threads : InQueue(q2, u) /\ st2[u] # "WAITING" => prio'[u] <= prio'[n]
  BY <1>6, <1>7, FrontThreadHighest
<1> QED BY <1>1, <1>2, <1>4, <1>5, <1>6, <1>7, <1>8 DEF q2, st2

LEMMA SoForkByThreadKeeps ==
    ASSUME SchedulerInv, NEW t \in Threads, NEW p \in Priorities, SoForkByThread(t, p)
    PROVE  SchedulerInv' /\ running' # NULL
<1> DEFINE q2 == ForkedQueue(t, p)
           st2 == ForkedStates(t)
           sm2 == ForkedSems(t)
           lf2 == ForkedLeft(t)
           n == FrontThread(q2, st2)
           pc == [at EXCEPT ![t] = "blocked"]
<1>0. /\ ThreadCalls /\ Create(t, p) /\ TypeOK
      /\ ~(ForkedPrio(t, p)[running] < ForkedPrio(t, p)[n])
      /\ Charge(running, q2, ForkedPrio(t, p), st2, sm2, lf2)
      /\ at' = [at EXCEPT ![t] = "blocked",
                          ![running] = IF left[running] - 1 # 0
                                       THEN "run" ELSE "blocked"]
  BY DEF SoForkByThread, SchedulerInv, Preempts
<1>1. /\ quantum # 0 /\ quantum' = quantum /\ prio' = ForkedPrio(t, p)
      /\ at[t] = "none" /\ t # running /\ running \in Threads
      /\ pc[running] = "run" /\ sm2[running] = 0 /\ lf2[running] = left[running]
      /\ n \in Threads /\ n # NULL /\ prio' \in [Threads -> Nat]
  BY <1>0, ForkFacts
<1>2. /\ Typed(q2, prio', st2, sm2, pc, lf2, event', quantum)
      /\ Consistent(q2, running, prio', st2, sm2, pc, lf2, event', quantum)
      /\ \A u \in Threads : InQueue(q2, u) /\ st2[u] # "WAITING" => prio'[u] <= prio'[n]
  BY <1>0, ForkFacts
<1>3. at[running] = "run"
  BY <1>0 DEF ThreadCalls
<1>4. /\ at' \in [Threads -> {"none", "blocked", "run", "exited"}]
      /\ left[running] - 1 # 0 => at' = pc
      /\ left[running] - 1 = 0 => at'[running] = "blocked"
      /\ \A u \in Threads \ {running} : at'[u] = pc[u]
      /\ \A u \in Threads \ {t, running} : at'[u] = at[u]
      /\ at'[running] \in {"run", "blocked"}
  BY <1>0, <1>1, <1>3 DEF TypeOK
<1> HIDE DEF q2, st2, sm2, lf2, n, pc
<1>5. Highest(q2, running, prio', st2)
  <2>1. ASSUME NEW u \in Threads, InQueue(q2, u), st2[u] # "WAITING"
        PROVE  prio'[u] <= prio'[running]
    <3>1. /\ prio'[u] <= prio'[n] /\ ~(prio'[running] < prio'[n])
          /\ prio'[u] \in Nat /\ prio'[n] \in Nat /\ prio'[running] \in Nat
      BY <1>0, <1>1, <1>2, <2>1
    <3> QED BY <3>1
  <2> QED BY <1>1, <2>1, NullAssumption DEF Highest
<1>6. /\ sm2 \in [Threads -> Nat]
      /\ lf2[running] - 1 # 0 => sm2 = sm2 /\ at' = pc
      /\ lf2[running] - 1 = 0 =>
           /\ sm2[running] = 0 /\ at'[running] = "blocked"
           /\ \A u \in Threads \ {running} : sm2[u] = sm2[u] /\ at'[u] = pc[u]
  BY <1>1, <1>2, <1>4 DEF Typed
<1>7. Charge(running, q2, prio', st2, sm2, lf2)
  BY <1>0, <1>1
<1>8. /\ Typed(pq', prio', state', sem', at', left', event', quantum)
      /\ running' \in Threads
      /\ Consistent(pq', running', prio', state', sem', at', left', event', quantum)
      /\ Highest(pq', running', prio', state')
  BY <1>1, <1>2, <1>4, <1>5, <1>6, <1>7, ChargeKeeps
<1>9. /\ \A u \in Threads \ {t} : at'[u] # "none" => at[u] # "none"
      /\ \A u \in Threads \ {t} : at[u] = "exited" => at'[u] = "exited"
  BY <1>3, <1>4
<1> QED BY <1>0, <1>1, <1>8, <1>9, CreateRest, Assembled, NullAssumption DEF SchedulerConsistent

(* A refused call changes nothing but its answer.                           *)
LEMMA RefusalKeeps ==
    ASSUME SchedulerInv,
           UNCHANGED << quantum, io, threads, pq, running, prio, state, left,
                        event, sem, at, main, joined >>,
           ret' \in [op : Operations, arg : Nat, value : Int]
    PROVE  SchedulerInv'
<1>1. TypeOK'
  BY DEF SchedulerInv, TypeOK
<1>2. SchedulerConsistent'
  BY DEF SchedulerInv, SchedulerConsistent
<1>3. Highest(pq, running, prio, state)'
  BY DEF SchedulerInv, Highest
<1>4. MainInv'
  BY DEF SchedulerInv, MainInv
<1> QED BY <1>1, <1>2, <1>3, <1>4 DEF SchedulerInv

LEMMA RefusalsKeep ==
    ASSUME SchedulerInv,
           \/ \E tq \in 0 .. MaxQuantum, n \in 0 .. SO_MAX_NUM_EVENTS + 1 :
                SoInitRefused(tq, n)
           \/ \E p \in PriorityArgs : SoForkRefused(p)
           \/ \E i \in DeviceArgs : SoWaitRefused(i) \/ SoSignalRefused(i)
           \/ SoExecIdle
    PROVE  SchedulerInv'
<1>1. UNCHANGED << quantum, io, threads, pq, running, prio, state, left, event,
                   sem, at, main, joined >>
  BY DEF SoInitRefused, SoForkRefused, SoWaitRefused, SoSignalRefused, SoExecIdle
<1>2. ret' \in {NoAnswer, Refused}
  BY DEF SoInitRefused, SoForkRefused, SoWaitRefused, SoSignalRefused, SoExecIdle
<1>3. ret' \in [op : Operations, arg : Nat, value : Int]
  BY <1>2, AnswerType
<1> QED BY <1>1, <1>3, RefusalKeeps

(* so_init() starts from an empty queue while no pthread is left.           *)
LEMMA SoInitKeeps ==
    ASSUME SchedulerInv, NEW tq \in 0 .. MaxQuantum,
           NEW n \in 0 .. SO_MAX_NUM_EVENTS + 1, SoInit(tq, n)
    PROVE  SchedulerInv'
<1>0. /\ TypeOK /\ SchedulerConsistent /\ MainInv /\ quantum = 0 /\ main = "client"
      /\ tq > 0 /\ n <= SO_MAX_NUM_EVENTS
      /\ quantum' = tq /\ io' = n /\ threads' = << >> /\ pq' = << >>
      /\ running' = NULL /\ ret' = Answer("so_init", n, 0)
      /\ UNCHANGED << prio, state, left, event, sem, at, main, joined >>
  BY DEF SchedulerInv, SoInit
<1>1. \A t : ~InQueue(pq', t)
  BY <1>0, EmptySeq DEF InQueue
<1>2. ret' \in [op : Operations, arg : Nat, value : Int]
  <2>1. n \in Nat /\ "so_init" \in Operations /\ 0 \in Int
    BY LimitsAssumption DEF Operations
  <2> QED BY <1>0, <2>1, AnswerType
<1>3. TypeOK'
  <2>1. tq \in 0 .. MaxQuantum /\ n \in 0 .. SO_MAX_NUM_EVENTS
    BY <1>0, LimitsAssumption
  <2> QED BY <1>0, <1>2, <2>1 DEF TypeOK
<1>4. \A t \in Threads : at[t] = "none"
  BY <1>0 DEF MainInv
<1>5. SchedulerConsistent'
  <2>1. ASSUME NEW t \in Threads
        PROVE  /\ running # t /\ sem[t] = 0 /\ state[t] # "RUNNING"
               /\ state[t] = "WAITING" <=> event[t] # NoEvent
    <3>1. running # t /\ sem[t] + 0 = 0
      BY <1>0, <1>4 DEF SchedulerConsistent, Consistent
    <3>2. sem[t] \in Nat
      BY <1>0 DEF TypeOK
    <3> QED BY <1>0, <3>1, <3>2 DEF SchedulerConsistent, Consistent
  <2>2. Injective(pq') /\ Sorted(pq', prio')
    BY <1>0 DEF Injective, Sorted
  <2>3. \A t \in Threads :
         /\ at'[t] = "none" /\ ~InQueue(pq', t) /\ running' # t
         /\ sem'[t] = 0 /\ state'[t] # "RUNNING"
         /\ state'[t] = "WAITING" <=> event'[t] # NoEvent
    BY <1>0, <1>1, <1>4, <2>1, NullAssumption
  <2> QED BY <1>0, <2>2, <2>3 DEF SchedulerConsistent, Consistent
<1>6. Highest(pq, running, prio, state)'
  BY <1>0, <1>1 DEF Highest
<1>7. MainInv'
  BY <1>0, <1>4, LimitsAssumption DEF MainInv
<1> QED BY <1>3, <1>5, <1>6, <1>7 DEF SchedulerInv

(* The structures so_end() frees, and the first ones.                       *)
Blank ==
    /\ quantum = 0 /\ io = 0 /\ threads = << >> /\ pq = << >> /\ running = NULL
    /\ prio = [t \in Threads |-> 0] /\ state = [t \in Threads |-> "NEW"]
    /\ left = [t \in Threads |-> 0] /\ event = [t \in Threads |-> NoEvent]
    /\ sem = [t \in Threads |-> 0] /\ at = [t \in Threads |-> "none"]
    /\ main = "client" /\ joined = 0
    /\ ret \in [op : Operations, arg : Nat, value : Int]

LEMMA BlankConsistent == Blank => SchedulerInv
<1> SUFFICES ASSUME Blank PROVE SchedulerInv
  OBVIOUS
<1> USE DEF Blank
<1>1. TypeOK
  BY LimitsAssumption DEF TypeOK, Priorities, States
<1>2. \A t : ~InQueue(pq, t)
  BY EmptySeq DEF InQueue
<1>3. SchedulerConsistent
  <2>1. Injective(pq) /\ Sorted(pq, prio)
    BY DEF Injective, Sorted
  <2>2. \A t \in Threads :
          /\ at[t] = "none" /\ sem[t] = 0 /\ running # t
          /\ state[t] = "NEW" /\ event[t] = NoEvent
    BY NullAssumption
  <2> QED BY <1>2, <2>1, <2>2 DEF SchedulerConsistent, Consistent
<1>4. Highest(pq, running, prio, state)
  BY <1>2 DEF Highest
<1>5. MainInv
  BY DEF MainInv
<1> QED BY <1>1, <1>3, <1>4, <1>5 DEF SchedulerInv

LEMMA InitConsistent == Init => SchedulerInv
BY BlankConsistent, AnswerType DEF Init, Blank

LEMMA FreeAllKeeps == FreeAll => SchedulerInv'
<1> SUFFICES ASSUME FreeAll PROVE SchedulerInv'
  OBVIOUS
<1>1. ret' \in [op : Operations, arg : Nat, value : Int]
  <2>1. 0 \in Nat /\ 0 \in Int /\ "so_end" \in Operations
    BY DEF Operations
  <2> QED BY <2>1, AnswerType DEF FreeAll
<1>2. Blank'
  BY <1>1 DEF FreeAll, Blank
<1> QED BY <1>2, BlankConsistent, PTL

LEMMA SoEndKeeps == SchedulerInv /\ SoEnd => SchedulerInv'
<1> SUFFICES ASSUME SchedulerInv, SoEnd PROVE SchedulerInv'
  OBVIOUS
<1>1. TypeOK'
  BY AnswerType DEF SchedulerInv, SoEnd, TypeOK
<1>2. SchedulerConsistent' /\ Highest(pq, running, prio, state)'
  BY DEF SchedulerInv, SoEnd, SchedulerConsistent, Highest
<1>3. MainInv'
  <2>1. threads \in Seq(Threads) /\ Len(threads) \in Nat
    BY LenProperties DEF SchedulerInv, TypeOK
  <2> QED BY <2>1 DEF SchedulerInv, SoEnd, MainInv
<1> QED BY <1>1, <1>2, <1>3 DEF SchedulerInv

LEMMA JoinKeeps == SchedulerInv /\ Join => SchedulerInv'
<1> SUFFICES ASSUME SchedulerInv, Join PROVE SchedulerInv'
  OBVIOUS
<1>1. TypeOK'
  <2>1. TypeOK /\ joined' = joined + 1
    BY DEF SchedulerInv, Join
  <2>2. joined' \in Nat
    BY <2>1 DEF TypeOK
  <2>3. UNCHANGED << quantum, io, threads, pq, running, prio, state, left,
                     event, sem, at, main, ret >>
    BY DEF Join
  <2> QED BY <2>1, <2>2, <2>3 DEF TypeOK
<1>2. SchedulerConsistent' /\ Highest(pq, running, prio, state)'
  BY DEF SchedulerInv, Join, SchedulerConsistent, Highest
<1>3. MainInv'
  <2>1. Len(threads) \in Nat /\ joined \in Nat
    BY LenProperties DEF SchedulerInv, TypeOK
  <2>2. ASSUME NEW i \in 1 .. joined + 1
        PROVE  at[threads[i]] = "exited"
    <3>1. CASE i = joined + 1
      BY <3>1 DEF Join
    <3>2. CASE i # joined + 1
      BY <2>1, <3>2 DEF SchedulerInv, MainInv, Join
    <3> QED BY <3>1, <3>2
  <2>3. /\ joined' = joined + 1 /\ joined' <= Len(threads)
        /\ UNCHANGED << quantum, threads, at, main >>
    BY <2>1 DEF Join
  <2> QED BY <2>2, <2>3 DEF SchedulerInv, MainInv, Join
<1> QED BY <1>1, <1>2, <1>3 DEF SchedulerInv

LEMMA NextKeeps == SchedulerInv /\ [Next]_vars => SchedulerInv'
<1> SUFFICES ASSUME SchedulerInv, [Next]_vars PROVE SchedulerInv'
  OBVIOUS
<1>1. CASE \E tq \in 0 .. MaxQuantum, n \in 0 .. SO_MAX_NUM_EVENTS + 1 : SoInit(tq, n)
  BY <1>1, SoInitKeeps
<1>2. CASE SoEnd
  BY <1>2, SoEndKeeps
<1>3. CASE Join
  BY <1>3, JoinKeeps
<1>4. CASE FreeAll
  BY <1>4, FreeAllKeeps
<1>5. CASE \E t \in Threads, p \in Priorities : SoForkByMain(t, p)
  BY <1>5, SoForkByMainKeeps
<1>6. CASE \E t \in Threads, p \in Priorities : SoForkByThread(t, p)
  BY <1>6, SoForkByThreadKeeps
<1>8. CASE \E i \in DeviceArgs : SoWait(i)
  BY <1>8, SoWaitKeeps
<1>9. CASE \E i \in DeviceArgs : SoSignal(i)
  BY <1>9, SoSignalKeeps
<1>10. CASE SoExec
  BY <1>10, SoExecKeeps
<1>11. CASE ThreadReturn
  BY <1>11, ThreadReturnKeeps
<1>12. CASE \E t \in Threads : SemWait(t)
  BY <1>12, SemWaitKeeps
<1>13. CASE \/ \E tq \in 0 .. MaxQuantum, n \in 0 .. SO_MAX_NUM_EVENTS + 1 :
                 SoInitRefused(tq, n)
            \/ \E p \in PriorityArgs : SoForkRefused(p)
            \/ \E i \in DeviceArgs : SoWaitRefused(i) \/ SoSignalRefused(i)
            \/ SoExecIdle
  BY <1>13, RefusalsKeep
<1>14. CASE UNCHANGED vars
  <2>1. /\ UNCHANGED << quantum, io, threads, pq, running, prio, state, left,
                        event, sem, at, main, joined >>
        /\ ret' \in [op : Operations, arg : Nat, value : Int]
    BY <1>14 DEF vars, SchedulerInv, TypeOK
  <2> QED BY <2>1, RefusalKeeps
<1> QED BY <1>1, <1>2, <1>3, <1>4, <1>5, <1>6, <1>8, <1>9, <1>10, <1>11,
           <1>12, <1>13, <1>14 DEF Next, MainNext, ThreadNext

-----------------------------------------------------------------------------
(* The theorems                                                             *)

(* The inductive invariant: whatever a client calls that keeps to the       *)
(* convention (no fork upward), the queue, the running thread, the          *)
(* semaphores and the threads' fields agree.                                *)
THEOREM SchedulerInvariant == Spec => []SchedulerInv
BY InitConsistent, NextKeeps, PTL DEF Spec

(* Type correctness of every call of the library.                           *)
THEOREM TypeCorrect == Spec => []TypeOK
<1>1. SchedulerInv => TypeOK
  BY DEF SchedulerInv
<1> QED BY <1>1, SchedulerInvariant, PTL

(* A thread that has not exited is running or in the queue, in one place:   *)
(* so_fork(), so_wait(), so_signal() and so_exec() lose and double nobody,  *)
(* as long as no handler forks upward.                                      *)
THEOREM NoThreadIsLost == Spec => []NoThreadLost
<1>1. SchedulerInv => NoThreadLost
  BY DEF SchedulerInv, SchedulerConsistent, Consistent, NoThreadLost, Live
<1> QED BY <1>1, SchedulerInvariant, PTL

(* The semaphores give the processor to one thread at a time, the one that  *)
(* running_thread names, as long as no handler forks upward.                *)
THEOREM OneThreadAtATime == Spec => []OneProcessor
<1>1. SchedulerInv => OneProcessor
  BY DEF SchedulerInv, SchedulerConsistent, Consistent, OneProcessor
<1> QED BY <1>1, SchedulerInvariant, PTL

(* enqueue() and dequeue() keep the queue in order of priority.             *)
THEOREM QueueStaysSorted == Spec => []QueueSorted
<1>1. SchedulerInv => QueueSorted
  BY DEF SchedulerInv, SchedulerConsistent, Consistent, QueueSorted
<1> QED BY <1>1, SchedulerInvariant, PTL

(* The thread on the processor has the highest priority of those that can   *)
(* run, although check_preempt() compares it with the front thread only.    *)
THEOREM HighestPriorityRuns == Spec => []RunningIsHighest
<1>1. SchedulerInv => RunningIsHighest
  BY DEF SchedulerInv, Highest, RunningIsHighest
<1> QED BY <1>1, SchedulerInvariant, PTL

(* Why check_preempt() never takes its second branch for clients that keep  *)
(* to the convention, and a fork may be one step: no thread comes to the    *)
(* front of the queue that is above the running one.                        *)
THEOREM NoForkPreempts ==
    Spec => [](\A t \in Threads, p \in Priorities :
                 ThreadCalls /\ at[t] = "none" /\ p <= prio[running] => ~Preempts(t, p))
<1>1. ASSUME SchedulerInv, NEW t \in Threads, NEW p \in Priorities,
             ThreadCalls, at[t] = "none", p <= prio[running]
      PROVE  ~Preempts(t, p)
  <2> DEFINE pr2 == ForkedPrio(t, p)
             q2 == ForkedQueue(t, p)
             n == FrontThread(q2, ForkedStates(t))
  <2>1. /\ running \in Threads /\ running # NULL /\ at[running] = "run" /\ t # running
        /\ TypeOK /\ pq \in Seq(Threads) /\ state \in [Threads -> States]
        /\ prio \in [Threads -> Nat] /\ p \in Nat
    BY <1>1, CallerFacts, PrioritiesNat DEF SchedulerInv, TypeOK, ThreadCalls, Priorities
  <2>2. /\ pr2 \in [Threads -> Nat] /\ pr2[t] = p
        /\ \A u \in Threads \ {t} : pr2[u] = prio[u]
        /\ \A u \in Threads \ {t} : ForkedStates(t)[u] = state[u]
        /\ ForkedStates(t)[t] = "READY"
    BY <2>1 DEF ForkedPrio, ForkedStates
  <2>3. \A u \in Threads : InQueue(pq, u) /\ state[u] # "WAITING" => prio[u] <= prio[running]
    BY <1>1, <2>1 DEF SchedulerInv, Highest
  <2> HIDE DEF pr2
  <2>4. q2 \in Seq(Threads) /\ \A u : InQueue(q2, u) <=> InQueue(pq, u) \/ u = t
    BY <2>1, <2>2, EnqueueMembers DEF ForkedQueue, pr2
  <2> HIDE DEF q2
  <2>5. n # NULL /\ n \in Threads /\ InQueue(q2, n) /\ ForkedStates(t)[n] # "WAITING"
    BY <2>2, <2>4, FrontThreadRange
  <2> HIDE DEF n
  <2>6. pr2[n] <= pr2[running]
    <3>1. CASE n = t
      BY <1>1, <2>1, <2>2, <3>1
    <3>2. CASE n # t
      BY <2>1, <2>2, <2>3, <2>4, <2>5, <3>2
    <3> QED BY <3>1, <3>2
  <2>7. pr2[n] \in Nat /\ pr2[running] \in Nat
    BY <2>1, <2>2, <2>5
  <2>8. ~(pr2[running] < pr2[n])
    BY <2>6, <2>7
  <2> QED BY <2>8 DEF Preempts, n, q2, pr2
<1>2. SchedulerInv => \A t \in Threads, p \in Priorities :
                        ThreadCalls /\ at[t] = "none" /\ p <= prio[running] => ~Preempts(t, p)
  BY <1>1
<1> QED BY <1>2, SchedulerInvariant, PTL

(* The processor never idles while a thread of the queue is ready.          *)
THEOREM ProcessorNeverIdles == Spec => []WorkConserving
<1>1. SchedulerInv => WorkConserving
  BY DEF SchedulerInv, Highest, WorkConserving
<1> QED BY <1>1, SchedulerInvariant, PTL

(* The state and event fields tell the place of the thread.                 *)
THEOREM FieldsAgree == Spec => []StatesAgree
<1>1. SchedulerInv => StatesAgree
  BY DEF SchedulerInv, SchedulerConsistent, Consistent, StatesAgree
<1> QED BY <1>1, SchedulerInvariant, PTL

(* so_exec() never decrements an unsigned quantum of zero, as long as no    *)
(* handler forks upward: no two pthreads count down one quantum.            *)
THEOREM QuantumStaysPositive == Spec => []QuantumNeverWraps
<1>1. SchedulerInv => QuantumNeverWraps
  BY DEF SchedulerInv, SchedulerConsistent, Consistent, QuantumNeverWraps, Live
<1> QED BY <1>1, SchedulerInvariant, PTL

(* Once every thread of the array has been joined nothing is left running,  *)
(* queued or posted.                                                        *)
LEMMA NobodyLeft ==
    ASSUME SchedulerInv, AllJoined
    PROVE  /\ \A t \in Threads : ~Live(t) /\ sem[t] = 0
           /\ pq = << >> /\ running = NULL
<1>1. /\ TypeOK /\ SchedulerConsistent /\ MainInv
      /\ main = "join" /\ joined = Len(threads)
      /\ threads \in Seq(Threads) /\ pq \in Seq(Threads)
  BY DEF SchedulerInv, AllJoined, TypeOK
<1>2. \A t \in Threads : ~Live(t)
  <2>1. ASSUME NEW t \in Threads, at[t] # "none" PROVE at[t] = "exited"
    <3>1. PICK i \in 1 .. Len(threads) : threads[i] = t
      BY <1>1, <2>1 DEF MainInv
    <3> QED BY <1>1, <3>1 DEF MainInv
  <2> QED BY <2>1 DEF Live
<1>3. \A t \in Threads : ~InQueue(pq, t) /\ running # t /\ sem[t] = 0
  <2>1. ASSUME NEW t \in Threads PROVE ~InQueue(pq, t) /\ running # t /\ sem[t] = 0
    <3>1. ~InQueue(pq, t) /\ running # t /\ at[t] # "run"
      BY <1>1, <1>2 DEF SchedulerConsistent, Consistent, Live
    <3>2. sem[t] + 0 = 0 /\ sem[t] \in Nat
      BY <1>1, <3>1 DEF SchedulerConsistent, Consistent, TypeOK
    <3> QED BY <3>1, <3>2
  <2> QED BY <2>1
<1>4. running = NULL
  BY <1>1, <1>3 DEF TypeOK
<1>5. pq = << >>
  <2>1. SUFFICES ASSUME pq # << >> PROVE FALSE
    OBVIOUS
  <2>2. Len(pq) \in Nat /\ Len(pq) # 0
    BY <1>1, <2>1, EmptySeq, LenProperties
  <2>3. 1 \in DOMAIN pq /\ pq[1] \in Threads
    BY <1>1, <2>2, LenProperties, ElementOfSeq
  <2> QED BY <1>3, <2>3 DEF InQueue
<1> QED BY <1>2, <1>3, <1>4, <1>5

(* so_end() frees the structures of threads that are gone.                  *)
THEOREM FreedAfterExit == Spec => FreedOnlyWhenDead
<1> DEFINE A == quantum # 0 /\ quantum' = 0 =>
                  /\ \A t \in Threads : ~Live(t) /\ sem[t] = 0
                  /\ pq = << >> /\ running = NULL
<1>1. SchedulerInv /\ [Next]_vars => [A]_vars
  <2> SUFFICES ASSUME SchedulerInv, Next, quantum # 0, quantum' = 0
               PROVE  /\ \A t \in Threads : ~Live(t) /\ sem[t] = 0
                      /\ pq = << >> /\ running = NULL
    OBVIOUS
  <2>1. FreeAll
    BY DEF Next, MainNext, ThreadNext, SoInit, SoInitRefused, SoEnd, Join,
           SoForkByMain, SoForkByThread, SoForkRefused, Create,
           SoWait, SoWaitRefused, SoSignal, SoSignalRefused, SoExec, SoExecIdle,
           SemWait, ThreadReturn
  <2> QED BY <2>1, NobodyLeft DEF FreeAll
<1> QED BY <1>1, SchedulerInvariant, PTL DEF Spec, FreedOnlyWhenDead

(* so_wait()'s test for a ready thread: the processor is left without a     *)
(* thread only when a handler returns.                                      *)
THEOREM OnlyReturnIdles == Spec => IdleOnlyAfterReturn
<1> DEFINE A == running # NULL /\ running' = NULL =>
                  at[running] = "run" /\ at'[running] = "exited"
<1>1. SchedulerInv /\ [Next]_vars => [A]_vars
  <2> SUFFICES ASSUME SchedulerInv, Next, running # NULL, running' = NULL
               PROVE  at[running] = "run" /\ at'[running] = "exited"
    OBVIOUS
  <2>1. ThreadReturn
    <3>1. /\ ~ \E tq \in 0 .. MaxQuantum, n \in 0 .. SO_MAX_NUM_EVENTS + 1 :
                 SoInit(tq, n) \/ SoInitRefused(tq, n)
          /\ ~SoEnd /\ ~Join /\ ~SoExecIdle
          /\ ~ \E t \in Threads, p \in Priorities : SoForkByMain(t, p)
          /\ ~ \E t \in Threads : SemWait(t)
      <4>1. quantum # 0
        <5>1. TypeOK /\ SchedulerConsistent /\ MainInv
          BY DEF SchedulerInv
        <5>2. running \in Threads /\ at[running] \in {"blocked", "run"}
          BY <5>1 DEF TypeOK, SchedulerConsistent, Consistent
        <5> QED BY <5>1, <5>2 DEF MainInv
      <4> QED BY <4>1 DEF SoInit, SoInitRefused, SoEnd, Join, SoExecIdle,
                          SoForkByMain, MainCalls, SemWait
    <3>2. ~FreeAll
      BY NobodyLeft DEF FreeAll
    <3>3. ~SoExec /\ ~ \E t \in Threads, p \in Priorities :
                         SoForkByThread(t, p)
      BY SoExecKeeps, SoForkByThreadKeeps
    <3>4. /\ ~ \E p \in PriorityArgs : SoForkRefused(p)
          /\ ~ \E i \in DeviceArgs :
                 SoWait(i) \/ SoWaitRefused(i) \/ SoSignal(i) \/ SoSignalRefused(i)
      BY SoWaitKeeps, SoSignalKeeps DEF SoForkRefused, SoWaitRefused, SoSignalRefused
    <3> QED BY <3>1, <3>2, <3>3, <3>4 DEF Next, MainNext, ThreadNext
  <2> QED BY <2>1, CallerFacts DEF ThreadReturn, SchedulerInv, TypeOK
<1> QED BY <1>1, SchedulerInvariant, PTL DEF Spec, IdleOnlyAfterReturn

-----------------------------------------------------------------------------
(***************************************************************************)
(* SoScheduler implements MultilevelQueue, and what follows from it about  *)
(* the order of the threads.                                               *)
(*                                                                         *)
(* The first lemmas say what enqueue() and the dispatch of the front       *)
(* thread mean for the lines; a call is a sequence of these two, and its   *)
(* proof follows that sequence.                                            *)
(***************************************************************************)

(* The threads of a queue and their order in the lines.                     *)
Members(q) == {t \in Threads : InQueue(q, t)}

Order(q, pr) == {e \in Threads \X Threads :
                   Ahead(q, e[1], e[2]) /\ pr[e[1]] = pr[e[2]]}

Waiting(st) == {t \in Threads : st[t] = "WAITING"}

(* lv is the priority of the threads in S.                                  *)
Levels(S, lv, pr) == \A t \in S : lv[t] = pr[t]

-----------------------------------------------------------------------------
(* What the pieces of a call do to the lines                                *)

(* t may enter the lines of the sorted queue q.                             *)
Joins(t, q, pr, lv) ==
    /\ q \in Seq(Threads) /\ pr \in [Threads -> Nat] /\ t \in Threads
    /\ Injective(q) /\ Sorted(q, pr) /\ ~InQueue(q, t)
    /\ Levels(Members(q) \cup {t}, lv, pr)

(* enqueue() puts the thread at the end of the line of its priority.        *)
LEMMA EnqueueBehind ==
    ASSUME NEW q, NEW pr, NEW t, NEW lv, Joins(t, q, pr, lv)
    PROVE  /\ Members(Enqueue(q, pr, t)) = Members(q) \cup {t}
           /\ Order(Enqueue(q, pr, t), pr) =
                Order(q, pr) \cup MLQ!Behind(Members(q), lv, t)
<1> DEFINE r == Enqueue(q, pr, t)
<1> USE DEF Joins
<1>1. Members(r) = Members(q) \cup {t}
  BY EnqueueMembers DEF Members
<1>2. \A u, v \in Threads :
        Ahead(r, u, v) <=>
          \/ u # t /\ v # t /\ Ahead(q, u, v)
          \/ InQueue(q, u) /\ v = t /\ pr[u] >= pr[t]
          \/ InQueue(q, v) /\ u = t /\ pr[v] < pr[t]
  BY EnqueueOrder
<1>3. \A u, v : Ahead(q, u, v) => InQueue(q, u) /\ InQueue(q, v)
  BY AheadIsAnOrder
<1> HIDE DEF r
<1>4. ASSUME NEW u \in Threads, NEW v \in Threads
      PROVE  << u, v >> \in Order(r, pr) <=>
               \/ << u, v >> \in Order(q, pr)
               \/ << u, v >> \in MLQ!Behind(Members(q), lv, t)
  <2>1. << u, v >> \in Order(r, pr) <=> Ahead(r, u, v) /\ pr[u] = pr[v]
    BY DEF Order
  <2>2. << u, v >> \in Order(q, pr) <=> Ahead(q, u, v) /\ pr[u] = pr[v]
    BY DEF Order
  <2>3. << u, v >> \in MLQ!Behind(Members(q), lv, t) <=>
          v = t /\ InQueue(q, u) /\ pr[u] = pr[t]
    BY DEF MLQ!Behind, Members, Levels
  <2>4. pr[u] \in Nat /\ pr[v] \in Nat /\ pr[t] \in Nat
    OBVIOUS
  <2> QED BY <1>2, <1>3, <2>1, <2>2, <2>3, <2>4
<1>5. /\ Order(r, pr) \subseteq Threads \X Threads
      /\ Order(q, pr) \subseteq Threads \X Threads
      /\ MLQ!Behind(Members(q), lv, t) \subseteq Threads \X Threads
  BY DEF Order, MLQ!Behind, Members
<1>6. Order(r, pr) = Order(q, pr) \cup MLQ!Behind(Members(q), lv, t)
  <2> DEFINE A == Order(r, pr)
             B == Order(q, pr)
             C == MLQ!Behind(Members(q), lv, t)
  <2>1. \A u, v \in Threads : << u, v >> \in A <=> << u, v >> \in B \cup C
    BY <1>4
  <2>2. A \subseteq Threads \X Threads /\ B \cup C \subseteq Threads \X Threads
    BY <1>5
  <2> HIDE DEF A, B, C
  <2>3. A = B \cup C
    BY <2>1, <2>2
  <2> QED BY <2>3 DEF A, B, C
<1> QED BY <1>1, <1>6 DEF r

(* dequeue() takes the front thread out of its line and leaves the others.  *)
LEMMA DequeueWithout ==
    ASSUME NEW q \in Seq(Threads), NEW pr, NEW st, Injective(q)
    PROVE  LET n == FrontThread(q, st) IN
           /\ Members(Dequeue(q, st)) = Members(q) \ {n}
           /\ Order(Dequeue(q, st), pr) = MLQ!Without(Order(q, pr), n)
<1> DEFINE r == Dequeue(q, st)
           n == FrontThread(q, st)
<1>1. Members(r) = Members(q) \ {n}
  BY DequeueMembers DEF Members
<1>2. \A u, v \in Threads : Ahead(r, u, v) <=> Ahead(q, u, v) /\ u # n /\ v # n
  BY DequeueOrder
<1> HIDE DEF r, n
<1>3. Order(r, pr) = MLQ!Without(Order(q, pr), n)
  <2>1. \A e \in Threads \X Threads : e[1] \in Threads /\ e[2] \in Threads
    OBVIOUS
  <2> QED BY <1>2, <2>1 DEF Order, MLQ!Without
<1> QED BY <1>1, <1>3 DEF r, n

(* The dispatch of check_preempt() takes the first thread of the highest    *)
(* line that is not passed over.                                            *)
LEMMA DispatchTakesFirst ==
    ASSUME NEW q \in Seq(Threads), NEW pr \in [Threads -> Nat],
           NEW st \in [Threads -> States], NEW sm,
           Injective(q), Sorted(q, pr), Dispatch(q, st, sm),
           NEW lv, Levels(Members(q), lv, pr)
    PROVE  /\ Members(pq') = Members(q) \ {running'}
           /\ Order(pq', pr) = MLQ!Without(Order(q, pr), running')
           /\ Waiting(state') = Waiting(st)
           /\ \/ /\ Members(q) \subseteq Waiting(st) /\ running' = NULL
                 /\ pq' = q
              \/ /\ running' \in Members(q) \ Waiting(st)
                 /\ MLQ!First(Members(q) \ Waiting(st), lv, Order(q, pr), running')
<1> DEFINE n == FrontThread(q, st)
<1>1. /\ running' = n /\ pq' = Dequeue(q, st)
      /\ state' = IF n = NULL THEN st ELSE [st EXCEPT ![n] = "RUNNING"]
  BY DEF Dispatch
<1>2. /\ Members(pq') = Members(q) \ {n}
      /\ Order(pq', pr) = MLQ!Without(Order(q, pr), n)
  BY <1>1, DequeueWithout
<1>3. /\ n = NULL => \A u : InQueue(q, u) => st[u] = "WAITING"
      /\ n # NULL => n \in Threads /\ InQueue(q, n) /\ st[n] # "WAITING"
  BY FrontThreadRange
<1>4. n = NULL => Dequeue(q, st) = q
  <2>1. FrontSlot(q, st) # 0 => FrontSlot(q, st) \in 1 .. Len(q)
    BY FrontSlotRange, LenProperties
  <2>2. FrontSlot(q, st) # 0 => q[FrontSlot(q, st)] \in Threads
    BY <2>1, ElementOfSeq
  <2> QED BY <2>2, NullAssumption DEF FrontThread, Dequeue
<1>5. n # NULL => \A u \in Members(q) \ Waiting(st) : pr[u] <= pr[n]
  BY FrontThreadHighest DEF Members, Waiting
<1>6. n # NULL => \A u : Ahead(q, u, n) => st[u] = "WAITING"
  BY FrontOrder
<1> HIDE DEF n
<1>7. Waiting(state') = Waiting(st)
  BY <1>1, <1>3 DEF Waiting, States
<1>8. CASE n = NULL
  BY <1>1, <1>2, <1>3, <1>4, <1>7, <1>8 DEF Members, Waiting
<1>9. CASE n # NULL
  <2>1. n \in Members(q) \ Waiting(st)
    BY <1>3, <1>9 DEF Members, Waiting
  <2>2. MLQ!First(Members(q) \ Waiting(st), lv, Order(q, pr), n)
    <3> SUFFICES ASSUME NEW u \in Members(q) \ Waiting(st)
                 PROVE  lv[u] < lv[n] \/ (lv[u] = lv[n] /\ << u, n >> \notin Order(q, pr))
      BY DEF MLQ!First
    <3>1. /\ lv[u] = pr[u] /\ lv[n] = pr[n] /\ pr[u] <= pr[n]
          /\ pr[u] \in Nat /\ pr[n] \in Nat
      BY <1>5, <1>9, <2>1 DEF Levels, Members
    <3>2. << u, n >> \notin Order(q, pr)
      BY <1>6, <1>9 DEF Order, Members, Waiting
    <3> QED BY <3>1, <3>2
  <2> QED BY <1>1, <1>2, <1>7, <2>1, <2>2
<1> QED BY <1>8, <1>9

-----------------------------------------------------------------------------
(* Who waits                                                                *)

(* Only a thread that is there waits: so_init() and so_fork() find no       *)
(* thread_t whose state is still WAITING.                                   *)
NoneWaits == \A t \in Threads : at[t] = "none" => state[t] # "WAITING"

(* check_preempt() and so_exec() make nobody wait.                          *)
LEMMA DispatchWaits ==
    ASSUME NEW q, NEW st \in [Threads -> States], NEW sm, Dispatch(q, st, sm)
    PROVE  Waiting(state') \subseteq Waiting(st)
BY DEF Dispatch, Waiting, States

LEMMA ChargeWaits ==
    ASSUME NEW r, NEW q, NEW pr, NEW st \in [Threads -> States], NEW sm, NEW lf,
           Charge(r, q, pr, st, sm, lf)
    PROVE  Waiting(state') \subseteq Waiting(st)
<1> DEFINE st2 == [st EXCEPT ![r] = "READY"]
<1>1. CASE state' = st
  BY <1>1
<1>2. CASE Dispatch(Enqueue(q, pr, r), st2, sm)
  <2>1. st2 \in [Threads -> States] /\ Waiting(st2) \subseteq Waiting(st)
    BY DEF States, Waiting
  <2> HIDE DEF st2
  <2> QED BY <1>2, <2>1, DispatchWaits
<1> QED BY <1>1, <1>2 DEF Charge

LEMMA NoneWaitsKept ==
    ASSUME SchedulerInv, NoneWaits, [Next]_vars
    PROVE  NoneWaits'
<1>0. /\ state \in [Threads -> States]
      /\ at \in [Threads -> {"none", "blocked", "run", "exited"}]
      /\ ThreadCalls => running \in Threads
  BY CallerFacts DEF SchedulerInv, TypeOK
<1>1. ASSUME at' = at \/ (\E t \in Threads : at' = [at EXCEPT ![t] = "run"]), state' = state
      PROVE  NoneWaits'
  BY <1>0, <1>1 DEF NoneWaits
<1>2. ASSUME NEW t \in Threads, at'[t] # "none",
             \A u \in Threads \ {t} : at'[u] = "none" => at[u] = "none",
             Waiting(state') \subseteq Waiting(state) \cup {t}
      PROVE  NoneWaits'
  <2>1. ASSUME NEW u \in Threads, at'[u] = "none" PROVE state'[u] # "WAITING"
    <3>1. u # t /\ at[u] = "none" /\ u \notin Waiting(state)
      BY <1>2, <2>1 DEF NoneWaits, Waiting
    <3> QED BY <1>2, <3>1 DEF Waiting
  <2> QED BY <2>1 DEF NoneWaits
<1>3. CASE FreeAll
  BY <1>3 DEF FreeAll, NoneWaits
<1>4. ASSUME NEW t \in Threads, NEW p \in Priorities, SoForkByMain(t, p)
      PROVE  NoneWaits'
  <2>1. /\ at' = [at EXCEPT ![t] = "blocked"]
        /\ Dispatch(ForkedQueue(t, p), ForkedStates(t), ForkedSems(t))
    BY <1>4 DEF SoForkByMain
  <2>2. /\ ForkedStates(t) \in [Threads -> States]
        /\ Waiting(ForkedStates(t)) \subseteq Waiting(state)
    BY <1>0 DEF ForkedStates, Waiting, States
  <2>3. Waiting(state') \subseteq Waiting(state)
    BY <2>1, <2>2, DispatchWaits
  <2> QED BY <1>0, <1>2, <2>1, <2>3
<1>5. ASSUME NEW t \in Threads, NEW p \in Priorities, SoForkByThread(t, p)
      PROVE  NoneWaits'
  <2>1. /\ running \in Threads
        /\ at' = [at EXCEPT ![t] = "blocked",
                            ![running] = IF left[running] - 1 # 0
                                         THEN "run" ELSE "blocked"]
        /\ Charge(running, ForkedQueue(t, p), ForkedPrio(t, p), ForkedStates(t),
                  ForkedSems(t), ForkedLeft(t))
    BY <1>0, <1>5 DEF SoForkByThread
  <2>2. /\ ForkedStates(t) \in [Threads -> States]
        /\ Waiting(ForkedStates(t)) \subseteq Waiting(state)
    BY <1>0 DEF ForkedStates, Waiting, States
  <2>3. Waiting(state') \subseteq Waiting(state)
    BY <2>1, <2>2, ChargeWaits
  <2>4. at'[t] # "none" /\ \A u \in Threads \ {t} : at'[u] = "none" => at[u] = "none"
    BY <1>0, <2>1
  <2> QED BY <1>2, <2>3, <2>4
<1>7. ASSUME NEW i \in DeviceArgs, SoWait(i)
      PROVE  NoneWaits'
  <2> DEFINE st2 == [state EXCEPT ![running] = "WAITING"]
  <2>1. /\ running \in Threads /\ at' = [at EXCEPT ![running] = "blocked"]
        /\ Dispatch(Enqueue(pq, prio, running), st2, sem)
    BY <1>0, <1>7 DEF SoWait
  <2>2. st2 \in [Threads -> States] /\ Waiting(st2) \subseteq Waiting(state) \cup {running}
    BY <1>0, <2>1 DEF Waiting, States
  <2> HIDE DEF st2
  <2>3. Waiting(state') \subseteq Waiting(state) \cup {running}
    BY <2>1, <2>2, DispatchWaits
  <2> QED BY <1>0, <1>2, <2>1, <2>3
<1>8. ASSUME NEW i \in DeviceArgs, SoSignal(i)
      PROVE  NoneWaits'
  <2> DEFINE st2 == [t \in Threads |->
                       IF t \in Waiters(i) \/ t = running THEN "READY" ELSE state[t]]
  <2>1. /\ running \in Threads /\ at' = [at EXCEPT ![running] = "blocked"]
        /\ Dispatch(Enqueue(pq, prio, running), st2, sem)
    BY <1>0, <1>8 DEF SoSignal
  <2>2. st2 \in [Threads -> States] /\ Waiting(st2) \subseteq Waiting(state)
    BY <1>0, <2>1 DEF Waiting, States
  <2> HIDE DEF st2
  <2>3. Waiting(state') \subseteq Waiting(state)
    BY <2>1, <2>2, DispatchWaits
  <2> QED BY <1>0, <1>2, <2>1, <2>3
<1>9. ASSUME SoExec PROVE NoneWaits'
  <2>1. /\ running \in Threads
        /\ at' = [at EXCEPT ![running] = IF left[running] - 1 # 0
                                         THEN "run" ELSE "blocked"]
        /\ Charge(running, pq, prio, state, sem, left)
    BY <1>0, <1>9 DEF SoExec
  <2>2. Waiting(state') \subseteq Waiting(state)
    BY <1>0, <2>1, ChargeWaits
  <2>3. at'[running] # "none" /\ \A u \in Threads \ {running} : at'[u] = "none" => at[u] = "none"
    BY <1>0, <2>1
  <2> QED BY <1>2, <2>1, <2>2, <2>3
<1>10. ASSUME ThreadReturn PROVE NoneWaits'
  <2> DEFINE st2 == [state EXCEPT ![running] = "TERMINATED"]
  <2>1. /\ running \in Threads /\ at' = [at EXCEPT ![running] = "exited"]
        /\ Dispatch(pq, st2, sem)
    BY <1>0, <1>10 DEF ThreadReturn
  <2>2. st2 \in [Threads -> States] /\ Waiting(st2) \subseteq Waiting(state)
    BY <1>0, <2>1 DEF Waiting, States
  <2> HIDE DEF st2
  <2>3. Waiting(state') \subseteq Waiting(state)
    BY <2>1, <2>2, DispatchWaits
  <2> QED BY <1>0, <1>2, <2>1, <2>3
<1>11. CASE \/ \E tq \in 0 .. MaxQuantum, n \in 0 .. SO_MAX_NUM_EVENTS + 1 :
                 SoInit(tq, n) \/ SoInitRefused(tq, n)
            \/ SoEnd \/ Join \/ SoExecIdle \/ UNCHANGED vars
            \/ \E p \in PriorityArgs : SoForkRefused(p)
            \/ \E i \in DeviceArgs : SoWaitRefused(i) \/ SoSignalRefused(i)
  <2>1. at' = at /\ state' = state
    BY <1>11 DEF SoInit, SoInitRefused, SoEnd, Join, SoExecIdle, vars, SoForkRefused,
                 SoWaitRefused, SoSignalRefused
  <2> QED BY <1>1, <2>1
<1>12. CASE \E t \in Threads : SemWait(t)
  BY <1>1, <1>12 DEF SemWait
<1> QED BY <1>3, <1>4, <1>5, <1>7, <1>8, <1>9, <1>10, <1>11, <1>12
        DEF Next, MainNext, ThreadNext

(* The invariant under which a state has a meaning as lines.                *)
LinesInv == SchedulerInv /\ NoneWaits

LEMMA LinesInvariant == Spec => []LinesInv
<1>1. Init => LinesInv
  BY InitConsistent DEF LinesInv, Init, NoneWaits
<1>2. LinesInv /\ [Next]_vars => LinesInv'
  BY NextKeeps, NoneWaitsKept DEF LinesInv
<1> QED BY <1>1, <1>2, PTL DEF Spec

-----------------------------------------------------------------------------
(* The state as lines                                                       *)

LEMMA LinesOfState ==
    ASSUME LinesInv
    PROVE  /\ pq \in Seq(Threads) /\ Injective(pq) /\ Sorted(pq, prio)
           /\ prio \in [Threads -> Priorities] /\ prio \in [Threads -> Nat]
           /\ state \in [Threads -> States]
           /\ running \in Threads \cup {NULL} /\ running \notin Members(pq)
           /\ NULL \notin Members(pq)
           /\ MLQ!Present = Members(pq) \cup ({running} \ {NULL})
           /\ MLQ!InLine = Members(pq)
           /\ LineOrder = Order(pq, prio) /\ PassedOver = Waiting(state)
           /\ \A t \in Members(pq) \cup ({running} \ {NULL}) : LineLevel[t] = prio[t]
           /\ PassedOver \subseteq Members(pq)
<1>1. /\ pq \in Seq(Threads) /\ prio \in [Threads -> Priorities]
      /\ state \in [Threads -> States] /\ running \in Threads \cup {NULL}
  BY DEF LinesInv, SchedulerInv, TypeOK
<1>2. /\ Injective(pq) /\ Sorted(pq, prio)
      /\ running # NULL => ~InQueue(pq, running)
  BY DEF LinesInv, SchedulerInv, SchedulerConsistent, Consistent
<1>3. running \notin Members(pq) /\ NULL \notin Members(pq)
  BY <1>2, NullAssumption DEF Members
<1>4. MLQ!Present = Members(pq) \cup ({running} \ {NULL})
  BY <1>1, NullAssumption DEF MLQ!Present, LineLevel, Members
<1>5. MLQ!InLine = Members(pq)
  BY <1>3, <1>4 DEF MLQ!InLine
<1>6. LineOrder = Order(pq, prio) /\ PassedOver = Waiting(state)
  BY DEF LineOrder, Order, PassedOver, Waiting
<1>7. \A t \in Members(pq) \cup ({running} \ {NULL}) : LineLevel[t] = prio[t]
  BY <1>1, NullAssumption DEF LineLevel, Members
<1>8. PassedOver \subseteq Members(pq)
  <2>1. ASSUME NEW t \in Threads, state[t] = "WAITING" PROVE InQueue(pq, t)
    <3>1. at[t] # "none" /\ at[t] # "exited" /\ running # t
      BY <2>1 DEF LinesInv, NoneWaits, SchedulerInv, SchedulerConsistent, Consistent
    <3> QED BY <3>1 DEF LinesInv, SchedulerInv, TypeOK, SchedulerConsistent, Consistent
  <2> QED BY <2>1 DEF PassedOver, Members
<1> QED BY <1>1, <1>2, <1>3, <1>4, <1>5, <1>6, <1>7, <1>8, PrioritiesNat

(* The same of the next state, for a call that keeps the priorities.        *)
LEMMA LinesOfNext ==
    ASSUME NEW pr, prio' = pr
    PROVE  LineOrder' = Order(pq', pr) /\ PassedOver' = Waiting(state')
BY DEF LineOrder, Order, PassedOver, Waiting

-----------------------------------------------------------------------------
(* The calls, one by one                                                    *)

(* The running thread goes back to the queue and the front thread is        *)
(* dispatched, by whichever call: a turn is over.                           *)
LEMMA YieldStep ==
    ASSUME LinesInv, ThreadCalls, NEW st \in [Threads -> States], NEW sm,
           Dispatch(Enqueue(pq, prio, running), st, sm), prio' = prio
    PROVE  MLQ!Yield(Waiting(st)) /\ PassedOver' = Waiting(st)
<1> DEFINE q2 == Enqueue(pq, prio, running)
           entered == LineOrder \cup MLQ!Behind(MLQ!InLine, LineLevel, running)
<1>0. running \in Threads /\ running # NULL
  BY CallerFacts DEF LinesInv, ThreadCalls
<1>1. /\ pq \in Seq(Threads) /\ Injective(pq) /\ Sorted(pq, prio)
      /\ prio \in [Threads -> Nat] /\ ~InQueue(pq, running)
      /\ MLQ!Present = Members(pq) \cup {running}
      /\ MLQ!InLine = Members(pq) /\ LineOrder = Order(pq, prio)
      /\ Levels(Members(pq) \cup {running}, LineLevel, prio)
  BY <1>0, LinesOfState DEF Members, Levels
<1>2. /\ q2 \in Seq(Threads) /\ Injective(q2) /\ Sorted(q2, prio)
  BY <1>0, <1>1, EnqueueMembers, EnqueueSorted
<1>3. Members(q2) = MLQ!Present /\ Order(q2, prio) = entered
  <2>1. Joins(running, pq, prio, LineLevel)
    BY <1>0, <1>1 DEF Joins
  <2> QED BY <1>1, <2>1, EnqueueBehind
<1> HIDE DEF q2, entered
<1>4. Dispatch(q2, st, sm) /\ Levels(Members(q2), LineLevel, prio)
  BY <1>1, <1>3 DEF q2
<1>5. /\ Members(pq') = Members(q2) \ {running'}
      /\ Order(pq', prio) = MLQ!Without(Order(q2, prio), running')
      /\ Waiting(state') = Waiting(st)
      /\ \/ /\ Members(q2) \subseteq Waiting(st) /\ running' = NULL
            /\ pq' = q2
         \/ /\ running' \in Members(q2) \ Waiting(st)
            /\ MLQ!First(Members(q2) \ Waiting(st), LineLevel, Order(q2, prio), running')
  BY <1>1, <1>2, <1>4, DispatchTakesFirst
<1>6. LineOrder' = Order(pq', prio) /\ PassedOver' = Waiting(st)
  BY <1>5, LinesOfNext
<1>7. MLQ!Pick(MLQ!Present, LineLevel, entered, Waiting(st))
  BY <1>3, <1>5, <1>6 DEF MLQ!Pick
<1>8. LineLevel' = LineLevel
  <2>1. Members(q2) = Members(pq) \cup {running}
    BY <1>1, <1>3
  <2>2. \A u \in Threads : InQueue(pq', u) \/ running' = u
                             <=> InQueue(pq, u) \/ running = u
    BY <1>5, <2>1, NullAssumption DEF Members
  <2> QED BY <2>2 DEF LineLevel
<1> QED BY <1>0, <1>6, <1>7, <1>8 DEF MLQ!Yield, entered

(* so_wait() blocks.                                                        *)
LEMMA SoWaitBlocks ==
    ASSUME LinesInv, NEW i \in DeviceArgs, SoWait(i)
    PROVE  MLQ!Block
<1> DEFINE st == [state EXCEPT ![running] = "WAITING"]
<1>1. /\ ThreadCalls /\ prio' = prio
      /\ Dispatch(Enqueue(pq, prio, running), st, sem)
  BY DEF SoWait
<1>2. running \in Threads /\ state \in [Threads -> States]
  BY <1>1, CallerFacts DEF LinesInv, SchedulerInv, TypeOK
<1>3. st \in [Threads -> States] /\ Waiting(st) = PassedOver \cup {running}
  BY <1>2 DEF Waiting, PassedOver, States
<1> HIDE DEF st
<1>4. MLQ!Yield(Waiting(st)) /\ PassedOver' = Waiting(st)
  BY <1>1, <1>3, YieldStep
<1>5. running' # NULL
  BY SoWaitKeeps DEF LinesInv
<1> QED BY <1>3, <1>4, <1>5 DEF MLQ!Block

(* so_signal() wakes the threads that wait for its device.                  *)
LEMMA SoSignalWakes ==
    ASSUME LinesInv, NEW i \in DeviceArgs, SoSignal(i)
    PROVE  \E woken \in SUBSET PassedOver : MLQ!Wake(woken)
<1> DEFINE st == [t \in Threads |->
                    IF t \in Waiters(i) \/ t = running THEN "READY" ELSE state[t]]
           woken == PassedOver \cap Waiters(i)
<1>1. /\ ThreadCalls /\ prio' = prio
      /\ Dispatch(Enqueue(pq, prio, running), st, sem)
  BY DEF SoSignal
<1>2. /\ running \in Threads /\ state \in [Threads -> States]
      /\ state[running] = "RUNNING"
  BY <1>1, CallerFacts DEF LinesInv, SchedulerInv, TypeOK
<1>3. st \in [Threads -> States] /\ Waiting(st) = PassedOver \ woken
  BY <1>2 DEF Waiting, PassedOver, States
<1> HIDE DEF st
<1>4. MLQ!Yield(Waiting(st)) /\ PassedOver' = Waiting(st)
  BY <1>1, <1>3, YieldStep
<1>5. MLQ!Wake(woken)
  BY <1>3, <1>4 DEF MLQ!Wake
<1> QED BY <1>5

(* so_exec() ends the turn of a thread whose quantum is spent.              *)
LEMMA SoExecRotates ==
    ASSUME LinesInv, SoExec
    PROVE  MLQ!Rotate \/ UNCHANGED << LineLevel, LineOrder, PassedOver, running >>
<1> DEFINE st == [state EXCEPT ![running] = "READY"]
<1>1. /\ ThreadCalls /\ prio' = prio
      /\ \/ running' = running /\ pq' = pq /\ state' = state
         \/ Dispatch(Enqueue(pq, prio, running), st, sem)
  BY DEF SoExec, Charge
<1>2. CASE running' = running /\ pq' = pq /\ state' = state
  BY <1>1, <1>2 DEF LineLevel, LineOrder, PassedOver
<1>3. CASE Dispatch(Enqueue(pq, prio, running), st, sem)
  <2>1. /\ running \in Threads /\ state \in [Threads -> States]
        /\ state[running] = "RUNNING"
    BY <1>1, CallerFacts DEF LinesInv, SchedulerInv, TypeOK
  <2>2. st \in [Threads -> States] /\ Waiting(st) = PassedOver
    BY <2>1 DEF Waiting, PassedOver, States
  <2> HIDE DEF st
  <2>3. MLQ!Yield(Waiting(st)) /\ PassedOver' = Waiting(st)
    BY <1>1, <1>3, <2>2, YieldStep
  <2> QED BY <2>2, <2>3 DEF MLQ!Rotate
<1> QED BY <1>1, <1>2, <1>3

(* The end of a handler leaves.                                             *)
LEMMA ThreadReturnLeaves ==
    ASSUME LinesInv, ThreadReturn
    PROVE  MLQ!Leave
<1> DEFINE st == [state EXCEPT ![running] = "TERMINATED"]
<1>0. /\ ThreadCalls /\ prio' = prio /\ Dispatch(pq, st, sem)
  BY DEF ThreadReturn
<1>1. /\ running \in Threads /\ running # NULL /\ state[running] = "RUNNING"
  BY <1>0, CallerFacts DEF LinesInv, ThreadCalls
<1>2. /\ pq \in Seq(Threads) /\ Injective(pq) /\ Sorted(pq, prio)
      /\ prio \in [Threads -> Nat] /\ state \in [Threads -> States]
      /\ MLQ!InLine = Members(pq) /\ LineOrder = Order(pq, prio)
      /\ PassedOver = Waiting(state)
      /\ Levels(Members(pq), LineLevel, prio)
  BY LinesOfState DEF Levels
<1>3. st \in [Threads -> States] /\ Waiting(st) = PassedOver
  BY <1>1, <1>2 DEF Waiting, States
<1> HIDE DEF st
<1>4. /\ Members(pq') = Members(pq) \ {running'}
      /\ Order(pq', prio) = MLQ!Without(Order(pq, prio), running')
      /\ Waiting(state') = Waiting(st)
      /\ \/ /\ Members(pq) \subseteq Waiting(st) /\ running' = NULL
            /\ pq' = pq
         \/ /\ running' \in Members(pq) \ Waiting(st)
            /\ MLQ!First(Members(pq) \ Waiting(st), LineLevel, Order(pq, prio), running')
  BY <1>0, <1>2, <1>3, DispatchTakesFirst
<1>5. LineOrder' = Order(pq', prio) /\ PassedOver' = PassedOver
  BY <1>0, <1>3, <1>4, LinesOfNext
<1>6. MLQ!Pick(MLQ!InLine, LineLevel, LineOrder, PassedOver)
  BY <1>2, <1>3, <1>4, <1>5 DEF MLQ!Pick
<1>7. LineLevel' = [t \in MLQ!InLine |-> LineLevel[t]]
  <2>1. {u \in Threads : InQueue(pq', u) \/ running' = u} = Members(pq)
    BY <1>4, NullAssumption DEF Members
  <2>2. LineLevel' = [t \in Members(pq) |-> prio[t]]
    BY <1>0, <2>1 DEF LineLevel
  <2> QED BY <1>2, <2>2 DEF Levels
<1> QED BY <1>1, <1>5, <1>6, <1>7 DEF MLQ!Leave

-----------------------------------------------------------------------------
(* so_fork()                                                                *)

(* The levels once thread t of priority p is there.                         *)
NewLevel(t, p) == [u \in MLQ!Present \cup {t} |-> IF u = t THEN p ELSE LineLevel[u]]

(* What every so_fork() does first: t is at the end of its line.            *)
LEMMA ForkJoins ==
    ASSUME LinesInv, quantum # 0, NEW t \in Threads, NEW p \in Priorities, Create(t, p)
    PROVE  /\ t \notin Members(pq) /\ t # running /\ t \notin MLQ!Present
           /\ prio' \in [Threads -> Nat] /\ prio'[t] = p
           /\ \A u \in Threads \ {t} : prio'[u] = prio[u]
           /\ ForkedQueue(t, p) \in Seq(Threads)
           /\ Injective(ForkedQueue(t, p)) /\ Sorted(ForkedQueue(t, p), prio')
           /\ ForkedStates(t) \in [Threads -> States]
           /\ ForkedStates(t)[t] = "READY"
           /\ Waiting(ForkedStates(t)) = PassedOver
           /\ Order(pq, prio') = LineOrder
           /\ Members(ForkedQueue(t, p)) = Members(pq) \cup {t}
           /\ Order(ForkedQueue(t, p), prio') =
                LineOrder \cup MLQ!Behind(MLQ!InLine, NewLevel(t, p), t)
           /\ Levels(MLQ!Present \cup {t}, NewLevel(t, p), prio')
           /\ \A e \in LineOrder : e[1] # t /\ e[2] # t
<1> DEFINE q2 == ForkedQueue(t, p)
           st2 == ForkedStates(t)
           lv == NewLevel(t, p)
<1>1. at[t] = "none" /\ prio' = ForkedPrio(t, p)
  BY DEF Create
<1>2. /\ pq \in Seq(Threads) /\ Injective(pq) /\ Sorted(pq, prio)
      /\ prio \in [Threads -> Priorities] /\ state \in [Threads -> States]
      /\ MLQ!Present = Members(pq) \cup ({running} \ {NULL})
      /\ MLQ!InLine = Members(pq) /\ LineOrder = Order(pq, prio)
      /\ PassedOver = Waiting(state)
      /\ \A u \in Members(pq) \cup ({running} \ {NULL}) : LineLevel[u] = prio[u]
      /\ running \in Threads \cup {NULL}
  BY LinesOfState
<1>3. ~InQueue(pq, t) /\ t # running
  BY <1>1 DEF LinesInv, SchedulerInv, SchedulerConsistent, Consistent
<1>4. /\ prio' \in [Threads -> Nat] /\ prio'[t] = p
      /\ \A u \in Threads \ {t} : prio'[u] = prio[u]
  <2>1. ForkedPrio(t, p) \in [Threads -> Priorities]
    BY <1>2 DEF ForkedPrio
  <2> QED BY <1>1, <1>2, <2>1, PrioritiesNat DEF ForkedPrio
<1>5. t \notin Members(pq) /\ t \notin MLQ!Present
  BY <1>2, <1>3 DEF Members
<1>6. /\ st2 \in [Threads -> States] /\ st2[t] = "READY"
      /\ Waiting(st2) = PassedOver
  <2>1. st2 \in [Threads -> States] /\ st2[t] = "READY"
        /\ \A u \in Threads \ {t} : st2[u] = state[u]
    BY <1>2 DEF ForkedStates, States
  <2>2. state[t] # "WAITING"
    BY <1>1 DEF LinesInv, NoneWaits
  <2> HIDE DEF st2
  <2> QED BY <1>2, <2>1, <2>2 DEF Waiting
<1>7. \A u, v : Ahead(pq, u, v) => InQueue(pq, u) /\ InQueue(pq, v)
  BY <1>2, AheadIsAnOrder
<1>8. Order(pq, prio') = LineOrder
  <2>1. \A u, v \in Threads : Ahead(pq, u, v) => (prio'[u] = prio'[v] <=> prio[u] = prio[v])
    BY <1>3, <1>4, <1>7
  <2> QED BY <1>2, <2>1 DEF Order
<1>9. \A e \in LineOrder : e[1] # t /\ e[2] # t
  BY <1>2, <1>3, <1>7 DEF Order
<1>10. Sorted(pq, prio')
  <2>1. DOMAIN pq = 1 .. Len(pq) /\ \A i \in 1 .. Len(pq) : pq[i] \in Threads \ {t}
    BY <1>2, <1>3, LenProperties, ElementOfSeq DEF InQueue
  <2> QED BY <1>2, <1>4, <2>1 DEF Sorted
<1>11. Levels(MLQ!Present \cup {t}, lv, prio')
  BY <1>2, <1>4, <1>5 DEF Levels, NewLevel, Members
<1>12. Levels(Members(pq) \cup {t}, lv, prio')
  BY <1>2, <1>11 DEF Levels
<1>13. q2 = Enqueue(pq, prio', t)
  BY <1>1 DEF ForkedQueue
<1> HIDE DEF q2, st2, lv
<1>14. /\ q2 \in Seq(Threads) /\ Injective(q2) /\ Sorted(q2, prio')
  BY <1>2, <1>3, <1>4, <1>10, <1>13, EnqueueMembers, EnqueueSorted
<1>15. /\ Members(q2) = Members(pq) \cup {t}
       /\ Order(q2, prio') = LineOrder \cup MLQ!Behind(MLQ!InLine, lv, t)
  <2>1. /\ Members(Enqueue(pq, prio', t)) = Members(pq) \cup {t}
        /\ Order(Enqueue(pq, prio', t), prio') =
             Order(pq, prio') \cup MLQ!Behind(Members(pq), lv, t)
    <3>1. Joins(t, pq, prio', lv)
      BY <1>2, <1>3, <1>4, <1>10, <1>12 DEF Joins
    <3> QED BY <3>1, EnqueueBehind
  <2> QED BY <1>2, <1>8, <1>13, <2>1
<1> QED BY <1>3, <1>4, <1>5, <1>6, <1>8, <1>9, <1>11, <1>14, <1>15 DEF q2, st2, lv

(* When t has joined, the levels are those of the next state.               *)
LEMMA ForkLevels ==
    ASSUME LinesInv, NEW t \in Threads, NEW p,
           Levels(MLQ!Present \cup {t}, NewLevel(t, p), prio'),
           Members(pq') \cup ({running'} \ {NULL}) = MLQ!Present \cup {t}
    PROVE  LineLevel' = NewLevel(t, p)
<1>1. MLQ!Present \subseteq Threads
  BY LinesOfState DEF Members
<1>2. {u \in Threads : InQueue(pq', u) \/ running' = u} = MLQ!Present \cup {t}
  BY <1>1, NullAssumption DEF Members
<1>3. LineLevel' = [u \in MLQ!Present \cup {t} |-> prio'[u]]
  BY <1>2 DEF LineLevel
<1> QED BY <1>3 DEF Levels, NewLevel

(* A thread that main() forks gets the idle processor.                      *)
LEMMA SoForkByMainArrives ==
    ASSUME LinesInv, NEW t \in Threads, NEW p \in Priorities, SoForkByMain(t, p)
    PROVE  MLQ!Arrive(t, p)
<1> DEFINE q2 == ForkedQueue(t, p)
           st2 == ForkedStates(t)
           lv == NewLevel(t, p)
<1>0. /\ quantum # 0 /\ running = NULL /\ Create(t, p)
      /\ Dispatch(q2, st2, ForkedSems(t))
  BY DEF SoForkByMain, MainCalls
<1>1. /\ t \notin Members(pq) /\ prio' \in [Threads -> Nat]
      /\ q2 \in Seq(Threads) /\ Injective(q2) /\ Sorted(q2, prio')
      /\ st2 \in [Threads -> States] /\ st2[t] = "READY"
      /\ Waiting(st2) = PassedOver
      /\ Members(q2) = Members(pq) \cup {t}
      /\ Order(q2, prio') = LineOrder \cup MLQ!Behind(MLQ!InLine, lv, t)
      /\ Levels(MLQ!Present \cup {t}, lv, prio')
      /\ \A e \in LineOrder : e[1] # t /\ e[2] # t
  BY <1>0, ForkJoins
<1>2. /\ MLQ!Present = Members(pq) /\ MLQ!InLine = Members(pq)
      /\ PassedOver \subseteq Members(pq)
  BY <1>0, LinesOfState
<1>3. Members(pq) \subseteq PassedOver
  BY <1>0 DEF LinesInv, SchedulerInv, Highest, Members, PassedOver
<1> HIDE DEF q2, st2, lv
<1>4. /\ Members(pq') = Members(q2) \ {running'}
      /\ Order(pq', prio') = MLQ!Without(Order(q2, prio'), running')
      /\ Waiting(state') = Waiting(st2)
      /\ \/ Members(q2) \subseteq Waiting(st2)
         \/ running' \in Members(q2) \ Waiting(st2)
  <2>1. Levels(Members(q2), lv, prio')
    BY <1>1, <1>2
  <2> QED BY <1>0, <1>1, <2>1, DispatchTakesFirst
<1>5. running' = t
  <2>1. t \notin PassedOver
    BY <1>1, <1>2
  <2> QED BY <1>1, <1>3, <1>4, <2>1
<1>6. Order(pq', prio') = LineOrder
  <2>1. \A e \in MLQ!Behind(MLQ!InLine, lv, t) : e[2] = t
    BY DEF MLQ!Behind
  <2> QED BY <1>1, <1>4, <1>5, <2>1 DEF MLQ!Without
<1>7. LineOrder' = LineOrder /\ PassedOver' = PassedOver
  BY <1>1, <1>4, <1>6, LinesOfNext
<1>8. LineLevel' = lv
  <2>1. Members(pq') \cup ({running'} \ {NULL}) = MLQ!Present \cup {t}
    BY <1>1, <1>2, <1>4, <1>5, NullAssumption
  <2> QED BY <1>1, <2>1, ForkLevels DEF lv
<1> QED BY <1>0, <1>5, <1>7, <1>8 DEF MLQ!Arrive, NewLevel, lv

(* A thread that does not preempt its creator joins its line; if that was   *)
(* the end of the creator's turn, the creator goes behind it.               *)
LEMMA SoForkByThreadArrives ==
    ASSUME LinesInv, NEW t \in Threads, NEW p \in Priorities, SoForkByThread(t, p)
    PROVE  MLQ!Arrive(t, p)
<1> DEFINE q2 == ForkedQueue(t, p)
           st2 == ForkedStates(t)
           lv == NewLevel(t, p)
           entered == LineOrder \cup MLQ!Behind(MLQ!InLine, lv, t)
           q3 == Enqueue(q2, prio', running)
           st3 == [st2 EXCEPT ![running] = "READY"]
<1>0. /\ ThreadCalls /\ quantum # 0 /\ Create(t, p) /\ running # NULL
      /\ prio' = ForkedPrio(t, p) /\ ~Preempts(t, p)
      /\ \/ running' = running /\ pq' = q2 /\ state' = st2
         \/ Dispatch(q3, st3, ForkedSems(t))
  BY DEF SoForkByThread, Charge, ThreadCalls, Create
<1>1. /\ t \notin Members(pq) /\ t # running /\ prio' \in [Threads -> Nat]
      /\ prio'[t] = p /\ prio'[running] = prio[running]
      /\ q2 \in Seq(Threads) /\ Injective(q2) /\ Sorted(q2, prio')
      /\ st2 \in [Threads -> States] /\ st2[t] = "READY"
      /\ Waiting(st2) = PassedOver
      /\ Members(q2) = Members(pq) \cup {t}
      /\ Order(q2, prio') = entered
      /\ Levels(MLQ!Present \cup {t}, lv, prio')
  BY <1>0, ForkJoins, CallerFacts DEF LinesInv
<1>2. /\ MLQ!Present = Members(pq) \cup {running} /\ MLQ!InLine = Members(pq)
      /\ PassedOver \subseteq Members(pq) /\ running \notin Members(pq)
      /\ LineLevel[running] = prio[running] /\ running \in Threads
  BY <1>0, LinesOfState
<1>3. p <= LineLevel[running]
  <2> DEFINE n == FrontThread(q2, st2)
  <2>1. /\ n \in Threads
        /\ \A u \in Threads : InQueue(q2, u) /\ st2[u] # "WAITING" => prio'[u] <= prio'[n]
    BY <1>0, ForkFacts DEF LinesInv
  <2>2. ~(prio'[running] < prio'[n])
    BY <1>0 DEF Preempts
  <2> HIDE DEF n, q2, st2
  <2>3. InQueue(q2, t)
    BY <1>1 DEF Members
  <2>4. /\ prio'[t] <= prio'[n] /\ prio'[t] \in Nat /\ prio'[n] \in Nat
        /\ prio'[running] \in Nat
    BY <1>1, <1>2, <2>1, <2>3
  <2> QED BY <1>1, <1>2, <2>2, <2>4
<1> HIDE DEF q2, st2, lv, entered
<1>4. CASE running' = running /\ pq' = q2 /\ state' = st2
  <2>1. LineOrder' = entered /\ PassedOver' = PassedOver
    BY <1>1, <1>4, LinesOfNext
  <2>2. LineLevel' = lv
    <3>1. Members(pq') \cup ({running'} \ {NULL}) = MLQ!Present \cup {t}
      BY <1>0, <1>1, <1>2, <1>4
    <3> QED BY <1>1, <3>1, ForkLevels DEF lv
  <2> QED BY <1>0, <1>3, <1>4, <2>1, <2>2 DEF MLQ!Arrive, NewLevel, lv, entered
<1>5. CASE Dispatch(q3, st3, ForkedSems(t))
  <2>1. ~InQueue(q2, running)
    BY <1>1, <1>2 DEF Members
  <2>2. /\ q3 \in Seq(Threads) /\ Injective(q3) /\ Sorted(q3, prio')
    BY <1>1, <1>2, <2>1, EnqueueMembers, EnqueueSorted
  <2>3. Levels(Members(q2) \cup {running}, lv, prio')
    BY <1>1, <1>2 DEF Levels
  <2>4. /\ Members(q3) = Members(q2) \cup {running}
        /\ Order(q3, prio') = entered \cup MLQ!Behind(Members(q2), lv, running)
    <3>1. /\ q2 \in Seq(Threads) /\ prio' \in [Threads -> Nat]
          /\ Injective(q2) /\ Sorted(q2, prio') /\ running \in Threads
          /\ Order(q2, prio') = entered
      BY <1>1, <1>2
    <3>2. Joins(running, q2, prio', lv)
      BY <2>1, <2>3, <3>1 DEF Joins
    <3> QED BY <3>1, <3>2, EnqueueBehind
  <2>5. st3 \in [Threads -> States] /\ Waiting(st3) = PassedOver
    <3>1. st3 \in [Threads -> States] /\ st3[running] = "READY"
          /\ \A u \in Threads \ {running} : st3[u] = st2[u]
      BY <1>1, <1>2 DEF States
    <3> HIDE DEF st3
    <3> QED BY <1>1, <1>2, <3>1 DEF Waiting
  <2>6. Levels(Members(q3), lv, prio')
    BY <2>3, <2>4
  <2> HIDE DEF q3, st3
  <2>7. /\ Members(pq') = Members(q3) \ {running'}
        /\ Order(pq', prio') = MLQ!Without(Order(q3, prio'), running')
        /\ Waiting(state') = Waiting(st3)
        /\ \/ /\ Members(q3) \subseteq Waiting(st3) /\ running' = NULL
              /\ pq' = q3
           \/ /\ running' \in Members(q3) \ Waiting(st3)
              /\ MLQ!First(Members(q3) \ Waiting(st3), lv, Order(q3, prio'), running')
    BY <1>1, <1>5, <2>2, <2>5, <2>6, DispatchTakesFirst
  <2>8. LineOrder' = Order(pq', prio') /\ PassedOver' = PassedOver
    BY <2>5, <2>7, LinesOfNext
  <2>9. LineLevel' = lv
    <3>1. Members(pq') \cup ({running'} \ {NULL}) = MLQ!Present \cup {t}
      <4>1. NULL \notin Members(q3)
        BY NullAssumption DEF Members
      <4> QED BY <1>1, <1>2, <2>4, <2>7, <4>1
    <3> QED BY <1>1, <3>1, ForkLevels DEF lv
  <2>10. MLQ!Pick(MLQ!Present \cup {t}, lv,
                  entered \cup MLQ!Behind(MLQ!InLine \cup {t}, lv, running), PassedOver)
    <3>1. MLQ!Present \cup {t} = Members(q3) /\ MLQ!InLine \cup {t} = Members(q2)
      BY <1>1, <1>2, <2>4
    <3>2. MLQ!Pick(Members(q3), lv, Order(q3, prio'), PassedOver)
      BY <2>5, <2>7, <2>8 DEF MLQ!Pick
    <3> QED BY <2>4, <3>1, <3>2
  <2> QED BY <1>0, <1>3, <2>8, <2>9, <2>10 DEF MLQ!Arrive, NewLevel, lv, entered
<1> QED BY <1>0, <1>4, <1>5

-----------------------------------------------------------------------------
(* The refinement                                                           *)

NobodyLives == \A t \in Threads : ~Live(t)

(* Without threads there are no lines.                                      *)
LEMMA NoLines == LinesInv /\ NobodyLives => MLQ!Init
<1> SUFFICES ASSUME LinesInv, NobodyLives PROVE MLQ!Init
  OBVIOUS
<1>1. Members(pq) = {} /\ running = NULL
  <2>1. \A t \in Threads : ~InQueue(pq, t) /\ running # t
    BY DEF LinesInv, SchedulerInv, SchedulerConsistent, Consistent, Live, NobodyLives
  <2> QED BY <2>1, LinesOfState DEF Members
<1>2. {u \in Threads : InQueue(pq, u) \/ running = u} = {}
  BY <1>1, NullAssumption DEF Members
<1>3. LineLevel = [t \in {} |-> 0]
  BY <1>2 DEF LineLevel
<1>4. PassedOver = {}
  BY <1>1, LinesOfState
<1>5. LineOrder = {}
  <2>1. \A u, v : Ahead(pq, u, v) => InQueue(pq, u)
    BY LinesOfState, AheadIsAnOrder
  <2>2. \A u \in Threads : ~InQueue(pq, u)
    BY <1>1 DEF Members
  <2> QED BY <2>1, <2>2 DEF LineOrder
<1> QED BY <1>1, <1>3, <1>4, <1>5 DEF MLQ!Init

LEMMA InitIsEmpty == Init => MLQ!Init
<1> SUFFICES ASSUME Init PROVE MLQ!Init
  OBVIOUS
<1>1. LinesInv
  BY InitConsistent DEF LinesInv, Init, NoneWaits
<1>2. NobodyLives
  BY DEF Init, Live, NobodyLives
<1> QED BY <1>1, <1>2, NoLines

(* Every step is one of the lines or changes none of them.                  *)
LEMMA StepRefines ==
    LinesInv /\ LinesInv' /\ [Next]_vars =>
      MLQ!Next \/ UNCHANGED << LineLevel, LineOrder, PassedOver, running >>
<1> SUFFICES ASSUME LinesInv, LinesInv', [Next]_vars
             PROVE  \/ MLQ!Next
                    \/ UNCHANGED << LineLevel, LineOrder, PassedOver, running >>
  OBVIOUS
<1>1. ASSUME UNCHANGED << pq, running, prio, state >>
      PROVE  UNCHANGED << LineLevel, LineOrder, PassedOver, running >>
  BY <1>1 DEF LineLevel, LineOrder, PassedOver
<1>2. ASSUME NobodyLives, NobodyLives'
      PROVE  UNCHANGED << LineLevel, LineOrder, PassedOver, running >>
  <2>1. MLQ!Init
    BY <1>2, NoLines
  <2>2. LinesInv' /\ NobodyLives' => MLQ!Init'
    BY NoLines, PTL
  <2> QED BY <1>2, <2>1, <2>2 DEF MLQ!Init
<1>3. ASSUME NEW tq \in 0 .. MaxQuantum, NEW n \in 0 .. SO_MAX_NUM_EVENTS + 1, SoInit(tq, n)
      PROVE  UNCHANGED << LineLevel, LineOrder, PassedOver, running >>
  <2>1. quantum = 0 /\ at' = at
    BY <1>3 DEF SoInit
  <2>2. \A t \in Threads : at[t] = "none"
    BY <2>1 DEF LinesInv, SchedulerInv, MainInv
  <2> QED BY <1>2, <2>1, <2>2 DEF Live, NobodyLives
<1>4. ASSUME FreeAll
      PROVE  UNCHANGED << LineLevel, LineOrder, PassedOver, running >>
  <2>1. NobodyLives
    BY <1>4, NobodyLeft DEF LinesInv, FreeAll, NobodyLives
  <2>2. NobodyLives'
    BY <1>4 DEF FreeAll, Live, NobodyLives
  <2> QED BY <1>2, <2>1, <2>2
<1>5. ASSUME NEW t \in Threads, NEW p \in Priorities,
             SoForkByMain(t, p) \/ SoForkByThread(t, p)
      PROVE  MLQ!Next
  <2>1. MLQ!Arrive(t, p)
    BY <1>5, SoForkByMainArrives, SoForkByThreadArrives
  <2>2. t \notin MLQ!Present
    BY <1>5, ForkJoins DEF SoForkByMain, SoForkByThread, MainCalls, ThreadCalls
  <2> QED BY <2>1, <2>2 DEF MLQ!Next
<1>6. ASSUME NEW i \in DeviceArgs, SoWait(i) \/ SoSignal(i)
      PROVE  MLQ!Next
  BY <1>6, SoWaitBlocks, SoSignalWakes DEF MLQ!Next
<1>7. CASE SoExec
  BY <1>7, SoExecRotates DEF MLQ!Next
<1>8. CASE ThreadReturn
  BY <1>8, ThreadReturnLeaves DEF MLQ!Next
<1>9. CASE \/ \E tq \in 0 .. MaxQuantum, n \in 0 .. SO_MAX_NUM_EVENTS + 1 :
                SoInitRefused(tq, n)
           \/ SoEnd \/ Join \/ SoExecIdle \/ UNCHANGED vars
           \/ \E p \in PriorityArgs : SoForkRefused(p)
           \/ \E i \in DeviceArgs : SoWaitRefused(i) \/ SoSignalRefused(i)
           \/ \E t \in Threads : SemWait(t)
  <2>1. UNCHANGED << pq, running, prio, state >>
    BY <1>9 DEF SoInitRefused, SoEnd, Join, SoExecIdle, vars, SoForkRefused,
                SoWaitRefused, SoSignalRefused, SemWait
  <2> QED BY <1>1, <2>1
<1> QED BY <1>3, <1>4, <1>5, <1>6, <1>7, <1>8, <1>9 DEF Next, MainNext, ThreadNext

(* The scheduler keeps its promise: whatever a client calls that keeps to   *)
(* the convention, the sorted array of priority_queue.c, the nested         *)
(* check_preempt() and so_exec() calls, the semaphores and the quanta of    *)
(* so_scheduler.c behave as round robin over one FIFO line per priority.    *)
THEOREM SchedulerImplementsLines == Spec => ImplementsMultilevelQueue
<1>1. LinesInv /\ LinesInv' /\ [Next]_vars => [MLQ!Next]_(MLQ!vars)
  BY StepRefines DEF MLQ!vars
<1> QED BY InitIsEmpty, <1>1, LinesInvariant, PTL DEF Spec, MLQ!Spec, ImplementsMultilevelQueue

(* The lines are lines: in the queue of priority_queue.c the threads of one *)
(* priority are one behind the other, and no waiting thread runs.           *)
THEOREM LinesAreOrdered == Spec => []MLQ!TypeOK
<1>1. LinesInv => MLQ!TypeOK
  <2> SUFFICES ASSUME LinesInv PROVE MLQ!TypeOK
    OBVIOUS
  <2>1. /\ pq \in Seq(Threads) /\ Injective(pq)
        /\ prio \in [Threads -> Priorities]
        /\ running \in Threads \cup {NULL} /\ running \notin Members(pq)
        /\ MLQ!Present = Members(pq) \cup ({running} \ {NULL})
        /\ MLQ!InLine = Members(pq)
        /\ LineOrder = Order(pq, prio) /\ PassedOver = Waiting(state)
        /\ \A t \in Members(pq) \cup ({running} \ {NULL}) : LineLevel[t] = prio[t]
        /\ PassedOver \subseteq Members(pq) /\ Members(pq) \subseteq Threads
    BY LinesOfState DEF Members
  <2>2. /\ \A u, v : Ahead(pq, u, v) =>
             InQueue(pq, u) /\ InQueue(pq, v) /\ u # v /\ ~Ahead(pq, v, u)
        /\ \A u, v : InQueue(pq, u) /\ InQueue(pq, v) /\ u # v =>
             Ahead(pq, u, v) \/ Ahead(pq, v, u)
        /\ \A u, v, w : Ahead(pq, u, v) /\ Ahead(pq, v, w) => Ahead(pq, u, w)
    BY <2>1, AheadIsAnOrder
  <2>3. LineLevel \in [MLQ!Present -> Priorities]
    <3>1. LineLevel = [t \in MLQ!Present |-> prio[t]]
      BY <2>1, NullAssumption DEF LineLevel, Members
    <3>2. MLQ!Present \subseteq Threads
      BY <2>1
    <3> QED BY <2>1, <3>1, <3>2
  <2>4. \A t, u \in Members(pq) :
          << t, u >> \in LineOrder <=> Ahead(pq, t, u) /\ prio[t] = prio[u]
    BY <2>1 DEF Order
  <2>5. \A e \in LineOrder : \E t, u \in Members(pq) : e = << t, u >>
    BY <2>1, <2>2 DEF Order, Members
  <2>6. \A t \in Members(pq) : InQueue(pq, t) /\ LineLevel[t] = prio[t]
    BY <2>1 DEF Members
  <2>7. \A t, u \in Members(pq) :
          /\ << t, u >> \in LineOrder =>
               << u, t >> \notin LineOrder /\ LineLevel[t] = LineLevel[u]
          /\ LineLevel[t] = LineLevel[u] /\ t # u =>
               << t, u >> \in LineOrder \/ << u, t >> \in LineOrder
    BY <2>2, <2>4, <2>6
  <2>8. \A t, u, v \in Members(pq) :
          << t, u >> \in LineOrder /\ << u, v >> \in LineOrder => << t, v >> \in LineOrder
    BY <2>2, <2>4
  <2> QED BY <2>1, <2>3, <2>5, <2>7, <2>8 DEF MLQ!TypeOK
<1> QED BY <1>1, LinesInvariant, PTL

-----------------------------------------------------------------------------
(* What a step of the lines means for the queue                             *)

(* LinesOfState, for the state after a step too.                            *)
LinesFacts ==
    /\ running \notin Members(pq) /\ NULL \notin Members(pq)
    /\ MLQ!Present = Members(pq) \cup ({running} \ {NULL})
    /\ MLQ!InLine = Members(pq)
    /\ \A t \in MLQ!Present : LineLevel[t] = prio[t]

LEMMA StateFacts == LinesInv => LinesFacts
BY LinesOfState DEF LinesFacts

LEMMA NextFacts ==
    ASSUME LinesInv' PROVE LinesFacts'
<1>1. LinesInv' => LinesFacts'
  BY StateFacts, PTL
<1> QED BY <1>1

(* The three parts of round robin as relations between two states.          *)
OrderKept ==
    \A t, u \in Threads :
        Ahead(pq, t, u) /\ prio[t] = prio[u] /\ InQueue(pq', t) /\ InQueue(pq', u)
          => Ahead(pq', t, u)

NewcomersLast ==
    \A t, u \in Threads :
        /\ ~InQueue(pq, t) /\ InQueue(pq', t)
        /\ InQueue(pq, u) /\ InQueue(pq', u) /\ prio'[t] = prio'[u]
        => Ahead(pq', u, t)

FirstRuns ==
    \A t, u \in Threads :
        InQueue(pq, t) /\ running' = t /\ Ahead(pq, u, t) => state'[u] = "WAITING"

(* The thread that Pick takes is the first of the queue that may run, and   *)
(* the others keep their order.                                             *)
LEMMA PickKeepsOrder ==
    ASSUME LinesInv, LinesInv', NEW S, NEW lv, NEW ah, NEW w,
           MLQ!Pick(S, lv, ah, w), Members(pq) \subseteq S, LineOrder \subseteq ah,
           \A t \in Members(pq) : lv[t] = prio[t], PassedOver' = w
    PROVE  /\ \A t, u \in Members(pq') : << t, u >> \in ah => << t, u >> \in LineOrder'
           /\ FirstRuns
<1>0. /\ \A u \in Threads : u \in PassedOver' <=> state'[u] = "WAITING"
      /\ \A t, u \in Threads : << t, u >> \in LineOrder <=> Ahead(pq, t, u) /\ prio[t] = prio[u]
      /\ \A t \in Threads : t \in Members(pq) <=> InQueue(pq, t)
  BY DEF PassedOver, LineOrder, Members
<1>1. CASE S \subseteq w /\ running' = NULL /\ LineOrder' = ah
  BY <1>1, NullAssumption DEF FirstRuns
<1>2. ASSUME NEW n \in S \ w, MLQ!First(S \ w, lv, ah, n), running' = n,
             LineOrder' = MLQ!Without(ah, n)
      PROVE  /\ \A t, u \in Members(pq') : << t, u >> \in ah => << t, u >> \in LineOrder'
             /\ FirstRuns
  <2>1. n \notin Members(pq')
    BY <1>2, NextFacts DEF LinesFacts
  <2>2. \A t, u \in Members(pq') : << t, u >> \in ah => << t, u >> \in LineOrder'
    BY <1>2, <2>1 DEF MLQ!Without
  <2>3. ASSUME NEW u \in Threads, n \in Threads, InQueue(pq, n), Ahead(pq, u, n), u \notin w
        PROVE  FALSE
    <3>1. /\ pq \in Seq(Threads) /\ Injective(pq) /\ Sorted(pq, prio)
          /\ prio \in [Threads -> Nat]
      BY LinesOfState
    <3>2. InQueue(pq, u) /\ prio[u] >= prio[n]
      <4>1. PICK i, j \in DOMAIN pq : i < j /\ pq[i] = u /\ pq[j] = n
        BY <2>3 DEF Ahead
      <4> QED BY <3>1, <4>1 DEF Sorted, InQueue
    <3>3. u \in S \ w /\ lv[u] = prio[u] /\ lv[n] = prio[n]
      BY <1>0, <2>3, <3>2
    <3>4. lv[u] < lv[n] \/ (lv[u] = lv[n] /\ << u, n >> \notin ah)
      BY <1>2, <3>3 DEF MLQ!First
    <3>5. prio[u] = prio[n] /\ << u, n >> \notin LineOrder
      <4>1. prio[u] \in Nat /\ prio[n] \in Nat
        BY <2>3, <3>1
      <4> QED BY <3>2, <3>3, <3>4, <4>1
    <3> QED BY <1>0, <2>3, <3>5
  <2> QED BY <1>0, <1>2, <2>2, <2>3 DEF FirstRuns
<1> QED BY <1>1, <1>2 DEF MLQ!Pick

LEMMA LinesKeepOrder ==
    ASSUME LinesInv, LinesInv', MLQ!Next
    PROVE  OrderKept /\ NewcomersLast /\ FirstRuns
<1>0. /\ running \in Threads \cup {NULL} /\ running \notin Members(pq)
      /\ MLQ!Present = Members(pq) \cup ({running} \ {NULL})
      /\ MLQ!InLine = Members(pq)
      /\ \A t \in MLQ!Present : LineLevel[t] = prio[t]
  BY LinesOfState
<1>1. /\ running' \notin Members(pq') /\ NULL \notin Members(pq')
      /\ MLQ!Present' = Members(pq') \cup ({running'} \ {NULL})
      /\ \A t \in MLQ!Present' : LineLevel'[t] = prio'[t]
  BY NextFacts DEF LinesFacts
<1>2. MLQ!Present = DOMAIN LineLevel /\ MLQ!Present' = DOMAIN LineLevel'
  BY DEF MLQ!Present
<1>3. /\ \A t, u \in Threads : << t, u >> \in LineOrder <=> Ahead(pq, t, u) /\ prio[t] = prio[u]
      /\ \A t, u \in Threads : << t, u >> \in LineOrder' => Ahead(pq', t, u)
      /\ \A t \in Threads : t \in Members(pq) <=> InQueue(pq, t)
      /\ \A t \in Threads : t \in Members(pq') <=> InQueue(pq', t)
      /\ Members(pq) \subseteq Threads /\ Members(pq') \subseteq Threads
  BY DEF LineOrder, Members
(* it is enough to speak of the lines                                       *)
<1>4. ASSUME \A t, u \in Members(pq') : << t, u >> \in LineOrder => << t, u >> \in LineOrder'
      PROVE  OrderKept
  BY <1>3, <1>4 DEF OrderKept
<1>5. ASSUME \A t \in Members(pq') \ Members(pq), u \in Members(pq) \cap Members(pq') :
               LineLevel'[t] = LineLevel'[u] => << u, t >> \in LineOrder'
      PROVE  NewcomersLast
  <2>1. \A t \in Members(pq') : LineLevel'[t] = prio'[t]
    BY <1>1
  <2> QED BY <1>3, <1>5, <2>1 DEF NewcomersLast
<1>6. ASSUME NEW w, MLQ!Yield(w), PassedOver' = w
      PROVE  OrderKept /\ NewcomersLast /\ FirstRuns
  <2> DEFINE ah == LineOrder \cup MLQ!Behind(MLQ!InLine, LineLevel, running)
  <2>1. running # NULL /\ MLQ!Pick(MLQ!Present, LineLevel, ah, w) /\ LineLevel' = LineLevel
    BY <1>6 DEF MLQ!Yield
  <2>2. /\ \A t, u \in Members(pq') : << t, u >> \in ah => << t, u >> \in LineOrder'
        /\ FirstRuns
    <3>1. Members(pq) \subseteq MLQ!Present /\ LineOrder \subseteq ah
      BY <1>0
    <3> HIDE DEF ah
    <3> QED BY <1>0, <1>6, <2>1, <3>1, PickKeepsOrder
  <2>3. ASSUME NEW t \in Members(pq') \ Members(pq), NEW u \in Members(pq) \cap Members(pq'),
               LineLevel'[t] = LineLevel'[u]
        PROVE  << u, t >> \in LineOrder'
    <3>1. t = running
      BY <1>0, <1>1, <1>2, <2>1, <2>3
    <3>2. << u, t >> \in ah
      BY <1>0, <2>1, <2>3, <3>1 DEF MLQ!Behind
    <3> HIDE DEF ah
    <3> QED BY <2>2, <2>3, <3>2
  <2> QED BY <1>4, <1>5, <2>2, <2>3
<1>7. CASE MLQ!Leave
  <2>1. /\ MLQ!Pick(MLQ!InLine, LineLevel, LineOrder, PassedOver)
        /\ LineLevel' = [t \in MLQ!InLine |-> LineLevel[t]] /\ PassedOver' = PassedOver
    BY <1>7 DEF MLQ!Leave
  <2>2. /\ \A t, u \in Members(pq') : << t, u >> \in LineOrder => << t, u >> \in LineOrder'
        /\ FirstRuns
    BY <1>0, <2>1, PickKeepsOrder
  <2>3. Members(pq') \subseteq Members(pq)
    BY <1>0, <1>1, <1>2, <2>1
  <2> QED BY <1>4, <1>5, <2>2, <2>3
<1>8. ASSUME NEW t0 \in Threads \ MLQ!Present, NEW p \in Priorities, MLQ!Arrive(t0, p)
      PROVE  OrderKept /\ NewcomersLast /\ FirstRuns
  <2> DEFINE entered == LineOrder \cup MLQ!Behind(MLQ!InLine, LineLevel', t0)
             rejoined == entered \cup MLQ!Behind(MLQ!InLine \cup {t0}, LineLevel', running)
             behind == LineOrder \cup MLQ!Behind(MLQ!InLine, LineLevel, running)
  <2>1. /\ LineLevel' = [u \in MLQ!Present \cup {t0} |-> IF u = t0 THEN p ELSE LineLevel[u]]
        /\ PassedOver' = PassedOver
        /\ \/ running = NULL /\ running' = t0 /\ LineOrder' = LineOrder
           \/ running # NULL /\ running' = t0 /\ LineOrder' = behind
           \/ running # NULL /\ running' = running /\ LineOrder' = entered
           \/ running # NULL /\ MLQ!Pick(MLQ!Present \cup {t0}, LineLevel', rejoined, PassedOver)
    BY <1>8 DEF MLQ!Arrive
  <2>2. /\ Members(pq') \cup ({running'} \ {NULL}) = MLQ!Present \cup {t0}
        /\ \A u \in MLQ!Present : LineLevel'[u] = LineLevel[u]
        /\ t0 \notin Members(pq) /\ running # t0
    BY <1>0, <1>1, <1>2, <2>1, NullAssumption
  <2>3. ASSUME running' = t0 \/ running' = running
        PROVE  FirstRuns
    BY <1>0, <1>3, <2>2, <2>3 DEF FirstRuns
  <2>4. CASE running = NULL /\ running' = t0 /\ LineOrder' = LineOrder
    <3>1. Members(pq') \subseteq Members(pq)
      BY <1>0, <1>1, <2>2, <2>4
    <3> QED BY <1>4, <1>5, <2>3, <2>4, <3>1
  <2>5. CASE running # NULL /\ running' = t0 /\ LineOrder' = behind
    <3>1. ASSUME NEW t \in Members(pq') \ Members(pq),
                 NEW u \in Members(pq) \cap Members(pq'), LineLevel'[t] = LineLevel'[u]
          PROVE  << u, t >> \in LineOrder'
      <4>1. t = running /\ u \in MLQ!Present /\ t \in MLQ!Present
        BY <1>0, <1>1, <2>2, <2>5, <3>1
      <4> QED BY <1>0, <2>2, <2>5, <3>1, <4>1 DEF MLQ!Behind
    <3> QED BY <1>4, <1>5, <2>3, <2>5, <3>1
  <2>6. CASE running # NULL /\ running' = running /\ LineOrder' = entered
    <3>1. ASSUME NEW t \in Members(pq') \ Members(pq),
                 NEW u \in Members(pq) \cap Members(pq'), LineLevel'[t] = LineLevel'[u]
          PROVE  << u, t >> \in LineOrder'
      <4>1. t = t0
        BY <1>0, <1>1, <2>2, <2>6, <3>1
      <4> QED BY <1>0, <2>6, <3>1, <4>1 DEF MLQ!Behind
    <3> QED BY <1>4, <1>5, <2>3, <2>6, <3>1
  <2>7. CASE /\ running # NULL
             /\ MLQ!Pick(MLQ!Present \cup {t0}, LineLevel', rejoined, PassedOver)
    <3>1. /\ Members(pq) \subseteq MLQ!Present \cup {t0} /\ LineOrder \subseteq rejoined
          /\ \A t \in Members(pq) : LineLevel'[t] = prio[t]
      BY <1>0, <2>2
    <3>2. /\ \A t, u \in Members(pq') : << t, u >> \in rejoined => << t, u >> \in LineOrder'
          /\ FirstRuns
      <4>1. LinesInv /\ LinesInv' /\ PassedOver' = PassedOver
        BY <2>1
      <4> HIDE DEF rejoined
      <4> QED BY <2>7, <3>1, <4>1, PickKeepsOrder
    <3>3. ASSUME NEW t \in Members(pq') \ Members(pq),
                 NEW u \in Members(pq) \cap Members(pq'), LineLevel'[t] = LineLevel'[u]
          PROVE  << u, t >> \in rejoined
      <4>1. t = t0 \/ t = running
        BY <1>0, <1>1, <2>2, <3>3
      <4> QED BY <1>0, <3>3, <4>1 DEF MLQ!Behind
    <3>4. LineOrder \subseteq rejoined
      OBVIOUS
    <3> HIDE DEF rejoined
    <3> QED BY <1>4, <1>5, <3>2, <3>3, <3>4
  <2> QED BY <2>1, <2>4, <2>5, <2>6, <2>7
<1>9. CASE MLQ!Rotate
  BY <1>6, <1>9 DEF MLQ!Rotate
<1>10. CASE MLQ!Block
  BY <1>6, <1>10 DEF MLQ!Block
<1>11. ASSUME NEW woken \in SUBSET PassedOver, MLQ!Wake(woken)
       PROVE  OrderKept /\ NewcomersLast /\ FirstRuns
  BY <1>6, <1>11 DEF MLQ!Wake
<1> QED BY <1>7, <1>8, <1>9, <1>10, <1>11 DEF MLQ!Next

(* Round robin: the queue of priority_queue.c keeps the order of the        *)
(* threads of one priority, a thread that yields or is created goes behind  *)
(* them, and no thread is dispatched before one that could run and was      *)
(* ahead of it, although each call moves threads by hand.                   *)
THEOREM RoundRobinKept == Spec => RoundRobinOrder
<1> DEFINE A == /\ \A t, u \in Threads :
                     /\ Ahead(pq, t, u) /\ prio[t] = prio[u]
                     /\ InQueue(pq', t) /\ InQueue(pq', u)
                     => Ahead(pq', t, u)
                /\ \A t, u \in Threads :
                     /\ ~InQueue(pq, t) /\ InQueue(pq', t)
                     /\ InQueue(pq, u) /\ InQueue(pq', u) /\ prio'[t] = prio'[u]
                     => Ahead(pq', u, t)
                /\ \A t, u \in Threads :
                     InQueue(pq, t) /\ running' = t /\ Ahead(pq, u, t)
                     => state'[u] = "WAITING"
<1>1. LinesInv /\ LinesInv' /\ [Next]_vars => [A]_vars
  <2> SUFFICES ASSUME LinesInv, LinesInv', [Next]_vars
               PROVE  OrderKept /\ NewcomersLast /\ FirstRuns
    BY DEF OrderKept, NewcomersLast, FirstRuns
  <2>1. CASE MLQ!Next
    BY <2>1, LinesKeepOrder
  <2>2. CASE UNCHANGED << LineLevel, LineOrder, PassedOver, running >>
    <3>1. Members(pq') = Members(pq) /\ running \notin Members(pq)
      <4>1. MLQ!Present' = MLQ!Present
        BY <2>2 DEF MLQ!Present
      <4>2. /\ MLQ!Present = Members(pq) \cup ({running} \ {NULL})
            /\ running \notin Members(pq)
        BY LinesOfState
      <4>3. /\ MLQ!Present' = Members(pq') \cup ({running'} \ {NULL})
            /\ running' \notin Members(pq')
        BY NextFacts DEF LinesFacts
      <4> QED BY <2>2, <4>1, <4>2, <4>3
    <3>2. \A t \in Threads : InQueue(pq', t) <=> InQueue(pq, t)
      BY <3>1 DEF Members
    <3>3. OrderKept
      <4>1. \A t, u \in Threads : Ahead(pq, t, u) /\ prio[t] = prio[u] => << t, u >> \in LineOrder
        BY DEF LineOrder
      <4>2. \A t, u \in Threads : << t, u >> \in LineOrder' => Ahead(pq', t, u)
        BY DEF LineOrder
      <4> QED BY <2>2, <4>1, <4>2 DEF OrderKept
    <3>4. NewcomersLast
      BY <3>2 DEF NewcomersLast
    <3>5. FirstRuns
      BY <2>2, <3>1 DEF FirstRuns, Members
    <3> QED BY <3>3, <3>4, <3>5
  <2> QED BY <2>1, <2>2, StepRefines
<1> QED BY <1>1, LinesInvariant, PTL DEF Spec, RoundRobinOrder

(* No call but so_signal() ends a wait.                                     *)
LEMMA OnlySignalWakes ==
    ASSUME LinesInv, [Next]_vars, ~ \E i \in DeviceArgs : SoSignal(i)
    PROVE  PassedOver \subseteq PassedOver'
<1>1. CASE FreeAll
  <2>1. NobodyLives
    BY <1>1, NobodyLeft DEF LinesInv, FreeAll, NobodyLives
  <2> QED BY <2>1, NoLines DEF MLQ!Init
<1>2. CASE \E t \in Threads, p \in Priorities :
             SoForkByMain(t, p) \/ SoForkByThread(t, p)
  BY <1>2, SoForkByMainArrives, SoForkByThreadArrives DEF MLQ!Arrive
<1>3. CASE \E i \in DeviceArgs : SoWait(i)
  BY <1>3, SoWaitBlocks DEF MLQ!Block
<1>4. CASE SoExec
  BY <1>4, SoExecRotates DEF MLQ!Rotate
<1>5. CASE ThreadReturn
  BY <1>5, ThreadReturnLeaves DEF MLQ!Leave
<1>6. CASE \/ \E tq \in 0 .. MaxQuantum, n \in 0 .. SO_MAX_NUM_EVENTS + 1 :
                SoInit(tq, n) \/ SoInitRefused(tq, n)
           \/ SoEnd \/ Join \/ SoExecIdle \/ UNCHANGED vars
           \/ \E p \in PriorityArgs : SoForkRefused(p)
           \/ \E i \in DeviceArgs : SoWaitRefused(i) \/ SoSignalRefused(i)
           \/ \E t \in Threads : SemWait(t)
  <2>1. state' = state
    BY <1>6 DEF SoInit, SoInitRefused, SoEnd, Join, SoExecIdle, vars, SoForkRefused,
                SoWaitRefused, SoSignalRefused, SemWait
  <2> QED BY <2>1 DEF PassedOver
<1> QED BY <1>1, <1>2, <1>3, <1>4, <1>5, <1>6 DEF Next, MainNext, ThreadNext

(* so_signal(i) ends the wait of all the threads that wait for device i, of *)
(* no other thread, and returns their number; no other call ends a wait.    *)
THEOREM SignalWakesItsWaiters == Spec => WakesExactlyTheWaiters
<1> DEFINE woken == {t \in Threads : state[t] = "WAITING" /\ state'[t] # "WAITING"}
           A == woken # {} =>
                  \E i \in Devices :
                    /\ woken = {t \in Threads : state[t] = "WAITING" /\ event[t] = i}
                    /\ ret' = Answer("so_signal", i, Cardinality(woken))
<1>1. LinesInv /\ [Next]_vars => [A]_vars
  <2> SUFFICES ASSUME LinesInv, [Next]_vars, woken # {} PROVE A
    OBVIOUS
  <2>1. PICK i \in DeviceArgs : SoSignal(i)
    <3>1. ~(PassedOver \subseteq PassedOver')
      BY DEF PassedOver
    <3> QED BY <3>1, OnlySignalWakes
  <2> DEFINE st == [t \in Threads |->
                      IF t \in Waiters(i) \/ t = running THEN "READY" ELSE state[t]]
  <2>2. /\ ThreadCalls /\ prio' = prio /\ i < io
        /\ Dispatch(Enqueue(pq, prio, running), st, sem)
        /\ ret' = Answer("so_signal", i, Cardinality(Waiters(i)))
    BY <2>1 DEF SoSignal
  <2>3. /\ running \in Threads /\ state \in [Threads -> States]
        /\ state[running] = "RUNNING" /\ io \in 0 .. SO_MAX_NUM_EVENTS
    BY <2>2, CallerFacts DEF LinesInv, SchedulerInv, TypeOK
  <2>4. i \in Devices /\ i # NoEvent
    BY <2>2, <2>3, LimitsAssumption DEF DeviceArgs, Devices, NoEvent
  <2>5. Waiters(i) = {t \in Threads : state[t] = "WAITING" /\ event[t] = i}
    <3>1. \A t \in Threads : event[t] = i => state[t] = "WAITING"
      BY <2>4 DEF LinesInv, SchedulerInv, SchedulerConsistent, Consistent
    <3>2. \A t \in Threads : state[t] = "WAITING" => InQueue(pq, t)
      BY LinesOfState DEF PassedOver, Members
    <3> QED BY <3>1, <3>2 DEF Waiters
  <2>6. st \in [Threads -> States]
    BY <2>3 DEF States
  <2>7. \A t \in Threads : st[t] = "WAITING" <=> state[t] = "WAITING" /\ t \notin Waiters(i)
    BY <2>3
  <2> HIDE DEF st
  <2>8. PassedOver' = Waiting(st)
    BY <2>2, <2>6, YieldStep
  <2>9. \A t \in Threads : state'[t] = "WAITING" <=> st[t] = "WAITING"
    BY <2>8 DEF PassedOver, Waiting
  <2>10. woken = Waiters(i)
    BY <2>5, <2>7, <2>9
  <2> QED BY <2>2, <2>4, <2>5, <2>10
<1> QED BY <1>1, LinesInvariant, PTL DEF Spec, WakesExactlyTheWaiters

=============================================================================
