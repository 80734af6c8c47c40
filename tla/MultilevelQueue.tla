-------------------------- MODULE MultilevelQueue --------------------------
(***************************************************************************)
(* What the scheduler promises: round robin over one FIFO line per         *)
(* priority, the highest first.  There is no array, no semaphore and no    *)
(* quantum here; a line is known by who is ahead of whom in it, and a      *)
(* thread that waits keeps its place and is passed over.  SoScheduler      *)
(* implements this specification.                                          *)
(***************************************************************************)
EXTENDS Integers

CONSTANTS Threads,   \* the threads there may ever be
          Levels,    \* the priorities, a set of naturals
          Nobody     \* not a thread

VARIABLES
    level,     \* the priority of each thread that is there
    ahead,     \* the pairs << t, u >> of threads in one line, t before u
    waiting,   \* the threads that wait for an event
    cpu        \* the thread that has the processor, or Nobody

vars == << level, ahead, waiting, cpu >>

Present == DOMAIN level
InLine  == Present \ {cpu}

(* Everyone who is there has the processor or a place in one line, and the *)
(* threads of a line are one behind the other.                             *)
TypeOK ==
    /\ Present \subseteq Threads /\ level \in [Present -> Levels]
    /\ cpu \in Present \cup {Nobody}
    /\ waiting \subseteq InLine
    /\ \A e \in ahead : \E t, u \in InLine : e = << t, u >>
    /\ \A t, u \in InLine :
         /\ << t, u >> \in ahead => << u, t >> \notin ahead /\ level[t] = level[u]
         /\ level[t] = level[u] /\ t # u =>
              << t, u >> \in ahead \/ << u, t >> \in ahead
    /\ \A t, u, v \in InLine :
         << t, u >> \in ahead /\ << u, v >> \in ahead => << t, v >> \in ahead

Init ==
    /\ level = [t \in {} |-> 0] /\ ahead = {}
    /\ waiting = {} /\ cpu = Nobody

-----------------------------------------------------------------------------

(* t goes to the end of its line in S.                                     *)
Behind(S, lv, t) == {<< u, t >> : u \in {v \in S : lv[v] = lv[t]}}

Without(ah, t) == {e \in ah : e[1] # t /\ e[2] # t}

(* Nobody in S goes before t.                                              *)
First(S, lv, ah, t) ==
    \A u \in S : lv[u] < lv[t] \/ (lv[u] = lv[t] /\ << u, t >> \notin ah)

(* Of the threads S in line, the first of the highest line that is not     *)
(* passed over, if any, leaves its line for the processor.                 *)
Pick(S, lv, ah, w) ==
    \/ S \subseteq w /\ cpu' = Nobody /\ ahead' = ah
    \/ \E t \in S \ w :
         /\ First(S \ w, lv, ah, t)
         /\ cpu' = t /\ ahead' = Without(ah, t)

(* The running thread's turn is over: it goes to the end of its line.      *)
Yield(w) ==
    /\ cpu # Nobody
    /\ Pick(Present, level, ahead \cup Behind(InLine, level, cpu), w)
    /\ UNCHANGED level

(* A thread t of priority p arrives, not above the running thread, which   *)
(* keeps the processor or, its turn being over, goes behind t.             *)
Arrive(t, p) ==
    /\ level' = [u \in Present \cup {t} |-> IF u = t THEN p ELSE level[u]]
    /\ UNCHANGED waiting
    /\ LET joined == ahead \cup Behind(InLine, level', t) IN
       \/ cpu = Nobody /\ cpu' = t /\ ahead' = ahead
       \/ /\ cpu # Nobody /\ p <= level[cpu]
          /\ \/ cpu' = cpu /\ ahead' = joined
             \/ Pick(Present \cup {t}, level',
                     joined \cup Behind(InLine \cup {t}, level', cpu), waiting)

Rotate == Yield(waiting) /\ UNCHANGED waiting

(* The running thread waits; another one takes over.                       *)
Block ==
    /\ waiting' = waiting \cup {cpu}
    /\ Yield(waiting')
    /\ cpu' # Nobody

(* The running thread ends the wait of the threads in woken and yields.    *)
Wake(woken) ==
    /\ waiting' = waiting \ woken
    /\ Yield(waiting')

Leave ==
    /\ cpu # Nobody
    /\ level' = [t \in InLine |-> level[t]]
    /\ Pick(InLine, level, ahead, waiting)
    /\ UNCHANGED waiting

Next ==
    \/ \E t \in Threads \ Present, p \in Levels : Arrive(t, p)
    \/ Rotate \/ Block \/ Leave
    \/ \E woken \in SUBSET waiting : Wake(woken)

Spec == Init /\ [][Next]_vars

=============================================================================
