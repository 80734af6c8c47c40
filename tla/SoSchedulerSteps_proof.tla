----------------------- MODULE SoSchedulerSteps_proof -----------------------
(***************************************************************************)
(* Proofs about SoSchedulerSteps, where every statement of the library is  *)
(* a step, for any number of threads, priorities and any quantum.          *)
(*                                                                         *)
(* They hold for clients that keep to Discipline: main() calls so_fork()   *)
(* only while no thread can run, and no handler forks a thread of higher   *)
(* priority.  The argument follows the one pthread that may act: nobody,   *)
(* the thread a token was posted for, a thread on the processor, or an     *)
(* actor that has given it up and is picking the next.  StepsInv says for each of these   *)
(* what its list of statements is and how the queue, running_thread and    *)
(* the semaphores stand at each statement.                                 *)
(***************************************************************************)
EXTENDS SoSchedulerSteps, QueueLemmas

Discipline == ~EagerForks /\ ~UpwardForks

-----------------------------------------------------------------------------
(* The inductive invariant                                                 *)

Alive   == {t \in ToSet(threads) : state[t] # "TERMINATED"}
Queued  == {t \in Threads : InQueue(pq, t)}
Chosen  == {t \in Threads : state[t] = "RUNNING"}
Holders == {t \in Threads : sem[t] # 0}       \* a token is there for them
Foremost == FrontThread(pq, state)

(* The lists of statements.                                                *)
Check        == Do("check", NULL)
Finish(t)    == Cons(Do("terminate", t), Cons(Check, << >>))
Handling(t)  == Cons(Do("handler", t), Finish(t))
Parked(t)    == Cons(Do("sem_wait", t), Handling(t))
Joining      == Cons(Do("join", NULL), << >>)
Forks        == Cons(Do("client", NULL), Joining)

(* What actor a is left with when its call is over.                        *)
Back(a) == IF a = Main THEN Forks
           ELSE IF a \in Alive THEN Parked(a) ELSE << >>

(* Actor b is in no call.                                                   *)
Rests(b) ==
    IF b = Main
    THEN todo[b] \in {Forks, Joining, << >>}
    ELSE todo[b] = Back(b)

AllRest       == \A b \in Actors : Rests(b)
OthersRest(a) == \A b \in Actors : b # a => Rests(b)

(* The queue and the fields of the threads in it.                           *)
QueueOK ==
    /\ Injective(pq) /\ Sorted(pq, prio)
    /\ \A t \in Queued : state[t] \in {"READY", "WAITING"}
    /\ \A t \in Threads : t \notin ToSet(threads) => state[t] = "NEW"

(* Only in the middle of so_exec() is a quantum used up.                    *)
QuantumLeft ==
    \A t \in Alive : left[t] = 0 => todo[t] = Cons(Do("expire", NULL), Handling(t))

(* Nobody who could run has a higher priority than r.                       *)
Dominates(r) == \A u \in Queued : state[u] # "WAITING" => prio[u] <= prio[r]

(* Nobody can go on but main().                                             *)
Nobody ==
    /\ running = NULL /\ Alive = Queued /\ Chosen = {} /\ Holders = {}
    /\ Foremost = NULL
    /\ AllRest

(* r has been posted and has not taken its token yet.                       *)
Posted(r) ==
    /\ running = r /\ r \notin Queued /\ Alive = Queued \cup {r}
    /\ Chosen = {r} /\ Holders = {r} /\ sem[r] = 1
    /\ Dominates(r)
    /\ AllRest

(* Nobody but a may take a step, main() aside.                              *)
Acting(a) == Holders = {} /\ OthersRest(a) /\ a \in ToSet(threads) \cup {Main}

OnProcessor(a) ==
    /\ Acting(a)
    /\ running = a /\ a \notin Queued /\ a \in Alive /\ Chosen = {a}

Serving(a, list) ==
    /\ OnProcessor(a) /\ Alive = Queued \cup {a} /\ Dominates(a)
    /\ todo[a] = list

(* so_signal() has made threads ready and not yet let them compete.         *)
Signalling(a) ==
    /\ OnProcessor(a) /\ Alive = Queued \cup {a}
    /\ todo[a] = Cons(Do("release", NULL), Handling(a))

(* so_fork() has made u and not yet queued it.                              *)
Forking(a, u) ==
    /\ OnProcessor(a) /\ u \in Alive /\ u # a /\ u \notin Queued
    /\ Alive = Queued \cup {a, u} /\ Dominates(a) /\ prio[u] <= prio[a]
    /\ todo[a] = Cons(Do("schedule", u), Cons(Check, Handling(a)))

InHandler == {"check", "exec", "expire", "mark"}

Processing(a) ==
    \/ Serving(a, Handling(a)) \/ Serving(a, Finish(a))
    \/ \E op \in InHandler : Serving(a, Cons(Do(op, NULL), Handling(a)))
    \/ Signalling(a)
    \/ \E u \in Threads : Forking(a, u)

(* Actor a has given up the processor, or is main() and finds it free.      *)
Queueing(a, u) ==
    /\ Acting(a) /\ running = NULL /\ u \in Alive /\ u \notin Queued
    /\ Alive = Queued \cup {u} /\ Chosen \subseteq {u}
    /\ todo[a] = Cons(Do("schedule", u), Cons(Check, Back(a)))

Picking(a) ==
    /\ Acting(a) /\ running = NULL /\ Alive = Queued /\ Chosen = {}
    /\ todo[a] = Cons(Check, Back(a))

Taking(a, n) ==
    /\ Acting(a) /\ running = NULL /\ Alive = Queued /\ Chosen = {} /\ n = Foremost
    /\ todo[a] = Cons(Do("run", n),
                      Cons(Do("dequeue", n), Cons(Do("post", n), Back(a))))

Removing(a, n) ==
    /\ Acting(a) /\ running = n /\ Alive = Queued /\ Chosen = {} /\ n = Foremost
    /\ todo[a] = Cons(Do("dequeue", n), Cons(Do("post", n), Back(a)))

Posting(a, n) ==
    /\ Acting(a) /\ running = n /\ n \notin Queued /\ Alive = Queued \cup {n} /\ Chosen = {n}
    /\ Dominates(n)
    /\ todo[a] = Cons(Do("post", n), Back(a))

Switching(a) ==
    \/ Picking(a)
    \/ \E n \in Threads : \/ Queueing(a, n) \/ Taking(a, n)
                          \/ Removing(a, n) \/ Posting(a, n)

OneActs ==
    \/ Nobody
    \/ \E r \in Threads : Posted(r)
    \/ \E a \in Threads : Processing(a)
    \/ \E a \in Actors : Switching(a)

StepsInv == TypeOK /\ ~crashed /\ QueueOK /\ QuantumLeft /\ OneActs

-----------------------------------------------------------------------------
(* Lists of statements                                                     *)

Stmts == [op : Statements, t : Threads \cup {NULL}]

(* A list with statement x in front.                                        *)
LEMMA ConsFacts ==
    ASSUME NEW x \in Stmts, NEW s \in Seq(Stmts)
    PROVE  /\ Cons(x, s) \in Seq(Stmts) /\ Cons(x, s) # << >>
           /\ Head(Cons(x, s)) = x /\ Tail(Cons(x, s)) = s
           /\ << >> \o s = s
           /\ << x >> \o s = Cons(x, s)
<1> DEFINE one == << x >>
           r == one \o s
<1>1. one \in Seq(Stmts) /\ Len(one) = 1 /\ one[1] = x
  OBVIOUS
<1> HIDE DEF one
<1>2. /\ Len(s) \in Nat /\ r \in Seq(Stmts) /\ Len(r) = 1 + Len(s)
      /\ \A i \in 1 .. 1 + Len(s) : r[i] = IF i <= 1 THEN one[i] ELSE s[i - 1]
  BY <1>1, ConcatProperties, LenProperties
<1> HIDE DEF r
<1>3. r # << >> /\ r[1] = x
  BY <1>1, <1>2, EmptySeq
<1>4. Head(r) = x
  BY <1>2, <1>3
<1>5. /\ Tail(r) \in Seq(Stmts) /\ Len(Tail(r)) = Len(s)
      /\ \A i \in 1 .. Len(Tail(r)) : Tail(r)[i] = r[i + 1]
  BY <1>2, <1>3, HeadTailProperties
<1>6. \A i \in 1 .. Len(s) : Tail(r)[i] = s[i]
  BY <1>2, <1>5
<1>7. Tail(r) = s
  BY <1>5, <1>6, SeqEqual
<1>8. Cons(x, s) = r
  BY DEF Cons, r, one
<1> QED BY <1>2, <1>3, <1>4, <1>7, <1>8, ConcatEmptySeq DEF r, one

(* Several statements before a list.                                        *)
LEMMA TwoOrThreeBefore ==
    ASSUME NEW x \in Stmts, NEW y \in Stmts, NEW z \in Stmts, NEW s \in Seq(Stmts)
    PROVE  /\ << x, y >> \o s = Cons(x, Cons(y, s))
           /\ << x, y, z >> \o s = Cons(x, Cons(y, Cons(z, s)))
<1>1. /\ << x >> \in Seq(Stmts) /\ << y >> \in Seq(Stmts) /\ << z >> \in Seq(Stmts)
      /\ << x, y >> \in Seq(Stmts)
      /\ << x, y >> = << x >> \o << y >>
      /\ << x, y, z >> = << x, y >> \o << z >>
  <2>1. /\ << x >> \in Seq(Stmts) /\ << y >> \in Seq(Stmts) /\ << z >> \in Seq(Stmts)
        /\ << x, y >> \in Seq(Stmts) /\ << x, y, z >> \in Seq(Stmts)
        /\ Len(<< x >>) = 1 /\ Len(<< y >>) = 1 /\ Len(<< z >>) = 1
        /\ Len(<< x, y >>) = 2 /\ Len(<< x, y, z >>) = 3
        /\ << x >>[1] = x /\ << y >>[1] = y /\ << z >>[1] = z
        /\ << x, y >>[1] = x /\ << x, y >>[2] = y
        /\ << x, y, z >>[1] = x /\ << x, y, z >>[2] = y /\ << x, y, z >>[3] = z
    OBVIOUS
  <2> DEFINE c1 == << x >>
             c2 == << y >>
             c3 == << z >>
             d  == << x, y >>
             e  == << x, y, z >>
  <2> HIDE DEF c1, c2, c3, d, e
  <2>2. /\ c1 \o c2 \in Seq(Stmts) /\ Len(c1 \o c2) = 2
        /\ \A i \in 1 .. 2 : (c1 \o c2)[i] = IF i <= 1 THEN c1[i] ELSE c2[i - 1]
        /\ d \o c3 \in Seq(Stmts) /\ Len(d \o c3) = 3
        /\ \A i \in 1 .. 3 : (d \o c3)[i] = IF i <= 2 THEN d[i] ELSE c3[i - 2]
    <3>1. Len(c1) + Len(c2) = 2 /\ Len(d) + Len(c3) = 3 /\ Len(c1) = 1 /\ Len(d) = 2
      BY <2>1 DEF c1, c2, c3, d
    <3>2. /\ c1 \in Seq(Stmts) /\ c2 \in Seq(Stmts) /\ c3 \in Seq(Stmts) /\ d \in Seq(Stmts)
      BY <2>1 DEF c1, c2, c3, d
    <3>3. /\ c1 \o c2 \in Seq(Stmts) /\ Len(c1 \o c2) = 2
          /\ \A i \in 1 .. 2 : (c1 \o c2)[i] = IF i <= 1 THEN c1[i] ELSE c2[i - 1]
      <4>1. /\ c1 \o c2 \in Seq(Stmts) /\ Len(c1 \o c2) = Len(c1) + Len(c2)
            /\ \A i \in 1 .. Len(c1) + Len(c2) :
                 (c1 \o c2)[i] = IF i <= Len(c1) THEN c1[i] ELSE c2[i - Len(c1)]
        BY <3>2, ConcatProperties
      <4> QED BY <3>1, <4>1
    <3>4. /\ d \o c3 \in Seq(Stmts) /\ Len(d \o c3) = 3
          /\ \A i \in 1 .. 3 : (d \o c3)[i] = IF i <= 2 THEN d[i] ELSE c3[i - 2]
      <4>1. /\ d \o c3 \in Seq(Stmts) /\ Len(d \o c3) = Len(d) + Len(c3)
            /\ \A i \in 1 .. Len(d) + Len(c3) :
                 (d \o c3)[i] = IF i <= Len(d) THEN d[i] ELSE c3[i - Len(d)]
        BY <3>2, ConcatProperties
      <4> QED BY <3>1, <4>1
    <3> QED BY <3>3, <3>4
  <2>3. (c1 \o c2)[1] = x /\ (c1 \o c2)[2] = y
    BY <2>1, <2>2 DEF c1, c2
  <2>4. (d \o c3)[1] = x /\ (d \o c3)[2] = y /\ (d \o c3)[3] = z
    BY <2>1, <2>2 DEF d, c3
  <2>5. d = c1 \o c2
    <3>1. d \in Seq(Stmts) /\ Len(d) = 2 /\ d[1] = x /\ d[2] = y
      BY <2>1 DEF d
    <3>2. \A i \in 1 .. Len(d) : i = 1 \/ i = 2
      BY <3>1
    <3> QED BY <2>2, <2>3, <3>1, <3>2, SeqEqual
  <2>6. e = d \o c3
    <3>1. e \in Seq(Stmts) /\ Len(e) = 3 /\ e[1] = x /\ e[2] = y /\ e[3] = z
      BY <2>1 DEF e
    <3>2. \A i \in 1 .. Len(e) : i = 1 \/ i = 2 \/ i = 3
      BY <3>1
    <3> QED BY <2>2, <2>4, <3>1, <3>2, SeqEqual
  <2> QED BY <2>1, <2>5, <2>6 DEF c1, c2, c3, d, e
<1>2. /\ (<< x >> \o << y >>) \o s = << x >> \o (<< y >> \o s)
      /\ (<< x, y >> \o << z >>) \o s = << x, y >> \o (<< z >> \o s)
      /\ (<< x >> \o << y >>) \o (<< z >> \o s) = << x >> \o (<< y >> \o (<< z >> \o s))
      /\ << z >> \o s \in Seq(Stmts)
  BY <1>1, ConcatAssociative, ConcatProperties
<1> QED BY <1>1, <1>2 DEF Cons

LEMMA TwoBefore ==
    \A x, y \in Stmts, s \in Seq(Stmts) : << x, y >> \o s = Cons(x, Cons(y, s))
BY TwoOrThreeBefore

LEMMA ThreeBefore ==
    \A x, y, z \in Stmts, s \in Seq(Stmts) :
        << x, y, z >> \o s = Cons(x, Cons(y, Cons(z, s)))
BY TwoOrThreeBefore

(* The statements are what the lists are made of.                           *)
LEMMA DoFacts ==
    /\ \A op \in Statements, t \in Threads \cup {NULL} :
         Do(op, t) \in Stmts /\ Do(op, t).op = op /\ Do(op, t).t = t
    /\ NULL \in Threads \cup {NULL}
    /\ "sem_wait" \in Statements /\ "handler" \in Statements
    /\ "terminate" \in Statements /\ "check" \in Statements
    /\ "schedule" \in Statements /\ "run" \in Statements
    /\ "dequeue" \in Statements /\ "post" \in Statements
    /\ "exec" \in Statements /\ "expire" \in Statements /\ "mark" \in Statements
    /\ "release" \in Statements /\ "client" \in Statements /\ "join" \in Statements
BY DEF Do, Stmts, Statements

LEMMA CheckFacts == Check \in Stmts /\ Check.op = "check" /\ Check.t = NULL
BY DoFacts DEF Check

LEMMA ListTypes ==
    /\ << >> \in Seq(Stmts)
    /\ Joining \in Seq(Stmts) /\ Head(Joining).op = "join" /\ Joining # << >>
    /\ Tail(Joining) = << >>
    /\ Forks \in Seq(Stmts) /\ Head(Forks).op = "client" /\ Forks # << >>
    /\ Tail(Forks) = Joining
    /\ \A t \in Threads :
         /\ Finish(t) \in Seq(Stmts) /\ Handling(t) \in Seq(Stmts)
         /\ Parked(t) \in Seq(Stmts)
         /\ Finish(t) # << >> /\ Handling(t) # << >> /\ Parked(t) # << >>
         /\ Head(Finish(t)) = Do("terminate", t) /\ Tail(Finish(t)) = Cons(Check, << >>)
         /\ Head(Handling(t)) = Do("handler", t) /\ Tail(Handling(t)) = Finish(t)
         /\ Head(Parked(t)) = Do("sem_wait", t) /\ Tail(Parked(t)) = Handling(t)
    /\ \A a \in Actors : Back(a) \in Seq(Stmts)
<1>1. << >> \in Seq(Stmts)
  OBVIOUS
<1>2. /\ Do("join", NULL) \in Stmts /\ Do("join", NULL).op = "join" /\ Check \in Stmts
      /\ \A t \in Threads : /\ Do("terminate", t) \in Stmts /\ Do("handler", t) \in Stmts
                            /\ Do("sem_wait", t) \in Stmts
  BY DoFacts, CheckFacts
<1>3. /\ Joining \in Seq(Stmts) /\ Head(Joining).op = "join" /\ Joining # << >>
      /\ Tail(Joining) = << >>
  BY <1>1, <1>2, ConsFacts DEF Joining
<1>6. /\ Forks \in Seq(Stmts) /\ Head(Forks).op = "client" /\ Forks # << >>
      /\ Tail(Forks) = Joining
  <2>1. Do("client", NULL) \in Stmts /\ Do("client", NULL).op = "client"
    BY DoFacts
  <2> QED BY <1>3, <2>1, ConsFacts DEF Forks
<1>4. ASSUME NEW t \in Threads
      PROVE  /\ Finish(t) \in Seq(Stmts) /\ Handling(t) \in Seq(Stmts)
             /\ Parked(t) \in Seq(Stmts)
             /\ Finish(t) # << >> /\ Handling(t) # << >> /\ Parked(t) # << >>
             /\ Head(Finish(t)) = Do("terminate", t) /\ Tail(Finish(t)) = Cons(Check, << >>)
             /\ Head(Handling(t)) = Do("handler", t) /\ Tail(Handling(t)) = Finish(t)
             /\ Head(Parked(t)) = Do("sem_wait", t) /\ Tail(Parked(t)) = Handling(t)
  <2>1. Cons(Check, << >>) \in Seq(Stmts)
    BY <1>1, <1>2, ConsFacts
  <2>2. /\ Finish(t) \in Seq(Stmts) /\ Finish(t) # << >>
        /\ Head(Finish(t)) = Do("terminate", t) /\ Tail(Finish(t)) = Cons(Check, << >>)
    BY <1>2, <2>1, ConsFacts DEF Finish
  <2>3. /\ Handling(t) \in Seq(Stmts) /\ Handling(t) # << >>
        /\ Head(Handling(t)) = Do("handler", t) /\ Tail(Handling(t)) = Finish(t)
    BY <1>2, <2>2, ConsFacts DEF Handling
  <2>4. /\ Parked(t) \in Seq(Stmts) /\ Parked(t) # << >>
        /\ Head(Parked(t)) = Do("sem_wait", t) /\ Tail(Parked(t)) = Handling(t)
    BY <1>2, <2>3, ConsFacts DEF Parked
  <2> QED BY <2>2, <2>3, <2>4
<1>5. \A a \in Actors : Back(a) \in Seq(Stmts)
  BY <1>1, <1>3, <1>4, <1>6 DEF Back, Actors
<1> QED BY <1>1, <1>3, <1>4, <1>5, <1>6

(* One, two or three statements before a list: what a look at it shows.     *)
LEMMA FirstStatement ==
    ASSUME NEW op \in Statements, NEW t \in Threads \cup {NULL}, NEW s \in Seq(Stmts)
    PROVE  /\ Cons(Do(op, t), s) \in Seq(Stmts) /\ Cons(Do(op, t), s) # << >>
           /\ Head(Cons(Do(op, t), s)).op = op /\ Head(Cons(Do(op, t), s)).t = t
           /\ Tail(Cons(Do(op, t), s)) = s
<1>1. Do(op, t) \in Stmts /\ Do(op, t).op = op /\ Do(op, t).t = t
  BY DoFacts
<1>2. /\ Cons(Do(op, t), s) \in Seq(Stmts) /\ Cons(Do(op, t), s) # << >>
      /\ Head(Cons(Do(op, t), s)) = Do(op, t) /\ Tail(Cons(Do(op, t), s)) = s
  BY <1>1, ConsFacts
<1> QED BY <1>1, <1>2

-----------------------------------------------------------------------------
(* Who may act, and where                                                  *)

OpOf(a) == Head(todo[a]).op

(* An actor that rests is in front of a sem_wait(), or is main().           *)
LEMMA RestingHead ==
    ASSUME NEW b \in Actors, Rests(b), todo[b] # << >>
    PROVE  \/ /\ b \in Threads /\ b \in Alive /\ todo[b] = Parked(b)
              /\ OpOf(b) = "sem_wait" /\ Captured(b) = b
           \/ b = Main /\ OpOf(b) = "join" /\ todo[b] = Joining
           \/ b = Main /\ OpOf(b) = "client" /\ todo[b] = Forks
<1>1. CASE b = Main
  <2>1. /\ OpOf(b) = Head(todo[b]).op
        /\ Head(Joining).op = "join" /\ Head(Forks).op = "client"
    BY ListTypes DEF OpOf
  <2> QED BY <1>1, <2>1 DEF Rests
<1>2. CASE b # Main
  <2>1. b \in Threads /\ todo[b] = Back(b)
    BY <1>2 DEF Actors, Rests
  <2>2. b \in Alive /\ todo[b] = Parked(b)
    BY <1>2, <2>1 DEF Back
  <2>3. Head(todo[b]) = Do("sem_wait", b)
    BY <2>1, <2>2, ListTypes
  <2>4. Do("sem_wait", b).op = "sem_wait" /\ Do("sem_wait", b).t = b
    BY <2>1, DoFacts
  <2> QED BY <2>1, <2>2, <2>3, <2>4 DEF OpOf, Captured
<1> QED BY <1>1, <1>2

(* The statements of a thread on the processor.                             *)
LEMMA ProcessingHead ==
    ASSUME NEW a \in Threads, Processing(a)
    PROVE  /\ todo[a] # << >>
           /\ \/ OpOf(a) = "handler" /\ Serving(a, Handling(a))
              \/ OpOf(a) = "terminate" /\ Captured(a) = a /\ Serving(a, Finish(a))
              \/ /\ OpOf(a) \in InHandler
                 /\ Serving(a, Cons(Do(OpOf(a), NULL), Handling(a)))
              \/ OpOf(a) = "release" /\ Signalling(a)
              \/ /\ OpOf(a) = "schedule" /\ Captured(a) \in Threads
                 /\ Forking(a, Captured(a))
<1>0. /\ Handling(a) \in Seq(Stmts) /\ Finish(a) \in Seq(Stmts)
      /\ Handling(a) # << >> /\ Finish(a) # << >>
      /\ Head(Handling(a)) = Do("handler", a) /\ Head(Finish(a)) = Do("terminate", a)
      /\ Do("handler", a).op = "handler" /\ Do("terminate", a).op = "terminate"
      /\ Do("terminate", a).t = a
  BY ListTypes, DoFacts
<1>1. CASE Serving(a, Handling(a))
  <2>1. todo[a] = Handling(a)
    BY <1>1 DEF Serving
  <2> QED BY <1>0, <1>1, <2>1 DEF OpOf
<1>2. CASE Serving(a, Finish(a))
  <2>1. todo[a] = Finish(a)
    BY <1>2 DEF Serving
  <2> QED BY <1>0, <1>2, <2>1 DEF OpOf, Captured
<1>3. ASSUME NEW op \in InHandler, Serving(a, Cons(Do(op, NULL), Handling(a)))
      PROVE  /\ todo[a] # << >> /\ OpOf(a) = op
  <2>1. todo[a] = Cons(Do(op, NULL), Handling(a))
    BY <1>3 DEF Serving
  <2>2. op \in Statements
    BY DEF InHandler, Statements
  <2>3. /\ Cons(Do(op, NULL), Handling(a)) # << >>
        /\ Head(Cons(Do(op, NULL), Handling(a))).op = op
    <3>1. NULL \in Threads \cup {NULL}
      OBVIOUS
    <3> QED BY <1>0, <2>2, <3>1, FirstStatement
  <2> QED BY <2>1, <2>3 DEF OpOf
<1>4. CASE Signalling(a)
  <2>1. todo[a] = Cons(Do("release", NULL), Handling(a))
    BY <1>4 DEF Signalling
  <2>2. /\ Cons(Do("release", NULL), Handling(a)) # << >>
        /\ Head(Cons(Do("release", NULL), Handling(a))).op = "release"
    <3>1. "release" \in Statements /\ NULL \in Threads \cup {NULL}
      BY DoFacts
    <3> QED BY <1>0, <3>1, FirstStatement
  <2> QED BY <1>4, <2>1, <2>2 DEF OpOf
<1>5. ASSUME NEW u \in Threads, Forking(a, u)
      PROVE  todo[a] # << >> /\ OpOf(a) = "schedule" /\ Captured(a) = u
  <2> DEFINE rest == Cons(Check, Handling(a))
  <2>1. todo[a] = Cons(Do("schedule", u), rest)
    BY <1>5 DEF Forking
  <2>2. rest \in Seq(Stmts)
    BY <1>0, CheckFacts, ConsFacts
  <2> HIDE DEF rest
  <2>3. /\ Cons(Do("schedule", u), rest) # << >>
        /\ Head(Cons(Do("schedule", u), rest)).op = "schedule"
        /\ Head(Cons(Do("schedule", u), rest)).t = u
    BY <2>2, DoFacts, FirstStatement
  <2> QED BY <2>1, <2>3 DEF OpOf, Captured
<1> QED BY <1>1, <1>2, <1>3, <1>4, <1>5 DEF Processing

(* The statements of an actor that picks the next thread.                   *)
LEMMA SwitchingHead ==
    ASSUME NEW a \in Actors, Switching(a)
    PROVE  /\ todo[a] # << >>
           /\ \/ OpOf(a) = "check" /\ Picking(a)
              \/ /\ Captured(a) \in Threads
                 /\ \/ OpOf(a) = "schedule" /\ Queueing(a, Captured(a))
                    \/ OpOf(a) = "run" /\ Taking(a, Captured(a))
                    \/ OpOf(a) = "dequeue" /\ Removing(a, Captured(a))
                    \/ OpOf(a) = "post" /\ Posting(a, Captured(a))
<1>0. Back(a) \in Seq(Stmts)
  BY ListTypes
<1>1. CASE Picking(a)
  <2>1. todo[a] = Cons(Check, Back(a))
    BY <1>1 DEF Picking
  <2>2. Cons(Check, Back(a)) # << >> /\ Head(Cons(Check, Back(a))) = Check
    BY <1>0, CheckFacts, ConsFacts
  <2> QED BY <1>1, <2>1, <2>2, CheckFacts DEF OpOf
<1>2. ASSUME NEW n \in Threads, NEW op \in Statements, NEW s \in Seq(Stmts),
             todo[a] = Cons(Do(op, n), s)
      PROVE  todo[a] # << >> /\ OpOf(a) = op /\ Captured(a) = n
  <2>1. /\ Cons(Do(op, n), s) # << >>
        /\ Head(Cons(Do(op, n), s)).op = op /\ Head(Cons(Do(op, n), s)).t = n
    BY FirstStatement
  <2> QED BY <1>2, <2>1 DEF OpOf, Captured
<1>3. ASSUME NEW n \in Threads
      PROVE  /\ Cons(Check, Back(a)) \in Seq(Stmts)
             /\ Cons(Do("post", n), Back(a)) \in Seq(Stmts)
             /\ Cons(Do("dequeue", n), Cons(Do("post", n), Back(a))) \in Seq(Stmts)
  <2>1. /\ Do("post", n) \in Stmts /\ Do("dequeue", n) \in Stmts
    BY DoFacts
  <2> QED BY <1>0, <2>1, CheckFacts, ConsFacts
<1>4. {"schedule", "run", "dequeue", "post"} \subseteq Statements
  BY DEF Statements
<1>5. ASSUME NEW n \in Threads, Queueing(a, n)
      PROVE  todo[a] # << >> /\ OpOf(a) = "schedule" /\ Captured(a) = n
  <2>1. todo[a] = Cons(Do("schedule", n), Cons(Check, Back(a)))
    BY <1>5 DEF Queueing
  <2> QED BY <1>2, <1>3, <1>4, <2>1
<1>6. ASSUME NEW n \in Threads, Taking(a, n)
      PROVE  todo[a] # << >> /\ OpOf(a) = "run" /\ Captured(a) = n
  <2>1. todo[a] = Cons(Do("run", n),
                       Cons(Do("dequeue", n), Cons(Do("post", n), Back(a))))
    BY <1>6 DEF Taking
  <2> QED BY <1>2, <1>3, <1>4, <2>1
<1>7. ASSUME NEW n \in Threads, Removing(a, n)
      PROVE  todo[a] # << >> /\ OpOf(a) = "dequeue" /\ Captured(a) = n
  <2>1. todo[a] = Cons(Do("dequeue", n), Cons(Do("post", n), Back(a)))
    BY <1>7 DEF Removing
  <2> QED BY <1>2, <1>3, <1>4, <2>1
<1>8. ASSUME NEW n \in Threads, Posting(a, n)
      PROVE  todo[a] # << >> /\ OpOf(a) = "post" /\ Captured(a) = n
  <2>1. todo[a] = Cons(Do("post", n), Back(a))
    BY <1>8 DEF Posting
  <2> QED BY <1>0, <1>2, <1>4, <2>1
<1> QED BY <1>1, <1>5, <1>6, <1>7, <1>8 DEF Switching

(* Everybody is resting, on the processor or picking the next thread.       *)
LEMMA Placed ==
    ASSUME StepsInv, NEW a \in Actors
    PROVE  Rests(a) \/ (a \in Threads /\ Processing(a)) \/ Switching(a)
<1>1. CASE Nobody \/ \E r \in Threads : Posted(r)
  BY <1>1 DEF Nobody, Posted, AllRest
<1>2. ASSUME NEW b \in Threads, Processing(b)
      PROVE  Rests(a) \/ (a \in Threads /\ Processing(a)) \/ Switching(a)
  <2>1. OthersRest(b)
    BY <1>2 DEF Processing, Serving, Signalling, Forking, OnProcessor, Acting
  <2> QED BY <1>2, <2>1 DEF OthersRest
<1>3. ASSUME NEW b \in Actors, Switching(b)
      PROVE  Rests(a) \/ (a \in Threads /\ Processing(a)) \/ Switching(a)
  <2>1. OthersRest(b)
    BY <1>3 DEF Switching, Queueing, Picking, Taking, Removing, Posting, Acting
  <2> QED BY <1>3, <2>1 DEF OthersRest
<1> QED BY <1>1, <1>2, <1>3 DEF StepsInv, OneActs

(* What is known of an actor by its next statement.                         *)
LEMMA Whereabouts ==
    ASSUME StepsInv, NEW a \in Actors, NEW op, Next1(a, op)
    PROVE  /\ op = "sem_wait" =>
                a \in Threads /\ todo[a] = Parked(a) /\ Captured(a) = a /\ a \in Alive
           /\ op = "client" => a = Main /\ todo[a] = Forks
           /\ op = "join" => a = Main /\ todo[a] = Joining
           /\ op = "handler" => a \in Threads /\ Serving(a, Handling(a))
           /\ op = "terminate" =>
                a \in Threads /\ Captured(a) = a /\ Serving(a, Finish(a))
           /\ op \in {"exec", "expire", "mark"} =>
                a \in Threads /\ Serving(a, Cons(Do(op, NULL), Handling(a)))
           /\ op = "check" => \/ a \in Threads /\ Serving(a, Cons(Check, Handling(a)))
                              \/ Picking(a)
           /\ op = "release" => a \in Threads /\ Signalling(a)
           /\ op = "schedule" => /\ Captured(a) \in Threads
                                 /\ \/ a \in Threads /\ Forking(a, Captured(a))
                                    \/ Queueing(a, Captured(a))
           /\ op = "run" => Captured(a) \in Threads /\ Taking(a, Captured(a))
           /\ op = "dequeue" => Captured(a) \in Threads /\ Removing(a, Captured(a))
           /\ op = "post" => Captured(a) \in Threads /\ Posting(a, Captured(a))
<1>1. todo[a] # << >> /\ OpOf(a) = op
  BY DEF Next1, OpOf
<1>2. CASE Rests(a)
  <2>1. \/ /\ a \in Threads /\ a \in Alive /\ todo[a] = Parked(a)
           /\ op = "sem_wait" /\ Captured(a) = a
        \/ a = Main /\ op = "join" /\ todo[a] = Joining
        \/ a = Main /\ op = "client" /\ todo[a] = Forks
    BY <1>1, <1>2, RestingHead
  <2> QED BY <2>1
<1>3. CASE a \in Threads /\ Processing(a)
  <2>1. \/ op = "handler" /\ Serving(a, Handling(a))
        \/ op = "terminate" /\ Captured(a) = a /\ Serving(a, Finish(a))
        \/ op \in InHandler /\ Serving(a, Cons(Do(op, NULL), Handling(a)))
        \/ op = "release" /\ Signalling(a)
        \/ op = "schedule" /\ Captured(a) \in Threads /\ Forking(a, Captured(a))
    BY <1>1, <1>3, ProcessingHead
  <2> QED BY <1>3, <2>1 DEF InHandler, Check
<1>4. CASE Switching(a)
  <2>1. \/ op = "check" /\ Picking(a)
        \/ /\ Captured(a) \in Threads
           /\ \/ op = "schedule" /\ Queueing(a, Captured(a))
              \/ op = "run" /\ Taking(a, Captured(a))
              \/ op = "dequeue" /\ Removing(a, Captured(a))
              \/ op = "post" /\ Posting(a, Captured(a))
    BY <1>1, <1>4, SwitchingHead
  <2> QED BY <2>1
<1> QED BY <1>2, <1>3, <1>4, Placed

-----------------------------------------------------------------------------
(* What a step leaves as it was                                            *)

LEMMA AliveFacts ==
    ASSUME TypeOK
    PROVE  /\ ToSet(threads) \subseteq Threads /\ Alive \subseteq Threads
           /\ Queued \subseteq Threads
<1>1. threads \in Seq(Threads)
  BY DEF TypeOK
<1>2. DOMAIN threads = 1 .. Len(threads) /\ \A i \in 1 .. Len(threads) : threads[i] \in Threads
  BY <1>1, LenProperties, ElementOfSeq
<1> QED BY <1>2 DEF ToSet, Alive, Queued

(* No thread comes or terminates.                                           *)
LEMMA AliveKept ==
    ASSUME TypeOK, threads' = threads,
           \A t \in Threads : state'[t] = "TERMINATED" <=> state[t] = "TERMINATED"
    PROVE  Alive' = Alive
BY AliveFacts DEF Alive

LEMMA OthersStillRest ==
    ASSUME NEW a, OthersRest(a), threads' = threads,
           \A b \in Actors : b # a => todo'[b] = todo[b],
           \A t \in Threads : t # a => (t \in Alive' <=> t \in Alive)
    PROVE  OthersRest(a)'
<1>1. ASSUME NEW b \in Actors, b # a
      PROVE  Rests(b)'
  <2>1. Rests(b) /\ todo'[b] = todo[b]
    BY <1>1 DEF OthersRest
  <2>2. CASE b = Main
    BY <2>1, <2>2 DEF Rests
  <2>3. CASE b # Main
    BY <1>1, <2>1, <2>3 DEF Rests, Back, Actors
  <2> QED BY <2>2, <2>3
<1> QED BY <1>1 DEF OthersRest

LEMMA StillActing ==
    ASSUME NEW a, Acting(a), threads' = threads, sem' = sem,
           \A b \in Actors : b # a => todo'[b] = todo[b],
           \A t \in Threads : t # a => (t \in Alive' <=> t \in Alive)
    PROVE  Acting(a)'
<1>1. OthersRest(a)'
  BY OthersStillRest DEF Acting
<1> QED BY <1>1 DEF Acting, Holders

(* The queue stays, and so do the states but where they may change.         *)
LEMMA QueueKept ==
    ASSUME QueueOK, threads' = threads, pq' = pq, prio' = prio,
           \A t \in Queued : state'[t] \in {"READY", "WAITING"},
           \A t \in Threads : t \notin ToSet(threads) => state'[t] = state[t]
    PROVE  QueueOK' /\ Queued' = Queued
BY DEF QueueOK, Queued

(* An actor whose statement is not that of lines 162-170 of so_exec().      *)
LEMMA QuantumKept ==
    ASSUME TypeOK, QuantumLeft, NEW a \in Actors, OpOf(a) # "expire",
           left' = left, Alive' \subseteq Alive,
           \A b \in Actors : b # a => todo'[b] = todo[b]
    PROVE  QuantumLeft'
<1>1. ASSUME NEW t \in Alive', left'[t] = 0
      PROVE  todo'[t] = Cons(Do("expire", NULL), Handling(t))
  <2>1. t \in Threads /\ todo[t] = Cons(Do("expire", NULL), Handling(t))
    BY <1>1, AliveFacts DEF QuantumLeft
  <2>2. Handling(t) \in Seq(Stmts)
    BY <2>1, ListTypes
  <2>3. "expire" \in Statements /\ NULL \in Threads \cup {NULL}
    BY DoFacts
  <2>4. OpOf(t) = "expire"
    BY <2>1, <2>2, <2>3, FirstStatement DEF OpOf
  <2> QED BY <2>1, <2>4 DEF Actors
<1> QED BY <1>1 DEF QuantumLeft

(* The lists after a statement.                                             *)
LEMMA ListAfter ==
    ASSUME TypeOK, NEW a \in Actors, NEW x \in Stmts, NEW s \in Seq(Stmts),
           todo[a] = Cons(x, s), NEW more, NEW list \in Seq(Stmts),
           more \o s = list, Goes(a, more)
    PROVE  /\ todo' \in [Actors -> Seq(Stmts)] /\ todo'[a] = list
           /\ \A b \in Actors : b # a => todo'[b] = todo[b]
<1>1. todo \in [Actors -> Seq(Stmts)]
  BY DEF TypeOK, Stmts
<1>2. Tail(todo[a]) = s
  <2>1. Tail(Cons(x, s)) = s
    BY ConsFacts
  <2> QED BY <2>1
<1>3. todo' = [todo EXCEPT ![a] = list]
  BY <1>2 DEF Goes
<1> QED BY <1>1, <1>3

LEMMA ListEnded ==
    ASSUME TypeOK, NEW a \in Actors, NEW x \in Stmts, NEW s \in Seq(Stmts),
           todo[a] = Cons(x, s), Ends(a)
    PROVE  /\ todo' \in [Actors -> Seq(Stmts)] /\ todo'[a] = s
           /\ \A b \in Actors : b # a => todo'[b] = todo[b]
<1>1. << >> \o s = s
  BY ConsFacts
<1> QED BY <1>1, ListAfter DEF Ends

LEMMA ListCalled ==
    ASSUME TypeOK, NEW a \in Actors, NEW x \in Stmts, Calls(a, << x >>)
    PROVE  /\ todo' \in [Actors -> Seq(Stmts)] /\ todo'[a] = Cons(x, todo[a])
           /\ \A b \in Actors : b # a => todo'[b] = todo[b]
<1>1. todo \in [Actors -> Seq(Stmts)]
  BY DEF TypeOK, Stmts
<1>2. Cons(x, todo[a]) \in Seq(Stmts) /\ << x >> \o todo[a] = Cons(x, todo[a])
  BY <1>1, ConsFacts
<1>3. todo' = [todo EXCEPT ![a] = Cons(x, todo[a])]
  BY <1>1, <1>2 DEF Calls
<1> QED BY <1>1, <1>2, <1>3

-----------------------------------------------------------------------------
(* Steps that change nothing but a list of statements                      *)

others == << quantum, threads, pq, running, prio, state, left, event, sem, crashed >>

LEMMA OnlyListMoves ==
    ASSUME StepsInv, NEW a \in Actors, OpOf(a) # "expire",
           todo' \in [Actors -> Seq(Stmts)], UNCHANGED others,
           \A b \in Actors : b # a => todo'[b] = todo[b]
    PROVE  /\ TypeOK' /\ ~crashed' /\ QueueOK' /\ QuantumLeft'
           /\ Alive' = Alive /\ Queued' = Queued /\ Chosen' = Chosen
           /\ Holders' = Holders /\ Foremost' = Foremost
           /\ \A t \in Threads : Dominates(t) => Dominates(t)'
           /\ Acting(a) => Acting(a)'
<1> USE DEF others
<1>1. TypeOK' /\ ~crashed'
  BY DEF StepsInv, TypeOK, Stmts
<1>2. Alive' = Alive
  BY DEF Alive
<1>3. QueueOK' /\ Queued' = Queued
  BY DEF StepsInv, QueueOK, Queued
<1>4. QuantumLeft'
  BY <1>2, QuantumKept DEF StepsInv
<1>5. Acting(a) => Acting(a)'
  BY <1>2, StillActing
<1>6. \A t \in Threads : Dominates(t) => Dominates(t)'
  BY <1>3 DEF Dominates
<1> QED BY <1>1, <1>2, <1>3, <1>4, <1>5, <1>6 DEF Chosen, Holders, Foremost

(* A thread goes on with another list.                                      *)
LEMMA StillServing ==
    ASSUME StepsInv, NEW a \in Threads, NEW old, Serving(a, old), OpOf(a) # "expire",
           NEW list, todo' \in [Actors -> Seq(Stmts)], todo'[a] = list,
           \A b \in Actors : b # a => todo'[b] = todo[b],
           UNCHANGED others
    PROVE  /\ TypeOK' /\ ~crashed' /\ QueueOK' /\ QuantumLeft'
           /\ Serving(a, list)'
<1>1. a \in Actors /\ OnProcessor(a) /\ Acting(a)
  BY DEF Actors, Serving, OnProcessor
<1>2. /\ TypeOK' /\ ~crashed' /\ QueueOK' /\ QuantumLeft'
      /\ Alive' = Alive /\ Queued' = Queued /\ Chosen' = Chosen
      /\ Dominates(a) => Dominates(a)'
      /\ Acting(a)'
  BY <1>1, OnlyListMoves
<1>3. OnProcessor(a)'
  BY <1>1, <1>2 DEF OnProcessor, others
<1> QED BY <1>2, <1>3 DEF Serving

LEMMA CallExecKeeps ==
    ASSUME StepsInv, NEW a \in Threads, CallExec(a)
    PROVE  StepsInv'
<1>1. a \in Actors /\ Next1(a, "handler") /\ TypeOK
  BY DEF CallExec, Actors, StepsInv
<1>2. Serving(a, Handling(a)) /\ OpOf(a) # "expire"
  BY <1>1, Whereabouts DEF Next1, OpOf
<1>3. Do("exec", NULL) \in Stmts
  BY DoFacts
<1>4. /\ todo' \in [Actors -> Seq(Stmts)] /\ todo'[a] = Cons(Do("exec", NULL), Handling(a))
      /\ \A b \in Actors : b # a => todo'[b] = todo[b]
  BY <1>1, <1>2, <1>3, ListCalled DEF CallExec, Serving
<1>5. /\ TypeOK' /\ ~crashed' /\ QueueOK' /\ QuantumLeft'
      /\ Serving(a, Cons(Do("exec", NULL), Handling(a)))'
  BY <1>2, <1>4, StillServing DEF CallExec, fields, others
<1>6. Processing(a)'
  BY <1>5 DEF Processing, InHandler
<1> QED BY <1>5, <1>6 DEF StepsInv, OneActs

LEMMA CallWaitKeeps ==
    ASSUME StepsInv, NEW a \in Threads, CallWait(a)
    PROVE  StepsInv'
<1>1. a \in Actors /\ Next1(a, "handler") /\ TypeOK
  BY DEF CallWait, Actors, StepsInv
<1>2. Serving(a, Handling(a)) /\ OpOf(a) # "expire"
  BY <1>1, Whereabouts DEF Next1, OpOf
<1>3. Do("mark", NULL) \in Stmts
  BY DoFacts
<1>4. /\ todo' \in [Actors -> Seq(Stmts)] /\ todo'[a] = Cons(Do("mark", NULL), Handling(a))
      /\ \A b \in Actors : b # a => todo'[b] = todo[b]
  BY <1>1, <1>2, <1>3, ListCalled DEF CallWait, Serving
<1>5. /\ TypeOK' /\ ~crashed' /\ QueueOK' /\ QuantumLeft'
      /\ Serving(a, Cons(Do("mark", NULL), Handling(a)))'
  BY <1>2, <1>4, StillServing DEF CallWait, fields, others
<1>6. Processing(a)'
  BY <1>5 DEF Processing, InHandler
<1> QED BY <1>5, <1>6 DEF StepsInv, OneActs

LEMMA HandlerReturnsKeeps ==
    ASSUME StepsInv, NEW a \in Threads, HandlerReturns(a)
    PROVE  StepsInv'
<1>1. a \in Actors /\ Next1(a, "handler") /\ TypeOK
  BY DEF HandlerReturns, Actors, StepsInv
<1>2. Serving(a, Handling(a)) /\ OpOf(a) # "expire"
  BY <1>1, Whereabouts DEF Next1, OpOf
<1>3. Do("handler", a) \in Stmts /\ Finish(a) \in Seq(Stmts)
  BY DoFacts, ListTypes
<1>4. todo[a] = Cons(Do("handler", a), Finish(a))
  BY <1>2 DEF Serving, Handling
<1>5. /\ todo' \in [Actors -> Seq(Stmts)] /\ todo'[a] = Finish(a)
      /\ \A b \in Actors : b # a => todo'[b] = todo[b]
  BY <1>1, <1>3, <1>4, ListEnded DEF HandlerReturns
<1>6. /\ TypeOK' /\ ~crashed' /\ QueueOK' /\ QuantumLeft'
      /\ Serving(a, Finish(a))'
  BY <1>2, <1>5, StillServing DEF HandlerReturns, fields, others
<1>7. Processing(a)'
  BY <1>6 DEF Processing
<1> QED BY <1>6, <1>7 DEF StepsInv, OneActs

(* check_preempt() finds that a goes on, or whom to take.  The branch that  *)
(* preempts a is never taken: a dominates the queue.                        *)
LEMMA CheckPreemptKeeps ==
    ASSUME StepsInv, NEW a \in Actors, CheckPreempt(a)
    PROVE  StepsInv'
<1>1. Next1(a, "check") /\ TypeOK /\ OpOf(a) # "expire" /\ UNCHANGED others
  BY DEF CheckPreempt, StepsInv, Next1, OpOf, fields, others
<1>2. /\ pq \in Seq(Threads) /\ Foremost = FrontThread(pq, state)
      /\ Goes(a, Branch(Foremost))
  BY <1>1 DEF TypeOK, Foremost, CheckPreempt
<1>3. Foremost # NULL => Foremost \in Queued /\ state[Foremost] # "WAITING"
  BY <1>2, FrontThreadRange DEF Queued
<1>4. CASE a \in Threads /\ Serving(a, Cons(Check, Handling(a)))
  <2>1. /\ running = a /\ Dominates(a) /\ todo[a] = Cons(Check, Handling(a))
        /\ a # NULL /\ Handling(a) \in Seq(Stmts)
    BY <1>4, NullAssumption, ListTypes DEF Serving, OnProcessor
  <2>2. CASE Foremost = NULL
    <3>1. Branch(Foremost) = << >>
      BY <2>2 DEF Branch
    <3>2. /\ todo' \in [Actors -> Seq(Stmts)] /\ todo'[a] = Handling(a)
          /\ \A b \in Actors : b # a => todo'[b] = todo[b]
      BY <1>1, <1>2, <2>1, <3>1, CheckFacts, ListEnded DEF Ends
    <3>3. /\ TypeOK' /\ ~crashed' /\ QueueOK' /\ QuantumLeft'
          /\ Serving(a, Handling(a))'
      BY <1>1, <1>4, <3>2, StillServing
    <3> QED BY <1>4, <3>3 DEF StepsInv, OneActs, Processing
  <2>3. CASE Foremost # NULL
    <3>1. ~(prio[running] < prio[Foremost])
      <4>1. prio[Foremost] <= prio[a]
        BY <1>3, <2>1, <2>3 DEF Dominates
      <4>2. prio[Foremost] \in Int /\ prio[a] \in Int
        BY <1>1, <1>3, <1>4, <2>3 DEF TypeOK, Priorities, Queued
      <4> QED BY <2>1, <4>1, <4>2
    <3>2. Branch(Foremost) = << Do("exec", NULL) >>
      BY <2>1, <2>3, <3>1 DEF Branch
    <3>3. /\ Do("exec", NULL) \in Stmts
          /\ Cons(Do("exec", NULL), Handling(a)) \in Seq(Stmts)
          /\ << Do("exec", NULL) >> \o Handling(a) = Cons(Do("exec", NULL), Handling(a))
      <4>1. Do("exec", NULL) \in Stmts
        BY DoFacts
      <4> QED BY <2>1, <4>1, ConsFacts
    <3>4. /\ todo' \in [Actors -> Seq(Stmts)]
          /\ todo'[a] = Cons(Do("exec", NULL), Handling(a))
          /\ \A b \in Actors : b # a => todo'[b] = todo[b]
      <4>1. Goes(a, << Do("exec", NULL) >>) /\ Check \in Stmts
        BY <1>2, <3>2, CheckFacts
      <4>2. a \in Actors /\ TypeOK
        BY <1>1
      <4> HIDE DEF Check
      <4> QED BY <2>1, <3>3, <4>1, <4>2, ListAfter
    <3>5. /\ TypeOK' /\ ~crashed' /\ QueueOK' /\ QuantumLeft'
          /\ Serving(a, Cons(Do("exec", NULL), Handling(a)))'
      BY <1>1, <1>4, <3>4, StillServing
    <3> QED BY <1>4, <3>5 DEF StepsInv, OneActs, Processing, InHandler
  <2> QED BY <2>2, <2>3
<1>5. CASE Picking(a)
  <2>1. /\ running = NULL /\ todo[a] = Cons(Check, Back(a)) /\ Back(a) \in Seq(Stmts)
        /\ Acting(a) /\ Alive = Queued /\ Chosen = {}
    BY <1>5, ListTypes DEF Picking
  <2>2. CASE Foremost = NULL
    <3>1. Branch(Foremost) = << >>
      BY <2>2 DEF Branch
    <3>2. /\ todo' \in [Actors -> Seq(Stmts)] /\ todo'[a] = Back(a)
          /\ \A b \in Actors : b # a => todo'[b] = todo[b]
      BY <1>1, <1>2, <2>1, <3>1, CheckFacts, ListEnded DEF Ends
    <3>3. /\ TypeOK' /\ ~crashed' /\ QueueOK' /\ QuantumLeft'
          /\ Alive' = Alive /\ Queued' = Queued /\ Chosen' = Chosen
          /\ Holders' = Holders /\ Foremost' = Foremost /\ Acting(a)'
      BY <1>1, <2>1, <3>2, OnlyListMoves
    <3>4. Rests(a)'
      BY <3>2, <3>3 DEF Rests, Back
    <3>5. AllRest' /\ Holders = {}
      BY <2>1, <3>3, <3>4 DEF Acting, AllRest, OthersRest
    <3>6. Nobody'
      BY <1>1, <2>1, <2>2, <3>3, <3>5 DEF Nobody, others
    <3> QED BY <3>3, <3>6 DEF StepsInv, OneActs
  <2>3. CASE Foremost # NULL
    <3> DEFINE n == Foremost
               list == Cons(Do("run", n), Cons(Do("dequeue", n), Cons(Do("post", n), Back(a))))
    <3>0. n \in Threads
      BY <1>3, <2>3 DEF Queued
    <3>1. Branch(n) = << Do("run", n), Do("dequeue", n), Do("post", n) >>
      BY <2>1, <2>3 DEF Branch, Dispatching
    <3>2. Do("run", n) \in Stmts /\ Do("dequeue", n) \in Stmts /\ Do("post", n) \in Stmts
      BY <3>0, DoFacts
    <3>3. list \in Seq(Stmts) /\ Branch(n) \o Back(a) = list
      <4>1. Cons(Do("post", n), Back(a)) \in Seq(Stmts)
        BY <2>1, <3>2, ConsFacts
      <4>2. Cons(Do("dequeue", n), Cons(Do("post", n), Back(a))) \in Seq(Stmts)
        BY <3>2, <4>1, ConsFacts
      <4>3. list \in Seq(Stmts)
        BY <3>2, <4>2, ConsFacts
      <4>4. << Do("run", n), Do("dequeue", n), Do("post", n) >> \o Back(a) = list
        <5> DEFINE x == Do("run", n)
                   y == Do("dequeue", n)
                   z == Do("post", n)
        <5> HIDE DEF x, y, z
        <5>1. << x, y, z >> \o Back(a) = Cons(x, Cons(y, Cons(z, Back(a))))
          BY <2>1, <3>2, ThreeBefore DEF x, y, z
        <5> QED BY <5>1 DEF x, y, z
      <4> QED BY <3>1, <4>3, <4>4
    <3> HIDE DEF list
    <3>4. /\ todo' \in [Actors -> Seq(Stmts)] /\ todo'[a] = list
          /\ \A b \in Actors : b # a => todo'[b] = todo[b]
      BY <1>1, <1>2, <2>1, <3>3, CheckFacts, ListAfter
    <3>5. /\ TypeOK' /\ ~crashed' /\ QueueOK' /\ QuantumLeft'
          /\ Alive' = Alive /\ Queued' = Queued /\ Chosen' = Chosen
          /\ Foremost' = Foremost /\ Acting(a)'
      BY <1>1, <2>1, <3>4, OnlyListMoves
    <3>6. Back(a)' = Back(a)
      BY <3>5 DEF Back
    <3>7. Taking(a, n)'
      BY <1>1, <2>1, <3>4, <3>5, <3>6 DEF Taking, others, list
    <3>8. Switching(a)'
      BY <3>0, <3>5, <3>7 DEF Switching
    <3> QED BY <3>5, <3>8 DEF StepsInv, OneActs
  <2> QED BY <2>2, <2>3
<1> QED BY <1>1, <1>4, <1>5, Whereabouts

-----------------------------------------------------------------------------
(* Passing the processor on                                                *)

(* A posted thread takes its token and goes on in its handler.              *)
LEMMA SemWaitKeeps ==
    ASSUME StepsInv, NEW a \in Actors, SemWait(a)
    PROVE  StepsInv'
<1>1. /\ Next1(a, "sem_wait") /\ TypeOK /\ OpOf(a) # "expire" /\ a \in Actors
      /\ UNCHANGED << quantum, threads, pq, running, state, prio, left, event, crashed >>
  BY DEF SemWait, StepsInv, Next1, OpOf, fields
<1>2. a \in Threads /\ todo[a] = Parked(a) /\ Captured(a) = a /\ a \in Alive
  BY <1>1, Whereabouts
<1>3. sem \in [Threads -> Nat] /\ sem[a] > 0 /\ sem' = [sem EXCEPT ![a] = @ - 1]
  BY <1>1, <1>2 DEF SemWait, TypeOK
<1>4. a \in Holders
  BY <1>2, <1>3 DEF Holders
<1>5. Posted(a)
  <2>1. ASSUME NEW b, Acting(b)
        PROVE  FALSE
    BY <1>4, <2>1 DEF Acting
  <2>2. ~Nobody
    BY <1>4 DEF Nobody
  <2>3. \A b \in Threads : ~Processing(b)
    BY <2>1 DEF Processing, Serving, Signalling, Forking, OnProcessor
  <2>4. \A b \in Actors : ~Switching(b)
    BY <2>1 DEF Switching, Picking, Queueing, Taking, Removing, Posting
  <2>5. PICK r \in Threads : Posted(r)
    BY <2>2, <2>3, <2>4 DEF StepsInv, OneActs
  <2>6. r = a
    BY <1>4, <2>5 DEF Posted
  <2> QED BY <2>5, <2>6
<1>6. /\ Do("sem_wait", a) \in Stmts /\ Handling(a) \in Seq(Stmts)
      /\ todo[a] = Cons(Do("sem_wait", a), Handling(a))
  BY <1>2, DoFacts, ListTypes DEF Parked
<1>7. /\ todo' \in [Actors -> Seq(Stmts)] /\ todo'[a] = Handling(a)
      /\ \A b \in Actors : b # a => todo'[b] = todo[b]
  BY <1>1, <1>6, ListEnded DEF SemWait
<1>8. sem' \in [Threads -> Nat] /\ Holders' = {}
  <2>1. sem[a] = 1 /\ Holders = {a}
    BY <1>5 DEF Posted
  <2>2. sem' \in [Threads -> Nat] /\ \A t \in Threads : sem'[t] = 0
    BY <1>2, <1>3, <2>1 DEF Holders
  <2> QED BY <2>2 DEF Holders
<1>9. TypeOK' /\ ~crashed'
  BY <1>1, <1>7, <1>8 DEF StepsInv, TypeOK, Stmts
<1>10. Alive' = Alive /\ Chosen' = Chosen
  BY <1>1 DEF Alive, Chosen
<1>11. QueueOK' /\ Queued' = Queued /\ QuantumLeft'
  <2>1. QueueOK' /\ Queued' = Queued
    BY <1>1 DEF StepsInv, QueueOK, Queued
  <2>2. QuantumLeft'
    BY <1>1, <1>7, <1>10, QuantumKept DEF StepsInv
  <2> QED BY <2>1, <2>2
<1>12. Acting(a)'
  <2>1. OthersRest(a)
    BY <1>5 DEF Posted, AllRest, OthersRest
  <2>2. OthersRest(a)'
    BY <1>1, <1>7, <1>10, <2>1, OthersStillRest
  <2> QED BY <1>1, <1>2, <1>8, <2>2 DEF Acting, Alive
<1>13. Serving(a, Handling(a))'
  <2>1. OnProcessor(a)'
    BY <1>1, <1>2, <1>5, <1>10, <1>11, <1>12 DEF Posted, OnProcessor
  <2>2. Dominates(a)'
    BY <1>1, <1>5, <1>11 DEF Posted, Dominates
  <2> QED BY <1>5, <1>7, <1>10, <1>11, <2>1, <2>2 DEF Posted, Serving
<1> QED BY <1>2, <1>9, <1>11, <1>13 DEF StepsInv, OneActs, Processing

LEMMA RunKeeps ==
    ASSUME StepsInv, NEW a \in Actors, Run(a)
    PROVE  StepsInv'
<1>1. /\ Next1(a, "run") /\ TypeOK /\ OpOf(a) # "expire"
      /\ UNCHANGED << quantum, threads, pq, state, prio, left, event, sem, crashed >>
  BY DEF Run, StepsInv, Next1, OpOf, fields
<1>2. PICK n \in Threads : n = Captured(a) /\ Taking(a, n)
  BY <1>1, Whereabouts
<1>3. running' = n
  BY <1>2 DEF Run
<1> DEFINE list == Cons(Do("dequeue", n), Cons(Do("post", n), Back(a)))
<1>4. /\ Acting(a) /\ Alive = Queued /\ Chosen = {} /\ n = Foremost
      /\ todo[a] = Cons(Do("run", n), list)
  BY <1>2 DEF Taking
<1>5. Do("run", n) \in Stmts /\ list \in Seq(Stmts)
  <2>1. Do("run", n) \in Stmts /\ Do("dequeue", n) \in Stmts /\ Do("post", n) \in Stmts
    BY <1>2, DoFacts
  <2>2. Back(a) \in Seq(Stmts)
    BY ListTypes
  <2>3. Cons(Do("post", n), Back(a)) \in Seq(Stmts)
    BY <2>1, <2>2, ConsFacts
  <2> QED BY <2>1, <2>3, ConsFacts
<1> HIDE DEF list
<1>6. /\ todo' \in [Actors -> Seq(Stmts)] /\ todo'[a] = list
      /\ \A b \in Actors : b # a => todo'[b] = todo[b]
  BY <1>1, <1>4, <1>5, ListEnded DEF Run
<1>7. TypeOK' /\ ~crashed'
  BY <1>1, <1>2, <1>3, <1>6 DEF StepsInv, TypeOK, Stmts
<1>8. Alive' = Alive /\ Chosen' = Chosen /\ Foremost' = Foremost /\ Back(a)' = Back(a)
  BY <1>1 DEF Alive, Chosen, Foremost, Back
<1>9. QueueOK' /\ Queued' = Queued
  BY <1>1 DEF StepsInv, QueueOK, Queued
<1>10. QuantumLeft' /\ Acting(a)'
  BY <1>1, <1>4, <1>6, <1>8, QuantumKept, StillActing DEF StepsInv
<1>11. Removing(a, n)'
  BY <1>3, <1>4, <1>6, <1>8, <1>9, <1>10 DEF Removing, list
<1> QED BY <1>2, <1>7, <1>9, <1>10, <1>11 DEF StepsInv, OneActs, Switching

(* dequeue() removes the very thread that was made running_thread.          *)
LEMMA DequeueFrontKeeps ==
    ASSUME StepsInv, NEW a \in Actors, DequeueFront(a)
    PROVE  StepsInv'
<1>1. /\ Next1(a, "dequeue") /\ TypeOK /\ OpOf(a) # "expire" /\ QueueOK
      /\ UNCHANGED << quantum, threads, running, prio, left, event, sem, crashed >>
  BY DEF DequeueFront, StepsInv, Next1, OpOf, fields
<1>2. PICK n \in Threads : n = Captured(a) /\ Removing(a, n)
  BY <1>1, Whereabouts
<1>3. pq' = Dequeue(pq, state) /\ state' = [state EXCEPT ![n] = "RUNNING"]
  BY <1>2 DEF DequeueFront
<1> DEFINE list == Cons(Do("post", n), Back(a))
<1>4. /\ Acting(a) /\ Alive = Queued /\ Chosen = {} /\ n = Foremost /\ running = n
      /\ todo[a] = Cons(Do("dequeue", n), list)
  BY <1>2 DEF Removing
<1>5. Do("dequeue", n) \in Stmts /\ list \in Seq(Stmts)
  <2>1. Do("dequeue", n) \in Stmts /\ Do("post", n) \in Stmts
    BY <1>2, DoFacts
  <2> QED BY <2>1, ListTypes, ConsFacts
<1> HIDE DEF list
<1>6. /\ todo' \in [Actors -> Seq(Stmts)] /\ todo'[a] = list
      /\ \A b \in Actors : b # a => todo'[b] = todo[b]
  BY <1>1, <1>4, <1>5, ListEnded DEF DequeueFront
<1>7. /\ pq \in Seq(Threads) /\ prio \in [Threads -> Nat]
      /\ n # NULL /\ n = FrontThread(pq, state)
  BY <1>1, <1>2, <1>4, NullAssumption, StepsAssumption DEF TypeOK, Priorities, Foremost
<1>8. /\ pq' \in Seq(Threads) /\ Injective(pq') /\ Sorted(pq', prio)
      /\ \A u : InQueue(pq', u) <=> InQueue(pq, u) /\ u # n
  BY <1>1, <1>3, <1>7, DequeueMembers DEF QueueOK
<1>9. Queued' = Queued \ {n} /\ n \in Queued /\ state[n] # "WAITING"
  BY <1>7, <1>8, FrontThreadRange DEF Queued
<1>10. /\ state' \in [Threads -> {"NEW", "READY", "RUNNING", "WAITING", "TERMINATED"}]
       /\ state'[n] = "RUNNING" /\ \A t \in Threads : t # n => state'[t] = state[t]
  BY <1>1, <1>2, <1>3 DEF TypeOK
<1>11. TypeOK' /\ ~crashed'
  BY <1>1, <1>6, <1>8, <1>10 DEF StepsInv, TypeOK, Stmts
<1>12. state[n] \in {"READY", "WAITING"} /\ n \in ToSet(threads)
  BY <1>1, <1>4, <1>9 DEF QueueOK, Alive
<1>13. Alive' = Alive
  BY <1>1, <1>10, <1>12, AliveKept
<1>14. Chosen' = {n} /\ Back(a)' = Back(a)
  BY <1>2, <1>4, <1>10, <1>13 DEF Chosen, Back
<1>15. QueueOK'
  <2>1. \A t \in Queued' : state'[t] \in {"READY", "WAITING"}
    BY <1>1, <1>9, <1>10 DEF QueueOK, Queued
  <2>2. \A t \in Threads : t \notin ToSet(threads') => state'[t] = "NEW"
    BY <1>1, <1>10, <1>12 DEF QueueOK
  <2> QED BY <1>1, <1>8, <2>1, <2>2 DEF QueueOK
<1>16. Dominates(n)'
  <2>1. ASSUME NEW u \in Queued', state'[u] # "WAITING"
        PROVE  prio'[u] <= prio'[n]
    <3>1. InQueue(pq, u) /\ state[u] # "WAITING"
      BY <1>9, <1>10, <2>1 DEF Queued
    <3>2. prio[u] <= prio[FrontThread(pq, state)]
      BY <1>1, <1>7, <3>1, FrontThreadHighest DEF QueueOK
    <3> QED BY <1>1, <1>7, <3>2
  <2> QED BY <2>1 DEF Dominates
<1>17. QuantumLeft' /\ Acting(a)'
  BY <1>1, <1>4, <1>6, <1>13, QuantumKept, StillActing DEF StepsInv
<1>18. Posting(a, n)'
  BY <1>1, <1>4, <1>6, <1>9, <1>13, <1>14, <1>16, <1>17 DEF Posting, list
<1> QED BY <1>2, <1>11, <1>15, <1>17, <1>18 DEF StepsInv, OneActs, Switching

(* The one token: from here on its owner may act, and a only waits.         *)
LEMMA PostKeeps ==
    ASSUME StepsInv, NEW a \in Actors, Post(a)
    PROVE  StepsInv'
<1>1. /\ Next1(a, "post") /\ TypeOK /\ OpOf(a) # "expire" /\ QueueOK
      /\ UNCHANGED << quantum, threads, pq, running, state, prio, left, event, crashed >>
  BY DEF Post, StepsInv, Next1, OpOf, fields
<1>2. PICK n \in Threads : n = Captured(a) /\ Posting(a, n)
  BY <1>1, Whereabouts
<1>3. sem' = [sem EXCEPT ![n] = @ + 1]
  BY <1>2 DEF Post
<1>4. /\ Acting(a) /\ running = n /\ n \notin Queued /\ Alive = Queued \cup {n}
      /\ Chosen = {n} /\ Dominates(n)
      /\ todo[a] = Cons(Do("post", n), Back(a))
  BY <1>2 DEF Posting
<1>5. Do("post", n) \in Stmts /\ Back(a) \in Seq(Stmts)
  BY <1>2, DoFacts, ListTypes
<1>6. /\ todo' \in [Actors -> Seq(Stmts)] /\ todo'[a] = Back(a)
      /\ \A b \in Actors : b # a => todo'[b] = todo[b]
  BY <1>1, <1>4, <1>5, ListEnded DEF Post
<1>7. /\ sem' \in [Threads -> Nat] /\ sem'[n] = 1 /\ Holders' = {n}
  <2>1. sem \in [Threads -> Nat] /\ \A t \in Threads : sem[t] = 0
    BY <1>1, <1>4 DEF TypeOK, Acting, Holders
  <2>2. /\ sem' \in [Threads -> Nat] /\ sem'[n] = 1
        /\ \A t \in Threads : t # n => sem'[t] = 0
    BY <1>2, <1>3, <2>1
  <2> QED BY <1>2, <2>2 DEF Holders
<1>8. TypeOK' /\ ~crashed'
  BY <1>1, <1>6, <1>7 DEF StepsInv, TypeOK, Stmts
<1>9. Alive' = Alive /\ Chosen' = Chosen
  BY <1>1 DEF Alive, Chosen
<1>10. QueueOK' /\ Queued' = Queued
  BY <1>1 DEF QueueOK, Queued
<1>11. QuantumLeft'
  BY <1>1, <1>6, <1>9, QuantumKept DEF StepsInv
<1>12. AllRest'
  <2>1. OthersRest(a)'
    BY <1>1, <1>4, <1>6, <1>9, OthersStillRest DEF Acting
  <2>2. Rests(a)'
    BY <1>6, <1>9 DEF Rests, Back
  <2> QED BY <2>1, <2>2 DEF AllRest, OthersRest
<1>13. Posted(n)'
  <2>1. Dominates(n)'
    BY <1>1, <1>4, <1>10 DEF Dominates
  <2> QED BY <1>1, <1>4, <1>7, <1>9, <1>10, <1>12, <2>1 DEF Posted
<1> QED BY <1>2, <1>8, <1>10, <1>11, <1>13 DEF StepsInv, OneActs

(* schedule_thread() up to its check: the thread is in the queue, and what  *)
(* is on the processor stays there.                                         *)
LEMMA ScheduleKeeps ==
    ASSUME StepsInv, NEW a \in Actors, Schedule(a)
    PROVE  StepsInv'
<1>1. /\ Next1(a, "schedule") /\ TypeOK /\ OpOf(a) # "expire" /\ QueueOK
      /\ UNCHANGED << quantum, threads, running, prio, left, event, sem, crashed >>
  BY DEF Schedule, StepsInv, Next1, OpOf, fields
<1>2. PICK u \in Threads : /\ u = Captured(a)
                           /\ (a \in Threads /\ Forking(a, u)) \/ Queueing(a, u)
  BY <1>1, Whereabouts
<1>3. /\ pq' = Enqueue(pq, prio, u)
      /\ state' = IF state[u] = "WAITING" THEN state
                  ELSE [state EXCEPT ![u] = "READY"]
  BY <1>2 DEF Schedule
<1>4. Acting(a) /\ u \in Alive /\ u \notin Queued
  BY <1>2 DEF Forking, Queueing, OnProcessor
<1>5. pq \in Seq(Threads) /\ prio \in [Threads -> Nat]
  BY <1>1, StepsAssumption DEF TypeOK, Priorities
<1>6. /\ pq' \in Seq(Threads) /\ Injective(pq') /\ Sorted(pq', prio)
      /\ Queued' = Queued \cup {u}
  <2>1. /\ pq' \in Seq(Threads) /\ Injective(pq')
        /\ \A v : InQueue(pq', v) <=> InQueue(pq, v) \/ v = u
    BY <1>1, <1>3, <1>4, <1>5, EnqueueMembers DEF QueueOK, Queued
  <2>2. Sorted(pq', prio)
    BY <1>1, <1>3, <1>5, EnqueueSorted DEF QueueOK
  <2> QED BY <2>1, <2>2 DEF Queued
<1>7. /\ state' \in [Threads -> {"NEW", "READY", "RUNNING", "WAITING", "TERMINATED"}]
      /\ state'[u] \in {"READY", "WAITING"} /\ state[u] # "TERMINATED"
      /\ u \in ToSet(threads)
      /\ \A t \in Threads : t # u => state'[t] = state[t]
  BY <1>1, <1>3, <1>4 DEF TypeOK, Alive
<1>8. Alive' = Alive /\ Back(a)' = Back(a)
  <2>1. Alive' = Alive
    BY <1>1, <1>7, AliveKept
  <2> QED BY <2>1 DEF Back
<1>9. QueueOK' /\ Chosen' = Chosen \ {u}
  <2>1. \A t \in Queued' : state'[t] \in {"READY", "WAITING"}
    BY <1>1, <1>6, <1>7 DEF QueueOK, Queued
  <2>2. \A t \in Threads : t \notin ToSet(threads') => state'[t] = "NEW"
    BY <1>1, <1>7 DEF QueueOK
  <2>3. Chosen' = Chosen \ {u}
    BY <1>7 DEF Chosen
  <2> QED BY <1>1, <1>6, <2>1, <2>2, <2>3 DEF QueueOK
<1>10. ASSUME NEW s \in Seq(Stmts), todo[a] = Cons(Do("schedule", u), s)
       PROVE  /\ todo'[a] = s /\ TypeOK' /\ ~crashed' /\ QuantumLeft' /\ Acting(a)'
  <2>1. Do("schedule", u) \in Stmts
    BY DoFacts
  <2>2. /\ todo' \in [Actors -> Seq(Stmts)] /\ todo'[a] = s
        /\ \A b \in Actors : b # a => todo'[b] = todo[b]
    BY <1>1, <1>10, <2>1, ListEnded DEF Schedule
  <2>3. TypeOK' /\ ~crashed'
    BY <1>1, <1>6, <1>7, <2>2 DEF StepsInv, TypeOK, Stmts
  <2>4. QuantumLeft' /\ Acting(a)'
    BY <1>1, <1>4, <1>8, <2>2, QuantumKept, StillActing DEF StepsInv
  <2> QED BY <2>2, <2>3, <2>4
<1>11. CASE a \in Threads /\ Forking(a, u)
  <2>1. /\ OnProcessor(a) /\ u # a /\ Alive = Queued \cup {a, u}
        /\ Dominates(a) /\ prio[u] <= prio[a]
        /\ todo[a] = Cons(Do("schedule", u), Cons(Check, Handling(a)))
    BY <1>11 DEF Forking
  <2>2. Cons(Check, Handling(a)) \in Seq(Stmts)
    BY <1>11, CheckFacts, ListTypes, ConsFacts
  <2>3. /\ todo'[a] = Cons(Check, Handling(a))
        /\ TypeOK' /\ ~crashed' /\ QuantumLeft' /\ Acting(a)'
    BY <1>10, <2>1, <2>2
  <2>4. OnProcessor(a)'
    BY <1>1, <1>6, <1>8, <1>9, <2>1, <2>3 DEF OnProcessor
  <2>5. Dominates(a)'
    <3>1. ASSUME NEW v \in Queued', state'[v] # "WAITING"
          PROVE  prio'[v] <= prio'[a]
      BY <1>1, <1>6, <1>7, <2>1, <3>1 DEF Dominates, Queued
    <3> QED BY <3>1 DEF Dominates
  <2>6. Serving(a, Cons(Check, Handling(a)))'
    BY <1>6, <1>8, <2>1, <2>3, <2>4, <2>5 DEF Serving
  <2>7. Processing(a)'
    BY <2>6 DEF Processing, InHandler, Check
  <2> QED BY <1>9, <1>11, <2>3, <2>7 DEF StepsInv, OneActs
<1>12. CASE Queueing(a, u)
  <2>1. /\ running = NULL /\ Alive = Queued \cup {u} /\ Chosen \subseteq {u}
        /\ todo[a] = Cons(Do("schedule", u), Cons(Check, Back(a)))
    BY <1>12 DEF Queueing
  <2>2. Cons(Check, Back(a)) \in Seq(Stmts)
    BY CheckFacts, ListTypes, ConsFacts
  <2>3. /\ todo'[a] = Cons(Check, Back(a))
        /\ TypeOK' /\ ~crashed' /\ QuantumLeft' /\ Acting(a)'
    BY <1>10, <2>1, <2>2
  <2>4. Picking(a)'
    BY <1>1, <1>6, <1>8, <1>9, <2>1, <2>3 DEF Picking
  <2> QED BY <1>9, <2>3, <2>4 DEF StepsInv, OneActs, Switching
<1> QED BY <1>2, <1>11, <1>12

-----------------------------------------------------------------------------
(* so_exec()                                                               *)

(* A unit of an unsigned quantum that is not used up.                       *)
LEMMA UnitLess ==
    ASSUME NEW q \in 1 .. MaxQuantum
    PROVE  (q + Width - 1) % Width = q - 1
<1>1. /\ Width \in Nat \ {0} /\ q - 1 \in 0 .. Width - 1 /\ MaxQuantum \in Nat
      /\ q + Width - 1 = Width * 1 + (q - 1)
  BY StepsAssumption
<1> DEFINE r == q - 1
<1> HIDE DEF r
<1>2. r \in 0 .. Width - 1 /\ q + Width - 1 = Width + r
  BY <1>1 DEF r
<1>3. (Width + r) % Width = r
  BY <1>1, <1>2, SMT
<1> QED BY <1>2, <1>3 DEF r

LEMMA ExecKeeps ==
    ASSUME StepsInv, NEW a \in Actors, Exec(a)
    PROVE  StepsInv'
<1>1. /\ Next1(a, "exec") /\ TypeOK /\ QueueOK /\ QuantumLeft
      /\ UNCHANGED << quantum, threads, pq, running, prio, state, event, sem, crashed >>
  BY DEF Exec, StepsInv
<1>2. /\ a \in Threads /\ Serving(a, Cons(Do("exec", NULL), Handling(a)))
      /\ OpOf(a) = "exec"
  BY <1>1, Whereabouts DEF Next1, OpOf
<1>3. /\ OnProcessor(a) /\ Acting(a) /\ running = a /\ running # NULL
      /\ Alive = Queued \cup {a} /\ a \in Alive
      /\ todo[a] = Cons(Do("exec", NULL), Handling(a))
  BY <1>2, NullAssumption DEF Serving, OnProcessor
<1> DEFINE list == Cons(Do("expire", NULL), Handling(a))
<1>4. /\ Do("exec", NULL) \in Stmts /\ Handling(a) \in Seq(Stmts) /\ list \in Seq(Stmts)
      /\ << Do("expire", NULL) >> \o Handling(a) = list
  <2>1. Do("exec", NULL) \in Stmts /\ Do("expire", NULL) \in Stmts
    BY DoFacts
  <2>2. Handling(a) \in Seq(Stmts)
    BY <1>2, ListTypes
  <2> QED BY <2>1, <2>2, ConsFacts
<1>5. left[a] \in 1 .. MaxQuantum /\ left \in [Threads -> 0 .. MaxQuantum]
  <2>1. left[a] # 0
    <3>1. "expire" \in Statements /\ NULL \in Threads \cup {NULL}
      BY DoFacts
    <3>2. Head(list).op = "expire"
      BY <1>4, <3>1, FirstStatement
    <3>3. todo[a] # list
      BY <1>2, <3>2 DEF OpOf
    <3> QED BY <1>1, <1>3, <3>3 DEF QuantumLeft
  <2> QED BY <1>1, <1>2, <2>1, StepsAssumption DEF TypeOK
<1> HIDE DEF list
<1>6. /\ left' = [left EXCEPT ![a] = (@ + Width - 1) % Width]
      /\ Goes(a, << Do("expire", NULL) >>)
  BY <1>3 DEF Exec
<1>7. /\ left' \in [Threads -> 0 .. MaxQuantum]
      /\ \A t \in Threads : t # a => left'[t] = left[t]
  <2>1. (left[a] + Width - 1) % Width = left[a] - 1
    BY <1>5, UnitLess
  <2>2. left[a] - 1 \in 0 .. MaxQuantum
    BY <1>5, StepsAssumption
  <2> QED BY <1>5, <1>6, <2>1, <2>2
<1>8. /\ todo' \in [Actors -> Seq(Stmts)] /\ todo'[a] = list
      /\ \A b \in Actors : b # a => todo'[b] = todo[b]
  <2>1. a \in Actors /\ TypeOK
    BY <1>1
  <2> QED BY <1>3, <1>4, <1>6, <2>1, ListAfter
<1>9. TypeOK' /\ ~crashed'
  BY <1>1, <1>7, <1>8 DEF StepsInv, TypeOK, Stmts
<1>10. Alive' = Alive /\ Chosen' = Chosen
  BY <1>1 DEF Alive, Chosen
<1>11. QueueOK' /\ Queued' = Queued
  BY <1>1 DEF QueueOK, Queued
<1>12. QuantumLeft'
  <2>1. ASSUME NEW t \in Alive', left'[t] = 0
        PROVE  todo'[t] = Cons(Do("expire", NULL), Handling(t))
    <3>1. t \in Alive /\ t \in Threads
      BY <1>1, <1>10, AliveFacts
    <3>2. CASE t = a
      BY <1>8, <3>2 DEF list
    <3>3. CASE t # a
      BY <1>1, <1>7, <1>8, <2>1, <3>1, <3>3 DEF QuantumLeft, Actors
    <3> QED BY <3>2, <3>3
  <2> QED BY <2>1 DEF QuantumLeft
<1>13. Acting(a)'
  BY <1>1, <1>3, <1>8, <1>10, StillActing
<1>14. Serving(a, list)'
  <2>1. OnProcessor(a)'
    BY <1>1, <1>3, <1>10, <1>11, <1>13 DEF OnProcessor
  <2>2. Dominates(a)'
    BY <1>1, <1>2, <1>11 DEF Serving, Dominates
  <2> QED BY <1>3, <1>8, <1>10, <1>11, <2>1, <2>2 DEF Serving, list
<1>15. Processing(a)'
  BY <1>14 DEF Processing, InHandler, list
<1> QED BY <1>2, <1>9, <1>11, <1>12, <1>15 DEF StepsInv, OneActs

-----------------------------------------------------------------------------
(* Giving up the processor                                                 *)

(* The list of an actor that is to queue thread t and to pick the next.      *)
LEMMA QueueingList ==
    ASSUME NEW t \in Threads, NEW s \in Seq(Stmts)
    PROVE  /\ Cons(Do("schedule", t), Cons(Check, s)) \in Seq(Stmts)
           /\ << Do("schedule", t), Check >> \o s = Cons(Do("schedule", t), Cons(Check, s))
<1> DEFINE x == Do("schedule", t)
<1>1. x \in Stmts /\ Check \in Stmts
  BY DoFacts, CheckFacts
<1> HIDE DEF x
<1>2. Cons(Check, s) \in Seq(Stmts)
  BY <1>1, ConsFacts
<1>3. Cons(x, Cons(Check, s)) \in Seq(Stmts)
  BY <1>1, <1>2, ConsFacts
<1>4. << x, Check >> \o s = Cons(x, Cons(Check, s))
  BY <1>1, TwoBefore
<1> QED BY <1>3, <1>4 DEF x

LEMMA GivingUpList ==
    ASSUME NEW a \in Threads
    PROVE  /\ Cons(Do("schedule", a), Cons(Check, Parked(a))) \in Seq(Stmts)
           /\ GivingUp(a) \o Handling(a) = Cons(Do("schedule", a), Cons(Check, Parked(a)))
<1> DEFINE y == Do("schedule", a)
           z == Do("sem_wait", a)
           s == Handling(a)
<1>1. y \in Stmts /\ z \in Stmts /\ Check \in Stmts
  BY DoFacts, CheckFacts
<1>2. s \in Seq(Stmts) /\ Parked(a) = Cons(z, s) /\ Parked(a) \in Seq(Stmts)
  BY ListTypes DEF Parked
<1>3. GivingUp(a) = << y, Check, z >>
  BY DEF GivingUp, Check
<1>4. Cons(y, Cons(Check, Parked(a))) \in Seq(Stmts)
  BY <1>2, QueueingList
<1> HIDE DEF y, z, s
<1>5. << y, Check, z >> \o s = Cons(y, Cons(Check, Cons(z, s)))
  BY <1>1, <1>2, ThreeBefore
<1> QED BY <1>2, <1>3, <1>4, <1>5 DEF y, s

LEMMA GivingUpListAfter ==
    ASSUME TypeOK, NEW a \in Threads, NEW x \in Stmts,
           todo[a] = Cons(x, Handling(a)), Goes(a, GivingUp(a))
    PROVE  /\ todo' \in [Actors -> Seq(Stmts)]
           /\ todo'[a] = Cons(Do("schedule", a), Cons(Check, Parked(a)))
           /\ \A b \in Actors : b # a => todo'[b] = todo[b]
<1> DEFINE s == Handling(a)
           list == Cons(Do("schedule", a), Cons(Check, Parked(a)))
           more == GivingUp(a)
<1>1. a \in Actors /\ s \in Seq(Stmts)
  BY ListTypes DEF Actors
<1>2. list \in Seq(Stmts) /\ more \o s = list
  BY GivingUpList
<1> HIDE DEF s, list, more
<1>3. todo[a] = Cons(x, s) /\ Goes(a, more)
  BY DEF s, more
<1>4. /\ todo' \in [Actors -> Seq(Stmts)] /\ todo'[a] = list
      /\ \A b \in Actors : b # a => todo'[b] = todo[b]
  BY <1>1, <1>2, <1>3, ListAfter
<1> QED BY <1>4 DEF list

(* What the ends of so_exec(), so_wait() and so_signal() have in common.     *)
LEMMA GivingUpKeeps ==
    ASSUME StepsInv, NEW a \in Threads, NEW x \in Stmts,
           OnProcessor(a), Alive = Queued \cup {a}, todo[a] = Cons(x, Handling(a)),
           Goes(a, GivingUp(a)), running' = NULL,
           UNCHANGED << quantum, threads, pq, prio, sem, crashed >>,
           left' \in [Threads -> 0 .. MaxQuantum], left'[a] # 0,
           event' \in [Threads -> {Device, NoEvent}],
           state' \in [Threads -> {"NEW", "READY", "RUNNING", "WAITING", "TERMINATED"}],
           state'[a] # "TERMINATED",
           \A t \in Threads : t # a => left'[t] = left[t] /\ state'[t] = state[t]
    PROVE  StepsInv'
<1> DEFINE list == Cons(Do("schedule", a), Cons(Check, Parked(a)))
<1>1. /\ a \in Actors /\ TypeOK /\ QueueOK /\ QuantumLeft
      /\ Acting(a) /\ a \notin Queued /\ a \in Alive /\ Chosen = {a} /\ a # Main
      /\ a \in ToSet(threads) /\ state[a] # "TERMINATED"
  BY StepsAssumption DEF Actors, StepsInv, OnProcessor, Alive
<1>2. list \in Seq(Stmts)
  BY GivingUpList
<1>3. /\ todo' \in [Actors -> Seq(Stmts)] /\ todo'[a] = list
      /\ \A b \in Actors : b # a => todo'[b] = todo[b]
  BY <1>1, GivingUpListAfter
<1> HIDE DEF list
<1>4. TypeOK' /\ ~crashed'
  BY <1>1, <1>3 DEF StepsInv, TypeOK, Stmts
<1>5. Alive' = Alive
  BY <1>1, AliveKept
<1>6. Chosen' \subseteq {a}
  BY <1>1 DEF Chosen
<1>7. QueueOK' /\ Queued' = Queued
  <2>1. Queued' = Queued
    BY DEF Queued
  <2>2. \A t \in Queued' : state'[t] \in {"READY", "WAITING"}
    BY <1>1, <2>1 DEF QueueOK, Queued
  <2>3. \A t \in Threads : t \notin ToSet(threads') => state'[t] = "NEW"
    BY <1>1 DEF QueueOK
  <2> QED BY <1>1, <2>1, <2>2, <2>3 DEF QueueOK
<1>8. QuantumLeft'
  <2>1. ASSUME NEW t \in Alive', left'[t] = 0
        PROVE  todo'[t] = Cons(Do("expire", NULL), Handling(t))
    <3>1. t \in Alive /\ t \in Threads /\ t # a
      BY <1>1, <1>5, <2>1, AliveFacts
    <3> QED BY <1>1, <1>3, <2>1, <3>1 DEF QuantumLeft, Actors
  <2> QED BY <2>1 DEF QuantumLeft
<1>9. Acting(a)'
  BY <1>1, <1>3, <1>5, StillActing
<1>10. Back(a)' = Parked(a)
  BY <1>1, <1>5 DEF Back
<1>11. Queueing(a, a)'
  BY <1>1, <1>3, <1>5, <1>6, <1>7, <1>9, <1>10 DEF Queueing, list
<1>12. Switching(a)'
  BY <1>11 DEF Switching
<1> QED BY <1>1, <1>4, <1>7, <1>8, <1>12 DEF StepsInv, OneActs

(* The thread of a call that is not so_exec() has a unit left.              *)
LEMMA UnitsLeft ==
    ASSUME StepsInv, NEW a \in Threads, a \in Alive, OpOf(a) # "expire"
    PROVE  left[a] # 0
<1>1. "expire" \in Statements /\ NULL \in Threads \cup {NULL} /\ Handling(a) \in Seq(Stmts)
  BY DoFacts, ListTypes
<1>2. Head(Cons(Do("expire", NULL), Handling(a))).op = "expire"
  BY <1>1, FirstStatement
<1>3. todo[a] # Cons(Do("expire", NULL), Handling(a))
  BY <1>2 DEF OpOf
<1> QED BY <1>3 DEF StepsInv, QuantumLeft

(* Lines 162-170: the thread has a unit left, or its quantum is renewed and *)
(* it goes back to the queue.                                               *)
LEMMA ExpireKeeps ==
    ASSUME StepsInv, NEW a \in Actors, Expire(a)
    PROVE  StepsInv'
<1>1. Next1(a, "expire") /\ TypeOK /\ QueueOK /\ QuantumLeft
  BY DEF Expire, StepsInv
<1>2. a \in Threads /\ Serving(a, Cons(Do("expire", NULL), Handling(a)))
  BY <1>1, Whereabouts
<1>3. /\ OnProcessor(a) /\ Acting(a) /\ running = a /\ running # NULL
      /\ Alive = Queued \cup {a} /\ a \in Alive
      /\ todo[a] = Cons(Do("expire", NULL), Handling(a))
  BY <1>2, NullAssumption DEF Serving, OnProcessor
<1>4. Do("expire", NULL) \in Stmts /\ Handling(a) \in Seq(Stmts)
  BY <1>2, DoFacts, ListTypes
<1>5. /\ UNCHANGED << quantum, threads, pq, prio, event, sem, crashed >>
      /\ IF left[a] # 0
         THEN Ends(a) /\ UNCHANGED << left, state, running >>
         ELSE /\ left' = [left EXCEPT ![a] = Refilled]
              /\ state' = [state EXCEPT ![a] = "READY"]
              /\ running' = NULL
              /\ Goes(a, GivingUp(a))
  BY <1>3 DEF Expire
<1>6. CASE left[a] # 0
  <2>0. Ends(a) /\ UNCHANGED << left, state, running >>
    BY <1>5, <1>6
  <2>1. /\ todo' \in [Actors -> Seq(Stmts)] /\ todo'[a] = Handling(a)
        /\ \A b \in Actors : b # a => todo'[b] = todo[b]
    BY <1>1, <1>3, <1>4, <2>0, ListEnded
  <2>2. TypeOK' /\ ~crashed'
    BY <1>1, <1>5, <2>0, <2>1 DEF StepsInv, TypeOK, Stmts
  <2>3. Alive' = Alive /\ Chosen' = Chosen
    BY <1>5, <2>0 DEF Alive, Chosen
  <2>4. QueueOK' /\ Queued' = Queued
    BY <1>1, <1>5, <2>0 DEF QueueOK, Queued
  <2>5. QuantumLeft'
    <3>1. ASSUME NEW t \in Alive', left'[t] = 0
          PROVE  todo'[t] = Cons(Do("expire", NULL), Handling(t))
      <4>1. t \in Alive /\ t \in Threads /\ t # a
        BY <1>1, <1>6, <2>0, <2>3, <3>1, AliveFacts
      <4> QED BY <1>1, <2>0, <2>1, <3>1, <4>1 DEF QuantumLeft, Actors
    <3> QED BY <3>1 DEF QuantumLeft
  <2>6. Acting(a)'
    BY <1>3, <1>5, <2>1, <2>3, StillActing
  <2>7. Serving(a, Handling(a))'
    <3>1. OnProcessor(a)'
      BY <1>3, <2>0, <2>3, <2>4, <2>6 DEF OnProcessor
    <3>2. Dominates(a)'
      BY <1>2, <1>5, <2>0, <2>4 DEF Serving, Dominates
    <3> QED BY <1>3, <2>1, <2>3, <2>4, <3>1, <3>2 DEF Serving
  <2> QED BY <1>2, <2>2, <2>4, <2>5, <2>7 DEF StepsInv, OneActs, Processing
<1>7. CASE left[a] = 0
  <2>1. /\ left' = [left EXCEPT ![a] = quantum] /\ running' = NULL
        /\ state' = [state EXCEPT ![a] = "READY"] /\ Goes(a, GivingUp(a))
    BY <1>5, <1>7 DEF Refilled
  <2>2. /\ left' \in [Threads -> 0 .. MaxQuantum] /\ left'[a] # 0
        /\ event' \in [Threads -> {Device, NoEvent}]
        /\ state' \in [Threads -> {"NEW", "READY", "RUNNING", "WAITING", "TERMINATED"}]
        /\ state'[a] # "TERMINATED"
        /\ \A t \in Threads : t # a => left'[t] = left[t] /\ state'[t] = state[t]
    BY <1>1, <1>2, <1>5, <2>1, StepsAssumption DEF TypeOK
  <2> QED BY <1>2, <1>3, <1>4, <1>5, <2>1, <2>2, GivingUpKeeps
<1> QED BY <1>6, <1>7

(* Lines 116-125.                                                           *)
LEMMA MarkWaitingKeeps ==
    ASSUME StepsInv, NEW a \in Threads, MarkWaiting(a)
    PROVE  StepsInv'
<1>1. Next1(a, "mark") /\ TypeOK /\ a \in Actors /\ OpOf(a) # "expire"
  BY DEF MarkWaiting, StepsInv, Actors, Next1, OpOf
<1>2. Serving(a, Cons(Do("mark", NULL), Handling(a)))
  BY <1>1, Whereabouts
<1>3. /\ OnProcessor(a) /\ running = a /\ running # NULL
      /\ Alive = Queued \cup {a} /\ a \in Alive
      /\ todo[a] = Cons(Do("mark", NULL), Handling(a))
  BY <1>2, NullAssumption DEF Serving, OnProcessor
<1>4. Do("mark", NULL) \in Stmts /\ left[a] # 0
  BY <1>1, <1>3, DoFacts, UnitsLeft
<1>5. /\ UNCHANGED << quantum, threads, pq, prio, left, sem, crashed >>
      /\ state' = [state EXCEPT ![a] = "WAITING"]
      /\ event' = [event EXCEPT ![a] = Device]
      /\ running' = NULL /\ Goes(a, GivingUp(a))
  BY <1>3 DEF MarkWaiting
<1>6. /\ left' \in [Threads -> 0 .. MaxQuantum] /\ left'[a] # 0
      /\ event' \in [Threads -> {Device, NoEvent}]
      /\ state' \in [Threads -> {"NEW", "READY", "RUNNING", "WAITING", "TERMINATED"}]
      /\ state'[a] # "TERMINATED"
      /\ \A t \in Threads : t # a => left'[t] = left[t] /\ state'[t] = state[t]
  BY <1>1, <1>4, <1>5 DEF TypeOK
<1> QED BY <1>3, <1>4, <1>5, <1>6, GivingUpKeeps

(* Lines 144-150.                                                           *)
LEMMA ReleaseRunningKeeps ==
    ASSUME StepsInv, NEW a \in Threads, ReleaseRunning(a)
    PROVE  StepsInv'
<1>1. Next1(a, "release") /\ TypeOK /\ a \in Actors /\ OpOf(a) # "expire"
  BY DEF ReleaseRunning, StepsInv, Actors, Next1, OpOf
<1>2. Signalling(a)
  BY <1>1, Whereabouts
<1>3. /\ OnProcessor(a) /\ running = a /\ running # NULL
      /\ Alive = Queued \cup {a} /\ a \in Alive
      /\ todo[a] = Cons(Do("release", NULL), Handling(a))
  BY <1>2, NullAssumption DEF Signalling, OnProcessor
<1>4. Do("release", NULL) \in Stmts /\ left[a] # 0
  BY <1>1, <1>3, DoFacts, UnitsLeft
<1>5. /\ UNCHANGED << quantum, threads, pq, prio, left, event, state, sem, crashed >>
      /\ running' = NULL /\ Goes(a, GivingUp(a))
  BY <1>3 DEF ReleaseRunning, fields
<1>6. /\ left' \in [Threads -> 0 .. MaxQuantum] /\ left'[a] # 0
      /\ event' \in [Threads -> {Device, NoEvent}]
      /\ state' \in [Threads -> {"NEW", "READY", "RUNNING", "WAITING", "TERMINATED"}]
      /\ state'[a] # "TERMINATED"
      /\ \A t \in Threads : t # a => left'[t] = left[t] /\ state'[t] = state[t]
  BY <1>1, <1>3, <1>4, <1>5 DEF TypeOK, Alive
<1> QED BY <1>3, <1>4, <1>5, <1>6, GivingUpKeeps

(* Lines 41-43: the thread is out of the scheduler before its last check.   *)
LEMMA TerminateKeeps ==
    ASSUME StepsInv, NEW a \in Threads, Terminate(a)
    PROVE  StepsInv'
<1>1. /\ Next1(a, "terminate") /\ TypeOK /\ QueueOK /\ QuantumLeft
      /\ a \in Actors /\ OpOf(a) # "expire"
  BY DEF Terminate, StepsInv, Actors, Next1, OpOf
<1>2. Serving(a, Finish(a)) /\ Captured(a) = a /\ a # Main
  BY <1>1, Whereabouts, StepsAssumption
<1>3. /\ Acting(a) /\ running = a /\ Alive = Queued \cup {a} /\ a \notin Queued
      /\ Chosen = {a} /\ a \in ToSet(threads)
      /\ todo[a] = Cons(Do("terminate", a), Cons(Check, << >>))
  BY <1>2 DEF Serving, OnProcessor, Finish, Alive
<1>4. Do("terminate", a) \in Stmts /\ Cons(Check, << >>) \in Seq(Stmts)
  BY DoFacts, CheckFacts, ListTypes, ConsFacts
<1>5. /\ todo' \in [Actors -> Seq(Stmts)] /\ todo'[a] = Cons(Check, << >>)
      /\ \A b \in Actors : b # a => todo'[b] = todo[b]
  BY <1>1, <1>3, <1>4, ListEnded DEF Terminate
<1>6. /\ UNCHANGED << quantum, threads, pq, prio, left, event, sem, crashed >>
      /\ running' = NULL
      /\ state' \in [Threads -> {"NEW", "READY", "RUNNING", "WAITING", "TERMINATED"}]
      /\ state'[a] = "TERMINATED" /\ \A t \in Threads : t # a => state'[t] = state[t]
  BY <1>1, <1>2 DEF Terminate, fields, TypeOK
<1>7. TypeOK' /\ ~crashed'
  BY <1>1, <1>5, <1>6 DEF StepsInv, TypeOK, Stmts
<1>8. Queued' = Queued /\ Alive' = Queued /\ Chosen' = {}
  <2>1. Queued' = Queued
    BY <1>6 DEF Queued
  <2>2. Alive' = Alive \ {a}
    BY <1>1, <1>6, AliveFacts DEF Alive
  <2>3. Chosen' = Chosen \ {a}
    BY <1>6 DEF Chosen
  <2> QED BY <1>3, <2>1, <2>2, <2>3
<1>9. QueueOK'
  <2>1. \A t \in Queued' : state'[t] \in {"READY", "WAITING"}
    BY <1>1, <1>3, <1>6, <1>8 DEF QueueOK, Queued
  <2>2. \A t \in Threads : t \notin ToSet(threads') => state'[t] = "NEW"
    BY <1>1, <1>3, <1>6 DEF QueueOK
  <2> QED BY <1>1, <1>6, <2>1, <2>2 DEF QueueOK
<1>10. QuantumLeft' /\ Acting(a)'
  <2>1. \A t \in Threads : t # a => (t \in Alive' <=> t \in Alive)
    BY <1>3, <1>8
  <2>2. Alive' \subseteq Alive
    BY <1>3, <1>8
  <2> QED BY <1>1, <1>3, <1>5, <1>6, <2>1, <2>2, QuantumKept, StillActing
<1>11. Back(a)' = << >>
  BY <1>2, <1>3, <1>8 DEF Back
<1>12. Picking(a)'
  BY <1>5, <1>6, <1>8, <1>10, <1>11 DEF Picking
<1> QED BY <1>1, <1>7, <1>9, <1>10, <1>12 DEF StepsInv, OneActs, Switching

(* Lines 133-142.  Only threads in the queue are woken.                     *)
LEMMA CallSignalKeeps ==
    ASSUME StepsInv, NEW a \in Threads, CallSignal(a)
    PROVE  StepsInv'
<1> DEFINE woken == {t \in ToSet(pq) : event[t] = Device}
<1>1. /\ Next1(a, "handler") /\ TypeOK /\ QueueOK
      /\ a \in Actors /\ OpOf(a) # "expire"
      /\ UNCHANGED << quantum, threads, pq, running, prio, left, sem, crashed >>
  BY DEF CallSignal, StepsInv, Actors, Next1, OpOf
<1>2. Serving(a, Handling(a))
  BY <1>1, Whereabouts
<1>3. /\ OnProcessor(a) /\ Acting(a) /\ running = a /\ a \notin Queued /\ a \in Alive
      /\ Alive = Queued \cup {a} /\ Chosen = {a} /\ todo[a] = Handling(a)
  BY <1>2 DEF Serving, OnProcessor
<1>4. woken \subseteq Queued
  <2>1. pq \in Seq(Threads)
    BY <1>1 DEF TypeOK
  <2>2. DOMAIN pq = 1 .. Len(pq) /\ \A i \in 1 .. Len(pq) : pq[i] \in Threads
    BY <2>1, LenProperties, ElementOfSeq
  <2> QED BY <2>2 DEF ToSet, Queued, InQueue
<1>5. /\ state' = [t \in Threads |-> IF t \in woken THEN "READY" ELSE state[t]]
      /\ event' = [t \in Threads |-> IF t \in woken THEN NoEvent ELSE event[t]]
  BY DEF CallSignal
<1> HIDE DEF woken
<1>6. Do("release", NULL) \in Stmts
  BY DoFacts
<1>7. /\ todo' \in [Actors -> Seq(Stmts)]
      /\ todo'[a] = Cons(Do("release", NULL), Handling(a))
      /\ \A b \in Actors : b # a => todo'[b] = todo[b]
  BY <1>1, <1>3, <1>6, ListCalled DEF CallSignal
<1>8. /\ state' \in [Threads -> {"NEW", "READY", "RUNNING", "WAITING", "TERMINATED"}]
      /\ event' \in [Threads -> {Device, NoEvent}]
      /\ \A t \in Threads : t \notin Queued => state'[t] = state[t]
      /\ \A t \in Threads : t \in Queued => state'[t] \in {"READY", state[t]}
  BY <1>1, <1>4, <1>5 DEF TypeOK
<1>9. TypeOK' /\ ~crashed'
  BY <1>1, <1>7, <1>8 DEF StepsInv, TypeOK, Stmts
<1>10. \A t \in Queued : state[t] \in {"READY", "WAITING"} /\ t \in Threads
  BY <1>1 DEF QueueOK, Queued
<1>11. Alive' = Alive /\ Chosen' = Chosen
  <2>1. Alive' = Alive
    BY <1>1, <1>8, <1>10, AliveKept
  <2>2. Chosen' = Chosen
    BY <1>8, <1>10 DEF Chosen
  <2> QED BY <2>1, <2>2
<1>12. QueueOK' /\ Queued' = Queued
  <2>1. \A t \in Queued : state'[t] \in {"READY", "WAITING"}
    BY <1>8, <1>10
  <2>2. \A t \in Queued : t \in ToSet(threads)
    BY <1>3 DEF Alive
  <2>3. \A t \in Threads : t \notin ToSet(threads) => state'[t] = state[t]
    BY <1>8, <2>2
  <2> QED BY <1>1, <2>1, <2>3, QueueKept
<1>13. QuantumLeft' /\ Acting(a)'
  BY <1>1, <1>3, <1>7, <1>11, QuantumKept, StillActing DEF StepsInv
<1>14. Signalling(a)'
  <2>1. OnProcessor(a)'
    BY <1>1, <1>3, <1>11, <1>12, <1>13 DEF OnProcessor
  <2> QED BY <1>3, <1>7, <1>11, <1>12, <2>1 DEF Signalling
<1> QED BY <1>9, <1>12, <1>13, <1>14 DEF StepsInv, OneActs, Processing

-----------------------------------------------------------------------------
(* so_end() and so_fork()                                                  *)

(* main() enters so_end(), waits there and leaves it while others act, and  *)
(* leaves them as they are.                                                 *)
LEMMA MainMovesOn ==
    ASSUME StepsInv, UNCHANGED others, OpOf(Main) \in {"client", "join"},
           todo' \in [Actors -> Seq(Stmts)], todo'[Main] \in {Joining, << >>},
           \A b \in Actors : b # Main => todo'[b] = todo[b]
    PROVE  StepsInv'
<1>1. /\ TypeOK /\ Main \in Actors /\ OpOf(Main) \in {"client", "join"}
      /\ UNCHANGED others
  BY DEF StepsInv, Actors
<1>4. /\ todo' \in [Actors -> Seq(Stmts)] /\ todo'[Main] \in {Joining, << >>}
      /\ \A b \in Actors : b # Main => todo'[b] = todo[b]
  OBVIOUS
<1>5. /\ TypeOK' /\ ~crashed' /\ QueueOK' /\ QuantumLeft'
      /\ Alive' = Alive /\ Queued' = Queued /\ Chosen' = Chosen
      /\ Holders' = Holders /\ Foremost' = Foremost
      /\ \A t \in Threads : Dominates(t) => Dominates(t)'
  BY <1>1, <1>4, OnlyListMoves
<1>6. ASSUME NEW b \in Actors, Rests(b)
      PROVE  Rests(b)'
  BY <1>1, <1>4, <1>5, <1>6 DEF Rests, Back, others
<1>7. AllRest => AllRest'
  BY <1>6 DEF AllRest
<1>8. \A b : Acting(b) => Acting(b)'
  BY <1>1, <1>5, <1>6 DEF Acting, OthersRest, others
<1>9. ASSUME Nobody
      PROVE  StepsInv'
  BY <1>1, <1>5, <1>7, <1>9 DEF Nobody, StepsInv, OneActs, others
<1>10. ASSUME NEW r \in Threads, Posted(r)
       PROVE  StepsInv'
  <2>1. Posted(r)'
    BY <1>1, <1>5, <1>7, <1>10 DEF Posted, others
  <2> QED BY <1>5, <2>1 DEF StepsInv, OneActs
<1>11. ASSUME NEW a \in Threads, Processing(a)
       PROVE  StepsInv'
  <2>1. OnProcessor(a) => OnProcessor(a)'
    BY <1>1, <1>5, <1>8 DEF OnProcessor, others
  <2>2. a \in Actors /\ a # Main /\ todo'[a] = todo[a]
    BY <1>4, StepsAssumption DEF Actors
  <2>3. \A list : Serving(a, list) => Serving(a, list)'
    BY <1>5, <2>1, <2>2 DEF Serving
  <2>4. Signalling(a) => Signalling(a)'
    BY <1>5, <2>1, <2>2 DEF Signalling
  <2>5. \A u \in Threads : Forking(a, u) => Forking(a, u)'
    BY <1>1, <1>5, <2>1, <2>2 DEF Forking, others
  <2>6. Processing(a)'
    BY <1>11, <2>3, <2>4, <2>5 DEF Processing
  <2> QED BY <1>5, <2>6 DEF StepsInv, OneActs
<1>12. ASSUME NEW a \in Actors, Switching(a)
       PROVE  StepsInv'
  <2>1. a # Main
    <3>1. OpOf(a) \in {"check", "schedule", "run", "dequeue", "post"}
      BY <1>12, SwitchingHead
    <3> QED BY <1>1, <3>1
  <2>2. todo'[a] = todo[a] /\ Back(a)' = Back(a) /\ (Acting(a) => Acting(a)')
    BY <1>4, <1>5, <1>8, <2>1 DEF Back
  <2>3. Picking(a) => Picking(a)'
    BY <1>1, <1>5, <2>2 DEF Picking, others
  <2>4. ASSUME NEW n \in Threads
        PROVE  /\ Queueing(a, n) => Queueing(a, n)'
               /\ Taking(a, n) => Taking(a, n)'
               /\ Removing(a, n) => Removing(a, n)'
               /\ Posting(a, n) => Posting(a, n)'
    BY <1>1, <1>5, <2>2 DEF Queueing, Taking, Removing, Posting, others
  <2>5. Switching(a)'
    BY <1>12, <2>3, <2>4 DEF Switching
  <2> QED BY <1>5, <2>5 DEF StepsInv, OneActs
<1> QED BY <1>9, <1>10, <1>11, <1>12 DEF StepsInv, OneActs

LEMMA SoEndKeeps ==
    ASSUME StepsInv, SoEnd
    PROVE  StepsInv'
<1>1. /\ Next1(Main, "client") /\ TypeOK /\ Main \in Actors /\ OpOf(Main) = "client"
      /\ UNCHANGED others
  BY DEF SoEnd, StepsInv, Actors, Next1, OpOf, fields, others
<1>2. todo[Main] = Cons(Do("client", NULL), Joining)
  BY <1>1, Whereabouts DEF Forks
<1>3. Do("client", NULL) \in Stmts /\ Joining \in Seq(Stmts)
  BY DoFacts, ListTypes
<1>4. /\ todo' \in [Actors -> Seq(Stmts)] /\ todo'[Main] = Joining
      /\ \A b \in Actors : b # Main => todo'[b] = todo[b]
  BY <1>1, <1>2, <1>3, ListEnded DEF SoEnd
<1> QED BY <1>1, <1>4, MainMovesOn

LEMMA JoinAllKeeps ==
    ASSUME StepsInv, JoinAll
    PROVE  StepsInv'
<1>1. /\ Next1(Main, "join") /\ TypeOK /\ Main \in Actors /\ OpOf(Main) = "join"
      /\ UNCHANGED others
  BY DEF JoinAll, StepsInv, Actors, Next1, OpOf, fields, others
<1>2. todo[Main] = Cons(Do("join", NULL), << >>)
  BY <1>1, Whereabouts DEF Joining
<1>3. Do("join", NULL) \in Stmts /\ << >> \in Seq(Stmts)
  BY DoFacts, ListTypes
<1>4. /\ todo' \in [Actors -> Seq(Stmts)] /\ todo'[Main] = << >>
      /\ \A b \in Actors : b # Main => todo'[b] = todo[b]
  BY <1>1, <1>2, <1>3, ListEnded DEF JoinAll
<1> QED BY <1>1, <1>4, MainMovesOn

(* A new pthread is one that waits for its first token.                     *)
LEMMA NewThreadParked ==
    ASSUME NEW t \in Threads
    PROVE  ThreadTask(t) = Parked(t)
<1> DEFINE w == Do("sem_wait", t)
           h == Do("handler", t)
           e == Do("terminate", t)
           c == Check
<1>1. w \in Stmts /\ h \in Stmts /\ e \in Stmts /\ c \in Stmts
  BY DoFacts, CheckFacts
<1>2. ThreadTask(t) = << w, h, e, c >>
  BY DEF ThreadTask, Check
<1>3. Parked(t) = Cons(w, Cons(h, Cons(e, Cons(c, << >>))))
  BY DEF Parked, Handling, Finish
<1> HIDE DEF w, h, e, c
<1>4. << c >> = Cons(c, << >>) /\ << c >> \in Seq(Stmts)
  <2>1. << >> \in Seq(Stmts) /\ << c >> \in Seq(Stmts)
    BY <1>1
  <2> QED BY <1>1, <2>1, ConcatEmptySeq DEF Cons
<1> DEFINE d == << w, h, e >>
           l == << c >>
           f == << w, h, e, c >>
<1>5. /\ d \in Seq(Stmts) /\ Len(d) = 3 /\ d[1] = w /\ d[2] = h /\ d[3] = e
      /\ l \in Seq(Stmts) /\ Len(l) = 1 /\ l[1] = c
      /\ f \in Seq(Stmts) /\ Len(f) = 4
      /\ f[1] = w /\ f[2] = h /\ f[3] = e /\ f[4] = c
  BY <1>1
<1> HIDE DEF d, l, f
<1>6. d \o l = f
  <2>1. /\ Len(d) + Len(l) = 4 /\ Len(d) = 3
        /\ d \in Seq(Stmts) /\ l \in Seq(Stmts)
    BY <1>5
  <2>2. /\ d \o l \in Seq(Stmts) /\ Len(d \o l) = 4
        /\ \A i \in 1 .. 4 : (d \o l)[i] = IF i <= 3 THEN d[i] ELSE l[i - 3]
    <3>1. /\ d \o l \in Seq(Stmts) /\ Len(d \o l) = Len(d) + Len(l)
          /\ \A i \in 1 .. Len(d) + Len(l) :
               (d \o l)[i] = IF i <= Len(d) THEN d[i] ELSE l[i - Len(d)]
      BY <2>1, ConcatProperties
    <3> QED BY <2>1, <3>1
  <2>3. /\ (d \o l)[1] = w /\ (d \o l)[2] = h /\ (d \o l)[3] = e /\ (d \o l)[4] = c
    BY <1>5, <2>2
  <2>4. \A i \in 1 .. Len(f) : i = 1 \/ i = 2 \/ i = 3 \/ i = 4
    BY <1>5
  <2>5. \A i \in 1 .. Len(f) : f[i] = (d \o l)[i]
    BY <1>5, <2>3, <2>4
  <2> QED BY <1>5, <2>2, <2>5, SeqEqual
<1>7. d \o l = Cons(w, Cons(h, Cons(e, l)))
  <2>1. l \in Seq(Stmts)
    BY <1>5
  <2>2. << w, h, e >> \o l = Cons(w, Cons(h, Cons(e, l)))
    BY <1>1, <2>1, ThreeBefore
  <2> QED BY <2>2 DEF d
<1> QED BY <1>2, <1>3, <1>4, <1>6, <1>7 DEF f, l

(* so_fork() up to schedule_thread(), for caller a: a new thread t that     *)
(* waits for a token, and nothing else that matters to the others.          *)
LEMMA CreateKeeps ==
    ASSUME StepsInv, NEW a \in Actors, NEW t \in Unused, NEW p \in Priorities,
           NEW s \in Seq(Stmts), Acting(a) \/ Nobody, OpOf(a) # "expire",
           a # Main => a \in ToSet(threads),
           s = todo[a], CreateThread(a, t, p)
    PROVE  /\ TypeOK' /\ ~crashed' /\ QueueOK' /\ QuantumLeft'
           /\ t \in Threads /\ t # a /\ t \notin Queued
           /\ Alive' = Alive \cup {t} /\ Queued' = Queued /\ Chosen' = Chosen
           /\ prio'[t] = p /\ \A u \in Threads : u # t => prio'[u] = prio[u]
           /\ \A u \in Threads : u # t => state'[u] = state[u]
           /\ todo'[a] = Cons(Do("schedule", t), Cons(Check, s))
           /\ Acting(a)'
<1>1. /\ TypeOK /\ QueueOK /\ QuantumLeft /\ ~crashed
      /\ UNCHANGED << quantum, pq, running, crashed >>
      /\ threads' = Append(threads, t)
      /\ t \in Threads /\ t \notin ToSet(threads)
  BY DEF StepsInv, CreateThread, Unused
<1>2. t # a /\ t # Main /\ t \in Actors
  BY <1>1, StepsAssumption DEF Actors
<1>3. /\ prio' \in [Threads -> Priorities]
      /\ prio'[t] = p /\ \A u \in Threads : u # t => prio'[u] = prio[u]
  BY <1>1 DEF CreateThread, TypeOK
<1>4. /\ state' \in [Threads -> {"NEW", "READY", "RUNNING", "WAITING", "TERMINATED"}]
      /\ state'[t] = "NEW" /\ state[t] = "NEW"
      /\ \A u \in Threads : u # t => state'[u] = state[u]
  BY <1>1 DEF CreateThread, TypeOK, QueueOK
<1>5. /\ left' \in [Threads -> 0 .. MaxQuantum]
      /\ left'[t] # 0 /\ \A u \in Threads : u # t => left'[u] = left[u]
  BY <1>1, StepsAssumption DEF CreateThread, TypeOK
<1>6. /\ event' \in [Threads -> {Device, NoEvent}]
      /\ sem' \in [Threads -> Nat]
      /\ sem'[t] = 0 /\ \A u \in Threads : u # t => sem'[u] = sem[u]
  BY <1>1 DEF CreateThread, TypeOK
<1>7. /\ threads \in Seq(Threads) /\ threads' \in Seq(Threads)
      /\ ToSet(threads') = ToSet(threads) \cup {t}
  <2>1. threads \in Seq(Threads)
    BY <1>1 DEF TypeOK
  <2>2. /\ threads' \in Seq(Threads) /\ Len(threads') = Len(threads) + 1
        /\ \A i \in 1 .. Len(threads) : threads'[i] = threads[i]
        /\ threads'[Len(threads) + 1] = t
    BY <1>1, <2>1, AppendProperties
  <2>3. /\ Len(threads) \in Nat
        /\ DOMAIN threads = 1 .. Len(threads) /\ DOMAIN threads' = 1 .. Len(threads) + 1
    BY <2>1, <2>2, LenProperties
  <2> QED BY <2>1, <2>2, <2>3 DEF ToSet
<1> DEFINE list == Cons(Do("schedule", t), Cons(Check, s))
<1>8. /\ todo' \in [Actors -> Seq(Stmts)] /\ todo'[t] = Parked(t) /\ todo'[a] = list
      /\ \A b \in Actors : b # a /\ b # t => todo'[b] = todo[b]
  <2>1. Do("schedule", t) \in Stmts /\ Check = Do("check", NULL) /\ Check \in Stmts
    BY <1>1, DoFacts, CheckFacts DEF Check
  <2>2. list \in Seq(Stmts) /\ << Do("schedule", t), Check >> \o s = list
    BY <1>1, QueueingList
  <2>3. ThreadTask(t) = Parked(t) /\ Parked(t) \in Seq(Stmts)
    BY <1>1, NewThreadParked, ListTypes
  <2>4. todo \in [Actors -> Seq(Stmts)]
    BY <1>1 DEF TypeOK, Stmts
  <2>5. << Do("schedule", t), Check >> \o todo[a] = list
    BY <2>2
  <2> HIDE DEF list
  <2>6. todo' = [todo EXCEPT ![t] = Parked(t), ![a] = list]
    BY <1>2, <2>1, <2>3, <2>4, <2>5 DEF CreateThread
  <2> QED BY <1>2, <2>2, <2>3, <2>4, <2>6
<1> HIDE DEF list
<1>9. TypeOK' /\ ~crashed'
  BY <1>1, <1>3, <1>4, <1>5, <1>6, <1>7, <1>8 DEF TypeOK, Stmts
<1>10. /\ Alive' = Alive \cup {t} /\ Chosen' = Chosen /\ Queued' = Queued
       /\ t \notin Alive
  <2>1. ToSet(threads) \subseteq Threads
    BY <1>1, AliveFacts
  <2>2. Alive' = Alive \cup {t} /\ t \notin Alive
    BY <1>1, <1>4, <1>7, <2>1 DEF Alive
  <2>3. Chosen' = Chosen
    BY <1>4 DEF Chosen
  <2> QED BY <1>1, <2>2, <2>3 DEF Queued
<1>11. t \notin Queued
  BY <1>1, <1>4 DEF QueueOK
<1>12. QueueOK'
  <2>1. Sorted(pq', prio')
    <3>1. pq \in Seq(Threads) /\ DOMAIN pq = 1 .. Len(pq)
      BY <1>1, LenProperties DEF TypeOK
    <3>2. \A i \in DOMAIN pq : pq[i] \in Threads /\ pq[i] # t
      BY <1>11, <3>1, ElementOfSeq DEF Queued, InQueue
    <3> QED BY <1>1, <1>3, <3>2 DEF QueueOK, Sorted
  <2>2. \A u \in Queued' : state'[u] \in {"READY", "WAITING"}
    BY <1>1, <1>4, <1>10, <1>11 DEF QueueOK, Queued
  <2>3. \A u \in Threads : u \notin ToSet(threads') => state'[u] = "NEW"
    BY <1>1, <1>4, <1>7 DEF QueueOK
  <2> QED BY <1>1, <2>1, <2>2, <2>3 DEF QueueOK
<1>13. QuantumLeft'
  <2>1. ASSUME NEW u \in Alive', left'[u] = 0
        PROVE  todo'[u] = Cons(Do("expire", NULL), Handling(u))
    <3>1. u \in Alive /\ u \in Threads /\ u # t
      BY <1>1, <1>5, <1>10, <2>1, AliveFacts
    <3>2. u # a
      <4>1. left[u] = 0
        BY <1>5, <2>1, <3>1
      <4> QED BY <3>1, <4>1, UnitsLeft
    <3> QED BY <1>1, <1>5, <1>8, <2>1, <3>1, <3>2 DEF QuantumLeft, Actors
  <2> QED BY <2>1 DEF QuantumLeft
<1>14. Holders' = {}
  <2>1. Holders = {}
    BY DEF Acting, Nobody
  <2> QED BY <1>6, <2>1 DEF Holders
<1>15. OthersRest(a)'
  <2>1. ASSUME NEW b \in Actors, b # a
        PROVE  Rests(b)'
    <3>1. Rests(b)
      BY <2>1 DEF Acting, Nobody, AllRest, OthersRest
    <3>2. CASE b = t
      BY <1>1, <1>2, <1>8, <1>10, <3>2 DEF Rests, Back
    <3>3. CASE b = Main
      <4>1. todo'[b] = todo[b]
        BY <1>2, <1>8, <2>1, <3>3
      <4> QED BY <3>1, <3>3, <4>1 DEF Rests
    <3>4. CASE b # t /\ b # Main
      <4>1. todo'[b] = todo[b] /\ (b \in Alive' <=> b \in Alive)
        BY <1>8, <1>10, <2>1, <3>4
      <4> QED BY <3>1, <3>4, <4>1 DEF Rests, Back
    <3> QED BY <3>2, <3>3, <3>4
  <2> QED BY <2>1 DEF OthersRest
<1>16. Acting(a)'
  BY <1>2, <1>7, <1>14, <1>15 DEF Acting, Actors
<1> QED BY <1>2, <1>1, <1>3, <1>4, <1>8, <1>9, <1>10, <1>11, <1>12, <1>13, <1>16 DEF list

(* main() forks while no pthread can go on.                                 *)
LEMMA ForkByMainKeeps ==
    ASSUME StepsInv, ~EagerForks, NEW t \in Threads, NEW p \in Priorities, ForkByMain(t, p)
    PROVE  StepsInv'
<1>1. /\ Next1(Main, "client") /\ TypeOK /\ Main \in Actors /\ OpOf(Main) = "client"
      /\ t \in Unused /\ CreateThread(Main, t, p)
      /\ \A b \in Threads : todo[b] # << >> => OpOf(b) = "sem_wait" /\ sem[Captured(b)] = 0
  BY DEF ForkByMain, StepsInv, Actors, Next1, OpOf, Quiet
<1>2. todo[Main] = Forks
  BY <1>1, Whereabouts
<1>3. Forks \in Seq(Stmts)
  BY ListTypes
<1>5. Nobody
  <2>1. ASSUME NEW b \in Actors, Switching(b)
        PROVE  FALSE
    <3>1. todo[b] # << >> /\ OpOf(b) \in {"check", "schedule", "run", "dequeue", "post"}
      BY <2>1, SwitchingHead
    <3> QED BY <1>1, <3>1 DEF Actors
  <2>2. ASSUME NEW b \in Threads, Processing(b)
        PROVE  FALSE
    <3>1. todo[b] # << >> /\ OpOf(b) # "sem_wait"
      BY <2>2, ProcessingHead DEF InHandler
    <3> QED BY <1>1, <3>1
  <2>3. ASSUME NEW r \in Threads, Posted(r)
        PROVE  FALSE
    <3>1. r \in Actors /\ Rests(r) /\ r \in Alive /\ sem[r] = 1 /\ r # Main
      BY <2>3, StepsAssumption DEF Posted, AllRest, Actors
    <3>2. todo[r] # << >>
      BY <3>1, ListTypes DEF Rests, Back
    <3>3. Captured(r) = r
      BY <3>1, <3>2, RestingHead
    <3> QED BY <1>1, <3>1, <3>2, <3>3
  <2> QED BY <2>1, <2>2, <2>3 DEF StepsInv, OneActs
<1>6. /\ TypeOK' /\ ~crashed' /\ QueueOK' /\ QuantumLeft'
      /\ t \notin Queued
      /\ Alive' = Alive \cup {t} /\ Queued' = Queued /\ Chosen' = Chosen
      /\ todo'[Main] = Cons(Do("schedule", t), Cons(Check, Forks))
      /\ Acting(Main)'
  BY <1>1, <1>2, <1>3, <1>5, CreateKeeps
<1>7. running' = NULL /\ Alive = Queued /\ Chosen = {} /\ Back(Main)' = Forks
  BY <1>1, <1>5 DEF Nobody, CreateThread, Back
<1>8. Queueing(Main, t)'
  BY <1>6, <1>7 DEF Queueing
<1> QED BY <1>1, <1>6, <1>8 DEF StepsInv, OneActs, Switching

(* A handler forks a thread that does not preempt it.                       *)
LEMMA ForkByThreadKeeps ==
    ASSUME StepsInv, ~UpwardForks, NEW a \in Threads, NEW t \in Threads,
           NEW p \in Priorities, ForkByThread(a, t, p)
    PROVE  StepsInv'
<1>1. /\ Next1(a, "handler") /\ TypeOK /\ a \in Actors /\ OpOf(a) # "expire"
      /\ t \in Unused /\ p <= prio[a] /\ CreateThread(a, t, p) /\ a # Main
  BY StepsAssumption DEF ForkByThread, StepsInv, Actors, Next1, OpOf
<1>2. Serving(a, Handling(a))
  BY <1>1, Whereabouts
<1>3. /\ OnProcessor(a) /\ Acting(a) /\ running = a /\ a \notin Queued /\ a \in Alive
      /\ Chosen = {a} /\ Alive = Queued \cup {a} /\ Dominates(a)
      /\ todo[a] = Handling(a) /\ Handling(a) \in Seq(Stmts) /\ a \in ToSet(threads)
  BY <1>2, ListTypes DEF Serving, OnProcessor, Alive
<1>4. /\ TypeOK' /\ ~crashed' /\ QueueOK' /\ QuantumLeft'
      /\ t # a /\ t \notin Queued
      /\ Alive' = Alive \cup {t} /\ Queued' = Queued /\ Chosen' = Chosen
      /\ prio'[t] = p /\ \A u \in Threads : u # t => prio'[u] = prio[u]
      /\ \A u \in Threads : u # t => state'[u] = state[u]
      /\ todo'[a] = Cons(Do("schedule", t), Cons(Check, Handling(a)))
      /\ Acting(a)'
  BY <1>1, <1>3, CreateKeeps
<1>5. running' = a
  BY <1>1, <1>3 DEF CreateThread
<1>6. Dominates(a)'
  BY <1>3, <1>4 DEF Dominates, Queued
<1>7. Forking(a, t)'
  <2>1. OnProcessor(a)'
    BY <1>3, <1>4, <1>5 DEF OnProcessor
  <2> QED BY <1>1, <1>3, <1>4, <1>6, <2>1 DEF Forking
<1> QED BY <1>4, <1>7 DEF StepsInv, OneActs, Processing

-----------------------------------------------------------------------------
(* The invariant                                                           *)

LEMMA InitIsIdle == Discipline /\ Init => StepsInv
<1> SUFFICES ASSUME Discipline, Init
             PROVE  StepsInv
  OBVIOUS
<1>1. /\ threads = << >> /\ pq = << >> /\ running = NULL /\ crashed = FALSE
      /\ state = [t \in Threads |-> "NEW"] /\ sem = [t \in Threads |-> 0]
  BY DEF Init
<1>2. ToSet(threads) = {} /\ Alive = {} /\ Queued = {} /\ Chosen = {} /\ Holders = {}
  <2>1. DOMAIN << >> = {}
    OBVIOUS
  <2> QED BY <1>1, <2>1 DEF ToSet, Alive, Queued, InQueue, Chosen, Holders
<1>3. /\ todo \in [Actors -> Seq(Stmts)]
      /\ todo[Main] = Forks
      /\ \A b \in Threads : todo[b] = << >>
  <2> DEFINE x == Do("client", NULL)
             y == Do("join", NULL)
  <2>1. x \in Stmts /\ y \in Stmts /\ << >> \in Seq(Stmts)
    BY DoFacts, ListTypes
  <2>2. Forks = Cons(x, Cons(y, << >>)) /\ Forks \in Seq(Stmts)
    BY ListTypes DEF Forks, Joining
  <2>3. todo = [a \in Actors |-> IF a = Main THEN << x, y >> ELSE << >>]
    BY DEF Init
  <2> HIDE DEF x, y
  <2>4. << x, y >> \o << >> = Cons(x, Cons(y, << >>))
    BY <2>1, TwoBefore, Zenon
  <2>6. << x, y >> \in Seq(Stmts)
    BY <2>1
  <2>5. << x, y >> = Forks
    BY <2>2, <2>4, <2>6, ConcatEmptySeq
  <2> QED BY <2>1, <2>2, <2>3, <2>5, StepsAssumption DEF Actors
<1>4. TypeOK
  <2>1. << >> \in Seq(Threads)
    OBVIOUS
  <2>2. 0 \in Nat /\ 0 \in 0 .. MaxQuantum /\ 0 \in Priorities
    BY StepsAssumption DEF Priorities
  <2>3. /\ quantum \in 1 .. MaxQuantum /\ running \in Threads \cup {NULL}
        /\ threads \in Seq(Threads) /\ pq \in Seq(Threads) /\ crashed \in BOOLEAN
    BY <1>1, <2>1 DEF Init
  <2>4. /\ prio \in [Threads -> Priorities] /\ left \in [Threads -> 0 .. MaxQuantum]
        /\ event \in [Threads -> {Device, NoEvent}] /\ sem \in [Threads -> Nat]
        /\ state \in [Threads -> {"NEW", "READY", "RUNNING", "WAITING", "TERMINATED"}]
    BY <2>2 DEF Init
  <2> QED BY <1>3, <2>3, <2>4 DEF TypeOK, Stmts
<1>5. Foremost = NULL
  <2>1. pq \in Seq(Threads)
    BY <1>4 DEF TypeOK
  <2>2. Foremost # NULL => Foremost \in Queued
    BY <2>1, FrontThreadRange DEF Foremost, Queued
  <2> QED BY <1>2, <2>2
<1>6. QueueOK
  <2>1. DOMAIN pq = {}
    BY <1>1
  <2> QED BY <1>1, <1>2, <2>1 DEF QueueOK, Injective, Sorted
<1>7. QuantumLeft
  BY <1>2 DEF QuantumLeft
<1>8. AllRest
  <2>1. ASSUME NEW b \in Actors
        PROVE  Rests(b)
    <3>1. CASE b = Main
      BY <1>1, <1>3, <3>1 DEF Rests
    <3>2. CASE b # Main
      BY <1>2, <1>3, <3>2 DEF Rests, Back, Actors
    <3> QED BY <3>1, <3>2
  <2> QED BY <2>1 DEF AllRest
<1>9. Nobody
  BY <1>1, <1>2, <1>5, <1>8 DEF Nobody
<1> QED BY <1>1, <1>4, <1>6, <1>7, <1>9 DEF StepsInv, OneActs

LEMMA StutterKeeps == StepsInv /\ UNCHANGED vars => StepsInv'
<1> SUFFICES ASSUME StepsInv, UNCHANGED vars
             PROVE  StepsInv'
  OBVIOUS
<1> USE DEF vars
<1>1. /\ TypeOK' /\ ~crashed' /\ QueueOK' /\ QuantumLeft'
      /\ Alive' = Alive /\ Queued' = Queued /\ Chosen' = Chosen
      /\ Holders' = Holders /\ Foremost' = Foremost
      /\ AllRest' = AllRest
      /\ \A a : /\ OthersRest(a)' = OthersRest(a) /\ Back(a)' = Back(a)
               /\ Dominates(a)' = Dominates(a)
  BY DEF StepsInv, TypeOK, QueueOK, QuantumLeft, Alive, Queued, Chosen, Holders,
         Foremost, AllRest, OthersRest, Rests, Back, Dominates
<1>2. \A a : Acting(a)' = Acting(a)
  BY <1>1 DEF Acting
<1>3. OneActs' = OneActs
  BY <1>1, <1>2 DEF OneActs, Nobody, Posted, Processing, Serving, Signalling, Forking,
         OnProcessor, Switching, Picking, Queueing, Taking, Removing, Posting
<1> QED BY <1>1, <1>3 DEF StepsInv

LEMMA StepKeeps == Discipline /\ StepsInv /\ [Next]_vars => StepsInv'
<1> SUFFICES ASSUME Discipline, StepsInv, [Next]_vars
             PROVE  StepsInv'
  OBVIOUS
<1>1. CASE UNCHANGED vars
  BY <1>1, StutterKeeps
<1>2. CASE \E t \in Threads, p \in Priorities : ForkByMain(t, p)
  BY <1>2, ForkByMainKeeps DEF Discipline
<1>3. CASE \E a, t \in Threads, p \in Priorities : ForkByThread(a, t, p)
  BY <1>3, ForkByThreadKeeps DEF Discipline
<1>4. ASSUME NEW a \in Threads,
             \/ CallExec(a) \/ CallWait(a) \/ CallSignal(a)
             \/ MarkWaiting(a) \/ ReleaseRunning(a)
             \/ HandlerReturns(a) \/ Terminate(a)
      PROVE  StepsInv'
  BY <1>4, CallExecKeeps, CallWaitKeeps, CallSignalKeeps, MarkWaitingKeeps,
     ReleaseRunningKeeps, HandlerReturnsKeeps, TerminateKeeps
<1>5. ASSUME NEW a \in Actors,
             \/ SemWait(a) \/ Schedule(a) \/ CheckPreempt(a)
             \/ Run(a) \/ DequeueFront(a) \/ Post(a)
             \/ Exec(a) \/ Expire(a)
      PROVE  StepsInv'
  BY <1>5, SemWaitKeeps, ScheduleKeeps, CheckPreemptKeeps, RunKeeps,
     DequeueFrontKeeps, PostKeeps, ExecKeeps, ExpireKeeps
<1>6. CASE SoEnd \/ JoinAll
  BY <1>6, SoEndKeeps, JoinAllKeeps
<1> QED BY <1>1, <1>2, <1>3, <1>4, <1>5, <1>6 DEF Next

(* In every state of a disciplined client the library is idle, or exactly   *)
(* one actor is at a known statement and the scheduler is as that statement *)
(* of so_scheduler.c expects it.                                            *)
THEOREM StepsInvariant ==
    ASSUME Discipline
    PROVE  Spec => []StepsInv
<1>1. Init => StepsInv
  BY InitIsIdle
<1>2. StepsInv /\ [Next]_vars => StepsInv'
  BY StepKeeps
<1> QED BY <1>1, <1>2, PTL DEF Spec

(* The fields keep their types; the unsigned quantum never wraps.           *)
THEOREM StepsTypeCorrect ==
    ASSUME Discipline
    PROVE  Spec => []TypeOK
<1>1. StepsInv => TypeOK
  BY DEF StepsInv
<1> QED BY <1>1, StepsInvariant, PTL

(* The second reads of running_thread in so_exec(), so_wait() and           *)
(* so_signal() find it set.                                                 *)
THEOREM NoNullIsDereferenced ==
    ASSUME Discipline
    PROVE  Spec => []NoNullDereference
<1>1. StepsInv => NoNullDereference
  BY DEF StepsInv, NoNullDereference
<1> QED BY <1>1, StepsInvariant, PTL

LEMMA BusyIsActing ==
    ASSUME StepsInv, NEW a \in Actors, Busy(a)
    PROVE  /\ Acting(a) /\ (OpOf(a) = "handler" => a \in Threads /\ Serving(a, Handling(a)))
           /\ \A b \in Actors : b # a => ~Busy(b)
<1>1. todo[a] # << >> /\ OpOf(a) \notin {"sem_wait", "client", "join"}
  BY DEF Busy, OpOf
<1>2. ~Rests(a)
  BY <1>1, RestingHead
<1>3. (a \in Threads /\ Processing(a)) \/ Switching(a)
  BY <1>2, Placed
<1>4. Acting(a)
  BY <1>3 DEF Processing, Serving, Signalling, Forking, OnProcessor,
              Switching, Picking, Queueing, Taking, Removing, Posting
<1>5. ASSUME NEW b \in Actors, b # a
      PROVE  ~Busy(b)
  <2>1. Rests(b)
    BY <1>4, <1>5 DEF Acting, OthersRest
  <2>2. todo[b] # << >> => OpOf(b) \in {"sem_wait", "client", "join"}
    BY <2>1, RestingHead
  <2> QED BY <2>2 DEF Busy, OpOf
<1>6. ASSUME OpOf(a) = "handler"
      PROVE  a \in Threads /\ Serving(a, Handling(a))
  <2>1. Next1(a, "handler")
    BY <1>1, <1>6 DEF Next1, OpOf, StepsInv
  <2> QED BY <2>1, Whereabouts
<1> QED BY <1>4, <1>5, <1>6

(* Without a lock, no two pthreads are ever among the statements that read  *)
(* and write the scheduler.                                                 *)
THEOREM StatementsExclude ==
    ASSUME Discipline
    PROVE  Spec => []OneAtATime
<1>1. StepsInv => OneAtATime
  <2> SUFFICES ASSUME StepsInv, NEW a \in Actors, NEW b \in Actors, Busy(a), Busy(b)
               PROVE  a = b
    BY DEF OneAtATime
  <2> QED BY BusyIsActing
<1> QED BY <1>1, StepsInvariant, PTL

(* At rest nobody is in a call, or one thread is in its handler.            *)
LEMMA RestIsConsistent == StepsInv => ConsistentAtRest
<1> SUFFICES ASSUME StepsInv, AtRest
             PROVE  /\ Injective(pq) /\ Sorted(pq, prio)
                    /\ \A t \in Threads :
                         /\ todo[t] # << >> <=> (InQueue(pq, t) \/ running = t)
                         /\ ~(InQueue(pq, t) /\ running = t)
                         /\ sem[t] + (IF Busy(t) THEN 1 ELSE 0)
                              = (IF running = t THEN 1 ELSE 0)
                         /\ state[t] = "RUNNING" <=> running = t
  BY DEF ConsistentAtRest
<1>1. /\ TypeOK /\ QueueOK /\ Main \notin Threads
      /\ sem \in [Threads -> Nat]
  BY StepsAssumption DEF StepsInv, TypeOK
<1> DEFINE Fits(t) == /\ todo[t] # << >> <=> (InQueue(pq, t) \/ running = t)
                      /\ ~(InQueue(pq, t) /\ running = t)
                      /\ sem[t] + (IF Busy(t) THEN 1 ELSE 0)
                           = (IF running = t THEN 1 ELSE 0)
                      /\ state[t] = "RUNNING" <=> running = t
<1>2. ASSUME NEW t \in Threads, Rests(t)
      PROVE  /\ todo[t] # << >> <=> t \in Alive
             /\ ~Busy(t)
  <2>1. todo[t] = Back(t)
    BY <1>1, <1>2 DEF Rests
  <2>2. todo[t] # << >> <=> t \in Alive
    BY <1>1, <2>1, ListTypes DEF Back
  <2>3. todo[t] # << >> => OpOf(t) = "sem_wait"
    BY <1>1, <1>2, RestingHead DEF Actors
  <2> QED BY <2>2, <2>3 DEF Busy, OpOf
<1>3. ASSUME Nobody
      PROVE  \A t \in Threads : Fits(t)
  <2>1. ASSUME NEW t \in Threads
        PROVE  Fits(t)
    <3>1. Rests(t)
      BY <1>3 DEF Nobody, AllRest, Actors
    <3>2. /\ running # t /\ (t \in Alive <=> InQueue(pq, t))
          /\ sem[t] = 0 /\ state[t] # "RUNNING"
      BY <1>3, NullAssumption DEF Nobody, Queued, Chosen, Holders
    <3> QED BY <1>2, <3>1, <3>2
  <2> QED BY <2>1
<1>4. ASSUME NEW r \in Threads, Posted(r)
      PROVE  \A t \in Threads : Fits(t)
  <2>1. ASSUME NEW t \in Threads
        PROVE  Fits(t)
    <3>1. Rests(t)
      BY <1>4 DEF Posted, AllRest, Actors
    <3>2. /\ running = r /\ (t \in Alive <=> InQueue(pq, t) \/ r = t)
          /\ ~(InQueue(pq, t) /\ r = t)
          /\ sem[t] = (IF r = t THEN 1 ELSE 0) /\ (state[t] = "RUNNING" <=> r = t)
      BY <1>4 DEF Posted, Queued, Chosen, Holders
    <3>3. ~Busy(t) /\ (todo[t] # << >> <=> t \in Alive)
      BY <1>2, <3>1
    <3> QED BY <3>2, <3>3
  <2> QED BY <2>1
<1>5. ASSUME NEW a \in Threads, Serving(a, Handling(a))
      PROVE  \A t \in Threads : Fits(t)
  <2>1. /\ running = a /\ Alive = Queued \cup {a} /\ a \notin Queued
        /\ Chosen = {a} /\ Holders = {} /\ OthersRest(a) /\ todo[a] = Handling(a)
    BY <1>5 DEF Serving, OnProcessor, Acting
  <2>2. todo[a] # << >> /\ Busy(a)
    <3>1. /\ Handling(a) # << >> /\ Head(Handling(a)) = Do("handler", a)
          /\ Do("handler", a).op = "handler"
      BY ListTypes, DoFacts
    <3> QED BY <2>1, <3>1 DEF Busy
  <2>3. ASSUME NEW t \in Threads
        PROVE  Fits(t)
    <3>1. /\ t \in Alive <=> InQueue(pq, t) \/ a = t
          /\ ~(InQueue(pq, t) /\ a = t)
          /\ sem[t] = 0 /\ (state[t] = "RUNNING" <=> a = t)
      BY <2>1 DEF Queued, Chosen, Holders
    <3>2. CASE t = a
      BY <2>1, <2>2, <3>1, <3>2
    <3>3. CASE t # a
      <4>1. Rests(t)
        BY <2>1, <3>3 DEF OthersRest, Actors
      <4>2. ~Busy(t) /\ (todo[t] # << >> <=> t \in Alive)
        BY <1>2, <4>1
      <4> QED BY <2>1, <3>1, <3>3, <4>2
    <3> QED BY <3>2, <3>3
  <2> QED BY <2>3
<1>6. ASSUME NEW a \in Actors, (a \in Threads /\ Processing(a)) \/ Switching(a)
      PROVE  a \in Threads /\ Serving(a, Handling(a))
  <2>1. todo[a] # << >> /\ OpOf(a) \notin {"sem_wait", "client", "join"}
    <3>1. CASE a \in Threads /\ Processing(a)
      BY <3>1, ProcessingHead DEF InHandler
    <3>2. CASE Switching(a)
      BY <3>2, SwitchingHead
    <3> QED BY <1>6, <3>1, <3>2
  <2>2. Busy(a)
    BY <2>1 DEF Busy, OpOf
  <2>3. OpOf(a) = "handler"
    BY <2>2 DEF AtRest, OpOf
  <2> QED BY <2>2, <2>3, BusyIsActing
<1>7. ASSUME \A t \in Threads : Fits(t)
      PROVE  /\ Injective(pq) /\ Sorted(pq, prio)
             /\ \A t \in Threads :
                  /\ todo[t] # << >> <=> (InQueue(pq, t) \/ running = t)
                  /\ ~(InQueue(pq, t) /\ running = t)
                  /\ sem[t] + (IF Busy(t) THEN 1 ELSE 0)
                       = (IF running = t THEN 1 ELSE 0)
                  /\ state[t] = "RUNNING" <=> running = t
  BY <1>1, <1>7 DEF QueueOK
<1>8. (\E r \in Threads : Posted(r)) => \A t \in Threads : Fits(t)
  BY <1>4
<1>9. (\E a \in Threads : Processing(a)) \/ (\E a \in Actors : Switching(a))
        => \A t \in Threads : Fits(t)
  BY <1>5, <1>6 DEF Actors
<1> QED BY <1>3, <1>7, <1>8, <1>9 DEF StepsInv, OneActs

(* Between calls the scheduler is consistent, whatever order the statements *)
(* of the calls have been taken in: no thread is lost or queued twice, the  *)
(* queue is sorted, and only the running thread has a token or is out of    *)
(* its sem_wait().                                                          *)
THEOREM RestStatesConsistent ==
    ASSUME Discipline
    PROVE  Spec => []ConsistentAtRest
BY RestIsConsistent, StepsInvariant, PTL

(* Whoever was posted or is in a call can go on.                            *)
LEMMA StuckAreWaiting == StepsInv => StuckOnlyWhenWaiting
<1> SUFFICES ASSUME StepsInv, \A a \in Actors : ~CanStep(a),
                    NEW t \in Threads, todo[t] # << >>
             PROVE  state[t] = "WAITING"
  BY DEF StuckOnlyWhenWaiting
<1>1. \A a \in Actors : ~Busy(a)
  BY DEF CanStep, Busy
<1>2. ASSUME NEW r \in Threads, Posted(r)
      PROVE  FALSE
  <2>1. r \in Actors /\ Rests(r) /\ r \in Alive /\ sem[r] = 1 /\ r # Main
    BY <1>2, StepsAssumption DEF Posted, AllRest, Actors
  <2>2. todo[r] = Parked(r) /\ todo[r] # << >>
    BY <2>1, ListTypes DEF Rests, Back
  <2>3. OpOf(r) = "sem_wait" /\ Captured(r) = r
    BY <2>1, <2>2, RestingHead
  <2>4. CanStep(r)
    BY <2>1, <2>2, <2>3 DEF CanStep, OpOf
  <2> QED BY <2>1, <2>4
<1>3. ASSUME NEW a \in Actors, (a \in Threads /\ Processing(a)) \/ Switching(a)
      PROVE  FALSE
  <2>1. todo[a] # << >> /\ OpOf(a) \notin {"sem_wait", "client", "join"}
    <3>1. CASE a \in Threads /\ Processing(a)
      BY <3>1, ProcessingHead DEF InHandler
    <3>2. CASE Switching(a)
      BY <3>2, SwitchingHead
    <3> QED BY <1>3, <3>1, <3>2
  <2> QED BY <1>1, <2>1 DEF Busy, OpOf
<1>4. Nobody
  BY <1>2, <1>3 DEF StepsInv, OneActs, Actors
<1>5. t \in Alive
  <2>1. Rests(t) /\ t # Main
    BY <1>4, StepsAssumption DEF Nobody, AllRest, Actors
  <2> QED BY <2>1 DEF Rests, Back
<1>6. pq \in Seq(Threads) /\ FrontThread(pq, state) = NULL /\ InQueue(pq, t)
  BY <1>4, <1>5 DEF Nobody, Foremost, Queued, StepsInv, TypeOK
<1> QED BY <1>6, FrontThreadRange

(* No sem_post() is ever missing: when no pthread can go on, those left     *)
(* wait for an event nobody will signal.                                    *)
THEOREM NoPostIsMissing ==
    ASSUME Discipline
    PROVE  Spec => []StuckOnlyWhenWaiting
BY StuckAreWaiting, StepsInvariant, PTL

=============================================================================
