------------------------ MODULE AsyncWebServer_proof ------------------------
(***************************************************************************)
(* What the web server never does, for any number of clients, documents    *)
(* and descriptors.                                                        *)
(*                                                                         *)
(* conn->file has no value before the first path of a connection.  When    *)
(* such a connection is removed, connection_remove() closes whatever the   *)
(* number names, which may belong to another connection.  The invariant    *)
(* therefore has two parts: what holds always, and what holds as long as   *)
(* every connection that was removed had been given a path.                *)
(*                                                                         *)
(* Three inductive invariants rest on one another: ServerInv (the tables), *)
(* Fate (how far each response has come) and Tale (what its units are).    *)
(***************************************************************************)
EXTENDS AsyncWebServer, NaturalLemmas, SequenceTheorems, FiniteSetTheorems, TLAPS

-----------------------------------------------------------------------------
(* The descriptor table.                                                   *)

Descriptors ==
    {Std, Free} \cup
      UNION {{SockOf(c), EventOf(c)} \cup {FileOf(c, doc) : doc \in Docs} : c \in Conns}

LEMMA DescriptorsDiffer ==
    /\ Std # Free
    /\ \A c, d : SockOf(c) = SockOf(d) => c = d
    /\ \A c, d : EventOf(c) = EventOf(d) => c = d
    /\ \A c, d, x, y : FileOf(c, x) = FileOf(d, y) => c = d /\ x = y
    /\ \A c : SockOf(c) # Free /\ SockOf(c) # Std /\ EventOf(c) # Free /\ EventOf(c) # Std
    /\ \A c, x : FileOf(c, x) # Free /\ FileOf(c, x) # Std
    /\ \A c, d, x : FileOf(c, x) # SockOf(d) /\ FileOf(c, x) # EventOf(d)
    /\ \A c, d : SockOf(c) # EventOf(d)
  BY DEF Std, Free, SockOf, EventOf, FileOf

LEMMA FileHeads ==
    /\ \A c, x : Head(FileOf(c, x)) = "file" /\ FileOf(c, x)[2] = c /\ FileOf(c, x)[3] = x
    /\ \A c : Head(SockOf(c)) = "socket" /\ Head(EventOf(c)) = "event"
    /\ Head(Std) = "server" /\ Head(Free) = "free"
  BY DEF Std, Free, SockOf, EventOf, FileOf

(* A descriptor that holds a file holds one of a client's documents.       *)
LEMMA FilesOfClients ==
    ASSUME NEW fd \in Fds, fds[fd] \in Descriptors
    PROVE  HoldsFile(fd) <=> \E c \in Conns, doc \in Docs : fds[fd] = FileOf(c, doc)
  BY FileHeads DEF HoldsFile, Descriptors

LEMMA LowestIsFree ==
    ASSUME FreeFds # {}
    PROVE  LowestFree \in Fds /\ fds[LowestFree] = Free
<1>1. FreeFds \in SUBSET Nat
  BY SizesAssumption DEF FreeFds, Fds
<1> QED BY <1>1, MinIsLeast DEF LowestFree, FreeFds

LEMMA MinOfTwo ==
    ASSUME NEW a \in Int, NEW b \in Int
    PROVE  Min({a, b}) \in Int /\ Min({a, b}) \in {a, b} /\ Min({a, b}) <= a /\ Min({a, b}) <= b
<1>1. \E x \in {a, b} : \A y \in {a, b} : x <= y
  OBVIOUS
<1>2. Min({a, b}) \in {a, b} /\ \A y \in {a, b} : Min({a, b}) <= y
  BY <1>1 DEF Min
<1> QED BY <1>2

LEMMA MinOfTwoNats ==
    ASSUME NEW a \in Nat, NEW b \in Nat
    PROVE  Min({a, b}) \in Nat /\ Min({a, b}) \in {a, b} /\ Min({a, b}) <= a /\ Min({a, b}) <= b
<1>1. a \in Int /\ b \in Int
  OBVIOUS
<1>2. Min({a, b}) \in {a, b} /\ Min({a, b}) <= a /\ Min({a, b}) <= b
  BY <1>1, MinOfTwo
<1> QED BY <1>2

-----------------------------------------------------------------------------
(* The inductive invariant.                                                *)

(* What the units in a socket are.                                         *)
Units == ({"200", "404"} \X Nat) \cup (Docs \X Nat) \cup {Junk}

Connections ==
    [mem   : {"none", "live", "freed"},
     state : {"none", "received", "sent", "closed"},
     doc   : Docs \cup {NoPath},
     file  : Fds \cup {NotFound} \cup Leftovers,
     kind  : {"none", "static", "dynamic", "other", "missing"},
     size  : Int, len : Nat, hdr : BOOLEAN, done : Nat]

Shapes ==
    /\ conn \in [Conns -> Connections]
    /\ sent \in [Conns -> Seq(Units)]
    /\ script \in [Conns -> UNION {Scripts[c] : c \in Conns}]
    /\ \A c \in Conns : script[c] \in Scripts[c]
    /\ said \in [Conns -> Nat] /\ heard \in [Conns -> Nat] /\ taken \in [Conns -> Nat]
    /\ fds \in [Fds -> Descriptors]
    /\ rev \in [conn : Conns \cup {None}, out : BOOLEAN]

(* Where a connection is in its life, and the server in its loop.  The     *)
(* event under treatment is of a structure that exists; only send_message()*)
(* is called on one that may be freed.                                     *)
Stages ==
    /\ \A c \in Conns : client[c] \in {"none", "connecting"} <=> conn[c].mem = "none"
    /\ \A c \in Conns : interest[c] # {} => conn[c].mem = "live"
    /\ \A c \in Conns : conn[c].mem = "freed" => conn[c].state = "closed"
    /\ \A c \in Conns : conn[c].mem = "none" => conn[c] = NoConn /\ heard[c] = 0
    /\ server \in {"in", "out", "header", "static", "setup", "dynamic"} =>
          /\ rev.conn \in Conns /\ conn[rev.conn].mem # "none"
          /\ server # "out" => conn[rev.conn].mem = "live"
    /\ server \in {"static", "setup", "dynamic"} => Sends(rev.conn)
    /\ server \in {"start", "wait"} => rev = NoEvent
    /\ server = "start" => fds[1] = Free /\ \A c \in Conns : client[c] = "none"

(* A path, a response and an interest in out events come with a request.   *)
Requested ==
    /\ \A c \in Conns :
          /\ conn[c].doc # NoPath => heard[c] > 0
          /\ conn[c].state \in {"received", "sent"} => heard[c] > 0
          /\ "out" \in interest[c] => heard[c] > 0
    /\ server \in {"in", "out"} /\ rev.out /\ conn[rev.conn].mem = "live" => heard[rev.conn] > 0
    /\ server \in {"out", "header", "static", "setup", "dynamic"} /\ conn[rev.conn].mem = "live"
          => heard[rev.conn] > 0

(* Each descriptor in use has a reason of its own: the server's own three, *)
(* one socket and one eventfd for each client, one file for each segment.  *)
Reasons ==
    {Std, Free} \cup {<< "server", fd >> : fd \in 0 .. 2} \cup UNION {Needs(c) : c \in Conns}

(* The reason r why descriptor fd holds x, when recv() has taken heardOf[c] *)
(* segments of each c.                                                     *)
Because(r, fd, x, heardOf) ==
    \/ x = Free
    \/ x = Std /\ fd \in 0 .. 2 /\ r = << "server", fd >>
    \/ \E c \in Conns : x \in {SockOf(c), EventOf(c)} /\ r = x
    \/ \E c \in Conns, doc \in Docs :
          x = FileOf(c, doc) /\ \E k \in 1 .. heardOf[c] : r = << "file", c, k >>

Justified(reason, table, heardOf) ==
    /\ reason \in [Fds -> Reasons]
    /\ \A fd \in Fds : Because(reason[fd], fd, table[fd], heardOf)
    /\ \A fd, fe \in Fds :
          table[fd] # Free /\ table[fe] # Free /\ reason[fd] = reason[fe] => fd = fe

Reasoned ==
    /\ \E reason : Justified(reason, fds, heard)
    /\ \A fd \in Fds, c \in Conns :
          /\ fds[fd] = SockOf(c) => conn[c].mem # "none"
          /\ fds[fd] = EventOf(c) =>
                conn[c].mem = "freed" \/ Dead \/ (server = "dynamic" /\ rev.conn = c)

(* No connection was removed before it was given a path.                   *)
Undamaged == \A c \in Conns : conn[c].mem = "freed" => conn[c].doc # NoPath

Files(c) == {fd \in Fds : HoldsFile(fd) /\ fds[fd][2] = c}

(* Then a connection is watched until it is removed, and a path goes with  *)
(* its own file.                                                           *)
Sound ==
    \A c \in Conns :
        /\ conn[c].mem = "live" => interest[c] # {}
        /\ conn[c].mem = "live" /\ conn[c].doc # NoPath /\ conn[c].file # NotFound =>
              (conn[c].file \in Fds /\ fds[conn[c].file] = FileOf(c, conn[c].doc))
        /\ heard[c] = 1 => Files(c) \subseteq IF conn[c].mem = "live" THEN {conn[c].file} ELSE {}

ServerInv ==
    /\ TypeOK /\ Shapes
    /\ Stages /\ Requested
    /\ Reasoned
    /\ Undamaged => Sound

-----------------------------------------------------------------------------
(* Reasons.                                                                *)

(* A descriptor table that only closes descriptors keeps its reasons.      *)
LEMMA ReasonsKept ==
    ASSUME NEW reason, NEW table, NEW heardOf \in [Conns -> Nat],
           NEW table2, NEW heardOf2 \in [Conns -> Nat],
           Justified(reason, table, heardOf),
           \A fd \in Fds : table2[fd] \in {table[fd], Free},
           \A c \in Conns : heardOf[c] <= heardOf2[c]
    PROVE  Justified(reason, table2, heardOf2)
<1>1. \A fd \in Fds : Because(reason[fd], fd, table2[fd], heardOf2)
  <2> TAKE fd \in Fds
  <2>1. Because(reason[fd], fd, table[fd], heardOf)
    BY DEF Justified
  <2>2. table2[fd] = Free \/ table2[fd] = table[fd]
    OBVIOUS
  <2>3. \A c \in Conns : \A k \in 1 .. heardOf[c] : k \in 1 .. heardOf2[c]
    OBVIOUS
  <2> QED BY <2>1, <2>2, <2>3 DEF Because
<1> QED BY <1>1 DEF Justified

(* A descriptor is given out for a reason that no other has.               *)
LEMMA ReasonTaken ==
    ASSUME NEW reason, NEW table, NEW heardOf \in [Conns -> Nat],
           NEW heardOf2 \in [Conns -> Nat],
           Justified(reason, table, heardOf), table \in [Fds -> Descriptors],
           \A c \in Conns : heardOf[c] <= heardOf2[c],
           NEW f \in Fds, NEW x, NEW r \in Reasons,
           Because(r, f, x, heardOf2),
           \A fd \in Fds \ {f} : table[fd] # Free => reason[fd] # r
    PROVE  \E reason2 : Justified(reason2, [table EXCEPT ![f] = x], heardOf2)
<1> DEFINE reason2 == [reason EXCEPT ![f] = r]
           table2  == [table EXCEPT ![f] = x]
<1>1. Justified(reason, table, heardOf2)
  BY ReasonsKept
<1>2. /\ reason2 \in [Fds -> Reasons] /\ reason2[f] = r /\ table2[f] = x
      /\ \A fd \in Fds \ {f} : reason2[fd] = reason[fd] /\ table2[fd] = table[fd]
  BY <1>1 DEF Justified
<1> HIDE DEF reason2, table2
<1>3. \A fd \in Fds : Because(reason2[fd], fd, table2[fd], heardOf2)
  BY <1>1, <1>2 DEF Justified
<1>4. \A fd, fe \in Fds :
          table2[fd] # Free /\ table2[fe] # Free /\ reason2[fd] = reason2[fe] => fd = fe
  BY <1>1, <1>2 DEF Justified
<1>5. Justified(reason2, table2, heardOf2)
  BY <1>2, <1>3, <1>4 DEF Justified
<1> QED BY <1>5 DEF table2

(* What a reason says of the descriptor that has it.                       *)
LEMMA ReasonsTell ==
    ASSUME NEW r, NEW fd, NEW x, NEW heardOf, Because(r, fd, x, heardOf), x # Free
    PROVE  /\ \A i : r = << "server", i >> => fd = i
           /\ \A c : r = SockOf(c) => x = SockOf(c)
           /\ \A c : r = EventOf(c) => x = EventOf(c)
           /\ \A c \in Conns : \A k : r = << "file", c, k >> => k \in 1 .. heardOf[c]
  BY DEF Because, SockOf, EventOf

(* Reasons that the scripts give.                                          *)
LEMMA ReasonsAre ==
    ASSUME NEW c \in Conns
    PROVE  /\ SockOf(c) \in Reasons /\ EventOf(c) \in Reasons
           /\ \A s \in Scripts[c] : \A k \in DOMAIN s : << "file", c, k >> \in Reasons
           /\ \A fd \in 0 .. 2 : << "server", fd >> \in Reasons
  BY DEF Reasons, Needs

-----------------------------------------------------------------------------
(* The initial states.                                                     *)

LEMMA Sizes ==
    /\ MaxFd \in Nat /\ MaxFd > 2 /\ 0 \in Fds /\ 1 \in Fds /\ 2 \in Fds /\ NotFound \notin Fds
    /\ Block \in Nat \ {0} /\ HeaderLen \in Nat \ {0} /\ SockBuf \in Nat \ {0}
    /\ \A doc \in Docs : Size[doc] \in Nat
    /\ \A doc \in Docs : Kind[doc] \in {"static", "dynamic", "other", "missing"}
  BY SizesAssumption DEF Fds, NotFound

LEMMA ScriptLengths ==
    ASSUME NEW c \in Conns, NEW s \in Scripts[c]
    PROVE  s \in Seq(Segments) /\ Len(s) \in Nat /\ DOMAIN s = 1 .. Len(s)
  BY ScriptsAssumption

LEMMA NoConnIsOne ==
    /\ NoConn \in Connections
    /\ NoConn.mem = "none" /\ NoConn.doc = NoPath /\ NoConn.state = "none"
  BY Sizes DEF NoConn, Connections, NoPath

LEMMA InitiallySound == Init => ServerInv
<1> SUFFICES ASSUME Init PROVE ServerInv
  OBVIOUS
<1>1. \A c \in Conns : conn[c] = NoConn
  BY DEF Init
<1>2. Shapes
  <2>1. fds \in [Fds -> Descriptors]
    BY DEF Init, Descriptors
  <2>2. \A c \in Conns : sent[c] = << >> /\ << >> \in Seq(Units)
    BY EmptySeq DEF Init
  <2>3. conn \in [Conns -> Connections]
    BY NoConnIsOne DEF Init
  <2> QED BY <2>1, <2>2, <2>3 DEF Init, Shapes, NoEvent
<1>3. TypeOK
  <2>1. \A c \in Conns : said[c] \in 0 .. Len(script[c]) /\ heard[c] \in 0 .. said[c]
    BY <1>2, ScriptLengths DEF Init, Shapes
  <2>2. \A c \in Conns : taken[c] \in 0 .. Len(sent[c]) /\ Len(sent[c]) - taken[c] <= SockBuf
    BY Sizes DEF Init
  <2>3. \A fd \in Fds : fds[fd] \in Descriptors
    BY <1>2 DEF Shapes
  <2> QED BY <2>1, <2>2, <2>3, <1>1 DEF TypeOK, Init, Descriptors, NoConn
<1>4. Stages
  BY <1>1, NoConnIsOne, Sizes DEF Init, Stages
<1>5. Requested
  BY <1>1, NoConnIsOne DEF Init, Requested
<1>6. Reasoned
  <2> DEFINE reason == [fd \in Fds |-> IF fd = 0 THEN << "server", 0 >> ELSE Free]
  <2>1. reason \in [Fds -> Reasons]
    BY DEF Reasons
  <2>2. \A fd \in Fds : Because(reason[fd], fd, fds[fd], heard)
    BY DEF Init, Because
  <2>3. \A fd \in Fds : fds[fd] # Free => fd = 0
    BY DEF Init
  <2>4. Justified(reason, fds, heard)
    BY <2>1, <2>2, <2>3 DEF Justified
  <2>5. \A fd \in Fds, c \in Conns : fds[fd] # SockOf(c) /\ fds[fd] # EventOf(c)
    BY DescriptorsDiffer DEF Init
  <2> QED BY <2>4, <2>5 DEF Reasoned
<1>7. Sound
  BY <1>1, NoConnIsOne, Sizes DEF Init, Sound
<1> QED BY <1>2, <1>3, <1>4, <1>5, <1>6, <1>7 DEF ServerInv

-----------------------------------------------------------------------------
(* Clients.  Nothing the server keeps changes.                             *)

LEMMA ClientStepKeeps ==
    ASSUME ServerInv, NEW c \in Conns, ClientStep(c)
    PROVE  ServerInv'
<1>1. UNCHANGED << script, heard, sent, conn, interest, fds, rev, server >>
  BY DEF ClientStep, Connect, Request, Read, HalfClose, Reset
<1>2. /\ said' \in [Conns -> Nat] /\ taken' \in [Conns -> Nat]
      /\ \A d \in Conns : said'[d] \in 0 .. Len(script[d]) /\ heard[d] \in 0 .. said'[d]
      /\ \A d \in Conns : taken'[d] \in 0 .. Len(sent[d]) /\ Len(sent[d]) - taken'[d] <= SockBuf
  <2>1. \A d \in Conns : Len(script[d]) \in Nat /\ Len(sent[d]) \in Nat
    BY ScriptLengths, LenProperties DEF ServerInv, Shapes
  <2>2. CASE Request(c)
    <3>1. said[c] < Len(script[c]) /\ said' = [said EXCEPT ![c] = @ + 1] /\ taken' = taken
      BY <2>2 DEF Request
    <3>2. said \in [Conns -> Nat] /\ taken \in [Conns -> Nat] /\ heard \in [Conns -> Nat]
      BY DEF ServerInv, Shapes
    <3>3. said'[c] = said[c] + 1 /\ \A d \in Conns \ {c} : said'[d] = said[d]
      BY <3>1, <3>2
    <3>4. \A d \in Conns : said[d] \in 0 .. Len(script[d]) /\ heard[d] \in 0 .. said[d]
      BY DEF ServerInv, TypeOK
    <3>5. said' \in [Conns -> Nat]
      BY <3>1, <3>2
    <3>6. \A d \in Conns : said'[d] \in 0 .. Len(script[d]) /\ heard[d] \in 0 .. said'[d]
      BY <3>1, <3>2, <3>3, <3>4, <2>1
    <3> QED BY <3>1, <3>2, <3>5, <3>6 DEF ServerInv, TypeOK
  <2>3. CASE Read(c)
    <3>1. PICK n \in taken[c] + 1 .. Len(sent[c]) : taken' = [taken EXCEPT ![c] = n]
      BY <2>3 DEF Read
    <3>2. taken \in [Conns -> Nat] /\ said \in [Conns -> Nat] /\ said' = said
      BY <2>3 DEF Read, ServerInv, Shapes
    <3>3. taken'[c] = n /\ \A d \in Conns \ {c} : taken'[d] = taken[d]
      BY <3>1, <3>2
    <3>4. \A d \in Conns : taken[d] \in 0 .. Len(sent[d]) /\ Len(sent[d]) - taken[d] <= SockBuf
      BY DEF ServerInv, TypeOK
    <3>5. n \in Nat /\ n >= taken[c] /\ n <= Len(sent[c])
      BY <3>1, <3>2, <2>1
    <3>6. taken' \in [Conns -> Nat]
      BY <3>1, <3>2, <3>5
    <3>7. \A d \in Conns : taken'[d] \in 0 .. Len(sent[d]) /\ Len(sent[d]) - taken'[d] <= SockBuf
      BY <3>2, <3>3, <3>4, <3>5, <2>1, Sizes
    <3> QED BY <3>2, <3>6, <3>7 DEF ServerInv, TypeOK
  <2>4. CASE UNCHANGED << said, taken >>
    BY <2>4 DEF ServerInv, TypeOK, Shapes
  <2> QED BY <2>2, <2>3, <2>4 DEF ClientStep, Connect, HalfClose, Reset
<1>3. /\ client' \in [Conns -> {"none", "connecting", "open", "halfclosed", "reset"}]
      /\ \A d \in Conns : client'[d] \in {"none", "connecting"} <=> client[d] \in {"none", "connecting"}
  BY DEF ClientStep, Connect, Request, Read, HalfClose, Reset, ServerInv, TypeOK
<1>4. TypeOK' /\ Shapes'
  BY <1>1, <1>2, <1>3 DEF ServerInv, TypeOK, Shapes
<1>5. Stages' /\ Requested'
  <2>1. server # "start"
    BY DEF ClientStep, Connect, Request, Read, HalfClose, Reset, ServerInv, Stages
  <2> QED BY <1>1, <1>3, <2>1 DEF ServerInv, Stages, Requested, Sends
<1>6. Reasoned' /\ (Undamaged => Sound)'
  BY <1>1 DEF ServerInv, Reasoned, Dead, Undamaged, Sound, Files, HoldsFile
<1> QED BY <1>4, <1>5, <1>6 DEF ServerInv

-----------------------------------------------------------------------------
(* The removal of a connection.                                            *)

LEMMA RemovalKeeps ==
    ASSUME ServerInv, NEW c \in Conns, conn[c].mem = "live", rev.conn = c,
           server \in {"in", "out", "header", "static", "dynamic"},
           RemoveConnection(c), LoopsOn,
           server' \in {"wait", "out", "exited"}, server' = "out" => rev.out,
           UNCHANGED << clientVars, heard, sent >>
    PROVE  ServerInv'
<1> DEFINE closed == [NoConn EXCEPT !.mem = "freed", !.state = "closed",
                                    !.doc = conn[c].doc, !.file = conn[c].file]
<1>1. /\ conn' = [conn EXCEPT ![c] = closed]
      /\ UNCHANGED << client, script, said, taken, heard, sent >>
  BY DEF RemoveConnection, clientVars
<1>2. /\ conn \in [Conns -> Connections] /\ fds \in [Fds -> Descriptors]
      /\ interest \in [Conns -> SUBSET {"in", "out"}]
  BY DEF ServerInv, TypeOK, Shapes
<1>3. /\ closed \in Connections /\ closed.mem = "freed" /\ closed.state = "closed"
      /\ closed.doc = conn[c].doc /\ closed.file = conn[c].file
  <2>1. conn[c].doc \in Docs \cup {NoPath} /\ conn[c].file \in Fds \cup {NotFound} \cup Leftovers
    BY <1>2 DEF Connections
  <2> QED BY <2>1, NoConnIsOne DEF Connections
<1> HIDE DEF closed
<1>4. /\ conn' \in [Conns -> Connections] /\ conn'[c] = closed
      /\ \A d \in Conns \ {c} : conn'[d] = conn[d]
  BY <1>1, <1>2, <1>3
<1>5. /\ fds' \in [Fds -> Descriptors]
      /\ \A fd \in Fds : fds'[fd] = IF fd = conn[c].file THEN Free ELSE fds[fd]
  <2>1. Free \in Descriptors /\ conn[c].file \in Fds \cup {NotFound} \cup Leftovers
    BY <1>2 DEF Descriptors, Connections
  <2>2. CASE conn[c].file \notin Fds
    BY <2>2, <1>2, Sizes DEF RemoveConnection
  <2>3. CASE conn[c].file \in Fds
    BY <2>1, <2>3, <1>2, Sizes DEF RemoveConnection
  <2> QED BY <2>2, <2>3
<1>6. /\ interest' \in [Conns -> SUBSET {"in", "out"}] /\ interest'[c] = {}
      /\ \A d \in Conns \ {c} :
            interest'[d] = IF conn[c].file \in Fds /\ fds[conn[c].file] = SockOf(d)
                           THEN {} ELSE interest[d]
  BY <1>2, Sizes DEF RemoveConnection, RemovePtr
<1>7. rev' = IF server' = "wait" THEN NoEvent ELSE rev
  BY DEF LoopsOn
<1>8. TypeOK' /\ Shapes'
  <2>1. rev' \in [conn : Conns \cup {None}, out : BOOLEAN]
    BY <1>7 DEF NoEvent, ServerInv, Shapes
  <2>2. Shapes'
    BY <1>1, <1>4, <1>5, <2>1 DEF ServerInv, Shapes
  <2>3. \A fd \in Fds : fds'[fd] \in Descriptors
    BY <1>5
  <2>4. \A d \in Conns : conn'[d].mem \in {"none", "live", "freed"} /\ conn'[d].file \in Fds \cup {NotFound} \cup Leftovers
    BY <1>4 DEF Connections
  <2>5. TypeOK'
    BY <1>1, <1>6, <2>3, <2>4 DEF ServerInv, TypeOK, Descriptors
  <2> QED BY <2>2, <2>5
<1>9. Stages'
  <2>1. \A d \in Conns : client'[d] \in {"none", "connecting"} <=> conn'[d].mem = "none"
    BY <1>1, <1>3, <1>4 DEF ServerInv, Stages
  <2>2. \A d \in Conns : interest'[d] # {} => conn'[d].mem = "live"
    BY <1>4, <1>6 DEF ServerInv, Stages
  <2>3. \A d \in Conns : /\ conn'[d].mem = "freed" => conn'[d].state = "closed"
                         /\ conn'[d].mem = "none" => conn'[d] = NoConn /\ heard'[d] = 0
    BY <1>1, <1>3, <1>4 DEF ServerInv, Stages
  <2> QED BY <2>1, <2>2, <2>3, <1>3, <1>4, <1>7 DEF Stages
<1>10. Requested'
  <2>1. \A d \in Conns :
          /\ conn'[d].doc # NoPath => heard'[d] > 0
          /\ conn'[d].state \in {"received", "sent"} => heard'[d] > 0
          /\ "out" \in interest'[d] => heard'[d] > 0
    BY <1>1, <1>3, <1>4, <1>6 DEF ServerInv, Requested
  <2> QED BY <2>1, <1>3, <1>4, <1>7 DEF Requested
<1>11. Reasoned'
  <2>1. PICK reason : Justified(reason, fds, heard)
    BY DEF ServerInv, Reasoned
  <2>2. heard \in [Conns -> Nat]
    BY DEF ServerInv, Shapes
  <2>3. Justified(reason, fds', heard')
    BY <2>1, <2>2, <1>1, <1>5, ReasonsKept
  <2>4. \A fd \in Fds, d \in Conns : fds'[fd] = SockOf(d) => conn'[d].mem # "none"
    BY <1>3, <1>4, <1>5, DescriptorsDiffer DEF ServerInv, Reasoned
  <2>5. \A fd \in Fds, d \in Conns : fds'[fd] = EventOf(d) => conn'[d].mem = "freed"
    BY <1>3, <1>4, <1>5, DescriptorsDiffer DEF ServerInv, Reasoned, Dead
  <2> QED BY <2>3, <2>4, <2>5 DEF Reasoned
<1>12. (Undamaged => Sound)'
  <2> SUFFICES ASSUME Undamaged' PROVE Sound'
    OBVIOUS
  <2>1. conn[c].doc # NoPath /\ Undamaged
    BY <1>3, <1>4 DEF Undamaged
  <2>2. conn[c].file # NotFound => conn[c].file \in Fds /\ fds[conn[c].file] = FileOf(c, conn[c].doc)
    BY <2>1, <1>2 DEF ServerInv, Sound, Connections
  <2> SUFFICES ASSUME NEW d \in Conns
               PROVE  /\ conn'[d].mem = "live" => interest'[d] # {}
                      /\ conn'[d].mem = "live" /\ conn'[d].doc # NoPath /\ conn'[d].file # NotFound =>
                            (conn'[d].file \in Fds /\ fds'[conn'[d].file] = FileOf(d, conn'[d].doc))
                      /\ heard'[d] = 1 =>
                            Files(d)' \subseteq IF conn'[d].mem = "live" THEN {conn'[d].file} ELSE {}
    BY DEF Sound
  <2>3. /\ conn[d].mem = "live" => interest[d] # {}
        /\ conn[d].mem = "live" /\ conn[d].doc # NoPath /\ conn[d].file # NotFound =>
              (conn[d].file \in Fds /\ fds[conn[d].file] = FileOf(d, conn[d].doc))
        /\ heard[d] = 1 => Files(d) \subseteq IF conn[d].mem = "live" THEN {conn[d].file} ELSE {}
    BY <2>1 DEF ServerInv, Sound
  <2>4. Files(d)' \subseteq Files(d) \ {conn[c].file}
    BY <1>5, FileHeads DEF Files, HoldsFile
  <2>5. CASE d = c
    <3>1. conn'[c].mem = "freed"
      BY <1>3, <1>4
    <3>2. heard[c] = 1 => Files(c)' = {}
      <4>1. Files(c) \subseteq {conn[c].file} \/ heard[c] # 1
        BY <2>3, <2>5, <1>3
      <4> QED BY <4>1, <2>4, <2>5
    <3> QED BY <3>1, <3>2, <2>5, <1>1
  <2>6. CASE d # c
    <3>1. conn'[d] = conn[d] /\ interest'[d] = interest[d]
      BY <2>2, <2>6, <1>4, <1>6, Sizes, DescriptorsDiffer
    <3>2. /\ conn[d].mem = "live" /\ conn[d].doc # NoPath /\ conn[d].file # NotFound =>
              (conn[d].file \in Fds /\ fds'[conn[d].file] = FileOf(d, conn[d].doc))
      <4>1. conn[d].file \in Fds \cup {NotFound} \cup Leftovers
        BY <1>2 DEF Connections
      <4> QED BY <4>1, <2>2, <2>3, <2>6, <1>2, <1>5, DescriptorsDiffer
    <3> QED BY <3>1, <3>2, <2>3, <2>4, <1>1
  <2> QED BY <2>5, <2>6
<1> QED BY <1>8, <1>9, <1>10, <1>11, <1>12 DEF ServerInv

-----------------------------------------------------------------------------
(* The steps of an answer.  A connection keeps its path and its file.      *)

LEMMA AnswerKeeps ==
    ASSUME ServerInv, NEW c \in Conns, conn[c].mem = "live", rev.conn = c,
           server \in {"out", "header", "static", "dynamic"},
           conn' \in [Conns -> Connections],
           \A d \in Conns \ {c} : conn'[d] = conn[d],
           conn'[c].mem = "live", conn'[c].doc = conn[c].doc, conn'[c].file = conn[c].file,
           conn'[c].kind = conn[c].kind, conn'[c].state \in {conn[c].state, "sent"},
           interest' \in {interest, UpdatePtrIn(c)},
           sent' \in [Conns -> Seq(Units)],
           \A d \in Conns : taken[d] \in 0 .. Len(sent'[d]) /\ Len(sent'[d]) - taken[d] <= SockBuf,
           server' \in {"wait", "header", "static", "setup", "dynamic", "exited", "crashed"},
           server' \in {"static", "setup", "dynamic"} => Sends(c),
           server = "dynamic" => server' \in {"dynamic", "exited", "crashed"},
           UNCHANGED << clientVars, heard, fds >>, LoopsOn
    PROVE  ServerInv'
<1>1. /\ UNCHANGED << client, script, said, taken, heard, fds >>
      /\ rev' = IF server' = "wait" THEN NoEvent ELSE rev
  BY DEF clientVars, LoopsOn
<1>2. /\ conn \in [Conns -> Connections] /\ fds \in [Fds -> Descriptors]
      /\ interest \in [Conns -> SUBSET {"in", "out"}]
  BY DEF ServerInv, TypeOK, Shapes
<1>3. /\ interest' \in [Conns -> SUBSET {"in", "out"}]
      /\ \A d \in Conns \ {c} : interest'[d] = interest[d]
      /\ interest'[c] \in {interest[c], {"in"}}
  BY <1>2 DEF UpdatePtrIn
<1>4. heard[c] > 0
  BY DEF ServerInv, Requested
<1>5. TypeOK' /\ Shapes'
  <2>1. rev' \in [conn : Conns \cup {None}, out : BOOLEAN]
    BY <1>1 DEF NoEvent, ServerInv, Shapes
  <2>2. Shapes'
    BY <1>1, <2>1 DEF ServerInv, Shapes
  <2>3. \A d \in Conns : conn'[d].mem \in {"none", "live", "freed"} /\ conn'[d].file \in Fds \cup {NotFound} \cup Leftovers
    BY DEF Connections
  <2>4. TypeOK'
    BY <1>1, <1>3, <2>3 DEF ServerInv, TypeOK
  <2> QED BY <2>2, <2>4
<1>6. Stages'
  <2>1. \A d \in Conns : client'[d] \in {"none", "connecting"} <=> conn'[d].mem = "none"
    BY <1>1 DEF ServerInv, Stages
  <2>2. \A d \in Conns : interest'[d] # {} => conn'[d].mem = "live"
    <3>1. \A d \in Conns : interest[d] # {} => conn[d].mem = "live"
      BY DEF ServerInv, Stages
    <3> QED BY <3>1, <1>3
  <2>3. \A d \in Conns : /\ conn'[d].mem = "freed" => conn'[d].state = "closed"
                         /\ conn'[d].mem = "none" => conn'[d] = NoConn /\ heard'[d] = 0
    <3>1. \A d \in Conns : /\ conn[d].mem = "freed" => conn[d].state = "closed"
                           /\ conn[d].mem = "none" => conn[d] = NoConn /\ heard[d] = 0
      BY DEF ServerInv, Stages
    <3> QED BY <3>1, <1>1
  <2>4. server' \in {"static", "setup", "dynamic"} => Sends(rev.conn)'
    BY <1>1 DEF Sends
  <2> QED BY <2>1, <2>2, <2>3, <2>4, <1>1 DEF Stages
<1>7. Requested'
  <2>1. \A d \in Conns :
          /\ conn'[d].doc # NoPath => heard'[d] > 0
          /\ conn'[d].state \in {"received", "sent"} => heard'[d] > 0
          /\ "out" \in interest'[d] => heard'[d] > 0
    BY <1>1, <1>3, <1>4 DEF ServerInv, Requested
  <2> QED BY <2>1, <1>1, <1>4 DEF Requested
<1>8. Reasoned'
  <2>1. \E reason : Justified(reason, fds', heard')
    BY <1>1 DEF ServerInv, Reasoned
  <2>2. \A fd \in Fds, d \in Conns : fds'[fd] = SockOf(d) => conn'[d].mem # "none"
    BY <1>1 DEF ServerInv, Reasoned
  <2>3. \A fd \in Fds, d \in Conns : fds'[fd] = EventOf(d) =>
           conn'[d].mem = "freed" \/ Dead' \/ (server' = "dynamic" /\ rev'.conn = d)
    BY <1>1 DEF ServerInv, Reasoned, Dead
  <2> QED BY <2>1, <2>2, <2>3 DEF Reasoned
<1>9. (Undamaged => Sound)'
  <2>1. Undamaged' => Undamaged
    BY DEF Undamaged
  <2>2. Files(c)' = Files(c) /\ \A d \in Conns : Files(d)' = Files(d)
    BY <1>1 DEF Files, HoldsFile
  <2>3. ASSUME Sound, NEW d \in Conns
        PROVE  /\ conn'[d].mem = "live" => interest'[d] # {}
               /\ conn'[d].mem = "live" /\ conn'[d].doc # NoPath /\ conn'[d].file # NotFound =>
                     (conn'[d].file \in Fds /\ fds'[conn'[d].file] = FileOf(d, conn'[d].doc))
               /\ heard'[d] = 1 =>
                     Files(d)' \subseteq IF conn'[d].mem = "live" THEN {conn'[d].file} ELSE {}
    <3>1. /\ conn[d].mem = "live" => interest[d] # {}
          /\ conn[d].mem = "live" /\ conn[d].doc # NoPath /\ conn[d].file # NotFound =>
                (conn[d].file \in Fds /\ fds[conn[d].file] = FileOf(d, conn[d].doc))
          /\ heard[d] = 1 => Files(d) \subseteq IF conn[d].mem = "live" THEN {conn[d].file} ELSE {}
      BY <2>3 DEF Sound
    <3>2. CASE d = c
      BY <3>1, <3>2, <1>1, <1>3, <2>2
    <3>3. CASE d # c
      BY <3>1, <3>3, <1>1, <1>3, <2>2
    <3> QED BY <3>2, <3>3
  <2>4. Sound => Sound'
    BY <2>3 DEF Sound
  <2> QED BY <2>1, <2>4 DEF ServerInv
<1> QED BY <1>5, <1>6, <1>7, <1>8, <1>9 DEF ServerInv

(* Units are put into one socket, as many as fit.                          *)
LEMMA UnitsSent ==
    ASSUME ServerInv, NEW c \in Conns, NEW units \in Seq(Units), Len(units) <= Space(c),
           sent' = [sent EXCEPT ![c] = @ \o units], taken' = taken
    PROVE  /\ sent' \in [Conns -> Seq(Units)]
           /\ \A d \in Conns : taken[d] \in 0 .. Len(sent'[d]) /\ Len(sent'[d]) - taken[d] <= SockBuf
<1>1. /\ sent \in [Conns -> Seq(Units)] /\ taken \in [Conns -> Nat]
      /\ \A d \in Conns : taken[d] \in 0 .. Len(sent[d]) /\ Len(sent[d]) - taken[d] <= SockBuf
  BY DEF ServerInv, TypeOK, Shapes
<1>2. sent[c] \o units \in Seq(Units) /\ Len(sent[c] \o units) = Len(sent[c]) + Len(units)
  BY <1>1, ConcatProperties
<1>3. sent' \in [Conns -> Seq(Units)] /\ sent'[c] = sent[c] \o units
      /\ \A d \in Conns \ {c} : sent'[d] = sent[d]
  BY <1>1, <1>2
<1>4. Len(sent[c]) \in Nat /\ Len(units) \in Nat
  BY <1>1, LenProperties
<1>5. taken[c] \in 0 .. Len(sent'[c]) /\ Len(sent'[c]) - taken[c] <= SockBuf
  BY <1>1, <1>2, <1>3, <1>4, Sizes DEF Space
<1> QED BY <1>1, <1>3, <1>5

LEMMA HeaderUnitsAre ==
    ASSUME ServerInv, NEW c \in Conns, NEW n \in Nat
    PROVE  HeaderUnits(c, n) \in Seq(Units) /\ Len(HeaderUnits(c, n)) = n
<1>1. conn[c].done \in Nat
  BY DEF ServerInv, Shapes, Connections
<1>2. \A i \in 1 .. n : HeaderUnit(c, conn[c].done + i) \in Units
  BY <1>1 DEF HeaderUnit, Units
<1>3. HeaderUnits(c, n) \in [1 .. n -> Units]
  BY <1>2 DEF HeaderUnits
<1> QED BY <1>3, LenProperties

LEMMA FileUnitsAre ==
    ASSUME ServerInv, NEW c \in Conns, NEW offset \in Nat, NEW n \in Nat
    PROVE  FileUnits(c, offset, n) \in Seq(Units) /\ Len(FileUnits(c, offset, n)) = n
<1>1. conn[c].file \in Fds => fds[conn[c].file] \in Descriptors
  BY DEF ServerInv, Shapes
<1>2. HoldsFile(conn[c].file) => fds[conn[c].file][3] \in Docs
  BY <1>1, FilesOfClients, FileHeads DEF HoldsFile
<1>3. FileUnits(c, offset, n) \in [1 .. n -> Units]
  BY <1>2 DEF FileUnits, Units
<1> QED BY <1>3, LenProperties

-----------------------------------------------------------------------------
(* The handlers.                                                           *)

(* The connection a handler treats.                                        *)
LEMMA TreatedIsThere ==
    ASSUME ServerInv, server \in {"in", "out", "header", "static", "setup", "dynamic"}
    PROVE  /\ rev.conn \in Conns /\ conn[rev.conn].mem \in {"live", "freed"}
           /\ server # "out" => conn[rev.conn].mem = "live"
           /\ server \in {"static", "setup", "dynamic"} => Sends(rev.conn)
  BY DEF ServerInv, Stages, Shapes, Connections

LEMMA ReceiveFailsKeeps == ServerInv /\ ReceiveFails => ServerInv'
<1> SUFFICES ASSUME ServerInv, ReceiveFails PROVE ServerInv'
  OBVIOUS
<1>1. server = "in" /\ RemoveConnection(rev.conn) /\ server' = AfterIn /\ LoopsOn
      /\ UNCHANGED << clientVars, heard, sent >>
  BY DEF ReceiveFails
<1>2. server' \in {"wait", "out"} /\ (server' = "out" => rev.out)
  BY <1>1 DEF AfterIn
<1> QED BY <1>1, <1>2, TreatedIsThere, RemovalKeeps

LEMMA FileSentKeeps == ServerInv /\ FileSent => ServerInv'
<1> SUFFICES ASSUME ServerInv, FileSent PROVE ServerInv'
  OBVIOUS
<1>1. server \in {"static", "dynamic"} /\ RemoveConnection(rev.conn) /\ server' = "wait" /\ LoopsOn
      /\ UNCHANGED << clientVars, heard, sent >>
  BY DEF FileSent
<1> QED BY <1>1, TreatedIsThere, RemovalKeeps

(* send_message() on a structure that was freed changes no structure.      *)
LEMMA StaleSendKeeps ==
    ASSUME ServerInv, server = "out", conn[rev.conn].mem = "freed",
           server' \in {"wait", "crashed"}, LoopsOn,
           UNCHANGED << clientVars, heard, sent, conn, interest, fds >>
    PROVE  ServerInv'
<1>1. /\ UNCHANGED << client, script, said, taken, heard, sent, conn, interest, fds >>
      /\ rev' = IF server' = "wait" THEN NoEvent ELSE rev
  BY DEF clientVars, LoopsOn
<1>2. TypeOK' /\ Shapes'
  <2>1. rev' \in [conn : Conns \cup {None}, out : BOOLEAN]
    BY <1>1 DEF NoEvent, ServerInv, Shapes
  <2> QED BY <1>1, <2>1 DEF ServerInv, TypeOK, Shapes
<1>3. Stages'
  BY <1>1 DEF ServerInv, Stages
<1>4. Requested'
  BY <1>1 DEF ServerInv, Requested
<1>5. Reasoned'
  BY <1>1 DEF ServerInv, Reasoned, Dead
<1>6. (Undamaged => Sound)'
  BY <1>1 DEF ServerInv, Undamaged, Sound, Files, HoldsFile
<1> QED BY <1>2, <1>3, <1>4, <1>5, <1>6 DEF ServerInv

LEMMA SendMessageKeeps == ServerInv /\ SendMessage => ServerInv'
<1> SUFFICES ASSUME ServerInv, SendMessage PROVE ServerInv'
  OBVIOUS
<1> DEFINE c == rev.conn
<1>1. c \in Conns /\ server = "out" /\ LoopsOn /\ UNCHANGED << clientVars, heard, sent >>
  BY TreatedIsThere DEF SendMessage
<1>2. CASE conn[c].mem = "freed" /\ server' \in {"wait", "crashed"} /\ UNCHANGED << conn, interest, fds >>
  BY <1>1, <1>2, StaleSendKeeps
<1>3. CASE conn[c].mem = "live" /\ RemoveConnection(c) /\ server' = "wait"
  BY <1>1, <1>3, RemovalKeeps
<1>4. CASE conn[c].mem = "live" /\ server' = "header" /\ UNCHANGED << conn, interest, fds >>
  <2>1. UNCHANGED << sent, taken >>
    BY <1>1 DEF clientVars
  <2>2. /\ conn \in [Conns -> Connections] /\ sent \in [Conns -> Seq(Units)]
        /\ \A d \in Conns : taken[d] \in 0 .. Len(sent[d]) /\ Len(sent[d]) - taken[d] <= SockBuf
    BY DEF ServerInv, TypeOK, Shapes
  <2> QED BY <1>1, <1>4, <2>1, <2>2, AnswerKeeps
<1> QED BY <1>2, <1>3, <1>4 DEF SendMessage

(* What an EXCEPT on one connection changes.                               *)
LEMMA DoneGrows ==
    ASSUME ServerInv, NEW c \in Conns, NEW n \in Nat, conn' = [conn EXCEPT ![c].done = @ + n]
    PROVE  /\ conn' \in [Conns -> Connections] /\ \A d \in Conns \ {c} : conn'[d] = conn[d]
           /\ conn'[c].mem = conn[c].mem /\ conn'[c].doc = conn[c].doc
           /\ conn'[c].file = conn[c].file /\ conn'[c].kind = conn[c].kind
           /\ conn'[c].state = conn[c].state
<1>1. conn \in [Conns -> Connections]
  BY DEF ServerInv, Shapes
<1>2. conn[c].done + n \in Nat
  BY <1>1 DEF Connections
<1> QED BY <1>1, <1>2 DEF Connections

LEMMA SendHeaderKeeps == ServerInv /\ SendHeader => ServerInv'
<1> SUFFICES ASSUME ServerInv, SendHeader PROVE ServerInv'
  OBVIOUS
<1> DEFINE c == rev.conn
<1>1. /\ c \in Conns /\ conn[c].mem = "live" /\ server = "header" /\ LoopsOn
      /\ conn[c].done < conn[c].len /\ UNCHANGED << clientVars, heard >>
  BY TreatedIsThere DEF SendHeader
<1>2. CASE RemoveConnection(c) /\ sent' = sent /\ server' \in {"wait", "exited"}
  <2>1. UNCHANGED << clientVars, heard, sent >>
    BY <1>1, <1>2
  <2> QED BY <1>1, <1>2, <2>1, RemovalKeeps
<1>3. ASSUME NEW n \in 1 .. Min({Space(c), conn[c].len - conn[c].done}),
             sent' = [sent EXCEPT ![c] = @ \o HeaderUnits(c, n)],
             conn' = [conn EXCEPT ![c].done = @ + n],
             UNCHANGED << interest, fds, server >>
      PROVE  ServerInv'
  <2>1. Space(c) \in Int /\ conn[c].len - conn[c].done \in Int
    <3>1. Len(sent[c]) \in Nat /\ taken[c] \in Nat /\ conn[c].len \in Nat /\ conn[c].done \in Nat
      BY <1>1, LenProperties DEF ServerInv, Shapes, Connections
    <3> QED BY <3>1, Sizes DEF Space
  <2>2. n \in Nat /\ n <= Space(c)
    <3> DEFINE room == Space(c)  rest == conn[c].len - conn[c].done
    <3>1. room \in Int /\ rest \in Int /\ n \in 1 .. Min({room, rest})
      BY <1>3, <2>1
    <3> HIDE DEF room, rest
    <3>2. Min({room, rest}) \in Int /\ Min({room, rest}) <= room
      BY <3>1, MinOfTwo
    <3>3. n \in Nat /\ n <= room
      BY <3>1, <3>2
    <3> QED BY <3>3 DEF room
  <2>3. HeaderUnits(c, n) \in Seq(Units) /\ Len(HeaderUnits(c, n)) = n
    BY <1>1, <2>2, HeaderUnitsAre
  <2>4. taken' = taken
    BY <1>1 DEF clientVars
  <2>5. /\ sent' \in [Conns -> Seq(Units)]
        /\ \A d \in Conns : taken[d] \in 0 .. Len(sent'[d]) /\ Len(sent'[d]) - taken[d] <= SockBuf
    BY <1>1, <1>3, <2>2, <2>3, <2>4, UnitsSent
  <2>6. /\ conn' \in [Conns -> Connections] /\ \A d \in Conns \ {c} : conn'[d] = conn[d]
        /\ conn'[c].mem = conn[c].mem /\ conn'[c].doc = conn[c].doc
        /\ conn'[c].file = conn[c].file /\ conn'[c].kind = conn[c].kind
        /\ conn'[c].state = conn[c].state
    BY <1>1, <1>3, <2>2, DoneGrows
  <2> HIDE DEF c
  <2>7. UNCHANGED << clientVars, heard, fds >>
    BY <1>1, <1>3
  <2> QED BY <1>1, <1>3, <2>5, <2>6, <2>7, AnswerKeeps DEF c
<1> QED BY <1>2, <1>3 DEF SendHeader, WriteFails

LEMMA HeaderDoneKeeps == ServerInv /\ HeaderDone => ServerInv'
<1> SUFFICES ASSUME ServerInv, HeaderDone PROVE ServerInv'
  OBVIOUS
<1> DEFINE c == rev.conn
<1>1. /\ c \in Conns /\ conn[c].mem = "live" /\ server = "header" /\ LoopsOn
      /\ conn' = [conn EXCEPT ![c].hdr = TRUE, ![c].done = 0,
                              ![c].state = IF Sends(c) THEN @ ELSE "sent"]
      /\ interest' \in {interest, UpdatePtrIn(c)}
      /\ UNCHANGED << clientVars, heard, sent, fds >>
  BY TreatedIsThere DEF HeaderDone
<1>2. server' \in {"wait", "setup", "static"} /\ (server' # "wait" => Sends(c))
  BY DEF HeaderDone, Sends
<1>3. /\ conn \in [Conns -> Connections] /\ sent \in [Conns -> Seq(Units)]
      /\ \A d \in Conns : taken[d] \in 0 .. Len(sent[d]) /\ Len(sent[d]) - taken[d] <= SockBuf
  BY DEF ServerInv, TypeOK, Shapes
<1>4. /\ conn' \in [Conns -> Connections] /\ \A d \in Conns \ {c} : conn'[d] = conn[d]
      /\ conn'[c].mem = conn[c].mem /\ conn'[c].doc = conn[c].doc
      /\ conn'[c].file = conn[c].file /\ conn'[c].kind = conn[c].kind
      /\ conn'[c].state \in {conn[c].state, "sent"}
  <2> DEFINE state2 == IF Sends(c) THEN conn[c].state ELSE "sent"
  <2>1. conn' = [conn EXCEPT ![c] = [@ EXCEPT !.hdr = TRUE, !.done = 0, !.state = state2]]
    BY <1>1, <1>3
  <2>2. state2 \in {conn[c].state, "sent"}
    OBVIOUS
  <2>3. c \in Conns /\ conn \in [Conns -> Connections]
    BY <1>1, <1>3
  <2> HIDE DEF state2, c
  <2>4. conn[c] \in Connections /\ conn'[c] = [conn[c] EXCEPT !.hdr = TRUE, !.done = 0, !.state = state2]
    BY <2>1, <2>3
  <2>5. state2 \in {"none", "received", "sent", "closed"}
    BY <2>2, <2>4 DEF Connections
  <2>6. /\ conn'[c] \in Connections /\ conn'[c].state = state2
        /\ conn'[c].mem = conn[c].mem /\ conn'[c].doc = conn[c].doc
        /\ conn'[c].file = conn[c].file /\ conn'[c].kind = conn[c].kind
    <3>1. PICK hdr2 \in BOOLEAN :
            conn'[c] = [conn[c] EXCEPT !.hdr = hdr2, !.done = 0, !.state = state2]
      <4>1. TRUE \in BOOLEAN
        OBVIOUS
      <4> QED BY <4>1, <2>4, Zenon
    <3>2. conn[c] \in Connections
      BY <2>4
    <3> DEFINE old == conn[c]  new == conn'[c]
    <3>3. /\ old \in Connections /\ state2 \in {"none", "received", "sent", "closed"}
          /\ new = [old EXCEPT !.hdr = hdr2, !.done = 0, !.state = state2]
      BY <3>1, <3>2, <2>5
    <3> HIDE DEF old, new
    <3>4. /\ new \in Connections /\ new.state = state2
          /\ new.mem = old.mem /\ new.doc = old.doc
          /\ new.file = old.file /\ new.kind = old.kind
      BY <3>3 DEF Connections
    <3> QED BY <3>4 DEF old, new
  <2> QED BY <2>1, <2>2, <2>3, <2>6
<1>5. sent' = sent
  BY <1>1
<1>6. UNCHANGED << clientVars, heard, fds >>
  BY <1>1
<1> QED BY <1>1, <1>2, <1>3, <1>4, <1>5, <1>6, AnswerKeeps

LEMMA SendStaticKeeps == ServerInv /\ SendStatic => ServerInv'
<1> SUFFICES ASSUME ServerInv, SendStatic PROVE ServerInv'
  OBVIOUS
<1> DEFINE c == rev.conn
<1>1. /\ c \in Conns /\ conn[c].mem = "live" /\ server = "static" /\ LoopsOn /\ Sends(c)
      /\ UNCHANGED << clientVars, heard, interest, fds >>
  BY TreatedIsThere DEF SendStatic
<1>2. /\ conn \in [Conns -> Connections] /\ sent \in [Conns -> Seq(Units)]
      /\ \A d \in Conns : taken[d] \in 0 .. Len(sent[d]) /\ Len(sent[d]) - taken[d] <= SockBuf
  BY DEF ServerInv, TypeOK, Shapes
<1>3. taken' = taken /\ UNCHANGED << clientVars, heard, fds >> /\ interest' = interest
  BY <1>1 DEF clientVars
<1>4. CASE server' = "exited" /\ UNCHANGED << conn, sent >>
  <2>1. conn' = conn /\ sent' = sent
    BY <1>4
  <2> QED BY <1>1, <1>2, <1>3, <1>4, <2>1, AnswerKeeps
<1>5. ASSUME NEW n \in 1 .. Min({Space(c), conn[c].size - conn[c].done}),
             sent' = [sent EXCEPT ![c] = @ \o FileUnits(c, conn[c].done, n)],
             conn' = [conn EXCEPT ![c].done = @ + n],
             server' = server
      PROVE  ServerInv'
  <2>1. Space(c) \in Int /\ conn[c].size - conn[c].done \in Int /\ conn[c].done \in Nat
    <3>1. taken[c] \in Nat /\ sent[c] \in Seq(Units)
      BY <1>1 DEF ServerInv, Shapes
    <3>2. conn[c] \in Connections
      BY <1>1 DEF ServerInv, Shapes
    <3>3. conn[c].size \in Int /\ conn[c].done \in Nat
      BY <3>2 DEF Connections
    <3>4. Len(sent[c]) \in Nat /\ SockBuf \in Nat
      BY <3>1, LenProperties, Sizes
    <3> QED BY <3>1, <3>3, <3>4 DEF Space
  <2>2. n \in Nat /\ n <= Space(c)
    <3> DEFINE room == Space(c)  rest == conn[c].size - conn[c].done
    <3>1. room \in Int /\ rest \in Int /\ n \in 1 .. Min({room, rest})
      BY <1>5, <2>1
    <3> HIDE DEF room, rest
    <3>2. Min({room, rest}) \in Int /\ Min({room, rest}) <= room
      BY <3>1, MinOfTwo
    <3>3. n \in Nat /\ n <= room
      BY <3>1, <3>2
    <3> QED BY <3>3 DEF room
  <2>3. FileUnits(c, conn[c].done, n) \in Seq(Units) /\ Len(FileUnits(c, conn[c].done, n)) = n
    BY <1>1, <2>1, <2>2, FileUnitsAre DEF Sends
  <2>4. /\ sent' \in [Conns -> Seq(Units)]
        /\ \A d \in Conns : taken[d] \in 0 .. Len(sent'[d]) /\ Len(sent'[d]) - taken[d] <= SockBuf
    BY <1>1, <1>3, <1>5, <2>2, <2>3, UnitsSent
  <2>5. /\ conn' \in [Conns -> Connections] /\ \A d \in Conns \ {c} : conn'[d] = conn[d]
        /\ conn'[c].mem = conn[c].mem /\ conn'[c].doc = conn[c].doc
        /\ conn'[c].file = conn[c].file /\ conn'[c].kind = conn[c].kind
        /\ conn'[c].state = conn[c].state
    BY <1>1, <1>5, <2>2, DoneGrows
  <2> HIDE DEF c
  <2> QED BY <1>1, <1>3, <1>5, <2>4, <2>5, AnswerKeeps DEF c
<1> QED BY <1>4, <1>5 DEF SendStatic

LEMMA SendDynamicKeeps == ServerInv /\ SendDynamic => ServerInv'
<1> SUFFICES ASSUME ServerInv, SendDynamic PROVE ServerInv'
  OBVIOUS
<1> DEFINE c == rev.conn
           n == IF client[c] = "reset" THEN 0 ELSE Min({Space(c), ReadSize(c)})
<1>1. /\ c \in Conns /\ conn[c].mem = "live" /\ server = "dynamic" /\ LoopsOn /\ Sends(c)
      /\ conn[c].done < conn[c].size
      /\ UNCHANGED << clientVars, heard, interest, fds >>
  BY TreatedIsThere DEF SendDynamic
<1>2. /\ conn \in [Conns -> Connections] /\ sent \in [Conns -> Seq(Units)]
      /\ \A d \in Conns : taken[d] \in 0 .. Len(sent[d]) /\ Len(sent[d]) - taken[d] <= SockBuf
  BY DEF ServerInv, TypeOK, Shapes
<1>3. taken' = taken /\ UNCHANGED << clientVars, heard, fds >> /\ interest' = interest
  BY <1>1 DEF clientVars
<1>4. CASE server' \in {"crashed", "exited"} /\ UNCHANGED << conn, sent >>
  <2>1. conn' = conn /\ sent' = sent
    BY <1>4
  <2> QED BY <1>1, <1>2, <1>3, <1>4, <2>1, AnswerKeeps
<1>5. ASSUME sent' = [sent EXCEPT ![c] = @ \o FileUnits(c, conn[c].done, n)],
             conn' = [conn EXCEPT ![c].done = @ + ReadSize(c)],
             server' \in {"dynamic", "exited"}
      PROVE  ServerInv'
  <2>1. /\ Len(sent[c]) \in Nat /\ taken[c] \in Nat /\ conn[c].size \in Int /\ conn[c].done \in Nat
        /\ taken[c] <= Len(sent[c])
    BY <1>1, <1>2, LenProperties DEF ServerInv, Shapes, Connections
  <2>2. Space(c) \in Nat
    BY <1>1, <1>2, <2>1, Sizes DEF Space
  <2>3. ReadSize(c) \in Nat
    <3> DEFINE size == conn[c].size
    <3>1. size \in Nat /\ Block \in Nat
      BY <1>1, <2>1, Sizes
    <3> HIDE DEF size
    <3>2. Min({size, Block}) \in Nat
      BY <3>1, MinOfTwoNats
    <3> QED BY <3>2 DEF ReadSize, size
  <2>4. n \in Nat /\ n <= Space(c)
    <3> DEFINE room == Space(c)  block == ReadSize(c)
    <3>1. room \in Nat /\ block \in Nat
      BY <2>2, <2>3
    <3> HIDE DEF room, block
    <3>2. Min({room, block}) \in Nat /\ Min({room, block}) <= room
      BY <3>1, MinOfTwoNats
    <3>3. n = 0 \/ n = Min({room, block})
      BY DEF room, block
    <3> QED BY <3>1, <3>2, <3>3 DEF room
  <2> HIDE DEF n
  <2>5. FileUnits(c, conn[c].done, n) \in Seq(Units) /\ Len(FileUnits(c, conn[c].done, n)) = n
    BY <1>1, <2>1, <2>4, FileUnitsAre DEF Sends
  <2>6. /\ sent' \in [Conns -> Seq(Units)]
        /\ \A d \in Conns : taken[d] \in 0 .. Len(sent'[d]) /\ Len(sent'[d]) - taken[d] <= SockBuf
    BY <1>1, <1>3, <1>5, <2>4, <2>5, UnitsSent
  <2>7. /\ conn' \in [Conns -> Connections] /\ \A d \in Conns \ {c} : conn'[d] = conn[d]
        /\ conn'[c].mem = conn[c].mem /\ conn'[c].doc = conn[c].doc
        /\ conn'[c].file = conn[c].file /\ conn'[c].kind = conn[c].kind
        /\ conn'[c].state = conn[c].state
    BY <1>1, <1>5, <2>3, DoneGrows
  <2>8. /\ rev.conn = c /\ conn'[c].mem = "live" /\ conn'[c].state \in {conn[c].state, "sent"}
        /\ interest' \in {interest, UpdatePtrIn(c)}
        /\ server \in {"out", "header", "static", "dynamic"}
        /\ server' \in {"wait", "header", "static", "setup", "dynamic", "exited", "crashed"}
        /\ server' \in {"static", "setup", "dynamic"} => Sends(c)
        /\ server = "dynamic" => server' \in {"dynamic", "exited", "crashed"}
    BY <1>1, <1>3, <1>5, <2>7
  <2>9. /\ c \in Conns /\ conn[c].mem = "live" /\ LoopsOn
        /\ UNCHANGED << clientVars, heard, fds >>
    BY <1>1, <1>3
  <2> HIDE DEF c
  <2> QED BY <2>6, <2>7, <2>8, <2>9, AnswerKeeps
<1> QED BY <1>4, <1>5 DEF SendDynamic, WriteFails

(* iocb_setup() takes a descriptor that nobody gives back.                 *)
LEMMA IocbSetupKeeps == ServerInv /\ IocbSetup => ServerInv'
<1> SUFFICES ASSUME ServerInv, IocbSetup PROVE ServerInv'
  OBVIOUS
<1> DEFINE c == rev.conn
<1>1. /\ c \in Conns /\ conn[c].mem = "live" /\ server = "setup" /\ LoopsOn /\ Sends(c)
      /\ UNCHANGED << client, script, said, taken, heard, sent, conn, interest >>
      /\ server' \in {"exited", "crashed", "dynamic"}
  BY TreatedIsThere DEF IocbSetup, clientVars
<1>2. rev' = rev
  BY <1>1 DEF LoopsOn
<1>3. /\ fds \in [Fds -> Descriptors] /\ heard \in [Conns -> Nat]
      /\ EventOf(c) \in Descriptors
  <2>1. \A d \in Conns : EventOf(d) \in Descriptors /\ SockOf(d) \in Descriptors
    BY DEF Descriptors
  <2> QED BY <1>1, <2>1 DEF ServerInv, Shapes
<1>4. fds' = fds \/ (FreeFds # {} /\ fds' = [fds EXCEPT ![LowestFree] = EventOf(c)])
  BY DEF IocbSetup, LowestFree
<1>5. FreeFds # {} => LowestFree \in Fds /\ fds[LowestFree] = Free
  BY LowestIsFree
<1>6. /\ fds' \in [Fds -> Descriptors]
      /\ \A fd \in Fds : fds'[fd] # fds[fd] => fds[fd] = Free /\ fds'[fd] = EventOf(c)
  BY <1>3, <1>4, <1>5
<1>7. TypeOK' /\ Shapes'
  <2>1. Shapes'
    BY <1>1, <1>2, <1>6 DEF ServerInv, Shapes
  <2>2. \A fd \in Fds : fds'[fd] \in Descriptors
    BY <1>6
  <2>3. TypeOK'
    BY <1>1, <2>2 DEF ServerInv, TypeOK, Descriptors
  <2> QED BY <2>1, <2>3
<1>8. Stages'
  <2>1. Sends(rev.conn)'
    BY <1>1, <1>2 DEF Sends
  <2> QED BY <1>1, <1>2, <2>1 DEF ServerInv, Stages
<1>9. Requested'
  BY <1>1, <1>2 DEF ServerInv, Requested
<1>10. Reasoned'
  <2>1. PICK reason : Justified(reason, fds, heard)
    BY DEF ServerInv, Reasoned
  <2>2. \A fd \in Fds : fds[fd] # EventOf(c)
    BY <1>1 DEF ServerInv, Reasoned, Dead
  <2>3. \A fd \in Fds : fds[fd] # Free => reason[fd] # EventOf(c)
    BY <2>1, <2>2, ReasonsTell DEF Justified
  <2>4. EventOf(c) \in Reasons /\ \A fd : Because(EventOf(c), fd, EventOf(c), heard)
    BY <1>1, ReasonsAre DEF Because
  <2>5. \E reason2 : Justified(reason2, fds', heard)
    <3>1. CASE fds' = fds
      BY <2>1, <3>1
    <3>2. CASE FreeFds # {} /\ fds' = [fds EXCEPT ![LowestFree] = EventOf(c)]
      <4> DEFINE f == LowestFree
      <4>1. /\ f \in Fds /\ fds' = [fds EXCEPT ![f] = EventOf(c)]
            /\ \A fd \in Fds \ {f} : fds[fd] # Free => reason[fd] # EventOf(c)
            /\ Because(EventOf(c), f, EventOf(c), heard)
            /\ \A d \in Conns : heard[d] <= heard[d]
        BY <3>2, <1>3, <1>5, <2>3, <2>4
      <4> HIDE DEF f
      <4> QED BY <4>1, <1>3, <2>1, <2>4, ReasonTaken
    <3> QED BY <1>4, <3>1, <3>2
  <2>6. \A fd \in Fds, d \in Conns : fds'[fd] = SockOf(d) => conn'[d].mem # "none"
    BY <1>1, <1>6, DescriptorsDiffer DEF ServerInv, Reasoned
  <2>7. \A fd \in Fds, d \in Conns : fds'[fd] = EventOf(d) =>
           conn'[d].mem = "freed" \/ Dead' \/ (server' = "dynamic" /\ rev'.conn = d)
    BY <1>1, <1>2, <1>6, DescriptorsDiffer DEF ServerInv, Reasoned, Dead
  <2> QED BY <2>5, <2>6, <2>7, <1>1 DEF Reasoned
<1>11. (Undamaged => Sound)'
  <2>1. Undamaged' => Undamaged
    BY <1>1 DEF Undamaged
  <2>2. \A d \in Conns : Files(d)' \subseteq Files(d)
    BY <1>6, FileHeads DEF Files, HoldsFile
  <2>4. \A d \in Conns : \A doc : \A fd \in Fds : fds[fd] = FileOf(d, doc) => fds'[fd] = FileOf(d, doc)
    BY <1>6, DescriptorsDiffer
  <2>5. Sound => Sound'
    BY <1>1, <2>2, <2>4 DEF Sound
  <2> QED BY <2>1, <2>5 DEF ServerInv
<1> QED BY <1>7, <1>8, <1>9, <1>10, <1>11 DEF ServerInv

(* A descriptor that was free is taken, for a reason nothing else has.     *)
LEMMA TableGrows ==
    ASSUME ServerInv, FreeFds # {}, NEW x \in Descriptors,
           fds' = [fds EXCEPT ![LowestFree] = x]
    PROVE  /\ fds' \in [Fds -> Descriptors] /\ LowestFree \in Fds
           /\ fds[LowestFree] = Free /\ fds'[LowestFree] = x
           /\ \A fd \in Fds : fd # LowestFree => fds'[fd] = fds[fd]
  BY LowestIsFree DEF ServerInv, Shapes

LEMMA DescriptorsAre ==
    ASSUME NEW c \in Conns
    PROVE  SockOf(c) \in Descriptors /\ \A doc \in Docs : FileOf(c, doc) \in Descriptors
<1>1. \A d \in Conns : SockOf(d) \in Descriptors /\ \A doc \in Docs : FileOf(d, doc) \in Descriptors
  BY DEF Descriptors
<1> QED BY <1>1

LEMMA WaitEventKeeps == ASSUME ServerInv, NEW c \in Conns, WaitEvent(c) PROVE ServerInv'
<1> DEFINE in  == "in" \in interest[c] /\ Readable(c)
           out == "out" \in interest[c] /\ Writable(c)
<1>1. /\ server = "wait" /\ (in \/ out) /\ server' = IF in THEN "in" ELSE "out"
      /\ rev' = [conn |-> c, out |-> out]
      /\ UNCHANGED << client, script, said, taken, heard, sent, conn, interest, fds >>
  BY DEF WaitEvent, clientVars
<1>2. conn[c].mem = "live"
  <2>1. interest[c] # {}
    BY <1>1
  <2> QED BY <2>1 DEF ServerInv, Stages
<1>3. out => heard[c] > 0
  BY DEF ServerInv, Requested
<1>4. out \in BOOLEAN /\ (server' = "out" => out) /\ server' \in {"in", "out"}
  BY <1>1
<1> HIDE DEF in, out
<1>5. rev' \in [conn : Conns \cup {None}, out : BOOLEAN] /\ rev'.conn = c /\ (rev'.out <=> out)
  BY <1>1, <1>4
<1>6. TypeOK' /\ Shapes'
  BY <1>1, <1>4, <1>5 DEF ServerInv, TypeOK, Shapes
<1>7. Stages'
  BY <1>1, <1>2, <1>4, <1>5 DEF ServerInv, Stages
<1>8. Requested'
  BY <1>1, <1>3, <1>4, <1>5 DEF ServerInv, Requested
<1>9. Reasoned'
  BY <1>1, <1>4 DEF ServerInv, Reasoned, Dead
<1>10. (Undamaged => Sound)'
  BY <1>1 DEF ServerInv, Undamaged, Sound, Files, HoldsFile
<1> QED BY <1>6, <1>7, <1>8, <1>9, <1>10 DEF ServerInv

LEMMA StartKeeps == ServerInv /\ Start => ServerInv'
<1> SUFFICES ASSUME ServerInv, Start PROVE ServerInv'
  OBVIOUS
<1>1. /\ server = "start" /\ server' \in {"exited", "wait"}
      /\ UNCHANGED << client, script, said, taken, heard, sent, conn, interest, rev >>
      /\ fds' = fds \/ fds' = [fds EXCEPT ![1] = Std, ![2] = Std]
  BY DEF Start, Epoll, Listener, clientVars
<1>2. fds \in [Fds -> Descriptors] /\ heard \in [Conns -> Nat] /\ Std \in Descriptors
  BY DEF ServerInv, Shapes, Descriptors
<1>3. /\ fds' \in [Fds -> Descriptors]
      /\ \A fd \in Fds : fds'[fd] = fds[fd] \/ (fd \in {1, 2} /\ fds'[fd] = Std)
  BY <1>1, <1>2, Sizes
<1>4. TypeOK' /\ Shapes'
  <2>1. \A fd \in Fds : fds'[fd] \in Descriptors
    BY <1>3
  <2> QED BY <1>1, <1>3, <2>1 DEF ServerInv, TypeOK, Shapes, Descriptors
<1>5. Stages' /\ Requested'
  BY <1>1 DEF ServerInv, Stages, Requested
<1>6. Reasoned'
  <2>1. PICK reason : Justified(reason, fds, heard)
    BY DEF ServerInv, Reasoned
  <2>2. \A c \in Conns : heard[c] <= heard[c]
    BY <1>2
  <2>3. ASSUME NEW reason1, NEW table, NEW i \in {1, 2}, table \in [Fds -> Descriptors],
               Justified(reason1, table, heard)
        PROVE  \E reason2 : Justified(reason2, [table EXCEPT ![i] = Std], heard)
    <3>1. i \in Fds /\ << "server", i >> \in Reasons
      BY Sizes DEF Reasons
    <3>2. Because(<< "server", i >>, i, Std, heard)
      BY DEF Because
    <3>3. \A fd \in Fds \ {i} : table[fd] # Free => reason1[fd] # << "server", i >>
      BY <2>3, ReasonsTell DEF Justified
    <3> QED BY <1>2, <2>2, <2>3, <3>1, <3>2, <3>3, ReasonTaken
  <2>4. \E reason2 : Justified(reason2, fds', heard)
    <3>1. CASE fds' = fds
      BY <2>1, <3>1
    <3>2. CASE fds' = [fds EXCEPT ![1] = Std, ![2] = Std]
      <4> DEFINE table == [fds EXCEPT ![1] = Std]
      <4>1. table \in [Fds -> Descriptors] /\ fds' = [table EXCEPT ![2] = Std]
        BY <1>2, <3>2
      <4>2. \E reason1 : Justified(reason1, table, heard)
        BY <1>2, <2>1, <2>3
      <4> HIDE DEF table
      <4> QED BY <2>3, <4>1, <4>2
    <3> QED BY <1>1, <3>1, <3>2
  <2>5. \A fd \in Fds, c \in Conns :
           /\ fds'[fd] = SockOf(c) => fds[fd] = SockOf(c)
           /\ fds'[fd] = EventOf(c) => fds[fd] = EventOf(c)
    BY <1>3, DescriptorsDiffer
  <2> QED BY <2>4, <2>5, <1>1 DEF ServerInv, Reasoned, Dead
<1>7. (Undamaged => Sound)'
  <2>1. \A c \in Conns : conn[c].mem = "none" /\ heard[c] = 0
    BY <1>1 DEF ServerInv, Stages
  <2> QED BY <2>1, <1>1 DEF Sound
<1> QED BY <1>4, <1>5, <1>6, <1>7 DEF ServerInv

(* A new connection gets the lowest descriptor, and whatever malloc() left.*)
LEMMA AcceptKeeps == ASSUME ServerInv, NEW c \in Conns, Accept(c) PROVE ServerInv'
<1>1. /\ server = "wait" /\ client[c] = "connecting"
      /\ UNCHANGED << script, said, heard, sent, taken, rev >>
  BY DEF Accept
<1>2. conn[c].mem = "none" /\ conn[c] = NoConn /\ heard[c] = 0 /\ rev = NoEvent
  BY <1>1 DEF ServerInv, Stages
<1>3. CASE server' = "exited" /\ UNCHANGED << client, conn, interest, fds >>
  <2>1. TypeOK' /\ Shapes'
    BY <1>1, <1>3 DEF ServerInv, TypeOK, Shapes
  <2>2. Stages' /\ Requested'
    BY <1>1, <1>3 DEF ServerInv, Stages, Requested
  <2>3. Reasoned'
    BY <1>1, <1>3 DEF ServerInv, Reasoned, Dead
  <2>4. (Undamaged => Sound)'
    BY <1>1, <1>3 DEF ServerInv, Undamaged, Sound, Files, HoldsFile
  <2> QED BY <2>1, <2>2, <2>3, <2>4 DEF ServerInv
<1>4. ASSUME FreeFds # {}, NEW junk \in Leftovers,
             conn' = [conn EXCEPT ![c] = [NoConn EXCEPT !.mem = "live", !.file = junk]],
             fds' = [fds EXCEPT ![LowestFree] = SockOf(c)],
             interest' = AddPtrIn(c),
             client' = [client EXCEPT ![c] = "open"],
             server' = server
      PROVE  ServerInv'
  <2> DEFINE new == [NoConn EXCEPT !.mem = "live", !.file = junk]
             f   == LowestFree
  <2>1. /\ conn \in [Conns -> Connections] /\ fds \in [Fds -> Descriptors]
        /\ interest \in [Conns -> SUBSET {"in", "out"}]
        /\ client \in [Conns -> {"none", "connecting", "open", "halfclosed", "reset"}]
    BY DEF ServerInv, TypeOK, Shapes
  <2>2. junk \in Leftovers
    OBVIOUS
  <2>3. new \in Connections /\ new.mem = "live" /\ new.doc = NoPath /\ new.state = "none"
    BY <2>2, NoConnIsOne DEF Connections
  <2> HIDE DEF new
  <2>4. /\ conn' \in [Conns -> Connections] /\ conn'[c] = new
        /\ \A d \in Conns \ {c} : conn'[d] = conn[d]
    BY <1>4, <2>1, <2>3 DEF new
  <2>5. /\ interest' \in [Conns -> SUBSET {"in", "out"}] /\ interest'[c] = {"in"}
        /\ \A d \in Conns \ {c} : interest'[d] = interest[d]
        /\ client' \in [Conns -> {"none", "connecting", "open", "halfclosed", "reset"}]
        /\ client'[c] = "open" /\ \A d \in Conns \ {c} : client'[d] = client[d]
    BY <1>4, <2>1 DEF AddPtrIn
  <2>6. /\ fds' \in [Fds -> Descriptors] /\ f \in Fds /\ fds[f] = Free /\ fds'[f] = SockOf(c)
        /\ \A fd \in Fds : fd # f => fds'[fd] = fds[fd]
    BY <1>4, DescriptorsAre, TableGrows
  <2>7. TypeOK' /\ Shapes'
    <3>1. \A fd \in Fds : fds'[fd] \in Descriptors
      BY <2>6
    <3>2. \A d \in Conns : conn'[d].mem \in {"none", "live", "freed"} /\ conn'[d].file \in Fds \cup {NotFound} \cup Leftovers
      BY <2>4 DEF Connections
    <3>3. Shapes'
      BY <1>1, <2>4, <2>6 DEF ServerInv, Shapes
    <3>4. TypeOK'
      BY <1>1, <1>4, <2>5, <3>1, <3>2 DEF ServerInv, TypeOK, Descriptors
    <3> QED BY <3>3, <3>4
  <2>8. Stages'
    <3>1. \A d \in Conns : client'[d] \in {"none", "connecting"} <=> conn'[d].mem = "none"
      BY <2>3, <2>4, <2>5 DEF ServerInv, Stages
    <3>2. \A d \in Conns : interest'[d] # {} => conn'[d].mem = "live"
      BY <2>3, <2>4, <2>5 DEF ServerInv, Stages
    <3>3. \A d \in Conns : /\ conn'[d].mem = "freed" => conn'[d].state = "closed"
                           /\ conn'[d].mem = "none" => conn'[d] = NoConn /\ heard'[d] = 0
      BY <1>1, <2>3, <2>4 DEF ServerInv, Stages
    <3> QED BY <3>1, <3>2, <3>3, <1>1, <1>2, <1>4 DEF Stages
  <2>9. Requested'
    <3>1. \A d \in Conns :
            /\ conn'[d].doc # NoPath => heard'[d] > 0
            /\ conn'[d].state \in {"received", "sent"} => heard'[d] > 0
            /\ "out" \in interest'[d] => heard'[d] > 0
      BY <1>1, <2>3, <2>4, <2>5 DEF ServerInv, Requested
    <3> QED BY <3>1, <1>1, <1>4 DEF Requested
  <2>10. Reasoned'
    <3>1. PICK reason : Justified(reason, fds, heard)
      BY DEF ServerInv, Reasoned
    <3>2. \A fd \in Fds : fds[fd] # SockOf(c)
      BY <1>2 DEF ServerInv, Reasoned
    <3>3. \A fd \in Fds \ {f} : fds[fd] # Free => reason[fd] # SockOf(c)
      BY <3>1, <3>2, ReasonsTell DEF Justified
    <3>4. SockOf(c) \in Reasons /\ Because(SockOf(c), f, SockOf(c), heard)
      BY ReasonsAre DEF Because
    <3>5. heard \in [Conns -> Nat]
      BY DEF ServerInv, Shapes
    <3>6. \A d \in Conns : heard[d] <= heard[d]
      BY <3>5
    <3>7. \E reason2 : Justified(reason2, fds', heard)
      <4>1. fds' = [fds EXCEPT ![f] = SockOf(c)] /\ f \in Fds
        BY <1>4, <2>6
      <4> HIDE DEF f
      <4> QED BY <2>1, <3>1, <3>3, <3>4, <3>5, <3>6, <4>1, ReasonTaken
    <3>8. \A fd \in Fds, d \in Conns : fds'[fd] = SockOf(d) => conn'[d].mem # "none"
      BY <2>3, <2>4, <2>6, DescriptorsDiffer DEF ServerInv, Reasoned
    <3>9. \A fd \in Fds, d \in Conns : fds'[fd] = EventOf(d) => conn'[d].mem = "freed"
      BY <1>1, <1>2, <2>4, <2>6, DescriptorsDiffer DEF ServerInv, Reasoned, Dead
    <3> QED BY <3>7, <3>8, <3>9, <1>1 DEF Reasoned
  <2>11. (Undamaged => Sound)'
    <3> SUFFICES ASSUME Undamaged', NEW d \in Conns
                 PROVE  /\ conn'[d].mem = "live" => interest'[d] # {}
                        /\ conn'[d].mem = "live" /\ conn'[d].doc # NoPath /\ conn'[d].file # NotFound =>
                              (conn'[d].file \in Fds /\ fds'[conn'[d].file] = FileOf(d, conn'[d].doc))
                        /\ heard'[d] = 1 =>
                              Files(d)' \subseteq IF conn'[d].mem = "live" THEN {conn'[d].file} ELSE {}
      BY DEF Sound
    <3>1. Undamaged
      BY <1>2, <2>4 DEF Undamaged
    <3>2. CASE d = c
      BY <1>1, <1>2, <2>3, <2>4, <2>5, <3>2
    <3>3. CASE d # c
      <4>1. conn'[d] = conn[d] /\ interest'[d] = interest[d] /\ heard'[d] = heard[d]
        BY <1>1, <2>4, <2>5, <3>3
      <4>2. Files(d)' \subseteq Files(d)
        BY <2>6, FileHeads DEF Files, HoldsFile
      <4>3. conn[d].file \in Fds \cup {NotFound} \cup Leftovers
        BY <2>1 DEF Connections
      <4>4. \A fd \in Fds : fds[fd] = FileOf(d, conn[d].doc) => fds'[fd] = fds[fd]
        BY <2>6, DescriptorsDiffer
      <4>5. /\ conn[d].mem = "live" => interest[d] # {}
            /\ conn[d].mem = "live" /\ conn[d].doc # NoPath /\ conn[d].file # NotFound =>
                  (conn[d].file \in Fds /\ fds[conn[d].file] = FileOf(d, conn[d].doc))
            /\ heard[d] = 1 => Files(d) \subseteq IF conn[d].mem = "live" THEN {conn[d].file} ELSE {}
        BY <3>1 DEF ServerInv, Sound
      <4> QED BY <4>1, <4>2, <4>3, <4>4, <4>5
    <3> QED BY <3>2, <3>3
  <2> QED BY <2>7, <2>8, <2>9, <2>10, <2>11 DEF ServerInv
<1> QED BY <1>3, <1>4 DEF Accept

-----------------------------------------------------------------------------
(* handle_client_request().                                                *)

(* What waits in a socket begins with a segment of the script, and a new   *)
(* parser takes it for the path of a document or for none.                 *)
LEMMA PathsAre ==
    ASSUME ServerInv, NEW c \in Conns, heard[c] < said[c]
    PROVE  PathsIn(Inbox(c)) \subseteq Docs \cup {NoPath}
<1>1. /\ script[c] \in Seq(Segments) /\ said[c] <= Len(script[c])
      /\ heard[c] \in Nat /\ said[c] \in Nat /\ Len(script[c]) \in Nat
  BY ScriptLengths DEF ServerInv, TypeOK, Shapes
<1>2. Inbox(c)[1] = script[c][heard[c] + 1]
  BY <1>1, SubSeqProperties DEF Inbox
<1>3. Inbox(c)[1] \in Segments
  BY <1>1, <1>2, ElementOfSeq
<1>4. PICK doc \in Docs : Inbox(c)[1] \in {Whole(doc), Posted(doc), HeadOf(doc), TailOf(doc)}
  BY <1>3 DEF Segments
<1>5. Inbox(c)[1][2] = doc /\ Heads[doc] \subseteq Docs \cup {NoPath}
  BY <1>4, SizesAssumption DEF Whole, Posted, HeadOf, TailOf
<1>6. /\ Whole(doc) # HeadOf(doc) /\ Whole(doc) # TailOf(doc) /\ HeadOf(doc) # TailOf(doc)
      /\ Posted(doc) # Whole(doc) /\ Posted(doc) # HeadOf(doc) /\ Posted(doc) # TailOf(doc)
  BY DEF Whole, Posted, HeadOf, TailOf
<1>7. CASE Inbox(c)[1] = Whole(doc)
  <2>1. PathsIn(Inbox(c)) = {doc}
    BY <1>5, <1>6, <1>7 DEF PathsIn
  <2> QED BY <2>1
<1>10. CASE Inbox(c)[1] = Posted(doc)
  <2>1. PathsIn(Inbox(c)) = {doc} \cup (IF Len(Inbox(c)) > 1 THEN Overlays[doc] ELSE {})
    BY <1>5, <1>6, <1>10 DEF PathsIn
  <2> QED BY <2>1, SizesAssumption
<1>8. CASE Inbox(c)[1] = HeadOf(doc)
  <2>1. PathsIn(Inbox(c)) = IF Len(Inbox(c)) > 1 THEN {doc} ELSE Heads[doc]
    BY <1>5, <1>6, <1>8 DEF PathsIn
  <2> QED BY <2>1, <1>5
<1>9. CASE Inbox(c)[1] = TailOf(doc)
  <2>1. PathsIn(Inbox(c)) = {NoPath}
    BY <1>5, <1>6, <1>9 DEF PathsIn
  <2> QED BY <2>1
<1> QED BY <1>4, <1>7, <1>8, <1>9, <1>10

(* A connection nothing was received from has no file.                     *)
LEMMA NoFileYet ==
    ASSUME ServerInv, NEW c \in Conns, heard[c] = 0
    PROVE  Files(c) = {}
<1>1. PICK reason : Justified(reason, fds, heard)
  BY DEF ServerInv, Reasoned
<1>2. ASSUME NEW fd \in Fds, HoldsFile(fd), fds[fd][2] = c
      PROVE  FALSE
  <2>1. Because(reason[fd], fd, fds[fd], heard)
    BY <1>1 DEF Justified
  <2>2. fds[fd] \in Descriptors
    BY DEF ServerInv, Shapes
  <2>3. PICK d \in Conns, doc \in Docs : fds[fd] = FileOf(d, doc)
    BY <1>2, <2>2, FilesOfClients
  <2>4. d = c
    BY <1>2, <2>3, FileHeads
  <2>5. \E k \in 1 .. heard[c] : TRUE
    BY <2>1, <2>3, <2>4, DescriptorsDiffer DEF Because
  <2> QED BY <2>5, <1>2
<1> QED BY <1>2 DEF Files

(* What the two ways through set_connection_path_and_file() have in common.*)
LEMMA DocumentSet ==
    ASSUME ServerInv, NEW c \in Conns, conn[c].mem = "live", heard[c] < said[c],
           NEW path \in PathsIn(Inbox(c)),
           IF path = NoPath THEN KeepDocument(c) ELSE OpenDocument(c, path)
    PROVE  /\ conn' \in [Conns -> Connections]
           /\ \A d \in Conns \ {c} : conn'[d] = conn[d]
           /\ conn'[c].mem = "live" /\ conn'[c].state = "received"
           /\ \/ fds' = fds /\ conn'[c].doc = conn[c].doc /\ conn'[c].file = conn[c].file
              \/ fds' = fds /\ conn'[c].doc = path /\ conn'[c].file = NotFound
              \/ /\ FreeFds # {} /\ path \in Docs
                 /\ fds' = [fds EXCEPT ![LowestFree] = FileOf(c, path)]
                 /\ conn'[c].doc = path /\ conn'[c].file = LowestFree
<1>1. conn \in [Conns -> Connections] /\ conn[c] \in Connections
  BY DEF ServerInv, Shapes
<1>2. path \in Docs \cup {NoPath}
  BY PathsAre
<1>3. CASE path = NoPath
  <2>1. PICK size \in SizesAt(conn[c].file), kind \in KindsLeft(c) :
           conn' = [conn EXCEPT ![c] = [@ EXCEPT !.state = "received", !.len = HeaderLen,
                                                 !.size = size, !.kind = kind]]
    BY <1>3 DEF KeepDocument
  <2>2. fds' = fds
    BY <1>3 DEF KeepDocument
  <2>3. kind \in {"none", "static", "dynamic", "other", "missing"}
    BY <1>1 DEF KindsLeft, Connections
  <2>4. size \in Int
    <3>1. CASE conn[c].file = NotFound
      <4>1. SizesAt(conn[c].file) = {0}
        BY <3>1, Sizes DEF SizesAt, HoldsFile
      <4> QED BY <4>1
    <3>2. CASE conn[c].file # NotFound /\ HoldsFile(conn[c].file)
      <4>1. fds[conn[c].file] \in Descriptors /\ conn[c].file \in Fds
        BY <3>2, <1>1 DEF HoldsFile, ServerInv, Shapes, Connections
      <4>2. fds[conn[c].file][3] \in Docs
        BY <3>2, <4>1, FilesOfClients, FileHeads
      <4>3. size = Size[fds[conn[c].file][3]]
        BY <3>2, <2>1 DEF SizesAt
      <4> QED BY <4>2, <4>3, Sizes
    <3>3. CASE conn[c].file # NotFound /\ ~HoldsFile(conn[c].file)
      BY <3>3 DEF SizesAt
    <3> QED BY <3>1, <3>2, <3>3
  <2>5. conn'[c] = [conn[c] EXCEPT !.state = "received", !.len = HeaderLen,
                                   !.size = size, !.kind = kind]
    BY <1>1, <2>1
  <2> DEFINE old == conn[c]  new == conn'[c]
  <2>6. old \in Connections /\ new = [old EXCEPT !.state = "received", !.len = HeaderLen,
                                                 !.size = size, !.kind = kind]
    BY <1>1, <2>5
  <2>7. HeaderLen \in Nat
    BY Sizes
  <2> HIDE DEF old, new
  <2>8. /\ new \in Connections /\ new.mem = old.mem /\ new.state = "received"
        /\ new.doc = old.doc /\ new.file = old.file
    BY <2>3, <2>4, <2>6, <2>7 DEF Connections
  <2> QED BY <1>1, <2>1, <2>2, <2>8 DEF old, new
<1>4. CASE path # NoPath
  <2> DEFINE file2 == IF Opens(path) THEN LowestFree ELSE NotFound
             size2 == IF Opens(path) THEN Size[path] ELSE 0
             kind2 == Kind[path]
             old   == conn[c]
             new   == conn'[c]
  <2>1. path \in Docs
    BY <1>2, <1>4
  <2>2. /\ conn' = [conn EXCEPT ![c] = [@ EXCEPT !.state = "received", !.len = HeaderLen,
                       !.doc = path, !.kind = kind2, !.file = file2, !.size = size2]]
        /\ fds' = IF Opens(path) THEN [fds EXCEPT ![LowestFree] = FileOf(c, path)] ELSE fds
    BY <1>4 DEF OpenDocument
  <2>3. /\ file2 \in Fds \cup {NotFound} /\ size2 \in Int
        /\ kind2 \in {"none", "static", "dynamic", "other", "missing"}
    BY <2>1, LowestIsFree, Sizes DEF Opens
  <2>4. new = [old EXCEPT !.state = "received", !.len = HeaderLen,
                       !.doc = path, !.kind = kind2, !.file = file2, !.size = size2]
    BY <1>1, <2>2
  <2>5. HeaderLen \in Nat /\ old \in Connections
    BY <1>1, Sizes
  <2>6. (Opens(path) /\ file2 = LowestFree) \/ (~Opens(path) /\ file2 = NotFound)
    OBVIOUS
  <2> HIDE DEF file2, size2, kind2, old, new
  <2>7. /\ new \in Connections /\ new.mem = old.mem /\ new.state = "received"
        /\ new.doc = path /\ new.file = file2
    BY <2>1, <2>3, <2>4, <2>5 DEF Connections
  <2>8. conn' \in [Conns -> Connections] /\ \A d \in Conns \ {c} : conn'[d] = conn[d]
    BY <1>1, <2>2, <2>7 DEF new
  <2> QED BY <2>1, <2>2, <2>6, <2>7, <2>8 DEF old, new, Opens
<1> QED BY <1>3, <1>4

LEMMA HandleRequestKeeps == ServerInv /\ HandleRequest => ServerInv'
<1> SUFFICES ASSUME ServerInv, HandleRequest PROVE ServerInv'
  OBVIOUS
<1> DEFINE c == rev.conn
           f == LowestFree
<1>1. /\ c \in Conns /\ conn[c].mem = "live" /\ server = "in" /\ LoopsOn
      /\ heard[c] < said[c] /\ heard' = [heard EXCEPT ![c] = said[c]]
      /\ interest' = UpdatePtrInout(c)
      /\ server' \in {"wait", "out"}
      /\ UNCHANGED << client, script, said, taken, sent >>
  BY TreatedIsThere DEF HandleRequest, AfterIn, clientVars
<1>2. PICK path \in PathsIn(Inbox(c)) : IF path = NoPath THEN KeepDocument(c) ELSE OpenDocument(c, path)
  BY DEF HandleRequest
<1>3. rev' = IF server' = "wait" THEN NoEvent ELSE rev
  BY <1>1 DEF LoopsOn
<1>4. /\ conn \in [Conns -> Connections] /\ fds \in [Fds -> Descriptors]
      /\ interest \in [Conns -> SUBSET {"in", "out"}]
      /\ heard \in [Conns -> Nat] /\ said \in [Conns -> Nat]
      /\ \A d \in Conns : heard[d] <= said[d]
  <2>1. said \in [Conns -> Nat] /\ \A d \in Conns : heard[d] \in 0 .. said[d]
    BY DEF ServerInv, TypeOK, Shapes
  <2>2. \A d \in Conns : heard[d] <= said[d]
    BY <2>1
  <2> QED BY <2>2 DEF ServerInv, TypeOK, Shapes
<1>5. /\ conn' \in [Conns -> Connections]
      /\ \A d \in Conns \ {c} : conn'[d] = conn[d]
      /\ conn'[c].mem = "live" /\ conn'[c].state = "received"
      /\ \/ fds' = fds /\ conn'[c].doc = conn[c].doc /\ conn'[c].file = conn[c].file
         \/ fds' = fds /\ conn'[c].doc = path /\ conn'[c].file = NotFound
         \/ /\ FreeFds # {} /\ path \in Docs
            /\ fds' = [fds EXCEPT ![f] = FileOf(c, path)]
            /\ conn'[c].doc = path /\ conn'[c].file = f
  <2> HIDE DEF c
  <2>1. c \in Conns /\ conn[c].mem = "live" /\ heard[c] < said[c]
    BY <1>1
  <2> QED BY <1>2, <2>1, DocumentSet DEF f
<1>6. /\ heard' \in [Conns -> Nat] /\ heard'[c] = said[c] /\ heard'[c] > heard[c]
      /\ \A d \in Conns \ {c} : heard'[d] = heard[d]
      /\ \A d \in Conns : heard[d] <= heard'[d]
  <2> HIDE DEF c
  <2> QED BY <1>1, <1>4
<1>7. /\ interest' \in [Conns -> SUBSET {"in", "out"}] /\ interest'[c] # {}
      /\ \A d \in Conns \ {c} : interest'[d] = interest[d]
  BY <1>1, <1>4 DEF UpdatePtrInout
<1>8. /\ fds' \in [Fds -> Descriptors]
      /\ \A fd \in Fds : fds'[fd] = fds[fd]
            \/ (fd = f /\ fds[fd] = Free /\ path \in Docs /\ fds'[fd] = FileOf(c, path)
                /\ conn'[c].file = f)
  <2> HIDE DEF c
  <2>1. CASE fds' = fds
    BY <2>1, <1>4
  <2>2. CASE FreeFds # {} /\ path \in Docs /\ fds' = [fds EXCEPT ![f] = FileOf(c, path)]
             /\ conn'[c].file = f
    <3>1. FileOf(c, path) \in Descriptors
      BY <1>1, <2>2, DescriptorsAre
    <3> QED BY <2>2, <3>1, TableGrows DEF f
  <2> QED BY <1>5, <2>1, <2>2
<1> HIDE DEF f, c
<1>9. TypeOK' /\ Shapes'
  <2>1. rev' \in [conn : Conns \cup {None}, out : BOOLEAN]
    BY <1>3 DEF NoEvent, ServerInv, Shapes
  <2>2. Shapes'
    BY <1>1, <1>5, <1>6, <1>8, <2>1 DEF ServerInv, Shapes
  <2>3. \A fd \in Fds : fds'[fd] \in Descriptors
    BY <1>8
  <2>4. \A d \in Conns : conn'[d].mem \in {"none", "live", "freed"} /\ conn'[d].file \in Fds \cup {NotFound} \cup Leftovers
    BY <1>5 DEF Connections
  <2>5. \A d \in Conns : said'[d] \in 0 .. Len(script'[d]) /\ heard'[d] \in 0 .. said'[d]
    BY <1>1, <1>4, <1>6 DEF ServerInv, TypeOK
  <2>6. TypeOK'
    BY <1>1, <1>7, <2>3, <2>4, <2>5 DEF ServerInv, TypeOK, Descriptors
  <2> QED BY <2>2, <2>6
<1>10. Stages'
  <2>1. \A d \in Conns : client'[d] \in {"none", "connecting"} <=> conn'[d].mem = "none"
    BY <1>1, <1>5 DEF ServerInv, Stages
  <2>2. \A d \in Conns : interest'[d] # {} => conn'[d].mem = "live"
    <3>1. \A d \in Conns : interest[d] # {} => conn[d].mem = "live"
      BY DEF ServerInv, Stages
    <3> QED BY <3>1, <1>5, <1>7
  <2>3. \A d \in Conns : /\ conn'[d].mem = "freed" => conn'[d].state = "closed"
                         /\ conn'[d].mem = "none" => conn'[d] = NoConn /\ heard'[d] = 0
    BY <1>5, <1>6 DEF ServerInv, Stages
  <2>4. server' = "out" => rev' = rev /\ rev'.conn \in Conns /\ conn'[rev'.conn].mem # "none"
    BY <1>1, <1>3, <1>5 DEF c
  <2> QED BY <2>1, <2>2, <2>3, <2>4, <1>1, <1>3 DEF Stages
<1>11. Requested'
  <2>1. heard'[c] > 0
    BY <1>1, <1>4, <1>6
  <2>2. \A d \in Conns :
          /\ conn'[d].doc # NoPath => heard'[d] > 0
          /\ conn'[d].state \in {"received", "sent"} => heard'[d] > 0
          /\ "out" \in interest'[d] => heard'[d] > 0
    BY <1>5, <1>6, <1>7, <2>1 DEF ServerInv, Requested
  <2>3. server' = "out" => heard'[rev'.conn] > 0
    BY <1>3, <2>1 DEF c
  <2> QED BY <2>2, <2>3, <1>1 DEF Requested
<1>12. Reasoned'
  <2>1. PICK reason : Justified(reason, fds, heard)
    BY DEF ServerInv, Reasoned
  <2>2. \E reason2 : Justified(reason2, fds', heard')
    <3>1. CASE fds' = fds
      <4>1. \A fd \in Fds : fds'[fd] \in {fds[fd], Free}
        BY <3>1
      <4> QED BY <2>1, <4>1, <1>4, <1>6, ReasonsKept
    <3>2. CASE FreeFds # {} /\ path \in Docs /\ fds' = [fds EXCEPT ![f] = FileOf(c, path)]
      <4> DEFINE r == << "file", c, said[c] >>
      <4>1. f \in Fds
        BY <3>2, LowestIsFree DEF f
      <4>2. r \in Reasons
        <5>1. /\ script[c] \in Scripts[c] /\ said[c] \in 1 .. Len(script[c])
          BY <1>1, <1>4 DEF ServerInv, TypeOK, Shapes
        <5>2. said[c] \in DOMAIN script[c]
          BY <1>1, <5>1, ScriptLengths
        <5> QED BY <1>1, <5>1, <5>2, ReasonsAre
      <4>3. Because(r, f, FileOf(c, path), heard')
        <5>1. said[c] \in 1 .. heard'[c]
          BY <1>1, <1>4, <1>6
        <5> QED BY <5>1, <1>1, <3>2 DEF Because
      <4>4. \A fd \in Fds \ {f} : fds[fd] # Free => reason[fd] # r
        <5>1. \A fd \in Fds : Because(reason[fd], fd, fds[fd], heard)
          BY <2>1 DEF Justified
        <5>2. said[c] \notin 1 .. heard[c]
          BY <1>1, <1>4
        <5> QED BY <5>1, <5>2, <1>1, ReasonsTell
      <4>5. fds' = [fds EXCEPT ![f] = FileOf(c, path)]
        BY <3>2
      <4> DEFINE x == FileOf(c, path)
      <4> HIDE DEF r, x
      <4>6. /\ heard \in [Conns -> Nat] /\ heard' \in [Conns -> Nat]
            /\ fds \in [Fds -> Descriptors]
            /\ \A d \in Conns : heard[d] <= heard'[d]
        BY <1>4, <1>6
      <4>7. Because(r, f, x, heard') /\ fds' = [fds EXCEPT ![f] = x]
        BY <4>3, <4>5 DEF x
      <4>8. \E reason2 : Justified(reason2, [fds EXCEPT ![f] = x], heard')
        BY <2>1, <4>1, <4>2, <4>4, <4>6, <4>7, ReasonTaken
      <4> QED BY <4>7, <4>8
    <3> QED BY <1>5, <3>1, <3>2
  <2>3. \A fd \in Fds, d \in Conns : fds'[fd] = SockOf(d) => conn'[d].mem # "none"
    BY <1>5, <1>8, DescriptorsDiffer DEF ServerInv, Reasoned
  <2>4. \A fd \in Fds, d \in Conns : fds'[fd] = EventOf(d) => conn'[d].mem = "freed"
    BY <1>1, <1>5, <1>8, DescriptorsDiffer DEF ServerInv, Reasoned, Dead
  <2> QED BY <2>2, <2>3, <2>4, <1>1 DEF Reasoned
<1>13. (Undamaged => Sound)'
  <2> SUFFICES ASSUME Undamaged', NEW d \in Conns
               PROVE  /\ conn'[d].mem = "live" => interest'[d] # {}
                      /\ conn'[d].mem = "live" /\ conn'[d].doc # NoPath /\ conn'[d].file # NotFound =>
                            (conn'[d].file \in Fds /\ fds'[conn'[d].file] = FileOf(d, conn'[d].doc))
                      /\ heard'[d] = 1 =>
                            Files(d)' \subseteq IF conn'[d].mem = "live" THEN {conn'[d].file} ELSE {}
    BY DEF Sound
  <2>1. Undamaged
    BY <1>1, <1>5 DEF Undamaged
  <2>2. /\ conn[d].mem = "live" => interest[d] # {}
        /\ conn[d].mem = "live" /\ conn[d].doc # NoPath /\ conn[d].file # NotFound =>
              (conn[d].file \in Fds /\ fds[conn[d].file] = FileOf(d, conn[d].doc))
        /\ heard[d] = 1 => Files(d) \subseteq IF conn[d].mem = "live" THEN {conn[d].file} ELSE {}
    BY <2>1 DEF ServerInv, Sound
  <2>3. CASE d # c
    <3>1. conn'[d] = conn[d] /\ interest'[d] = interest[d] /\ heard'[d] = heard[d]
      BY <1>5, <1>6, <1>7, <2>3
    <3>2. Files(d)' \subseteq Files(d)
      BY <1>8, <2>3, FileHeads DEF Files, HoldsFile
    <3>3. conn[d].file \in Fds \cup {NotFound} \cup Leftovers
      BY <1>4 DEF Connections
    <3>4. \A fd \in Fds : fds[fd] = FileOf(d, conn[d].doc) => fds'[fd] = fds[fd]
      BY <1>8, DescriptorsDiffer
    <3> QED BY <2>2, <3>1, <3>2, <3>3, <3>4
  <2>4. CASE d = c
    <3>1. conn'[c].doc # NoPath /\ conn'[c].file # NotFound =>
            (conn'[c].file \in Fds /\ fds'[conn'[c].file] = FileOf(c, conn'[c].doc))
      <4>1. CASE fds' = fds /\ conn'[c].doc = conn[c].doc /\ conn'[c].file = conn[c].file
        BY <4>1, <1>1, <2>2, <2>4
      <4>2. CASE FreeFds # {} /\ fds' = [fds EXCEPT ![f] = FileOf(c, path)]
                 /\ conn'[c].doc = path /\ conn'[c].file = f
        <5>1. f \in Fds
          BY <4>2, LowestIsFree DEF f
        <5> QED BY <4>2, <5>1, <1>4
      <4> QED BY <1>5, <4>1, <4>2
    <3>2. heard'[d] = 1 => Files(d)' \subseteq {conn'[d].file}
      <4> SUFFICES ASSUME heard'[d] = 1 PROVE Files(d)' \subseteq {conn'[d].file}
        OBVIOUS
      <4>1. Files(d) = {}
        <5>1. heard[d] = 0
          BY <1>1, <1>4, <1>6, <2>4
        <5> QED BY <5>1, NoFileYet
      <4>2. \A fd \in Fds : fds'[fd] = fds[fd] \/ fd = conn'[d].file
        BY <1>8, <2>4
      <4> QED BY <4>1, <4>2 DEF Files, HoldsFile
    <3> QED BY <2>4, <3>1, <3>2, <1>5, <1>7
  <2> QED BY <2>3, <2>4
<1> QED BY <1>9, <1>10, <1>11, <1>12, <1>13 DEF ServerInv

-----------------------------------------------------------------------------
(* The theorems.                                                           *)

(* The epoll descriptor was closed: the server ends.                       *)
LEMMA WaitFailsKeeps == ServerInv /\ WaitFails => ServerInv'
<1> SUFFICES ASSUME ServerInv, WaitFails PROVE ServerInv'
  OBVIOUS
<1>1. /\ server = "wait" /\ server' = "exited"
      /\ UNCHANGED << client, script, said, taken, heard, sent, conn, interest, fds, rev >>
  BY DEF WaitFails, clientVars
<1>2. TypeOK' /\ Shapes'
  BY <1>1 DEF ServerInv, TypeOK, Shapes
<1>3. Stages' /\ Requested'
  BY <1>1 DEF ServerInv, Stages, Requested
<1>4. Reasoned'
  BY <1>1 DEF ServerInv, Reasoned, Dead
<1>5. (Undamaged => Sound)'
  BY <1>1 DEF ServerInv, Undamaged, Sound, Files, HoldsFile
<1> QED BY <1>2, <1>3, <1>4, <1>5 DEF ServerInv

LEMMA StepKeeps == ServerInv /\ [Next]_vars => ServerInv'
<1> SUFFICES ASSUME ServerInv, [Next]_vars PROVE ServerInv'
  OBVIOUS
<1>1. CASE \E c \in Conns : ClientStep(c)
  BY <1>1, ClientStepKeeps
<1>2. CASE \E c \in Conns : Accept(c)
  BY <1>2, AcceptKeeps
<1>3. CASE \E c \in Conns : WaitEvent(c)
  BY <1>3, WaitEventKeeps
<1>4. CASE Start
  BY <1>4, StartKeeps
<1>5. CASE Handler
  <2>1. \/ WaitFails \/ ReceiveFails \/ HandleRequest \/ SendMessage \/ SendHeader
        \/ HeaderDone \/ SendStatic \/ IocbSetup \/ SendDynamic \/ FileSent
    BY <1>5 DEF Handler
  <2> QED BY <2>1, ReceiveFailsKeeps, HandleRequestKeeps, SendMessageKeeps, SendHeaderKeeps,
             HeaderDoneKeeps, SendStaticKeeps, IocbSetupKeeps, SendDynamicKeeps, FileSentKeeps, WaitFailsKeeps
<1>6. CASE UNCHANGED vars
  <2>1. UNCHANGED << client, script, said, taken, heard, sent, conn, interest, fds, rev, server >>
    BY <1>6 DEF vars, clientVars
  <2>2. TypeOK' /\ Shapes'
    BY <2>1 DEF ServerInv, TypeOK, Shapes
  <2>3. Stages' /\ Requested'
    BY <2>1 DEF ServerInv, Stages, Requested, Sends
  <2>4. Reasoned' /\ (Undamaged => Sound)'
    BY <2>1 DEF ServerInv, Reasoned, Dead, Undamaged, Sound, Files, HoldsFile
  <2> QED BY <2>2, <2>3, <2>4 DEF ServerInv
<1> QED BY <1>1, <1>2, <1>3, <1>4, <1>5, <1>6 DEF Next

(* ServerInvariant: every reachable state satisfies the invariant, whatever*)
(* the clients, their scripts and habits, and the number of descriptors    *)
(* (main loop of aws.c, lines 502-529).                                    *)
THEOREM ServerInvariant == Spec => []ServerInv
<1>1. Init => ServerInv
  BY InitiallySound
<1>2. ServerInv /\ [Next]_vars => ServerInv'
  BY StepKeeps
<1> QED BY <1>1, <1>2, PTL DEF Spec

(* ServerTypeCorrect: counters, descriptors and stages keep their types,   *)
(* and no socket ever holds more than SockBuf units its client did not read*)
(* (send_message and the two senders of aws.c).                            *)
THEOREM ServerTypeCorrect == Spec => []TypeOK
<1>1. ServerInv => TypeOK
  BY DEF ServerInv
<1> QED BY <1>1, ServerInvariant, PTL

(* NoFreedIsWatched: epoll never holds a pointer to a structure that was   *)
(* freed, even if a descriptor of another connection was closed with it    *)
(* (connection_remove, line 130).                                          *)
NoFreedIsWatched == \A c \in Conns : interest[c] # {} => conn[c].mem = "live"

(* For any clients and scripts, whatever connection_remove() closes by     *)
(* mistake: epoll holds no pointer to a freed structure.                   *)
THEOREM FreedIsNeverWatched == Spec => []NoFreedIsWatched
<1>1. ServerInv => NoFreedIsWatched
  BY DEF ServerInv, Stages, NoFreedIsWatched
<1> QED BY <1>1, ServerInvariant, PTL

(* FewFiles: a client has no more files open than it sent segments that    *)
(* recv() took, however requests are cut and repeated: the leak of         *)
(* set_connection_path_and_file(), line 431, is bounded by the requests.   *)
FewFiles ==
    \A c \in Conns : IsFiniteSet(Files(c)) /\ Cardinality(Files(c)) <= heard[c]

LEMMA FilesAreFew == ServerInv => FewFiles
<1> SUFFICES ASSUME ServerInv, NEW c \in Conns
             PROVE  IsFiniteSet(Files(c)) /\ Cardinality(Files(c)) <= heard[c]
  BY DEF FewFiles
<1>1. PICK reason : Justified(reason, fds, heard)
  BY DEF ServerInv, Reasoned
<1>2. \A fd \in Files(c) : fd \in Fds /\ fds[fd] # Free
                           /\ \E k \in 1 .. heard[c] : reason[fd] = << "file", c, k >>
  <2> TAKE fd \in Files(c)
  <2>1. fd \in Fds /\ HoldsFile(fd) /\ fds[fd][2] = c
    BY DEF Files
  <2>2. Because(reason[fd], fd, fds[fd], heard) /\ fds[fd] \in Descriptors
    BY <1>1, <2>1 DEF Justified, ServerInv, Shapes
  <2>3. PICK d \in Conns, doc \in Docs : fds[fd] = FileOf(d, doc)
    BY <2>1, <2>2, FilesOfClients
  <2>4. d = c
    BY <2>1, <2>3, FileHeads
  <2> QED BY <2>1, <2>2, <2>3, <2>4, DescriptorsDiffer DEF Because
<1> DEFINE number == [fd \in Files(c) |-> CHOOSE k \in 1 .. heard[c] : reason[fd] = << "file", c, k >>]
<1>3. \A fd \in Files(c) : number[fd] \in 1 .. heard[c] /\ reason[fd] = << "file", c, number[fd] >>
  BY <1>2
<1>4. number \in [Files(c) -> 1 .. heard[c]]
  BY <1>3
<1> HIDE DEF number
<1>5. \A fd, fe \in Files(c) : number[fd] = number[fe] => fd = fe
  BY <1>1, <1>2, <1>3 DEF Justified
<1>6. number \in Injection(Files(c), 1 .. heard[c])
  BY <1>4, <1>5 DEF Injection, IsInjective
<1>7. heard[c] \in Nat
  BY DEF ServerInv, Shapes
<1>8. IsFiniteSet(1 .. heard[c]) /\ Cardinality(1 .. heard[c]) = heard[c]
  <2>1. IsFiniteSet(1 .. heard[c])
        /\ Cardinality(1 .. heard[c]) = IF 1 > heard[c] THEN 0 ELSE heard[c] - 1 + 1
    BY <1>7, FS_Interval
  <2> QED BY <1>7, <2>1
<1>9. IsFiniteSet(Files(c)) /\ Cardinality(Files(c)) <= Cardinality(1 .. heard[c])
  BY <1>6, <1>8, FS_Injection
<1> QED BY <1>8, <1>9

(* set_connection_path_and_file() opens a file over the one before it, but *)
(* only after recv() took a segment: a client leaves at most as many files *)
(* open as it sent segments.                                               *)
THEOREM FilesBounded == Spec => []FewFiles
  BY FilesAreFew, ServerInvariant, PTL

LEMMA HeardIsUndamaged == ServerInv /\ AllHeard /\ ~Blind => Undamaged
<1>1. \A c \in Conns : heard[c] > 0 => conn[c].doc # NoPath \/ Blind
  BY DEF Blind
<1> QED BY <1>1 DEF AllHeard, Undamaged

(* WatchedAreLive: as long as something was received on every connection   *)
(* that was removed, epoll watches exactly the live ones: no connection is *)
(* forgotten and none outlives its structure (w_epoll_remove_ptr and       *)
(* connection_remove, line 130).                                           *)
THEOREM WatchedAreLive == Spec => []WatchedIsLive
<1>1. ServerInv => WatchedIsLive
  BY HeardIsUndamaged DEF ServerInv, Stages, Sound, WatchedIsLive
<1> QED BY <1>1, ServerInvariant, PTL

(* FilesAreOwn: under the same condition a connection sends the file of the*)
(* last path it was given, and that file is open until the connection is   *)
(* removed and closed with it (set_connection_path_and_file, line 431;     *)
(* connection_remove, line 130).                                           *)
LEMMA SoundIsOwn == ServerInv => OwnFile
<1> SUFFICES ASSUME ServerInv, AllHeard, ~Blind, NEW c \in Conns
             PROVE  /\ conn[c].state \in {"received", "sent"} /\ conn[c].file # NotFound
                          => (conn[c].file \in Fds /\ fds[conn[c].file] = FileOf(c, conn[c].doc))
                    /\ Cardinality(Files(c)) <= heard[c]
                    /\ heard[c] = 1 =>
                          Files(c) \subseteq (IF conn[c].mem = "live" THEN {conn[c].file} ELSE {})
  BY DEF OwnFile, Files
<1>1. Sound
  BY HeardIsUndamaged DEF ServerInv
<1>2. conn[c].state \in {"received", "sent"} => conn[c].mem = "live" /\ conn[c].doc # NoPath
  <2>1. conn[c].mem \in {"none", "live", "freed"}
    BY DEF ServerInv, TypeOK
  <2>2. conn[c].mem = "none" => conn[c].state = "none"
    BY NoConnIsOne DEF ServerInv, Stages
  <2>3. conn[c].mem = "freed" => conn[c].state = "closed"
    BY DEF ServerInv, Stages
  <2>4. conn[c].state \in {"received", "sent"} => heard[c] > 0
    BY DEF ServerInv, Requested
  <2> QED BY <2>1, <2>2, <2>3, <2>4 DEF Blind
<1> QED BY <1>1, <1>2, FilesAreFew DEF Sound, FewFiles

(* While something was received on every connection that was removed, a    *)
(* connection sends the file it opened for its own last path, and closes   *)
(* that file with itself (connection_remove, send_message).                *)
THEOREM FilesAreOwn == Spec => []OwnFile
  BY SoundIsOwn, ServerInvariant, PTL

-----------------------------------------------------------------------------
(* What becomes of a request.  The invariant of the answers: how far the   *)
(* response to each connection has come, and what the event under treatment*)
(* was about.                                                              *)

At(c, places) == server \in places /\ rev.conn = c

Answering == {"header", "static", "setup", "dynamic"}

(* A client that leaves has its answer, or may leave without one.  The     *)
(* interest in out events survives an answer only where another request    *)
(* was received since.                                                     *)
Asked(c) ==
    /\ sent[c] # << >> => heard[c] > 0
    /\ conn[c].mem = "live" /\ "out" \in interest[c] /\ sent[c] # << >> =>
          heard[c] > 1 \/ At(c, Answering) \/ Dead
    /\ client[c] = "halfclosed" =>
          said[c] = 0 \/ "halfclose" \in Habits[c] \/ sent[c] # << >>
    /\ conn[c].mem = "live" /\ heard[c] > 0 => conn[c].len = HeaderLen

(* send_dynamic_file() has sent a number of whole blocks.                  *)
InBlocks(c) == \E m \in Nat : conn[c].done = m * ReadSize(c)

(* How much was sent of the header, and then of the file.                  *)
Written(c) ==
    conn[c].mem = "live" /\ ~Dead =>
        /\ ~conn[c].hdr =>
              /\ conn[c].done <= HeaderLen /\ Len(sent[c]) = conn[c].done
              /\ conn[c].done = 0 \/ At(c, {"header"})
              /\ ~At(c, {"static", "setup", "dynamic"})
        /\ conn[c].hdr /\ ~At(c, {"static", "dynamic"}) =>
              conn[c].done = 0 /\ Len(sent[c]) = HeaderLen
        /\ At(c, {"static"}) => conn[c].kind = "static" /\ Len(sent[c]) = HeaderLen + conn[c].done
        /\ At(c, {"setup", "dynamic"}) => conn[c].kind = "dynamic"
        /\ At(c, {"dynamic"}) => conn[c].size > 0 /\ InBlocks(c)

(* The path is one that a segment named, and decides kind and size.        *)
Described(c) ==
    /\ conn[c].doc # NoPath => \E j \in 1 .. heard[c] : conn[c].doc \in Named(script[c][j])
    /\ conn[c].mem = "live" /\ conn[c].doc # NoPath =>
          /\ conn[c].kind = Kind[conn[c].doc]
          /\ Undamaged /\ conn[c].file # NotFound => conn[c].size = Size[conn[c].doc]

(* A client that leaves before it was answered.                            *)
Leaves(c) ==
    \/ client[c] = "reset"
    \/ client[c] = "halfclosed" /\ ("halfclose" \in Habits[c] \/ said[c] > 1)

(* An event of a structure that was freed was one of a client that left.   *)
Treated ==
    /\ server = "in" /\ rev.out => "out" \in interest[rev.conn]
    /\ server = "in" => heard[rev.conn] < said[rev.conn] \/ client[rev.conn] \in {"halfclosed", "reset"}
    /\ server = "out" /\ conn[rev.conn].mem = "freed" => Leaves(rev.conn)

FateOf(c) == Asked(c) /\ Written(c) /\ Described(c)

Fate == (\A c \in Conns : FateOf(c)) /\ Treated

LEMMA InitiallyFated == Init => Fate
<1> SUFFICES ASSUME Init PROVE Fate
  OBVIOUS
<1>1. server = "start" /\ rev = NoEvent
  BY DEF Init
<1>2. ASSUME NEW c \in Conns PROVE FateOf(c)
  <2>1. /\ conn[c] = NoConn /\ sent[c] = << >> /\ interest[c] = {} /\ client[c] = "none"
    BY DEF Init
  <2>2. NoConn.mem = "none" /\ NoConn.doc = NoPath
    BY DEF NoConn, NoPath
  <2> QED BY <2>1, <2>2 DEF FateOf, Asked, Written, Described
<1> QED BY <1>1, <1>2 DEF Fate, Treated

LEMMA Unfreed == Undamaged' /\ (\A c \in Conns : conn[c].mem = "freed" => conn'[c] = conn[c]) => Undamaged
  BY DEF Undamaged

(* The connections that are not treated in a step.                         *)
LEMMA OthersFate ==
    ASSUME ~Dead, NEW d \in Conns, FateOf(d), d # rev.conn, rev' = rev \/ server' = "wait",
           conn'[d] = conn[d], sent'[d] = sent[d], heard'[d] = heard[d], said'[d] = said[d],
           script' = script, client'[d] = client[d],
           "out" \in interest'[d] => "out" \in interest[d], Undamaged' => Undamaged
    PROVE  FateOf(d)'
<1>1. \A places : ~At(d, places)
  BY DEF At
<1>2. ~At(d, Answering)' /\ ~At(d, {"header"})' /\ ~At(d, {"static", "setup", "dynamic"})'
      /\ ~At(d, {"static", "dynamic"})' /\ ~At(d, {"static"})' /\ ~At(d, {"setup", "dynamic"})'
      /\ ~At(d, {"dynamic"})'
  BY DEF At, Answering
<1>3. Asked(d)'
  BY <1>1 DEF FateOf, Asked
<1>4. Written(d)'
  BY <1>1, <1>2 DEF FateOf, Written
<1>5. Described(d)'
  BY DEF FateOf, Described
<1> QED BY <1>3, <1>4, <1>5 DEF FateOf

LEMMA ClientStepFate ==
    ASSUME ServerInv, Fate, NEW c \in Conns, ClientStep(c)
    PROVE  Fate'
<1>1. UNCHANGED << heard, sent, conn, interest, script, rev, server >>
  BY DEF ClientStep, Connect, Request, Read, HalfClose, Reset
<1>2. said' \in [Conns -> Nat] /\ client' \in [Conns -> {"none", "connecting", "open", "halfclosed", "reset"}]
  BY ClientStepKeeps DEF ServerInv, TypeOK, Shapes
<1>3. said \in [Conns -> Nat] /\ client \in [Conns -> {"none", "connecting", "open", "halfclosed", "reset"}]
  BY DEF ServerInv, TypeOK, Shapes
<1>4. \A d \in Conns : said[d] <= said'[d] /\ (said'[d] # said[d] => client[d] = "open")
  BY <1>3 DEF ClientStep, Connect, Request, Read, HalfClose, Reset
<1>5. \A d \in Conns :
        \/ client'[d] = client[d]
        \/ client'[d] = "connecting" /\ client[d] = "none"
        \/ client'[d] = "reset" /\ client[d] \in {"open", "halfclosed"}
        \/ /\ client'[d] = "halfclosed" /\ client[d] = "open"
           /\ said'[d] = 0 \/ "halfclose" \in Habits[d] \/ sent[d] # << >>
  BY <1>3 DEF ClientStep, Connect, Request, Read, HalfClose, Reset
<1>6. ASSUME NEW d \in Conns PROVE FateOf(d)'
  <2>1. FateOf(d)
    BY DEF Fate
  <2>2. Asked(d)'
    BY <1>1, <1>2, <1>3, <1>4, <1>5, <2>1 DEF FateOf, Asked, At, Dead
  <2>3. Written(d)'
    BY <1>1, <2>1 DEF FateOf, Written, At, Dead, InBlocks, ReadSize
  <2>4. Described(d)'
    BY <1>1, <2>1 DEF FateOf, Described, Undamaged
  <2> QED BY <2>2, <2>3, <2>4 DEF FateOf
<1>7. Treated'
  <2>1. server \in {"in", "out"} => rev.conn \in Conns
    BY TreatedIsThere
  <2>2. heard \in [Conns -> Nat]
    BY DEF ServerInv, Shapes
  <2>3. \A d \in Conns : Leaves(d) => Leaves(d)'
    BY <1>2, <1>3, <1>4, <1>5 DEF Leaves
  <2>4. \A d \in Conns : heard[d] < said[d] => heard'[d] < said'[d]
    BY <1>1, <1>2, <1>3, <1>4, <2>2
  <2>5. \A d \in Conns : client[d] \in {"halfclosed", "reset"} => client'[d] \in {"halfclosed", "reset"}
    BY <1>5
  <2> QED BY <1>1, <2>1, <2>3, <2>4, <2>5 DEF Fate, Treated
<1> QED BY <1>6, <1>7 DEF Fate

(* What connection_remove() leaves of the fate of its connection.          *)
LEMMA RemovalFate ==
    ASSUME ServerInv, Fate, ~Dead, NEW c \in Conns, conn[c].mem = "live", rev.conn = c,
           RemoveConnection(c), LoopsOn,
           server' \in {"wait", "out", "exited"}, server' = "out" => Leaves(c),
           UNCHANGED << clientVars, heard, sent >>
    PROVE  Fate'
<1>1. /\ UNCHANGED << client, script, said, taken, heard, sent >>
      /\ rev' = IF server' = "wait" THEN NoEvent ELSE rev
  BY DEF clientVars, LoopsOn
<1>2. /\ conn \in [Conns -> Connections] /\ interest \in [Conns -> SUBSET {"in", "out"}]
  BY DEF ServerInv, TypeOK, Shapes
<1>3. /\ \A d \in Conns \ {c} : conn'[d] = conn[d]
      /\ conn'[c].mem = "freed" /\ conn'[c].doc = conn[c].doc
  BY <1>2, NoConnIsOne DEF RemoveConnection, Connections
<1>4. \A d \in Conns : "out" \in interest'[d] => "out" \in interest[d]
  BY <1>2 DEF RemoveConnection, RemovePtr
<1>5. Undamaged' => Undamaged
  BY <1>3 DEF Undamaged
<1>6. ASSUME NEW d \in Conns, d # c PROVE FateOf(d)'
  <2>1. FateOf(d) /\ conn'[d] = conn[d] /\ ("out" \in interest'[d] => "out" \in interest[d])
    BY <1>3, <1>4, <1>6 DEF Fate
  <2> QED BY <1>1, <1>5, <1>6, <2>1, OthersFate
<1>7. FateOf(c)'
  <2>1. FateOf(c)
    BY DEF Fate
  <2> QED BY <1>1, <1>3, <2>1 DEF FateOf, Asked, Written, Described
<1>8. Treated'
  <2>1. Leaves(c)' <=> Leaves(c)
    BY <1>1 DEF Leaves
  <2> QED BY <1>1, <2>1 DEF Treated
<1> QED BY <1>6, <1>7, <1>8 DEF Fate

LEMMA ReceiveFailsFate == ServerInv /\ Fate /\ ReceiveFails => Fate'
<1> SUFFICES ASSUME ServerInv, Fate, ReceiveFails PROVE Fate'
  OBVIOUS
<1>1. /\ server = "in" /\ RemoveConnection(rev.conn) /\ server' = AfterIn /\ LoopsOn
      /\ client[rev.conn] = "reset" \/ heard[rev.conn] = said[rev.conn]
      /\ UNCHANGED << clientVars, heard, sent >>
  BY DEF ReceiveFails
<1>2. PICK c \in Conns : c = rev.conn /\ conn[c].mem = "live"
  BY <1>1, TreatedIsThere
<1>3. server' \in {"wait", "out"} /\ (server' = "out" => rev.out)
  BY <1>1 DEF AfterIn
<1>4. rev.out => Leaves(c)
  <2> SUFFICES ASSUME rev.out, client[c] # "reset" PROVE Leaves(c)
    BY DEF Leaves
  <2>1. heard[c] \in Nat /\ heard[c] = said[c] /\ "out" \in interest[c] /\ heard[c] > 0
    BY <1>1, <1>2 DEF Fate, Treated, ServerInv, Shapes, Requested
  <2>2. client[c] = "halfclosed"
    BY <1>1, <1>2, <2>1 DEF Fate, Treated
  <2>3. "halfclose" \in Habits[c] \/ sent[c] # << >>
    BY <2>1, <2>2 DEF Fate, FateOf, Asked
  <2>4. sent[c] # << >> => said[c] > 1
    BY <1>1, <1>2, <2>1 DEF Fate, FateOf, Asked, At, Answering, Dead
  <2> QED BY <2>2, <2>3, <2>4 DEF Leaves
<1> QED BY <1>1, <1>2, <1>3, <1>4, RemovalFate DEF Dead

LEMMA FileSentFate == ServerInv /\ Fate /\ FileSent => Fate'
<1> SUFFICES ASSUME ServerInv, Fate, FileSent PROVE Fate'
  OBVIOUS
<1>1. server \in {"static", "dynamic"} /\ RemoveConnection(rev.conn) /\ server' = "wait" /\ LoopsOn
      /\ UNCHANGED << clientVars, heard, sent >>
  BY DEF FileSent
<1> QED BY <1>1, TreatedIsThere, RemovalFate DEF Dead

(* The steps of an answer: what remains to be shown is how much is written.*)
LEMMA AnswerFate ==
    ASSUME ServerInv, Fate, NEW c \in Conns, conn[c].mem = "live", rev.conn = c,
           server \in {"out", "header", "static", "setup", "dynamic"},
           \A d \in Conns \ {c} : conn'[d] = conn[d] /\ sent'[d] = sent[d],
           conn'[c].mem = "live", conn'[c].doc = conn[c].doc, conn'[c].file = conn[c].file,
           conn'[c].kind = conn[c].kind, conn'[c].size = conn[c].size, conn'[c].len = conn[c].len,
           sent[c] # << >> => sent'[c] # << >>,
           interest' \in {interest, UpdatePtrIn(c)},
           UNCHANGED << clientVars, heard >>, LoopsOn,
           server' \in {"wait", "header", "static", "setup", "dynamic", "exited", "crashed"},
           server' = "wait" => interest' = UpdatePtrIn(c),
           Written(c)'
    PROVE  Fate'
<1>1. /\ UNCHANGED << client, script, said, taken, heard >>
      /\ rev' = IF server' = "wait" THEN NoEvent ELSE rev
  BY DEF clientVars, LoopsOn
<1>2. interest \in [Conns -> SUBSET {"in", "out"}] /\ heard[c] > 0
  BY DEF ServerInv, TypeOK, Requested
<1>3. /\ \A d \in Conns : "out" \in interest'[d] => "out" \in interest[d]
      /\ server' = "wait" => "out" \notin interest'[c]
  BY <1>2 DEF UpdatePtrIn
<1>4. Undamaged' => Undamaged
  BY DEF Undamaged
<1>5. ASSUME NEW d \in Conns, d # c PROVE FateOf(d)'
  <2>1. FateOf(d) /\ conn'[d] = conn[d] /\ sent'[d] = sent[d]
    BY <1>5 DEF Fate
  <2> QED BY <1>1, <1>3, <1>4, <1>5, <2>1, OthersFate DEF Dead
<1>6. FateOf(c)'
  <2>1. FateOf(c)
    BY DEF Fate
  <2>2. At(c, Answering)' \/ Dead' \/ server' = "wait"
    BY <1>1 DEF At, Answering, Dead
  <2>3. Asked(c)'
    BY <1>1, <1>2, <1>3, <2>1, <2>2 DEF FateOf, Asked
  <2>4. Described(c)'
    BY <1>1, <1>4, <2>1 DEF FateOf, Described
  <2> QED BY <2>3, <2>4 DEF FateOf
<1>7. Treated'
  BY DEF Treated
<1> QED BY <1>5, <1>6, <1>7 DEF Fate

LEMMA SendMessageFate == ServerInv /\ Fate /\ SendMessage => Fate'
<1> SUFFICES ASSUME ServerInv, Fate, SendMessage PROVE Fate'
  OBVIOUS
<1>1. server = "out" /\ LoopsOn /\ UNCHANGED << clientVars, heard, sent >>
  BY DEF SendMessage
<1>2. PICK c \in Conns : c = rev.conn
  BY <1>1, TreatedIsThere
<1>3. /\ UNCHANGED << client, script, said, taken, heard, sent >>
      /\ rev' = IF server' = "wait" THEN NoEvent ELSE rev
  BY <1>1 DEF clientVars, LoopsOn
<1>4. CASE conn[c].mem = "freed" /\ server' \in {"wait", "crashed"} /\ UNCHANGED << conn, interest, fds >>
  <2>1. ASSUME NEW d \in Conns PROVE FateOf(d)'
    <3>1. FateOf(d) /\ conn' = conn /\ interest' = interest
      BY <1>4 DEF Fate
    <3>2. CASE d # c
      BY <1>1, <1>2, <1>3, <1>4, <3>1, <3>2, OthersFate DEF Dead, Undamaged
    <3>3. CASE d = c
      BY <1>3, <1>4, <3>1, <3>3 DEF FateOf, Asked, Written, Described
    <3> QED BY <3>2, <3>3
  <2>2. Treated'
    BY <1>4 DEF Treated
  <2> QED BY <2>1, <2>2 DEF Fate
<1>5. CASE conn[c].mem = "live" /\ RemoveConnection(c) /\ server' = "wait"
  BY <1>1, <1>2, <1>5, RemovalFate DEF Dead
<1>6. CASE conn[c].mem = "live" /\ server' = "header" /\ UNCHANGED << conn, interest, fds >>
  <2>1. FateOf(c)
    BY DEF Fate
  <2>2. Written(c)'
    BY <1>1, <1>3, <1>6, <2>1 DEF FateOf, Written, At, Dead
  <2> QED BY <1>1, <1>2, <1>3, <1>6, <2>2, AnswerFate
<1> QED BY <1>2, <1>4, <1>5, <1>6 DEF SendMessage

LEMMA WaitEventFate == ASSUME ServerInv, Fate, NEW c \in Conns, WaitEvent(c) PROVE Fate'
<1>1. /\ server = "wait" /\ server' \in {"in", "out"}
      /\ server' = "in" => "in" \in interest[c] /\ Readable(c)
      /\ rev'.conn = c /\ (rev'.out => "out" \in interest[c])
      /\ UNCHANGED << client, script, said, taken, heard, sent, conn, interest, fds >>
  BY DEF WaitEvent, clientVars
<1>2. conn[c].mem = "live"
  <2>1. interest[c] # {}
    BY DEF WaitEvent
  <2> QED BY <2>1 DEF ServerInv, Stages
<1>3. ASSUME NEW d \in Conns PROVE FateOf(d)'
  <2>1. FateOf(d)
    BY DEF Fate
  <2>2. Asked(d)'
    BY <1>1, <2>1 DEF FateOf, Asked, At, Answering, Dead
  <2>3. Written(d)'
    BY <1>1, <2>1 DEF FateOf, Written, At, Dead
  <2>4. Described(d)'
    BY <1>1, <2>1 DEF FateOf, Described, Undamaged
  <2> QED BY <2>2, <2>3, <2>4 DEF FateOf
<1>4. Treated'
  BY <1>1, <1>2 DEF Treated, Readable
<1> QED BY <1>3, <1>4 DEF Fate

LEMMA StartFate == ServerInv /\ Fate /\ Start => Fate'
<1> SUFFICES ASSUME ServerInv, Fate, Start PROVE Fate'
  OBVIOUS
<1>1. /\ server = "start" /\ server' \in {"exited", "wait"}
      /\ UNCHANGED << client, script, said, taken, heard, sent, conn, interest, rev >>
  BY DEF Start, clientVars
<1>2. ASSUME NEW d \in Conns PROVE FateOf(d)'
  <2>1. FateOf(d)
    BY DEF Fate
  <2>2. Asked(d)'
    BY <1>1, <2>1 DEF FateOf, Asked, At, Answering, Dead
  <2>3. Written(d)'
    BY <1>1, <2>1 DEF FateOf, Written, At, Dead
  <2>4. Described(d)'
    BY <1>1, <2>1 DEF FateOf, Described, Undamaged
  <2> QED BY <2>2, <2>3, <2>4 DEF FateOf
<1>3. Treated'
  BY <1>1 DEF Treated
<1> QED BY <1>2, <1>3 DEF Fate

(* What counting the units sent leaves alone.                              *)
LEMMA OnlyDoneGrows ==
    ASSUME ServerInv, NEW c \in Conns, NEW n \in Nat, conn' = [conn EXCEPT ![c].done = @ + n]
    PROVE  /\ conn'[c].done = conn[c].done + n /\ (conn'[c].hdr <=> conn[c].hdr)
           /\ conn'[c].size = conn[c].size /\ conn'[c].len = conn[c].len
<1>1. conn[c] \in Connections /\ conn'[c] = [conn[c] EXCEPT !.done = @ + n]
  BY DEF ServerInv, Shapes
<1> DEFINE old == conn[c]
           new == conn'[c]
<1>2. old \in Connections /\ new = [old EXCEPT !.done = old.done + n]
  BY <1>1
<1> HIDE DEF old, new
<1>3. new.done = old.done + n /\ new.size = old.size /\ new.len = old.len
  BY <1>2 DEF Connections
<1>4. new.hdr <=> old.hdr
  BY <1>2 DEF Connections
<1> QED BY <1>3, <1>4 DEF old, new

LEMMA Amounts ==
    ASSUME ServerInv, NEW c \in Conns, NEW rest \in Int, NEW n \in 1 .. Min({Space(c), rest})
    PROVE  n \in Nat /\ n > 0 /\ n <= Space(c) /\ n <= rest
<1>1. Len(sent[c]) \in Nat /\ taken[c] \in Nat
  BY LenProperties DEF ServerInv, Shapes
<1> DEFINE room == Space(c)
<1>2. room \in Int /\ n \in 1 .. Min({room, rest})
  BY <1>1, Sizes DEF Space
<1> HIDE DEF room
<1>3. Min({room, rest}) \in Int /\ Min({room, rest}) <= room /\ Min({room, rest}) <= rest
  BY <1>2, MinOfTwo
<1>4. n \in Nat /\ n > 0 /\ n <= room /\ n <= rest
  BY <1>2, <1>3
<1> QED BY <1>4 DEF room

LEMMA UnitsAppended ==
    ASSUME ServerInv, NEW c \in Conns, NEW units \in Seq(Units),
           sent' = [sent EXCEPT ![c] = @ \o units]
    PROVE  /\ Len(sent'[c]) = Len(sent[c]) + Len(units) /\ sent'[c] \in Seq(Units)
           /\ \A k \in 1 .. Len(sent[c]) : sent'[c][k] = sent[c][k]
           /\ \A k \in 1 .. Len(units) : sent'[c][Len(sent[c]) + k] = units[k]
           /\ \A d \in Conns \ {c} : sent'[d] = sent[d]
<1>1. sent \in [Conns -> Seq(Units)]
  BY DEF ServerInv, Shapes
<1>2. sent'[c] = sent[c] \o units /\ \A d \in Conns \ {c} : sent'[d] = sent[d]
  BY <1>1
<1> DEFINE old == sent[c]
           new == sent'[c]
<1>3. old \in Seq(Units) /\ new = old \o units
  BY <1>1, <1>2
<1> HIDE DEF old, new
<1>4. /\ new \in Seq(Units) /\ Len(new) = Len(old) + Len(units)
      /\ \A k \in 1 .. Len(old) : new[k] = old[k]
      /\ \A k \in 1 .. Len(units) : new[Len(old) + k] = units[k]
  BY <1>3
<1> QED BY <1>2, <1>4 DEF old, new

LEMMA SendHeaderFate == ServerInv /\ Fate /\ SendHeader => Fate'
<1> SUFFICES ASSUME ServerInv, Fate, SendHeader PROVE Fate'
  OBVIOUS
<1>1. /\ server = "header" /\ LoopsOn /\ ~conn[rev.conn].hdr
      /\ conn[rev.conn].done < conn[rev.conn].len /\ UNCHANGED << clientVars, heard >>
  BY DEF SendHeader
<1>2. PICK c \in Conns : c = rev.conn /\ conn[c].mem = "live"
  BY <1>1, TreatedIsThere
<1>3. CASE RemoveConnection(c) /\ sent' = sent /\ server' \in {"wait", "exited"}
  <2>1. UNCHANGED << clientVars, heard, sent >>
    BY <1>1, <1>3
  <2> QED BY <1>1, <1>2, <1>3, <2>1, RemovalFate DEF Dead
<1>4. ASSUME NEW n \in 1 .. Min({Space(c), conn[c].len - conn[c].done}),
             sent' = [sent EXCEPT ![c] = @ \o HeaderUnits(c, n)],
             conn' = [conn EXCEPT ![c].done = @ + n],
             UNCHANGED << interest, fds, server >>
      PROVE  Fate'
  <2>1. /\ conn[c].len \in Nat /\ conn[c].done \in Nat /\ sent[c] \in Seq(Units)
        /\ conn[c].len = HeaderLen /\ Len(sent[c]) = conn[c].done /\ Len(sent[c]) \in Nat
    <3>1. conn[c].len = HeaderLen
      BY <1>1, <1>2 DEF ServerInv, Requested, Fate, FateOf, Asked
    <3>2. Len(sent[c]) = conn[c].done
      BY <1>1, <1>2 DEF Fate, FateOf, Written, Dead
    <3> QED BY <3>1, <3>2, LenProperties DEF ServerInv, Shapes, Connections
  <2>2. n \in Nat /\ n > 0 /\ n <= conn[c].len - conn[c].done
    <3>1. conn[c].len - conn[c].done \in Int
      BY <2>1
    <3> QED BY <3>1, <1>4, Amounts
  <2>3. HeaderUnits(c, n) \in Seq(Units) /\ Len(HeaderUnits(c, n)) = n
    BY <2>2, HeaderUnitsAre
  <2>4. /\ Len(sent'[c]) = Len(sent[c]) + n /\ sent'[c] \in Seq(Units)
        /\ \A d \in Conns \ {c} : sent'[d] = sent[d]
    BY <1>4, <2>3, UnitsAppended
  <2>5. /\ conn'[c].done = conn[c].done + n /\ (conn'[c].hdr <=> conn[c].hdr)
        /\ conn'[c].size = conn[c].size /\ conn'[c].len = conn[c].len
    BY <1>4, <2>2, OnlyDoneGrows
  <2>6. /\ \A d \in Conns \ {c} : conn'[d] = conn[d]
        /\ conn'[c].mem = conn[c].mem /\ conn'[c].doc = conn[c].doc
        /\ conn'[c].file = conn[c].file /\ conn'[c].kind = conn[c].kind
    BY <1>4, <2>2, DoneGrows
  <2>7. rev' = rev
    BY <1>1, <1>4 DEF LoopsOn
  <2>8. Written(c)'
    <3>1. ~conn'[c].hdr
      BY <1>1, <1>2, <2>5
    <3>2. conn'[c].done <= HeaderLen /\ Len(sent'[c]) = conn'[c].done
      BY <2>1, <2>2, <2>4, <2>5, Sizes
    <3>3. rev'.conn = c /\ server' = "header"
      BY <1>1, <1>2, <1>4, <2>7
    <3> QED BY <3>1, <3>2, <3>3 DEF Written, At
  <2>9. sent'[c] # << >>
    BY <2>1, <2>2, <2>4, EmptySeq
  <2> QED BY <1>1, <1>2, <1>4, <2>4, <2>5, <2>6, <2>8, <2>9, AnswerFate
<1> QED BY <1>2, <1>3, <1>4 DEF SendHeader, WriteFails

(* What the end of the header changes.                                     *)
LEMMA HeaderWritten ==
    ASSUME ServerInv, HeaderDone, NEW c \in Conns, c = rev.conn
    PROVE  /\ conn'[c].hdr /\ conn'[c].done = 0
           /\ conn'[c].size = conn[c].size /\ conn'[c].len = conn[c].len
           /\ conn'[c].mem = conn[c].mem /\ conn'[c].doc = conn[c].doc
           /\ conn'[c].file = conn[c].file /\ conn'[c].kind = conn[c].kind
           /\ \A d \in Conns \ {c} : conn'[d] = conn[d]
<1> DEFINE state2 == IF Sends(c) THEN conn[c].state ELSE "sent"
           old == conn[c]
           new == conn'[c]
<1>1. conn \in [Conns -> Connections]
  BY DEF ServerInv, Shapes
<1>2. conn' = [conn EXCEPT ![c] = [@ EXCEPT !.hdr = TRUE, !.done = 0, !.state = state2]]
  BY <1>1 DEF HeaderDone
<1>3. \A d \in Conns \ {c} : conn'[d] = conn[d]
  BY <1>2
<1>4. PICK hdr2 \in BOOLEAN : hdr2 /\ new = [old EXCEPT !.hdr = hdr2, !.done = 0, !.state = state2]
  <2>1. TRUE \in BOOLEAN /\ new = [old EXCEPT !.hdr = TRUE, !.done = 0, !.state = state2]
    BY <1>1, <1>2
  <2> HIDE DEF state2, old, new
  <2> QED BY <2>1, Zenon
<1>5. old \in Connections
  BY <1>1
<1> HIDE DEF state2, old, new
<1>6. new.hdr <=> hdr2
  BY <1>4, <1>5 DEF Connections
<1>7. /\ new.done = 0 /\ new.size = old.size /\ new.len = old.len /\ new.mem = old.mem
      /\ new.doc = old.doc /\ new.file = old.file /\ new.kind = old.kind
  BY <1>4, <1>5 DEF Connections
<1> QED BY <1>3, <1>4, <1>6, <1>7 DEF old, new

LEMMA HeaderDoneFate == ServerInv /\ Fate /\ HeaderDone => Fate'
<1> SUFFICES ASSUME ServerInv, Fate, HeaderDone PROVE Fate'
  OBVIOUS
<1>1. /\ server = "header" /\ LoopsOn /\ (conn[rev.conn].hdr \/ conn[rev.conn].done >= conn[rev.conn].len)
      /\ UNCHANGED << clientVars, heard >> /\ sent' = sent
  BY DEF HeaderDone
<1>2. PICK c \in Conns : c = rev.conn /\ conn[c].mem = "live"
  BY <1>1, TreatedIsThere
<1>3. /\ interest' = IF Sends(c) THEN interest ELSE UpdatePtrIn(c)
      /\ server' = IF ~Sends(c) THEN "wait"
                   ELSE IF conn[c].kind = "dynamic" THEN "setup" ELSE conn[c].kind
  BY <1>2 DEF HeaderDone
<1>4. \/ server' = "wait" /\ interest' = UpdatePtrIn(c)
      \/ server' = "setup" /\ conn[c].kind = "dynamic" /\ interest' = interest
      \/ server' = "static" /\ conn[c].kind = "static" /\ interest' = interest
  BY <1>3 DEF Sends
<1>5. /\ conn'[c].hdr /\ conn'[c].done = 0
      /\ conn'[c].size = conn[c].size /\ conn'[c].len = conn[c].len
      /\ conn'[c].mem = conn[c].mem /\ conn'[c].doc = conn[c].doc
      /\ conn'[c].file = conn[c].file /\ conn'[c].kind = conn[c].kind
      /\ \A d \in Conns \ {c} : conn'[d] = conn[d]
  BY <1>2, HeaderWritten
<1>6. Len(sent'[c]) = HeaderLen
  <2>1. conn[c].len = HeaderLen
    BY <1>1, <1>2 DEF ServerInv, Requested, Fate, FateOf, Asked
  <2>2. Written(c)
    BY DEF Fate, FateOf
  <2>3. CASE conn[c].hdr
    BY <1>1, <1>2, <2>2, <2>3 DEF Written, At, Dead
  <2>4. CASE ~conn[c].hdr
    <3>1. conn[c].done >= HeaderLen /\ conn[c].done <= HeaderLen /\ Len(sent[c]) = conn[c].done
      BY <1>1, <1>2, <2>1, <2>2, <2>4 DEF Written, Dead
    <3>2. conn[c].done \in Nat
      BY DEF ServerInv, Shapes, Connections
    <3> QED BY <1>1, <3>1, <3>2, Sizes
  <2> QED BY <2>3, <2>4
<1>7. Written(c)'
  <2>1. HeaderLen = HeaderLen + 0
    BY Sizes
  <2>2. server' # "wait" => rev'.conn = c
    BY <1>1, <1>2 DEF LoopsOn
  <2> QED BY <1>4, <1>5, <1>6, <2>1, <2>2 DEF Written, At
<1> QED BY <1>1, <1>2, <1>4, <1>5, <1>7, AnswerFate

LEMMA SendStaticFate == ServerInv /\ Fate /\ SendStatic => Fate'
<1> SUFFICES ASSUME ServerInv, Fate, SendStatic PROVE Fate'
  OBVIOUS
<1>1. /\ server = "static" /\ LoopsOn /\ UNCHANGED << clientVars, heard, interest, fds >>
  BY DEF SendStatic
<1>2. PICK c \in Conns : c = rev.conn /\ conn[c].mem = "live" /\ conn[c].file # NotFound
  BY <1>1, TreatedIsThere DEF Sends
<1>3. CASE server' = "exited" /\ UNCHANGED << conn, sent >>
  <2>1. Written(c)'
    BY <1>3 DEF Written, Dead
  <2> QED BY <1>1, <1>2, <1>3, <2>1, AnswerFate
<1>4. ASSUME NEW n \in 1 .. Min({Space(c), conn[c].size - conn[c].done}),
             sent' = [sent EXCEPT ![c] = @ \o FileUnits(c, conn[c].done, n)],
             conn' = [conn EXCEPT ![c].done = @ + n],
             server' = server
      PROVE  Fate'
  <2>1. /\ conn[c].size \in Int /\ conn[c].done \in Nat /\ sent[c] \in Seq(Units) /\ Len(sent[c]) \in Nat
    BY LenProperties DEF ServerInv, Shapes, Connections
  <2>2. n \in Nat /\ n > 0
    <3>1. conn[c].size - conn[c].done \in Int
      BY <2>1
    <3> QED BY <3>1, <1>4, Amounts
  <2>3. FileUnits(c, conn[c].done, n) \in Seq(Units) /\ Len(FileUnits(c, conn[c].done, n)) = n
    BY <1>2, <2>1, <2>2, FileUnitsAre
  <2>4. /\ Len(sent'[c]) = Len(sent[c]) + n /\ sent'[c] \in Seq(Units)
        /\ \A d \in Conns \ {c} : sent'[d] = sent[d]
    BY <1>4, <2>3, UnitsAppended
  <2>5. /\ conn'[c].done = conn[c].done + n /\ (conn'[c].hdr <=> conn[c].hdr)
        /\ conn'[c].size = conn[c].size /\ conn'[c].len = conn[c].len
    BY <1>4, <2>2, OnlyDoneGrows
  <2>6. /\ \A d \in Conns \ {c} : conn'[d] = conn[d]
        /\ conn'[c].mem = conn[c].mem /\ conn'[c].doc = conn[c].doc
        /\ conn'[c].file = conn[c].file /\ conn'[c].kind = conn[c].kind
    BY <1>4, <2>2, DoneGrows
  <2>7. rev' = rev
    BY <1>1, <1>4 DEF LoopsOn
  <2>8. Written(c)'
    <3>1. conn[c].hdr /\ conn[c].kind = "static" /\ Len(sent[c]) = HeaderLen + conn[c].done
      BY <1>1, <1>2 DEF Fate, FateOf, Written, At, Dead
    <3>2. conn'[c].hdr /\ conn'[c].kind = "static"
      BY <2>5, <2>6, <3>1
    <3>3. Len(sent'[c]) = HeaderLen + conn'[c].done
      BY <2>1, <2>2, <2>4, <2>5, <3>1, Sizes
    <3>4. rev'.conn = c /\ server' = "static"
      BY <1>1, <1>2, <1>4, <2>7
    <3> QED BY <3>2, <3>3, <3>4 DEF Written, At
  <2>9. sent'[c] # << >>
    BY <2>1, <2>2, <2>4, EmptySeq
  <2> QED BY <1>1, <1>2, <1>4, <2>4, <2>5, <2>6, <2>8, <2>9, AnswerFate
<1> QED BY <1>2, <1>3, <1>4 DEF SendStatic

LEMMA IocbSetupFate == ServerInv /\ Fate /\ IocbSetup => Fate'
<1> SUFFICES ASSUME ServerInv, Fate, IocbSetup PROVE Fate'
  OBVIOUS
<1>1. /\ server = "setup" /\ LoopsOn
      /\ UNCHANGED << clientVars, heard >> /\ conn' = conn /\ sent' = sent /\ interest' = interest
      /\ server' \in {"exited", "crashed", "dynamic"}
  BY DEF IocbSetup
<1>2. PICK c \in Conns : c = rev.conn /\ conn[c].mem = "live"
  BY <1>1, TreatedIsThere
<1>3. server' = "dynamic" => conn[c].size > 0
  <2>1. conn[c].size \in Int
    BY DEF ServerInv, Shapes, Connections
  <2> QED BY <1>2, <2>1 DEF IocbSetup
<1>4. rev' = rev
  BY <1>1 DEF LoopsOn
<1>5. Written(c)'
  <2> SUFFICES ASSUME server' = "dynamic" PROVE Written(c)'
    BY <1>1 DEF Written, Dead
  <2>1. conn[c].hdr /\ conn[c].done = 0 /\ conn[c].kind = "dynamic"
    BY <1>1, <1>2 DEF Fate, FateOf, Written, At, Dead
  <2>2. 0 = 0 * ReadSize(c)
    <3>1. ReadSize(c) \in Int
      <4>1. conn[c].size \in Int /\ Block \in Int
        BY Sizes DEF ServerInv, Shapes, Connections
      <4> QED BY <4>1, MinOfTwo DEF ReadSize
    <3> QED BY <3>1
  <2>3. InBlocks(c)
    BY <2>1, <2>2 DEF InBlocks
  <2>4. InBlocks(c)'
    BY <1>1, <2>3 DEF InBlocks, ReadSize
  <2> QED BY <1>1, <1>2, <1>3, <1>4, <2>1, <2>4 DEF Written, At
<1> QED BY <1>1, <1>2, <1>5, AnswerFate

(* A block and what of it fits into the socket.                            *)
LEMMA BlockFacts ==
    ASSUME ServerInv, NEW c \in Conns, conn[c].size > 0
    PROVE  /\ ReadSize(c) \in Nat \ {0} /\ ReadSize(c) <= conn[c].size /\ ReadSize(c) <= Block
           /\ ReadSize(c) \in {conn[c].size, Block}
           /\ Space(c) \in Nat
           /\ Min({Space(c), ReadSize(c)}) \in Nat
           /\ Min({Space(c), ReadSize(c)}) <= Space(c) /\ Min({Space(c), ReadSize(c)}) <= ReadSize(c)
           /\ Min({Space(c), ReadSize(c)}) \in {Space(c), ReadSize(c)}
<1> DEFINE size == conn[c].size
           block == ReadSize(c)
           room == Space(c)
<1>1. size \in Nat \ {0} /\ Block \in Nat \ {0}
  <2>1. conn[c].size \in Int
    BY DEF ServerInv, Shapes, Connections
  <2> QED BY <2>1, Sizes
<1>2. block = Min({size, Block})
  BY DEF ReadSize
<1>3. room \in Nat
  <2>1. Len(sent[c]) \in Nat /\ taken[c] \in Nat /\ taken[c] <= Len(sent[c])
        /\ Len(sent[c]) - taken[c] <= SockBuf
    BY LenProperties DEF ServerInv, TypeOK, Shapes
  <2> QED BY <2>1, Sizes DEF Space
<1> HIDE DEF size, block, room
<1>4. block \in Nat \ {0} /\ block <= size /\ block <= Block /\ block \in {size, Block}
  BY <1>1, <1>2, MinOfTwoNats
<1>5. /\ Min({room, block}) \in Nat /\ Min({room, block}) <= room /\ Min({room, block}) <= block
      /\ Min({room, block}) \in {room, block}
  BY <1>3, <1>4, MinOfTwoNats
<1> QED BY <1>3, <1>4, <1>5 DEF size, block, room

LEMMA SendDynamicFate == ServerInv /\ Fate /\ SendDynamic => Fate'
<1> SUFFICES ASSUME ServerInv, Fate, SendDynamic PROVE Fate'
  OBVIOUS
<1>1. /\ server = "dynamic" /\ LoopsOn /\ UNCHANGED << clientVars, heard, interest, fds >>
  BY DEF SendDynamic
<1>2. PICK c \in Conns : c = rev.conn /\ conn[c].mem = "live" /\ conn[c].file # NotFound
  BY <1>1, TreatedIsThere DEF Sends
<1> DEFINE n == IF client[c] = "reset" THEN 0 ELSE Min({Space(c), ReadSize(c)})
<1>3. CASE server' \in {"crashed", "exited"} /\ UNCHANGED << conn, sent >>
  <2>1. Written(c)'
    BY <1>3 DEF Written, Dead
  <2> QED BY <1>1, <1>2, <1>3, <2>1, AnswerFate
<1>4. ASSUME sent' = [sent EXCEPT ![c] = @ \o FileUnits(c, conn[c].done, n)],
             conn' = [conn EXCEPT ![c].done = @ + ReadSize(c)],
             server' \in {"dynamic", "exited"}
      PROVE  Fate'
  <2>1. /\ conn[c].done \in Nat /\ sent[c] \in Seq(Units) /\ Len(sent[c]) \in Nat
    BY LenProperties DEF ServerInv, Shapes, Connections
  <2>2. conn[c].kind = "dynamic" /\ conn[c].size > 0 /\ InBlocks(c) /\ conn[c].hdr
    BY <1>1, <1>2 DEF Fate, FateOf, Written, At, Dead
  <2>3. ReadSize(c) \in Nat /\ n \in Nat
    BY <2>2, BlockFacts
  <2> HIDE DEF n
  <2>4. FileUnits(c, conn[c].done, n) \in Seq(Units) /\ Len(FileUnits(c, conn[c].done, n)) = n
    BY <1>2, <2>1, <2>3, FileUnitsAre
  <2>5. /\ Len(sent'[c]) = Len(sent[c]) + n /\ sent'[c] \in Seq(Units)
        /\ \A d \in Conns \ {c} : sent'[d] = sent[d]
    BY <1>4, <2>4, UnitsAppended
  <2>6. /\ conn'[c].done = conn[c].done + ReadSize(c) /\ (conn'[c].hdr <=> conn[c].hdr)
        /\ conn'[c].size = conn[c].size /\ conn'[c].len = conn[c].len
    BY <1>4, <2>3, OnlyDoneGrows
  <2>7. /\ \A d \in Conns \ {c} : conn'[d] = conn[d]
        /\ conn'[c].mem = conn[c].mem /\ conn'[c].doc = conn[c].doc
        /\ conn'[c].file = conn[c].file /\ conn'[c].kind = conn[c].kind
    BY <1>4, <2>3, DoneGrows
  <2>8. rev' = rev
    BY <1>1, <1>4 DEF LoopsOn
  <2>9. Written(c)'
    <3> SUFFICES ASSUME server' = "dynamic" PROVE Written(c)'
      BY <1>4 DEF Written, Dead
    <3>1. InBlocks(c)'
      <4>1. PICK m \in Nat : conn[c].done = m * ReadSize(c)
        BY <2>2 DEF InBlocks
      <4>2. conn'[c].done = (m + 1) * ReadSize(c) /\ m + 1 \in Nat
        BY <2>3, <2>6, <4>1
      <4>3. ReadSize(c)' = ReadSize(c)
        BY <2>6 DEF ReadSize
      <4> QED BY <4>2, <4>3 DEF InBlocks
    <3>2. conn'[c].hdr /\ conn'[c].kind = "dynamic" /\ conn'[c].size > 0
      BY <2>2, <2>6, <2>7
    <3>3. rev'.conn = c
      BY <1>2, <2>8
    <3> QED BY <3>1, <3>2, <3>3 DEF Written, At
  <2>10. sent[c] # << >> => sent'[c] # << >>
    <3>1. sent[c] # << >> => Len(sent[c]) > 0
      BY <2>1, EmptySeq
    <3> QED BY <2>1, <2>3, <2>5, <3>1, EmptySeq
  <2> QED BY <1>1, <1>2, <1>4, <2>5, <2>6, <2>7, <2>9, <2>10, AnswerFate
<1> QED BY <1>2, <1>3, <1>4 DEF SendDynamic, WriteFails

LEMMA AcceptFate == ASSUME ServerInv, Fate, NEW c \in Conns, Accept(c) PROVE Fate'
<1>1. /\ server = "wait" /\ client[c] = "connecting" /\ server' \in {"wait", "exited"}
      /\ UNCHANGED << script, said, heard, sent, taken, rev >>
  BY DEF Accept
<1>2. /\ conn[c].mem = "none" /\ heard[c] = 0 /\ rev = NoEvent
      /\ conn \in [Conns -> Connections] /\ interest \in [Conns -> SUBSET {"in", "out"}]
      /\ client \in [Conns -> {"none", "connecting", "open", "halfclosed", "reset"}]
  BY <1>1 DEF ServerInv, Stages, Shapes, TypeOK
<1>3. sent[c] = << >>
  BY <1>2 DEF Fate, FateOf, Asked
<1>4. \/ UNCHANGED << client, conn, interest >>
      \/ \E junk \in Leftovers :
            /\ conn' = [conn EXCEPT ![c] = [NoConn EXCEPT !.mem = "live", !.file = junk]]
            /\ interest' = AddPtrIn(c)
            /\ client' = [client EXCEPT ![c] = "open"]
  BY DEF Accept
<1>5. \/ UNCHANGED << client, conn, interest >>
      \/ /\ conn'[c].mem = "live" /\ conn'[c].doc = NoPath /\ ~conn'[c].hdr /\ conn'[c].done = 0
         /\ interest'[c] = {"in"} /\ client'[c] = "open"
         /\ \A d \in Conns \ {c} : conn'[d] = conn[d] /\ interest'[d] = interest[d] /\ client'[d] = client[d]
  <2> SUFFICES ASSUME ~UNCHANGED << client, conn, interest >>
               PROVE  /\ conn'[c].mem = "live" /\ conn'[c].doc = NoPath /\ ~conn'[c].hdr /\ conn'[c].done = 0
                      /\ interest'[c] = {"in"} /\ client'[c] = "open"
                      /\ \A d \in Conns \ {c} : /\ conn'[d] = conn[d] /\ interest'[d] = interest[d]
                                               /\ client'[d] = client[d]
    OBVIOUS
  <2>1. PICK junk \in Leftovers :
           /\ conn' = [conn EXCEPT ![c] = [NoConn EXCEPT !.mem = "live", !.file = junk]]
           /\ interest' = AddPtrIn(c)
           /\ client' = [client EXCEPT ![c] = "open"]
    BY <1>4
  <2>2. /\ interest'[c] = {"in"} /\ client'[c] = "open"
        /\ \A d \in Conns \ {c} : /\ conn'[d] = conn[d] /\ interest'[d] = interest[d]
                                 /\ client'[d] = client[d]
    BY <1>2, <2>1 DEF AddPtrIn
  <2> DEFINE new == conn'[c]
             old == NoConn
  <2>3. new = [old EXCEPT !.mem = "live", !.file = junk]
    BY <1>2, <2>1
  <2>4. old \in Connections /\ old.doc = NoPath /\ ~old.hdr /\ old.done = 0
    BY NoConnIsOne DEF NoConn, NoPath
  <2> HIDE DEF new, old
  <2>5. new.mem = "live" /\ new.doc = NoPath /\ new.done = 0
    BY <2>3, <2>4 DEF Connections
  <2>6. new.hdr <=> old.hdr
    BY <2>3, <2>4 DEF Connections
  <2> QED BY <2>2, <2>4, <2>5, <2>6 DEF new
<1>6. ASSUME NEW d \in Conns PROVE FateOf(d)'
  <2>1. FateOf(d)
    BY DEF Fate
  <2>2. CASE UNCHANGED << client, conn, interest >>
    <3>1. Asked(d)'
      BY <1>1, <2>1, <2>2 DEF FateOf, Asked, At, Answering, Dead
    <3>2. Written(d)'
      BY <1>1, <2>1, <2>2 DEF FateOf, Written, At, Dead
    <3>3. Described(d)'
      BY <1>1, <2>1, <2>2 DEF FateOf, Described, Undamaged
    <3> QED BY <3>1, <3>2, <3>3 DEF FateOf
  <2>3. CASE ~UNCHANGED << client, conn, interest >> /\ d # c
    <3>1. conn'[d] = conn[d] /\ interest'[d] = interest[d] /\ client'[d] = client[d]
      BY <1>5, <2>3
    <3>2. Undamaged' => Undamaged
      BY <1>2, <1>5 DEF Undamaged
    <3>3. Asked(d)'
      BY <1>1, <2>1, <3>1 DEF FateOf, Asked, At, Answering, Dead
    <3>4. Written(d)'
      BY <1>1, <2>1, <3>1 DEF FateOf, Written, At, Dead
    <3>5. Described(d)'
      BY <1>1, <2>1, <3>1, <3>2 DEF FateOf, Described
    <3> QED BY <3>3, <3>4, <3>5 DEF FateOf
  <2>4. CASE ~UNCHANGED << client, conn, interest >> /\ d = c
    <3>1. /\ conn'[c].mem = "live" /\ conn'[c].doc = NoPath /\ ~conn'[c].hdr /\ conn'[c].done = 0
          /\ interest'[c] = {"in"} /\ client'[c] = "open"
      BY <1>5, <2>4
    <3>2. Asked(c)'
      BY <1>1, <1>2, <1>3, <3>1 DEF Asked
    <3>3. Len(sent'[c]) = 0 /\ 0 <= HeaderLen
      BY <1>1, <1>3, EmptySeq, Sizes
    <3>4. Written(c)'
      BY <1>1, <3>1, <3>3 DEF Written, At, Dead
    <3>5. Described(c)'
      BY <3>1 DEF Described
    <3> QED BY <2>4, <3>2, <3>4, <3>5 DEF FateOf
  <2> QED BY <2>2, <2>3, <2>4
<1>7. Treated'
  BY <1>1 DEF Treated
<1> QED BY <1>6, <1>7 DEF Fate

(* A path the parser found is named by the first segment it was given.     *)
LEMMA PathsAreNamed ==
    ASSUME ServerInv, NEW c \in Conns, heard[c] < said[c], NEW path \in PathsIn(Inbox(c)), path # NoPath
    PROVE  path \in Named(script[c][heard[c] + 1])
<1>1. /\ script[c] \in Seq(Segments) /\ said[c] <= Len(script[c])
      /\ heard[c] \in Nat /\ said[c] \in Nat /\ Len(script[c]) \in Nat
  BY ScriptLengths DEF ServerInv, TypeOK, Shapes
<1> DEFINE segment == script[c][heard[c] + 1]
<1>2. Inbox(c)[1] = segment
  BY <1>1, SubSeqProperties DEF Inbox
<1>3. segment \in Segments
  BY <1>1, <1>2, ElementOfSeq
<1> HIDE DEF segment
<1>4. PICK doc \in Docs : segment \in {Whole(doc), Posted(doc), HeadOf(doc), TailOf(doc)}
  BY <1>3 DEF Segments
<1>5. segment[2] = doc
  BY <1>4 DEF Whole, Posted, HeadOf, TailOf
<1>6. /\ Whole(doc) # HeadOf(doc) /\ Whole(doc) # TailOf(doc) /\ HeadOf(doc) # TailOf(doc)
      /\ Posted(doc) # Whole(doc) /\ Posted(doc) # HeadOf(doc) /\ Posted(doc) # TailOf(doc)
  BY DEF Whole, Posted, HeadOf, TailOf
<1>7. CASE segment = Whole(doc)
  <2>1. PathsIn(Inbox(c)) = {doc} /\ Named(segment) = {doc}
    BY <1>2, <1>5, <1>6, <1>7 DEF PathsIn, Named
  <2> QED BY <2>1 DEF segment
<1>10. CASE segment = Posted(doc)
  <2>1. /\ PathsIn(Inbox(c)) = {doc} \cup (IF Len(Inbox(c)) > 1 THEN Overlays[doc] ELSE {})
        /\ Named(segment) = {doc} \cup Overlays[doc]
    BY <1>2, <1>5, <1>6, <1>10 DEF PathsIn, Named
  <2> QED BY <2>1 DEF segment
<1>8. CASE segment = HeadOf(doc)
  <2>1. /\ PathsIn(Inbox(c)) = IF Len(Inbox(c)) > 1 THEN {doc} ELSE Heads[doc]
        /\ Named(segment) = {doc} \cup (Heads[doc] \ {NoPath})
    BY <1>2, <1>5, <1>6, <1>8 DEF PathsIn, Named
  <2> QED BY <2>1 DEF segment
<1>9. CASE segment = TailOf(doc)
  <2>1. PathsIn(Inbox(c)) = {NoPath}
    BY <1>2, <1>5, <1>6, <1>9 DEF PathsIn
  <2> QED BY <2>1
<1> QED BY <1>4, <1>7, <1>8, <1>9, <1>10

(* What set_connection_path_and_file() makes of the fields of the answer.  *)
LEMMA DocumentTold ==
    ASSUME ServerInv, NEW c \in Conns, conn[c].mem = "live", heard[c] < said[c],
           NEW path \in PathsIn(Inbox(c)),
           IF path = NoPath THEN KeepDocument(c) ELSE OpenDocument(c, path)
    PROVE  /\ conn'[c].len = HeaderLen /\ (conn'[c].hdr <=> conn[c].hdr) /\ conn'[c].done = conn[c].done
           /\ \/ /\ path = NoPath /\ conn'[c].doc = conn[c].doc /\ conn'[c].file = conn[c].file
                 /\ conn'[c].size \in SizesAt(conn[c].file) /\ conn'[c].kind \in KindsLeft(c)
              \/ /\ path \in Docs \ {NoPath} /\ conn'[c].doc = path /\ conn'[c].kind = Kind[path]
                 /\ conn'[c].file # NotFound => conn'[c].size = Size[path] /\ Kind[path] # "missing"
                 /\ conn'[c].file = NotFound => Kind[path] = "missing" \/ FreeFds = {}
<1> DEFINE old == conn[c]
           new == conn'[c]
<1>1. conn \in [Conns -> Connections] /\ old \in Connections
  BY DEF ServerInv, Shapes
<1>2. path \in Docs \cup {NoPath}
  BY PathsAre
<1>3. CASE path = NoPath
  <2>1. PICK size \in SizesAt(conn[c].file), kind \in KindsLeft(c) :
           conn' = [conn EXCEPT ![c] = [@ EXCEPT !.state = "received", !.len = HeaderLen,
                                                 !.size = size, !.kind = kind]]
    BY <1>3 DEF KeepDocument
  <2>2. new = [old EXCEPT !.state = "received", !.len = HeaderLen, !.size = size, !.kind = kind]
    BY <1>1, <2>1
  <2> HIDE DEF old, new
  <2>3. /\ new.len = HeaderLen /\ new.done = old.done /\ new.doc = old.doc /\ new.file = old.file
        /\ new.size = size /\ new.kind = kind
    BY <1>1, <2>2 DEF Connections
  <2>4. new.hdr <=> old.hdr
    BY <1>1, <2>2 DEF Connections
  <2> QED BY <1>3, <2>3, <2>4 DEF old, new
<1>4. CASE path # NoPath
  <2> DEFINE file2 == IF Opens(path) THEN LowestFree ELSE NotFound
             size2 == IF Opens(path) THEN Size[path] ELSE 0
             kind2 == Kind[path]
  <2>1. path \in Docs \ {NoPath}
    BY <1>2, <1>4
  <2>2. conn' = [conn EXCEPT ![c] = [@ EXCEPT !.state = "received", !.len = HeaderLen,
                       !.doc = path, !.kind = kind2, !.file = file2, !.size = size2]]
    BY <1>4 DEF OpenDocument
  <2>3. new = [old EXCEPT !.state = "received", !.len = HeaderLen,
                       !.doc = path, !.kind = kind2, !.file = file2, !.size = size2]
    BY <1>1, <2>2
  <2>4. /\ file2 # NotFound => size2 = Size[path] /\ Kind[path] # "missing"
        /\ file2 = NotFound => Kind[path] = "missing" \/ FreeFds = {}
    BY LowestIsFree, Sizes DEF Opens
  <2> HIDE DEF file2, size2, kind2, old, new
  <2>5. /\ new.len = HeaderLen /\ new.done = old.done /\ new.doc = path /\ new.file = file2
        /\ new.size = size2 /\ new.kind = kind2
    BY <1>1, <2>3 DEF Connections
  <2>6. new.hdr <=> old.hdr
    BY <1>1, <2>3 DEF Connections
  <2> QED BY <2>1, <2>4, <2>5, <2>6 DEF old, new, kind2
<1> QED BY <1>3, <1>4

LEMMA HandleRequestFate == ServerInv /\ Fate /\ HandleRequest => Fate'
<1> SUFFICES ASSUME ServerInv, Fate, HandleRequest PROVE Fate'
  OBVIOUS
<1>1. /\ server = "in" /\ LoopsOn /\ heard[rev.conn] < said[rev.conn]
      /\ heard' = [heard EXCEPT ![rev.conn] = said[rev.conn]]
      /\ interest' = UpdatePtrInout(rev.conn)
      /\ server' \in {"wait", "out"}
      /\ UNCHANGED << client, script, said, taken, sent >>
  BY DEF HandleRequest, AfterIn, clientVars
<1>2. PICK c \in Conns : c = rev.conn /\ conn[c].mem = "live"
  BY <1>1, TreatedIsThere
<1>3. PICK path \in PathsIn(Inbox(c)) : IF path = NoPath THEN KeepDocument(c) ELSE OpenDocument(c, path)
  BY <1>2 DEF HandleRequest
<1>4. /\ conn' \in [Conns -> Connections] /\ \A d \in Conns \ {c} : conn'[d] = conn[d]
      /\ conn'[c].mem = "live"
  BY <1>1, <1>2, <1>3, DocumentSet
<1>5. /\ conn'[c].len = HeaderLen /\ (conn'[c].hdr <=> conn[c].hdr) /\ conn'[c].done = conn[c].done
      /\ \/ /\ path = NoPath /\ conn'[c].doc = conn[c].doc /\ conn'[c].file = conn[c].file
            /\ conn'[c].size \in SizesAt(conn[c].file) /\ conn'[c].kind \in KindsLeft(c)
         \/ /\ path \in Docs /\ conn'[c].doc = path /\ conn'[c].kind = Kind[path]
            /\ conn'[c].file # NotFound => conn'[c].size = Size[path]
  BY <1>1, <1>2, <1>3, DocumentTold
<1>6. /\ heard \in [Conns -> Nat] /\ said[c] \in Nat /\ interest \in [Conns -> SUBSET {"in", "out"}]
      /\ sent[c] \in Seq(Units)
  BY DEF ServerInv, Shapes, TypeOK
<1>7. /\ heard'[c] = said[c] /\ heard[c] < said[c] /\ heard[c] \in Nat
      /\ \A d \in Conns \ {c} : heard'[d] = heard[d] /\ interest'[d] = interest[d]
  BY <1>1, <1>2, <1>6 DEF UpdatePtrInout
<1>8. rev' = rev \/ server' = "wait"
  BY <1>1 DEF LoopsOn
<1>9. Undamaged' => Undamaged
  BY <1>2, <1>4 DEF Undamaged
<1>10. ASSUME NEW d \in Conns, d # c PROVE FateOf(d)'
  <2>1. FateOf(d) /\ conn'[d] = conn[d] /\ heard'[d] = heard[d] /\ interest'[d] = interest[d]
    BY <1>4, <1>7, <1>10 DEF Fate
  <2> QED BY <1>1, <1>2, <1>8, <1>9, <1>10, <2>1, OthersFate DEF Dead
<1>11. FateOf(c)'
  <2>1. FateOf(c)
    BY DEF Fate
  <2>2. Asked(c)'
    <3>1. sent[c] # << >> => heard[c] > 0
      BY <2>1 DEF FateOf, Asked
    <3>2. sent'[c] # << >> => heard'[c] > 1
      BY <1>1, <1>7, <1>6, <3>1
    <3>3. heard'[c] > 0
      BY <1>6, <1>7
    <3>4. client'[c] = "halfclosed" => said'[c] = 0 \/ "halfclose" \in Habits[c] \/ sent'[c] # << >>
      BY <1>1, <2>1 DEF FateOf, Asked
    <3> QED BY <1>5, <3>2, <3>3, <3>4 DEF Asked
  <2>3. Written(c)'
    <3>1. /\ ~conn[c].hdr => conn[c].done = 0 /\ Len(sent[c]) = conn[c].done
          /\ conn[c].hdr => conn[c].done = 0 /\ Len(sent[c]) = HeaderLen
      BY <1>1, <1>2, <2>1 DEF FateOf, Written, At, Dead
    <3>2. /\ ~conn'[c].hdr => conn'[c].done = 0 /\ Len(sent'[c]) = conn'[c].done
          /\ conn'[c].hdr => conn'[c].done = 0 /\ Len(sent'[c]) = HeaderLen
      BY <1>1, <1>5, <3>1
    <3>3. 0 <= HeaderLen
      BY Sizes
    <3> QED BY <1>1, <3>2, <3>3 DEF Written, At
  <2>4. Described(c)'
    <3>1. CASE path = NoPath /\ conn'[c].doc = conn[c].doc /\ conn'[c].file = conn[c].file
               /\ conn'[c].size \in SizesAt(conn[c].file) /\ conn'[c].kind \in KindsLeft(c)
      <4>1. conn'[c].doc # NoPath => \E j \in 1 .. heard'[c] : conn'[c].doc \in Named(script'[c][j])
        <5> SUFFICES ASSUME conn[c].doc # NoPath
                     PROVE  \E j \in 1 .. heard'[c] : conn'[c].doc \in Named(script'[c][j])
          BY <3>1
        <5>1. PICK j \in 1 .. heard[c] : conn[c].doc \in Named(script[c][j])
          BY <2>1 DEF FateOf, Described
        <5>2. j \in 1 .. heard'[c]
          BY <1>6, <1>7
        <5> QED BY <1>1, <3>1, <5>1, <5>2
      <4>2. conn'[c].doc # NoPath => conn'[c].kind = Kind[conn'[c].doc]
        <5> SUFFICES ASSUME conn[c].doc # NoPath PROVE conn'[c].kind = Kind[conn[c].doc]
          BY <3>1
        <5>1. conn[c].kind = Kind[conn[c].doc] /\ conn[c].doc \in Docs
          BY <1>2, <2>1 DEF FateOf, Described, ServerInv, Shapes, Connections
        <5>2. conn[c].kind # "none"
          BY <5>1, Sizes
        <5> QED BY <3>1, <5>1, <5>2 DEF KindsLeft
      <4>3. Undamaged' /\ conn'[c].doc # NoPath /\ conn'[c].file # NotFound =>
               conn'[c].size = Size[conn'[c].doc]
        <5> SUFFICES ASSUME Undamaged, conn[c].doc # NoPath, conn[c].file # NotFound
                     PROVE  conn'[c].size = Size[conn[c].doc]
          BY <1>9, <3>1
        <5>1. (conn[c].file \in Fds /\ fds[conn[c].file] = FileOf(c, conn[c].doc)) /\ conn[c].file \in Fds
          BY <1>2 DEF ServerInv, Sound, Shapes, Connections
        <5>2. HoldsFile(conn[c].file) /\ fds[conn[c].file][3] = conn[c].doc
          BY <5>1, FileHeads DEF HoldsFile
        <5>3. SizesAt(conn[c].file) = {Size[conn[c].doc]}
          BY <5>2 DEF SizesAt
        <5> QED BY <3>1, <5>3
      <4> QED BY <4>1, <4>2, <4>3 DEF Described
    <3>2. CASE path \in Docs /\ conn'[c].doc = path /\ conn'[c].kind = Kind[path]
               /\ (conn'[c].file # NotFound => conn'[c].size = Size[path])
      <4> SUFFICES ASSUME path # NoPath PROVE Described(c)'
        BY <3>2 DEF Described
      <4>1. path \in Named(script[c][heard[c] + 1])
        BY <1>7, PathsAreNamed
      <4>2. heard[c] + 1 \in 1 .. heard'[c]
        BY <1>6, <1>7
      <4>3. \E j \in 1 .. heard'[c] : conn'[c].doc \in Named(script'[c][j])
        BY <1>1, <3>2, <4>1, <4>2
      <4> QED BY <3>2, <4>3 DEF Described
    <3> QED BY <1>5, <3>1, <3>2
  <2> QED BY <2>2, <2>3, <2>4 DEF FateOf
<1>12. Treated'
  BY <1>1, <1>2, <1>4, <1>8 DEF Treated
<1> QED BY <1>10, <1>11, <1>12 DEF Fate

(* It ends outside a treatment, and no connection is changed.              *)
LEMMA WaitFailsFate == ServerInv /\ Fate /\ WaitFails => Fate'
<1> SUFFICES ASSUME ServerInv, Fate, WaitFails PROVE Fate'
  OBVIOUS
<1>1. /\ server = "wait" /\ server' = "exited"
      /\ UNCHANGED << client, script, said, taken, heard, sent, conn, interest, fds, rev >>
  BY DEF WaitFails, clientVars
<1>2. ASSUME NEW d \in Conns PROVE FateOf(d)'
  <2>1. FateOf(d)
    BY DEF Fate
  <2>2. Asked(d)'
    BY <1>1, <2>1 DEF FateOf, Asked, At, Dead
  <2>3. Written(d)'
    BY <1>1, <2>1 DEF FateOf, Written, At, Dead, InBlocks, ReadSize
  <2>4. Described(d)'
    BY <1>1, <2>1 DEF FateOf, Described, Undamaged
  <2> QED BY <2>2, <2>3, <2>4 DEF FateOf
<1>3. Treated'
  BY <1>1 DEF Fate, Treated, Leaves
<1> QED BY <1>2, <1>3 DEF Fate

LEMMA StepFate == ServerInv /\ Fate /\ [Next]_vars => Fate'
<1> SUFFICES ASSUME ServerInv, Fate, [Next]_vars PROVE Fate'
  OBVIOUS
<1>1. CASE \E c \in Conns : ClientStep(c)
  BY <1>1, ClientStepFate
<1>2. CASE \E c \in Conns : Accept(c)
  BY <1>2, AcceptFate
<1>3. CASE \E c \in Conns : WaitEvent(c)
  BY <1>3, WaitEventFate
<1>4. CASE Start
  BY <1>4, StartFate
<1>5. CASE Handler
  <2>1. \/ WaitFails \/ ReceiveFails \/ HandleRequest \/ SendMessage \/ SendHeader
        \/ HeaderDone \/ SendStatic \/ IocbSetup \/ SendDynamic \/ FileSent
    BY <1>5 DEF Handler
  <2> QED BY <2>1, ReceiveFailsFate, HandleRequestFate, SendMessageFate, SendHeaderFate,
             HeaderDoneFate, SendStaticFate, IocbSetupFate, SendDynamicFate, FileSentFate, WaitFailsFate
<1>6. CASE UNCHANGED vars
  <2>1. UNCHANGED << client, script, said, taken, heard, sent, conn, interest, fds, rev, server >>
    BY <1>6 DEF vars, clientVars
  <2>2. ASSUME NEW d \in Conns PROVE FateOf(d)'
    <3>1. FateOf(d)
      BY DEF Fate
    <3>2. Asked(d)'
      BY <2>1, <3>1 DEF FateOf, Asked, At, Dead
    <3>3. Written(d)'
      BY <2>1, <3>1 DEF FateOf, Written, At, Dead, InBlocks, ReadSize
    <3>4. Described(d)'
      BY <2>1, <3>1 DEF FateOf, Described, Undamaged
    <3> QED BY <3>2, <3>3, <3>4 DEF FateOf
  <2>3. Treated'
    BY <2>1 DEF Fate, Treated, Leaves
  <2> QED BY <2>2, <2>3 DEF Fate
<1> QED BY <1>1, <1>2, <1>3, <1>4, <1>5, <1>6 DEF Next

(* FateInvariant: in every reachable state the response to each connection *)
(* has come as far as its structure says, and an event of a structure that *)
(* was freed is one of a client that left (send_message(), lines 355-420). *)
THEOREM FateInvariant == Spec => [](ServerInv /\ Fate)
<1>1. Init => ServerInv /\ Fate
  BY InitiallySound, InitiallyFated
<1>2. ServerInv /\ Fate /\ [Next]_vars => ServerInv' /\ Fate'
  BY StepKeeps, StepFate
<1> QED BY <1>1, <1>2, PTL DEF Spec

-----------------------------------------------------------------------------
(* Descriptors for everybody.                                              *)

LEMMA ThreeAreFew ==
    ASSUME NEW x, NEW y, NEW z
    PROVE  IsFiniteSet({x, y, z}) /\ Cardinality({x, y, z}) <= 3
<1> DEFINE one == {x}
           two == one \cup {y}
           all == two \cup {z}
<1>1. IsFiniteSet(one) /\ Cardinality(one) = 1
  BY FS_Singleton
<1> HIDE DEF one
<1>2. /\ IsFiniteSet(one \cup {y})
      /\ Cardinality(one \cup {y}) = IF y \in one THEN Cardinality(one) ELSE Cardinality(one) + 1
  BY <1>1, FS_AddElement
<1>3. IsFiniteSet(two) /\ Cardinality(two) \in Nat /\ Cardinality(two) <= 2
  BY <1>1, <1>2, FS_CardinalityType
<1> HIDE DEF two
<1>4. /\ IsFiniteSet(two \cup {z})
      /\ Cardinality(two \cup {z}) = IF z \in two THEN Cardinality(two) ELSE Cardinality(two) + 1
  BY <1>3, FS_AddElement
<1>5. IsFiniteSet(all) /\ Cardinality(all) <= 3
  BY <1>3, <1>4
<1>6. all = {x, y, z}
  BY DEF one, two
<1> HIDE DEF all
<1> QED BY <1>5, <1>6

(* As long as one thing that needs a descriptor has none, one is free.     *)
LEMMA RoomForOne ==
    ASSUME ServerInv, EnoughFds, NEW r \in UNION {Needs(c) : c \in Conns}, NEW reason,
           Justified(reason, fds, heard), \A fd \in Fds : fds[fd] # Free => reason[fd] # r
    PROVE  FreeFds # {}
<1> SUFFICES ASSUME FreeFds = {} PROVE FALSE
  OBVIOUS
<1> DEFINE needs   == UNION {Needs(c) : c \in Conns}
           servers == {<< "server", 0 >>, << "server", 1 >>, << "server", 2 >>}
           others  == needs \ {r}
<1>1. IsFiniteSet(needs) /\ MaxFd >= 3 + Cardinality(needs)
  BY DEF EnoughFds
<1>2. Cardinality(needs) \in Nat /\ Cardinality(needs) > 0
      /\ IsFiniteSet(others) /\ Cardinality(others) = Cardinality(needs) - 1
  <2> HIDE DEF needs
  <2>1. r \in needs
    BY DEF needs
  <2>2. Cardinality(needs) \in Nat /\ (Cardinality(needs) = 0 <=> needs = {})
    BY <1>1, FS_CardinalityType, FS_EmptySet
  <2> QED BY <1>1, <2>1, <2>2, FS_RemoveElement
<1>3. IsFiniteSet(servers) /\ Cardinality(servers) \in Nat /\ Cardinality(servers) <= 3
  <2>1. IsFiniteSet(servers) /\ Cardinality(servers) <= 3
    BY ThreeAreFew
  <2> HIDE DEF servers
  <2> QED BY <2>1, FS_CardinalityType
<1> DEFINE given == servers \cup others
<1>4. IsFiniteSet(given) /\ Cardinality(given) < MaxFd
  <2> HIDE DEF servers, others, needs
  <2>1. IsFiniteSet(given) /\ Cardinality(given) =
           Cardinality(servers) + Cardinality(others) - Cardinality(servers \cap others)
    BY <1>2, <1>3, FS_Union
  <2>2. IsFiniteSet(servers \cap others)
    BY <1>3, FS_Subset
  <2>3. Cardinality(servers \cap others) \in Nat
    BY <2>2, FS_CardinalityType
  <2> QED BY <1>1, <1>2, <1>3, <2>1, <2>3, Sizes
<1>5. IsFiniteSet(Fds) /\ Cardinality(Fds) = MaxFd
  <2>1. MaxFd - 1 \in Int /\ 0 <= MaxFd - 1
    BY Sizes
  <2>2. IsFiniteSet(0 .. MaxFd - 1) /\ Cardinality(0 .. MaxFd - 1) = (MaxFd - 1) - 0 + 1
    BY <2>1, FS_Interval
  <2> QED BY <2>2, Sizes DEF Fds
<1>6. ASSUME NEW fd \in Fds PROVE reason[fd] \in given
  <2>1. fds[fd] # Free /\ reason[fd] # r
    BY <1>6 DEF FreeFds
  <2>2. Because(reason[fd], fd, fds[fd], heard)
    BY DEF Justified
  <2>3. CASE fd \in 0 .. 2 /\ reason[fd] = << "server", fd >>
    BY <2>3
  <2>4. ASSUME NEW c \in Conns, reason[fd] \in {SockOf(c), EventOf(c)} PROVE reason[fd] \in given
    BY <2>1, <2>4 DEF Needs
  <2>5. ASSUME NEW c \in Conns, NEW k \in 1 .. heard[c], reason[fd] = << "file", c, k >>
        PROVE  reason[fd] \in given
    <3>1. script[c] \in Scripts[c] /\ heard[c] \in Nat /\ heard[c] <= said[c]
          /\ said[c] <= Len(script[c]) /\ said[c] \in Nat
      BY DEF ServerInv, TypeOK, Shapes
    <3>2. k \in DOMAIN script[c]
      BY <3>1, ScriptLengths
    <3>3. << "file", c, k >> \in Needs(c)
      BY <3>1, <3>2 DEF Needs
    <3> QED BY <2>1, <2>5, <3>3
  <2> QED BY <2>1, <2>2, <2>3, <2>4, <2>5 DEF Because
<1> HIDE DEF given
<1>7. reason \in [Fds -> given]
  BY <1>6 DEF Justified
<1>8. PICK fd, fe \in Fds : fd # fe /\ reason[fd] = reason[fe]
  BY <1>4, <1>5, <1>7, FS_PigeonHole
<1> QED BY <1>8 DEF Justified, FreeFds

(* So accept(), eventfd() and open() do not run out of descriptors.        *)
LEMMA RoomForSocket ==
    ASSUME ServerInv, EnoughFds, NEW c \in Conns, conn[c].mem = "none"
    PROVE  FreeFds # {}
<1>1. PICK reason : Justified(reason, fds, heard)
  BY DEF ServerInv, Reasoned
<1>2. \A fd \in Fds : fds[fd] # SockOf(c)
  BY DEF ServerInv, Reasoned
<1>3. \A fd \in Fds : fds[fd] # Free => reason[fd] # SockOf(c)
  BY <1>1, <1>2, ReasonsTell DEF Justified
<1>4. SockOf(c) \in UNION {Needs(d) : d \in Conns}
  BY DEF Needs
<1> QED BY <1>1, <1>3, <1>4, RoomForOne

LEMMA RoomForEvent ==
    ASSUME ServerInv, EnoughFds, server = "setup"
    PROVE  FreeFds # {}
<1>1. PICK reason : Justified(reason, fds, heard)
  BY DEF ServerInv, Reasoned
<1>2. PICK c \in Conns : c = rev.conn /\ conn[c].mem = "live"
  BY TreatedIsThere
<1>3. \A fd \in Fds : fds[fd] # EventOf(c)
  BY <1>2 DEF ServerInv, Reasoned, Dead
<1>4. \A fd \in Fds : fds[fd] # Free => reason[fd] # EventOf(c)
  BY <1>1, <1>3, ReasonsTell DEF Justified
<1>5. EventOf(c) \in UNION {Needs(d) : d \in Conns}
  BY DEF Needs
<1> QED BY <1>1, <1>4, <1>5, RoomForOne

LEMMA RoomForFile ==
    ASSUME ServerInv, EnoughFds, NEW c \in Conns, heard[c] < said[c]
    PROVE  FreeFds # {}
<1>1. PICK reason : Justified(reason, fds, heard)
  BY DEF ServerInv, Reasoned
<1>2. /\ script[c] \in Scripts[c] /\ heard[c] \in Nat /\ said[c] \in Nat /\ said[c] <= Len(script[c])
  BY DEF ServerInv, TypeOK, Shapes
<1> DEFINE r == << "file", c, said[c] >>
<1>3. \A fd \in Fds : fds[fd] # Free => reason[fd] # r
  <2>1. said[c] \notin 1 .. heard[c]
    BY <1>2
  <2> QED BY <1>1, <2>1, ReasonsTell DEF Justified
<1>4. r \in UNION {Needs(d) : d \in Conns}
  <2>1. said[c] \in DOMAIN script[c]
    BY <1>2, ScriptLengths
  <2>2. r \in Needs(c)
    BY <1>2, <2>1 DEF Needs
  <2> QED BY <2>2
<1> HIDE DEF r
<1> QED BY <1>1, <1>3, <1>4, RoomForOne

-----------------------------------------------------------------------------
(* What ends the server.                                                   *)

LEMMA ModFacts ==
    ASSUME NEW n \in Nat \ {0}, NEW a \in Int
    PROVE  a % n = a - n * (a \div n)
BY SMT

(* A document that send_dynamic_file() does not send in whole blocks.      *)
LEMMA BlocksRunOut ==
    ASSUME NEW size \in Nat \ {0}, NEW block \in Nat \ {0}, NEW read \in {size, block},
           read <= size, read <= block, NEW m \in Nat,
           m * read < size, (m * read) \div read >= size \div read
    PROVE  size > block /\ size % block # 0
<1>1. read \in Nat \ {0} /\ read * m = m * read
  OBVIOUS
<1>2. (m * read) \div read = m
  <2>1. m * read \in Int /\ read * m <= m * read /\ m * read < read * m + read
    BY <1>1
  <2> QED BY <1>1, <2>1, DivUnique
<1> DEFINE q == size \div read
<1>3. q \in Int /\ read * q <= size /\ size < read * q + read
  BY <1>1, DivFacts
<1> HIDE DEF q
<1>4. q <= m
  BY <1>2 DEF q
<1>5. read * q <= read * m
  BY <1>1, <1>3, <1>4
<1>6. read * q < size
  BY <1>1, <1>3, <1>5
<1>7. read # size
  <2> SUFFICES ASSUME read = size PROVE FALSE
    OBVIOUS
  <2>1. size < size * q + size /\ size * q < size /\ size * m < size
    BY <1>1, <1>3, <1>6
  <2>2. q < 1 /\ m < 1
    BY <1>3, <2>1
  <2>3. q > -1
    BY <1>3, <2>1
  <2>4. q = 0
    BY <1>3, <2>2, <2>3
  <2>5. size \div size = 1
    <3>1. size * 1 <= size /\ size < size * 1 + size
      OBVIOUS
    <3> QED BY <3>1, DivUnique
  <2> QED BY <2>4, <2>5 DEF q
<1>8. read = block /\ size > block
  BY <1>7
<1>9. size % block = size - block * q
  BY <1>8, ModFacts DEF q
<1> QED BY <1>3, <1>6, <1>8, <1>9

(* The document of a connection is one its client named.                   *)
LEMMA DocumentsAreNamed ==
    ASSUME ServerInv, Fate, NEW c \in Conns, conn[c].doc # NoPath
    PROVE  conn[c].doc \in NamedBy(c) /\ conn[c].doc \in Docs
<1>1. PICK j \in 1 .. heard[c] : conn[c].doc \in Named(script[c][j])
  BY DEF Fate, FateOf, Described
<1>2. j \in 1 .. said[c]
  BY DEF ServerInv, TypeOK, Shapes
<1>3. conn[c].doc \in Docs
  BY DEF ServerInv, Shapes, Connections
<1> QED BY <1>1, <1>2, <1>3 DEF NamedBy

(* Somebody the server may have ended for.                                 *)
Excused(end) ==
    \E c \in Conns :
        \/ client[c] = "reset"
        \/ end = "exited" /\ \E doc \in NamedBy(c) : Kind[doc] = "dynamic"
        \/ \E doc \in NamedBy(c) : TooLong(doc) \/ Ragged(doc)
        \/ client[c] = "halfclosed" /\ ("halfclose" \in Habits[c] \/ said[c] > 1)

(* The document under treatment is known, and its file is open.            *)
LEMMA TreatedDocument ==
    ASSUME ServerInv, Fate, Undamaged, ~Blind, NEW c \in Conns, c = rev.conn,
           server \in {"static", "setup", "dynamic"}
    PROVE  /\ conn[c].mem = "live" /\ conn[c].doc \in NamedBy(c) /\ conn[c].doc \in Docs
           /\ conn[c].kind = Kind[conn[c].doc] /\ conn[c].size = Size[conn[c].doc]
           /\ HoldsFile(conn[c].file) /\ (conn[c].file \in Fds /\ fds[conn[c].file] = FileOf(c, conn[c].doc))
           /\ conn[c].done \in Nat /\ conn[c].size \in Nat
<1>1. conn[c].mem = "live" /\ conn[c].file # NotFound
  BY TreatedIsThere DEF Sends
<1>2. conn[c].doc # NoPath
  BY <1>1 DEF ServerInv, Requested, Blind
<1>3. conn[c].doc \in NamedBy(c) /\ conn[c].doc \in Docs
  BY <1>2, DocumentsAreNamed
<1>4. conn[c].kind = Kind[conn[c].doc] /\ conn[c].size = Size[conn[c].doc]
  BY <1>1, <1>2 DEF Fate, FateOf, Described
<1>5. conn[c].file \in Fds /\ fds[conn[c].file] = FileOf(c, conn[c].doc)
  BY <1>1, <1>2 DEF ServerInv, Sound, Shapes, Connections
<1>6. HoldsFile(conn[c].file)
  BY <1>5, FileHeads DEF HoldsFile
<1>7. conn[c].done \in Nat /\ conn[c].size \in Nat
  BY <1>3, <1>4, Sizes DEF ServerInv, Shapes, Connections
<1> QED BY <1>1, <1>3, <1>4, <1>5, <1>6, <1>7

LEMMA BodyLength ==
    ASSUME NEW doc \in Docs, Kind[doc] \in {"static", "dynamic"}
    PROVE  Len(Body(doc)) = Size[doc]
<1>1. Body(doc) = [i \in 1 .. Size[doc] |-> << doc, i >>] /\ Size[doc] \in Nat
  BY Sizes DEF Body
<1> QED BY <1>1

LEMMA StaticDies ==
    ASSUME ServerInv, Fate, AllHeard, ~Blind, SendStatic, Dead'
    PROVE  Excused(server')
<1>1. server = "static"
  BY DEF SendStatic
<1>2. PICK c \in Conns : c = rev.conn
  BY <1>1, TreatedIsThere
<1>3. client[c] = "reset" \/ Space(c) = 0 \/ ~HoldsFile(conn[c].file)
  BY <1>1, <1>2 DEF SendStatic, Dead
<1>4. conn[c].done < conn[c].size
  BY <1>2 DEF SendStatic
<1> DEFINE doc == conn[c].doc
<1>5. /\ conn[c].mem = "live" /\ doc \in NamedBy(c) /\ doc \in Docs
      /\ conn[c].kind = Kind[doc] /\ conn[c].size = Size[doc] /\ HoldsFile(conn[c].file)
      /\ conn[c].done \in Nat /\ conn[c].size \in Nat
  BY <1>1, <1>2, HeardIsUndamaged, TreatedDocument
<1>6. CASE Space(c) = 0
  <2>1. conn[c].kind = "static" /\ Len(sent[c]) = HeaderLen + conn[c].done
    BY <1>1, <1>2, <1>5 DEF Fate, FateOf, Written, At, Dead
  <2>2. Len(sent[c]) \in Nat /\ taken[c] \in Nat
    BY LenProperties DEF ServerInv, Shapes
  <2>3. Len(sent[c]) >= SockBuf
    BY <1>6, <2>2, Sizes DEF Space
  <2>4. Len(Body(doc)) = conn[c].size
    BY <1>5, <2>1, BodyLength
  <2>5. TooLong(doc)
    BY <1>4, <1>5, <2>1, <2>2, <2>3, <2>4, Sizes DEF TooLong
  <2> QED BY <1>5, <2>5 DEF Excused
<1>7. CASE client[c] = "reset"
  BY <1>7 DEF Excused
<1> QED BY <1>3, <1>5, <1>6, <1>7

LEMMA SetupDies ==
    ASSUME ServerInv, Fate, AllHeard, ~Blind, EnoughFds, IocbSetup, Dead'
    PROVE  Excused(server')
<1>1. server = "setup"
  BY DEF IocbSetup
<1>2. PICK c \in Conns : c = rev.conn
  BY <1>1, TreatedIsThere
<1>3. conn[c].size <= 0 \/ server' = "exited"
  <2>1. FreeFds # {}
    BY <1>1, RoomForEvent
  <2> QED BY <1>2, <2>1 DEF IocbSetup, Dead
<1> DEFINE doc == conn[c].doc
<1>4. /\ conn[c].mem = "live" /\ doc \in NamedBy(c) /\ doc \in Docs
      /\ conn[c].kind = Kind[doc] /\ conn[c].size = Size[doc]
      /\ conn[c].size \in Nat
  BY <1>1, <1>2, HeardIsUndamaged, TreatedDocument
<1>5. conn[c].kind = "dynamic"
  BY <1>1, <1>2, <1>4 DEF Fate, FateOf, Written, At, Dead
<1>6. Ragged(doc) \/ server' = "exited"
  BY <1>3, <1>4, <1>5 DEF Ragged
<1> QED BY <1>4, <1>5, <1>6 DEF Excused

LEMMA DynamicDies ==
    ASSUME ServerInv, Fate, AllHeard, ~Blind, SendDynamic, Dead'
    PROVE  Excused(server')
<1>1. server = "dynamic"
  BY DEF SendDynamic
<1>2. PICK c \in Conns : c = rev.conn
  BY <1>1, TreatedIsThere
<1>3. conn[c].done < conn[c].size
  BY <1>2 DEF SendDynamic
<1> DEFINE doc == conn[c].doc
<1>5. /\ conn[c].mem = "live" /\ doc \in NamedBy(c) /\ doc \in Docs
      /\ conn[c].kind = Kind[doc] /\ conn[c].size = Size[doc]
      /\ conn[c].done \in Nat /\ conn[c].size \in Nat
  BY <1>1, <1>2, HeardIsUndamaged, TreatedDocument
<1>4. client[c] = "reset" \/ conn[c].done \div ReadSize(c) >= Blocks(c)
  <2>1. HoldsFile(conn[c].file)
    BY <1>1, <1>2, HeardIsUndamaged, TreatedDocument
  <2> QED BY <1>1, <1>2, <2>1 DEF SendDynamic, WriteFails, Dead
<1>6. CASE conn[c].done \div ReadSize(c) >= Blocks(c)
  <2>1. conn[c].kind = "dynamic" /\ conn[c].size > 0 /\ InBlocks(c)
    BY <1>1, <1>2, <1>5 DEF Fate, FateOf, Written, At, Dead
  <2>2. PICK m \in Nat : conn[c].done = m * ReadSize(c)
    BY <2>1 DEF InBlocks
  <2>3. /\ ReadSize(c) \in {conn[c].size, Block} /\ ReadSize(c) <= conn[c].size /\ ReadSize(c) <= Block
    BY <2>1, BlockFacts
  <2>4. conn[c].size \in Nat \ {0} /\ Block \in Nat \ {0}
    BY <1>5, <2>1, Sizes
  <2> DEFINE size == conn[c].size
             read == ReadSize(c)
  <2>5. /\ size \in Nat \ {0} /\ Block \in Nat \ {0} /\ read \in {size, Block} /\ read <= size /\ read <= Block
        /\ m \in Nat /\ m * read < size /\ (m * read) \div read >= size \div read
    BY <1>3, <1>6, <2>2, <2>3, <2>4 DEF Blocks
  <2> HIDE DEF size, read
  <2>6. size > Block /\ size % Block # 0
    BY <2>5, BlocksRunOut
  <2>7. Ragged(doc)
    BY <1>5, <2>1, <2>6 DEF Ragged, size
  <2> QED BY <1>5, <2>7 DEF Excused
<1>7. CASE client[c] = "reset"
  BY <1>7 DEF Excused
<1> QED BY <1>4, <1>6, <1>7

LEMMA DyingIsExcused ==
    ASSUME ServerInv, Fate, Next, ~Dead, Dead', AllHeard', ~Blind', EnoughFds, fds'[Epoll] = Std
    PROVE  Excused(server') /\ UNCHANGED << client, script, said >>
<1>1. ASSUME NEW c \in Conns, ClientStep(c) PROVE FALSE
  BY <1>1 DEF ClientStep, Connect, Request, Read, HalfClose, Reset, Dead
<1>2. ASSUME NEW c \in Conns, Accept(c) PROVE FALSE
  <2>1. conn[c].mem = "none"
    BY <1>2 DEF Accept, ServerInv, Stages
  <2>2. FreeFds # {}
    BY <2>1, RoomForSocket
  <2> QED BY <1>2, <2>2 DEF Accept, Dead
<1>3. ASSUME NEW c \in Conns, WaitEvent(c) PROVE FALSE
  BY <1>3 DEF WaitEvent, Dead
<1>4. ~Start
  BY Sizes DEF Start, ServerInv, Stages, Dead, Free, Std, Epoll, Listener
<1>9. ~WaitFails
  BY DEF WaitFails
<1>5. ~ReceiveFails /\ ~HandleRequest /\ ~HeaderDone /\ ~FileSent
  BY DEF ReceiveFails, HandleRequest, HeaderDone, FileSent, AfterIn, Sends, Dead
<1>6. CASE SendMessage
  <2>1. server = "out" /\ conn[rev.conn].mem = "freed"
    BY <1>6 DEF SendMessage, Dead
  <2>2. rev.conn \in Conns /\ Leaves(rev.conn)
    BY <2>1, TreatedIsThere DEF Fate, Treated
  <2>3. Excused(server')
    BY <2>2 DEF Excused, Leaves
  <2> QED BY <1>6, <2>3 DEF SendMessage, clientVars
<1>7. CASE SendHeader
  <2>1. server = "header" /\ client[rev.conn] = "reset"
    BY <1>7 DEF SendHeader, Dead
  <2>2. rev.conn \in Conns
    BY <2>1, TreatedIsThere
  <2> QED BY <1>7, <2>1, <2>2 DEF Excused, SendHeader, clientVars
<1>8. CASE SendStatic \/ IocbSetup \/ SendDynamic
  <2>1. UNCHANGED << client, script, said, heard >> /\ server \in {"static", "setup", "dynamic"}
    BY <1>8 DEF SendStatic, IocbSetup, SendDynamic, clientVars
  <2>2. CASE client[rev.conn] = "reset"
    BY <2>1, <2>2, TreatedIsThere DEF Excused
  <2>3. CASE client[rev.conn] # "reset"
    <3>1. conn' = conn
      BY <1>8, <2>1, <2>3 DEF SendStatic, IocbSetup, SendDynamic, Dead, WriteFails
    <3>2. AllHeard /\ ~Blind
      BY <2>1, <3>1 DEF AllHeard, Blind
    <3> QED BY <1>8, <2>1, <3>2, StaticDies, SetupDies, DynamicDies
  <2> QED BY <2>2, <2>3
<1> QED BY <1>1, <1>2, <1>3, <1>4, <1>5, <1>6, <1>7, <1>8, <1>9 DEF Next, Handler

LEMMA DeadStaysDead ==
    ASSUME Dead, [Next]_vars
    PROVE  UNCHANGED vars
<1>1. \A c \in Conns : ~ClientStep(c) /\ ~Accept(c) /\ ~WaitEvent(c)
  BY DEF ClientStep, Connect, Request, Read, HalfClose, Reset, Reached, Accept, WaitEvent, Dead
<1>2. ~Start /\ ~Handler
  BY DEF Start, Handler, WaitFails, ReceiveFails, HandleRequest, SendMessage, SendHeader, HeaderDone,
         SendStatic, IocbSetup, SendDynamic, FileSent, Dead
<1> QED BY <1>1, <1>2 DEF Next

(* OnlyClientsEndIt: once it listens, and as long as something was received*)
(* on every connection that was removed, the server ends only for one of   *)
(* the reasons DiesOfClientsOnly names: a client that resets its connection*)
(* or leaves before it was answered, a static file larger than the socket  *)
(* holds, a dynamic one that is no number of whole blocks.  Descriptors do *)
(* not run out, no division by zero and no block that was not prepared     *)
(* remain (send_static_file, iocb_setup, send_dynamic_file, send_message). *)
THEOREM OnlyClientsEndIt == Spec => []DiesOfClientsOnly
<1> DEFINE Ends == DiesOfClientsOnly
<1>1. Init => Ends
  BY DEF Init, DiesOfClientsOnly, Dead
<1>2. ServerInv /\ Fate /\ Ends /\ [Next]_vars => Ends'
  <2> SUFFICES ASSUME ServerInv, Fate, Ends, [Next]_vars,
                      AllHeard', Dead', EnoughFds, ~Blind', fds'[Epoll] = Std
               PROVE  Excused(server)'
    BY DEF DiesOfClientsOnly, Excused
  <2>1. CASE Dead
    <3>1. UNCHANGED << client, script, said, taken, heard, sent, conn, interest, fds, rev, server >>
      BY <2>1, DeadStaysDead DEF vars, clientVars
    <3>2. AllHeard /\ ~Blind
      BY <3>1 DEF AllHeard, Blind
    <3>3. Excused(server)
      BY <2>1, <3>1, <3>2 DEF DiesOfClientsOnly, Excused
    <3> QED BY <3>1, <3>3 DEF Excused, NamedBy
  <2>2. CASE ~Dead
    <3>1. Next
      BY <2>2 DEF vars, Dead
    <3>2. Excused(server') /\ UNCHANGED << client, script, said >>
      BY <2>2, <3>1, DyingIsExcused
    <3> QED BY <3>2 DEF Excused, NamedBy
  <2> QED BY <2>1, <2>2
<1> QED BY <1>1, <1>2, FateInvariant, PTL DEF Spec


-----------------------------------------------------------------------------
(* What is said.  The invariant of the contents: the units in a socket are *)
(* those of the header of one document a segment named, then those of the  *)
(* document named last.                                                    *)

HeaderOf(units, doc, segments, n) ==
    \E i \in 1 .. n : \E a \in Named(segments[i]) :
        /\ \A k \in 1 .. Len(units) : k <= HeaderLen => units[k] = Header(a)[k]
        /\ \E j \in i .. n : doc \in Named(segments[j])

BodyOf(units, doc) ==
    /\ \A k \in 1 .. Len(units) : k > HeaderLen => units[k] = << doc, k - HeaderLen >>
    /\ Len(units) > HeaderLen => Len(units) <= HeaderLen + Len(Body(doc))

Unfinished(c) == conn[c].mem = "live" /\ ~conn[c].hdr /\ ~Dead

Told(c) ==
    /\ sent[c] # << >> => HeaderOf(sent[c], conn[c].doc, script[c], heard[c])
    /\ BodyOf(sent[c], conn[c].doc)
    /\ Unfinished(c) => \A k \in 1 .. Len(sent[c]) : sent[c][k] = Header(conn[c].doc)[k]
    /\ At(c, {"dynamic"}) /\ client[c] # "reset" => Len(sent[c]) = HeaderLen + conn[c].done

(* A document that is there was found.                                     *)
Found(c) ==
    conn[c].mem = "live" /\ conn[c].doc # NoPath /\ EnoughFds =>
        (conn[c].file = NotFound <=> Kind[conn[c].doc] = "missing")

Servably(c) == \A doc \in NamedBy(c) : Servable(doc)

TaleOf(c) == Found(c) /\ (Undamaged /\ EnoughFds /\ Servably(c) => Told(c))

Tale == \A c \in Conns : TaleOf(c)

LEMMA NamesStay ==
    ASSUME NEW c \in Conns, said[c] \in Nat, said'[c] \in Nat, said[c] <= said'[c], script' = script
    PROVE  Servably(c)' => Servably(c)
<1>1. \A k \in 1 .. said[c] : k \in 1 .. said'[c]
  OBVIOUS
<1> QED BY <1>1 DEF Servably, NamedBy

LEMMA InitiallyTold == Init => Tale
<1> SUFFICES ASSUME Init, NEW c \in Conns PROVE TaleOf(c)
  BY DEF Tale
<1>1. /\ conn[c] = NoConn /\ sent[c] = << >> /\ server = "start"
  BY DEF Init
<1>2. NoConn.mem = "none"
  BY DEF NoConn
<1>3. Len(sent[c]) = 0
  BY <1>1
<1>4. Told(c)
  BY <1>1, <1>2, <1>3, Sizes DEF Told, BodyOf, At, Unfinished
<1> QED BY <1>1, <1>2, <1>4 DEF TaleOf, Found

(* The connections to which nothing is said in a step.                     *)
LEMMA SameTale ==
    ASSUME ServerInv, NEW c \in Conns, TaleOf(c),
           sent'[c] = sent[c], heard'[c] = heard[c], script' = script,
           said'[c] \in Nat, said[c] <= said'[c], Dead => Dead', Undamaged' => Undamaged,
           conn'[c].doc = conn[c].doc,
           conn'[c].mem = "live" => conn[c].mem = "live" /\ conn'[c].file = conn[c].file,
           conn'[c].mem = "live" /\ ~conn'[c].hdr => ~conn[c].hdr,
           At(c, {"dynamic"})' /\ client'[c] # "reset" =>
              \/ Len(sent[c]) = HeaderLen + conn'[c].done
              \/ At(c, {"dynamic"}) /\ client[c] # "reset" /\ conn'[c].done = conn[c].done
    PROVE  TaleOf(c)'
<1>1. Servably(c)' => Servably(c)
  <2>1. said[c] \in Nat
    BY DEF ServerInv, Shapes
  <2> QED BY <2>1, NamesStay
<1>2. Found(c)'
  BY DEF TaleOf, Found
<1>3. ASSUME Told(c) PROVE Told(c)'
  <2>1. sent'[c] # << >> => HeaderOf(sent'[c], conn'[c].doc, script'[c], heard'[c])
    BY <1>3 DEF Told
  <2>2. BodyOf(sent'[c], conn'[c].doc)
    BY <1>3 DEF Told
  <2>3. Unfinished(c)' => Unfinished(c)
    BY DEF Unfinished
  <2>4. Unfinished(c)' => \A k \in 1 .. Len(sent'[c]) : sent'[c][k] = Header(conn'[c].doc)[k]
    BY <1>3, <2>3 DEF Told
  <2>5. At(c, {"dynamic"})' /\ client'[c] # "reset" => Len(sent'[c]) = HeaderLen + conn'[c].done
    BY <1>3 DEF Told
  <2> QED BY <2>1, <2>2, <2>4, <2>5 DEF Told
<1> QED BY <1>1, <1>2, <1>3 DEF TaleOf

(* The steps that say nothing.                                             *)
LEMMA QuietTale ==
    ASSUME ServerInv, Tale, sent' = sent, heard' = heard, script' = script, Dead => Dead',
           \A d \in Conns :
              /\ said'[d] \in Nat /\ said[d] <= said'[d]
              /\ conn'[d].doc = conn[d].doc
              /\ conn[d].mem = "freed" => conn'[d].mem = "freed"
              /\ conn'[d].mem = "live" => conn[d].mem = "live" /\ conn'[d].file = conn[d].file
              /\ conn'[d].mem = "live" /\ ~conn'[d].hdr => ~conn[d].hdr
              /\ At(d, {"dynamic"})' /\ client'[d] # "reset" =>
                    \/ Len(sent[d]) = HeaderLen + conn'[d].done
                    \/ At(d, {"dynamic"}) /\ client[d] # "reset" /\ conn'[d].done = conn[d].done
    PROVE  Tale'
<1>1. Undamaged' => Undamaged
  BY DEF Undamaged
<1>2. ASSUME NEW d \in Conns PROVE TaleOf(d)'
  <2>1. TaleOf(d) /\ sent'[d] = sent[d] /\ heard'[d] = heard[d]
    BY DEF Tale
  <2> QED BY <1>1, <2>1, SameTale
<1> QED BY <1>2 DEF Tale

LEMMA ClientStepTale ==
    ASSUME ServerInv, Tale, NEW c \in Conns, ClientStep(c)
    PROVE  Tale'
<1>1. UNCHANGED << heard, sent, conn, script, rev, server >>
  BY DEF ClientStep, Connect, Request, Read, HalfClose, Reset
<1>2. said' \in [Conns -> Nat]
  BY ClientStepKeeps DEF ServerInv, Shapes
<1>3. said \in [Conns -> Nat] /\ client \in [Conns -> {"none", "connecting", "open", "halfclosed", "reset"}]
  BY DEF ServerInv, TypeOK, Shapes
<1>4. \A d \in Conns : said[d] <= said'[d] /\ (client[d] = "reset" => client'[d] = "reset")
  BY <1>3 DEF ClientStep, Connect, Request, Read, HalfClose, Reset
<1>5. \A d \in Conns : At(d, {"dynamic"})' => At(d, {"dynamic"})
  BY <1>1 DEF At
<1>6. Dead => Dead'
  BY <1>1 DEF Dead
<1>7. \A d \in Conns : said'[d] \in Nat
  BY <1>2
<1> QED BY <1>1, <1>4, <1>5, <1>6, <1>7, QuietTale

(* The steps that leave the server elsewhere than at the blocks of a file. *)
LEMMA ElsewhereTale ==
    ASSUME ServerInv, Tale, UNCHANGED << clientVars, heard, sent >>, server' # "dynamic", ~Dead,
           \A d \in Conns :
              /\ conn'[d].doc = conn[d].doc
              /\ conn[d].mem = "freed" => conn'[d].mem = "freed"
              /\ conn'[d].mem = "live" => conn[d].mem = "live" /\ conn'[d].file = conn[d].file
              /\ conn'[d].mem = "live" /\ ~conn'[d].hdr => ~conn[d].hdr
    PROVE  Tale'
<1>1. UNCHANGED << client, script, said, heard, sent >>
  BY DEF clientVars
<1>2. \A d \in Conns : said'[d] \in Nat /\ said[d] <= said'[d]
  BY <1>1 DEF ServerInv, Shapes
<1>3. \A d \in Conns : ~At(d, {"dynamic"})'
  BY DEF At
<1> QED BY <1>1, <1>2, <1>3, QuietTale

LEMMA RemovalTale ==
    ASSUME ServerInv, Tale, ~Dead, NEW c \in Conns, RemoveConnection(c),
           server' # "dynamic", UNCHANGED << clientVars, heard, sent >>
    PROVE  Tale'
<1>1. conn \in [Conns -> Connections]
  BY DEF ServerInv, Shapes
<1>2. /\ \A d \in Conns \ {c} : conn'[d] = conn[d]
      /\ conn'[c].mem = "freed" /\ conn'[c].doc = conn[c].doc
  BY <1>1, NoConnIsOne DEF RemoveConnection, Connections
<1> QED BY <1>2, ElsewhereTale

LEMMA ReceiveFailsTale == ServerInv /\ Tale /\ ReceiveFails => Tale'
<1> SUFFICES ASSUME ServerInv, Tale, ReceiveFails PROVE Tale'
  OBVIOUS
<1>1. /\ server = "in" /\ RemoveConnection(rev.conn) /\ server' # "dynamic"
      /\ UNCHANGED << clientVars, heard, sent >>
  BY DEF ReceiveFails, AfterIn
<1> QED BY <1>1, TreatedIsThere, RemovalTale DEF Dead

LEMMA FileSentTale == ServerInv /\ Tale /\ FileSent => Tale'
<1> SUFFICES ASSUME ServerInv, Tale, FileSent PROVE Tale'
  OBVIOUS
<1>1. /\ server \in {"static", "dynamic"} /\ RemoveConnection(rev.conn) /\ server' # "dynamic"
      /\ UNCHANGED << clientVars, heard, sent >>
  BY DEF FileSent
<1> QED BY <1>1, TreatedIsThere, RemovalTale DEF Dead

LEMMA SendMessageTale == ServerInv /\ Tale /\ SendMessage => Tale'
<1> SUFFICES ASSUME ServerInv, Tale, SendMessage PROVE Tale'
  OBVIOUS
<1>1. server = "out" /\ server' # "dynamic" /\ UNCHANGED << clientVars, heard, sent >>
  BY DEF SendMessage
<1>2. conn' = conn \/ RemoveConnection(rev.conn)
  BY DEF SendMessage
<1>3. CASE conn' = conn
  BY <1>1, <1>3, ElsewhereTale DEF Dead
<1>4. CASE RemoveConnection(rev.conn)
  BY <1>1, <1>4, TreatedIsThere, RemovalTale DEF Dead
<1> QED BY <1>2, <1>3, <1>4

LEMMA HeaderDoneTale == ServerInv /\ Tale /\ HeaderDone => Tale'
<1> SUFFICES ASSUME ServerInv, Tale, HeaderDone PROVE Tale'
  OBVIOUS
<1>1. /\ server = "header" /\ server' # "dynamic" /\ UNCHANGED << clientVars, heard, sent >>
  BY DEF HeaderDone, Sends
<1>2. PICK c \in Conns : c = rev.conn
  BY <1>1, TreatedIsThere
<1>3. /\ conn'[c].hdr /\ conn'[c].mem = conn[c].mem /\ conn'[c].doc = conn[c].doc
      /\ conn'[c].file = conn[c].file /\ \A d \in Conns \ {c} : conn'[d] = conn[d]
  BY <1>2, HeaderWritten
<1> QED BY <1>1, <1>3, ElsewhereTale DEF Dead

LEMMA StartTale == ServerInv /\ Tale /\ Start => Tale'
<1> SUFFICES ASSUME ServerInv, Tale, Start PROVE Tale'
  OBVIOUS
<1>1. server = "start" /\ server' # "dynamic" /\ UNCHANGED << clientVars, heard, sent, conn >>
  BY DEF Start
<1> QED BY <1>1, ElsewhereTale DEF Dead

LEMMA WaitEventTale == ASSUME ServerInv, Tale, NEW c \in Conns, WaitEvent(c) PROVE Tale'
<1>1. server = "wait" /\ server' # "dynamic" /\ UNCHANGED << clientVars, heard, sent, conn >>
  BY DEF WaitEvent
<1> QED BY <1>1, ElsewhereTale DEF Dead

LEMMA IocbSetupTale == ServerInv /\ Fate /\ Tale /\ IocbSetup => Tale'
<1> SUFFICES ASSUME ServerInv, Fate, Tale, IocbSetup PROVE Tale'
  OBVIOUS
<1>1. /\ server = "setup" /\ LoopsOn /\ server' # "wait"
      /\ UNCHANGED << client, script, said, heard, sent, conn >>
  BY DEF IocbSetup, clientVars
<1>2. PICK c \in Conns : c = rev.conn /\ conn[c].mem = "live"
  BY <1>1, TreatedIsThere
<1>3. conn[c].hdr /\ conn[c].done = 0 /\ Len(sent[c]) = HeaderLen
  BY <1>1, <1>2 DEF Fate, FateOf, Written, At, Dead
<1>4. Len(sent[c]) = HeaderLen + conn'[c].done
  BY <1>1, <1>3, Sizes
<1>5. \A d \in Conns : At(d, {"dynamic"})' => d = c
  BY <1>1, <1>2 DEF LoopsOn, At
<1>6. \A d \in Conns : said'[d] \in Nat /\ said[d] <= said'[d]
  BY <1>1 DEF ServerInv, Shapes
<1> QED BY <1>1, <1>4, <1>5, <1>6, QuietTale DEF Dead

LEMMA AcceptTale == ASSUME ServerInv, Fate, Tale, NEW c \in Conns, Accept(c) PROVE Tale'
<1>1. /\ server = "wait" /\ client[c] = "connecting" /\ server' \in {"wait", "exited"}
      /\ UNCHANGED << script, said, heard, sent >>
  BY DEF Accept
<1>2. /\ conn[c].mem = "none" /\ heard[c] = 0 /\ conn \in [Conns -> Connections] /\ said \in [Conns -> Nat]
  BY <1>1 DEF ServerInv, Stages, Shapes
<1>3. sent[c] = << >>
  BY <1>2 DEF Fate, FateOf, Asked
<1>4. conn' = conn \/ \E junk \in Leftovers :
         conn' = [conn EXCEPT ![c] = [NoConn EXCEPT !.mem = "live", !.file = junk]]
  BY DEF Accept
<1>5. \A d \in Conns : ~At(d, {"dynamic"})'
  BY <1>1 DEF At
<1>6. \A d \in Conns : said'[d] \in Nat /\ said[d] <= said'[d]
  BY <1>1, <1>2
<1>7. CASE conn' = conn
  BY <1>1, <1>5, <1>6, <1>7, QuietTale DEF Dead
<1>8. ASSUME NEW junk \in Leftovers,
             conn' = [conn EXCEPT ![c] = [NoConn EXCEPT !.mem = "live", !.file = junk]]
      PROVE  Tale'
  <2>1. conn'[c].mem = "live" /\ conn'[c].doc = NoPath /\ \A d \in Conns \ {c} : conn'[d] = conn[d]
    <3> DEFINE new == conn'[c]
               old == NoConn
    <3>1. new = [old EXCEPT !.mem = "live", !.file = junk] /\ \A d \in Conns \ {c} : conn'[d] = conn[d]
      BY <1>2, <1>8
    <3>2. old \in Connections /\ old.doc = NoPath
      BY NoConnIsOne
    <3> HIDE DEF new, old
    <3>3. new.mem = "live" /\ new.doc = NoPath
      BY <3>1, <3>2 DEF Connections
    <3> QED BY <3>1, <3>3 DEF new
  <2>2. Undamaged' => Undamaged
    BY <1>2, <2>1 DEF Undamaged
  <2>3. ASSUME NEW d \in Conns, d # c PROVE TaleOf(d)'
    <3>1. TaleOf(d) /\ sent'[d] = sent[d] /\ heard'[d] = heard[d] /\ conn'[d] = conn[d]
          /\ said'[d] \in Nat /\ said[d] <= said'[d] /\ ~At(d, {"dynamic"})' /\ ~Dead
      BY <1>1, <1>5, <1>6, <2>1, <2>3 DEF Tale, Dead
    <3> QED BY <1>1, <2>2, <3>1, SameTale
  <2>4. TaleOf(c)'
    <3>1. sent'[c] = << >> /\ Len(sent'[c]) = 0
      BY <1>1, <1>3, EmptySeq
    <3>2. BodyOf(sent'[c], conn'[c].doc)
      BY <3>1, Sizes DEF BodyOf
    <3>3. ~At(c, {"dynamic"})'
      BY <1>5
    <3>4. Told(c)'
      BY <3>1, <3>2, <3>3 DEF Told
    <3> QED BY <2>1, <3>4 DEF TaleOf, Found
  <2> QED BY <2>3, <2>4 DEF Tale
<1> QED BY <1>4, <1>7, <1>8

(* The steps that send something to one connection.                        *)
LEMMA SpokenTale ==
    ASSUME ServerInv, Tale, ~Dead, NEW c \in Conns, c = rev.conn, LoopsOn,
           UNCHANGED << clientVars, heard >>,
           \A d \in Conns \ {c} : conn'[d] = conn[d] /\ sent'[d] = sent[d],
           conn'[c].mem = conn[c].mem, conn'[c].doc = conn[c].doc, conn'[c].file = conn[c].file,
           Undamaged /\ EnoughFds /\ Servably(c) /\ Told(c) => Told(c)'
    PROVE  Tale'
<1>1. /\ UNCHANGED << client, script, said, heard >>
      /\ rev' = rev \/ server' = "wait"
  BY DEF clientVars, LoopsOn
<1>2. Undamaged' => Undamaged
  BY DEF Undamaged
<1>3. ASSUME NEW d \in Conns, d # c PROVE TaleOf(d)'
  <2>1. TaleOf(d) /\ sent'[d] = sent[d] /\ heard'[d] = heard[d] /\ conn'[d] = conn[d]
    BY <1>1, <1>3 DEF Tale
  <2>2. ~At(d, {"dynamic"})'
    BY <1>1, <1>3 DEF At
  <2>3. said'[d] \in Nat /\ said[d] <= said'[d]
    BY <1>1 DEF ServerInv, Shapes
  <2> QED BY <1>1, <1>2, <2>1, <2>2, <2>3, SameTale
<1>4. TaleOf(c)'
  <2>1. TaleOf(c)
    BY DEF Tale
  <2>2. Found(c)'
    BY <2>1 DEF TaleOf, Found
  <2>3. Servably(c)' => Servably(c)
    <3>1. said[c] \in Nat /\ said'[c] \in Nat /\ said[c] <= said'[c]
      BY <1>1 DEF ServerInv, Shapes
    <3> QED BY <1>1, <3>1, NamesStay
  <2> QED BY <1>2, <2>1, <2>2, <2>3 DEF TaleOf
<1> QED BY <1>3, <1>4 DEF Tale

(* The next units of the header are those of the document named last.      *)
LEMMA HeaderGoesOn ==
    ASSUME ServerInv, NEW c \in Conns, Found(c), EnoughFds,
           conn[c].mem = "live", conn[c].doc # NoPath,
           NEW n \in Nat, conn[c].done \in Nat, conn[c].done + n <= HeaderLen,
           NEW k \in 1 .. n
    PROVE  HeaderUnits(c, n)[k] = Header(conn[c].doc)[conn[c].done + k]
<1> DEFINE doc == conn[c].doc
           at == conn[c].done + k
<1>1. conn[c].file = NotFound <=> Kind[doc] = "missing"
  BY DEF Found
<1>2. at \in 1 .. HeaderLen
  BY Sizes
<1>3. Header(doc)[at] = << IF Kind[doc] = "missing" THEN "404" ELSE "200", at >>
  BY <1>2 DEF Header
<1>4. HeaderUnits(c, n)[k] = << IF conn[c].file # NotFound THEN "200" ELSE "404", at >>
  BY DEF HeaderUnits, HeaderUnit
<1> QED BY <1>1, <1>3, <1>4

LEMMA SendHeaderTale == ServerInv /\ Fate /\ Tale /\ ~Blind /\ SendHeader => Tale'
<1> SUFFICES ASSUME ServerInv, Fate, Tale, ~Blind, SendHeader PROVE Tale'
  OBVIOUS
<1>1. /\ server = "header" /\ LoopsOn /\ ~conn[rev.conn].hdr
      /\ conn[rev.conn].done < conn[rev.conn].len /\ UNCHANGED << clientVars, heard >>
  BY DEF SendHeader
<1>2. PICK c \in Conns : c = rev.conn /\ conn[c].mem = "live"
  BY <1>1, TreatedIsThere
<1>3. CASE RemoveConnection(c) /\ sent' = sent /\ server' \in {"wait", "exited"}
  <2>1. UNCHANGED << clientVars, heard, sent >>
    BY <1>1, <1>3
  <2> QED BY <1>1, <1>2, <1>3, <2>1, RemovalTale DEF Dead
<1>4. ASSUME NEW n \in 1 .. Min({Space(c), conn[c].len - conn[c].done}),
             sent' = [sent EXCEPT ![c] = @ \o HeaderUnits(c, n)],
             conn' = [conn EXCEPT ![c].done = @ + n],
             UNCHANGED << interest, fds, server >>
      PROVE  Tale'
  <2>1. /\ conn[c].len \in Nat /\ conn[c].done \in Nat /\ conn[c].len = HeaderLen
        /\ Len(sent[c]) = conn[c].done /\ heard[c] > 0
    <3>1. heard[c] > 0
      BY <1>1, <1>2 DEF ServerInv, Requested
    <3>2. conn[c].len = HeaderLen
      BY <1>2, <3>1 DEF Fate, FateOf, Asked
    <3>3. Len(sent[c]) = conn[c].done
      BY <1>1, <1>2 DEF Fate, FateOf, Written, Dead
    <3> QED BY <3>1, <3>2, <3>3 DEF ServerInv, Shapes, Connections
  <2>2. n \in Nat /\ n > 0 /\ n <= conn[c].len - conn[c].done
    <3>1. conn[c].len - conn[c].done \in Int
      BY <2>1
    <3> QED BY <3>1, <1>4, Amounts
  <2>3. HeaderUnits(c, n) \in Seq(Units) /\ Len(HeaderUnits(c, n)) = n
    BY <2>2, HeaderUnitsAre
  <2>4. /\ Len(sent'[c]) = Len(sent[c]) + n
        /\ \A k \in 1 .. Len(sent[c]) : sent'[c][k] = sent[c][k]
        /\ \A k \in 1 .. n : sent'[c][Len(sent[c]) + k] = HeaderUnits(c, n)[k]
        /\ \A d \in Conns \ {c} : sent'[d] = sent[d]
    <3> DEFINE units == HeaderUnits(c, n)
    <3>1. units \in Seq(Units) /\ Len(units) = n /\ sent' = [sent EXCEPT ![c] = @ \o units]
      BY <1>4, <2>3
    <3> HIDE DEF units
    <3>2. /\ Len(sent'[c]) = Len(sent[c]) + Len(units)
          /\ \A k \in 1 .. Len(sent[c]) : sent'[c][k] = sent[c][k]
          /\ \A k \in 1 .. Len(units) : sent'[c][Len(sent[c]) + k] = units[k]
          /\ \A d \in Conns \ {c} : sent'[d] = sent[d]
      BY <3>1, UnitsAppended
    <3>3. /\ Len(sent'[c]) = Len(sent[c]) + n
          /\ \A k \in 1 .. n : sent'[c][Len(sent[c]) + k] = units[k]
      BY <3>1, <3>2
    <3> QED BY <3>2, <3>3 DEF units
  <2>5. /\ \A d \in Conns \ {c} : conn'[d] = conn[d]
        /\ conn'[c].mem = conn[c].mem /\ conn'[c].doc = conn[c].doc /\ conn'[c].file = conn[c].file
    BY <1>4, <2>2, DoneGrows
  <2>6. conn[c].doc # NoPath /\ Found(c)
    BY <2>1 DEF Blind, Tale, TaleOf
  <2>7. ASSUME EnoughFds, Told(c) PROVE Told(c)'
    <3> DEFINE doc == conn[c].doc
    <3>1. \A k \in 1 .. Len(sent[c]) : sent[c][k] = Header(doc)[k]
      BY <1>1, <1>2, <2>7 DEF Told, Unfinished, Dead
    <3>2. \A k \in 1 .. n : HeaderUnits(c, n)[k] = Header(doc)[conn[c].done + k]
      <4>1. conn[c].done + n <= HeaderLen
        BY <2>1, <2>2
      <4> QED BY <1>2, <2>1, <2>2, <2>6, <2>7, <4>1, HeaderGoesOn
    <3>3. \A k \in 1 .. Len(sent'[c]) : sent'[c][k] = Header(doc)[k]
      <4> SUFFICES ASSUME NEW k \in 1 .. Len(sent'[c]) PROVE sent'[c][k] = Header(doc)[k]
        OBVIOUS
      <4>1. CASE k <= Len(sent[c])
        BY <2>1, <2>2, <2>4, <3>1, <4>1
      <4>2. CASE k > Len(sent[c])
        <5> DEFINE i == k - Len(sent[c])
        <5>1. i \in 1 .. n /\ k = Len(sent[c]) + i /\ k = conn[c].done + i
          <6>1. Len(sent[c]) \in Nat /\ Len(sent'[c]) = Len(sent[c]) + n /\ k \in 1 .. Len(sent[c]) + n
            BY <2>1, <2>4
          <6> QED BY <2>1, <2>2, <4>2, <6>1
        <5> HIDE DEF i
        <5> QED BY <2>1, <2>4, <3>2, <5>1
      <4> QED BY <2>1, <4>1, <4>2
    <3>4. Len(sent'[c]) <= HeaderLen
      BY <2>1, <2>2, <2>4, Sizes
    <3>5. BodyOf(sent'[c], conn'[c].doc)
      BY <2>1, <2>2, <2>4, <3>4, Sizes DEF BodyOf
    <3>6. HeaderOf(sent'[c], conn'[c].doc, script'[c], heard'[c])
      <4>1. PICK j \in 1 .. heard[c] : doc \in Named(script[c][j])
        BY <2>6 DEF Fate, FateOf, Described
      <4>2. j \in j .. heard[c]
        BY DEF ServerInv, Shapes
      <4>3. HeaderOf(sent'[c], doc, script[c], heard[c])
        BY <3>3, <4>1, <4>2 DEF HeaderOf
      <4> QED BY <1>1, <2>5, <4>3 DEF clientVars
    <3>7. Unfinished(c)' => \A k \in 1 .. Len(sent'[c]) : sent'[c][k] = Header(conn'[c].doc)[k]
      BY <2>5, <3>3
    <3>8. ~At(c, {"dynamic"})'
      BY <1>1, <1>4 DEF At
    <3> QED BY <3>5, <3>6, <3>7, <3>8 DEF Told
  <2> QED BY <1>1, <1>2, <2>4, <2>5, <2>7, SpokenTale DEF Dead
<1> QED BY <1>2, <1>3, <1>4 DEF SendHeader, WriteFails

(* The next units of the file follow the header and those before them.     *)
LEMMA FileGoesOn ==
    ASSUME ServerInv, Fate, Undamaged, ~Blind, NEW c \in Conns, c = rev.conn,
           server \in {"static", "dynamic"}, Told(c), Len(sent[c]) = HeaderLen + conn[c].done,
           NEW n \in Nat, conn[c].done + n <= conn[c].size,
           sent' = [sent EXCEPT ![c] = @ \o FileUnits(c, conn[c].done, n)]
    PROVE  /\ HeaderOf(sent'[c], conn[c].doc, script[c], heard[c]) /\ BodyOf(sent'[c], conn[c].doc)
           /\ Len(sent'[c]) = Len(sent[c]) + n
<1> DEFINE doc == conn[c].doc
           done == conn[c].done
           old == sent[c]
           new == sent'[c]
           units == FileUnits(c, done, n)
<1>1. /\ doc \in Docs /\ conn[c].kind = Kind[doc] /\ conn[c].size = Size[doc]
      /\ HoldsFile(conn[c].file) /\ fds[conn[c].file] = FileOf(c, doc)
      /\ done \in Nat /\ conn[c].size \in Nat
  BY TreatedDocument
<1>2. Kind[doc] \in {"static", "dynamic"}
  BY <1>1, TreatedIsThere DEF Sends
<1>3. units \in Seq(Units) /\ Len(units) = n
  <2>1. conn[c].file # NotFound
    BY TreatedIsThere DEF Sends
  <2> QED BY <1>1, <2>1, FileUnitsAre
<1>4. \A k \in 1 .. n : units[k] = << doc, done + k >>
  <2>1. HoldsFile(conn[c].file) /\ fds[conn[c].file][3] = doc
    BY <1>1, FileHeads
  <2> SUFFICES ASSUME NEW k \in 1 .. n PROVE units[k] = << doc, done + k >>
    OBVIOUS
  <2>2. done + k <= Size[doc]
    BY <1>1
  <2> QED BY <2>1, <2>2 DEF FileUnits
<1>5. sent' = [sent EXCEPT ![c] = @ \o units]
  OBVIOUS
<1>6. Len(old) \in Nat /\ Len(old) = HeaderLen + done /\ Len(old) >= HeaderLen /\ HeaderLen \in Nat \ {0}
  BY <1>1, Sizes
<1> HIDE DEF units
<1>7. /\ Len(new) = Len(old) + n
      /\ \A k \in 1 .. Len(old) : new[k] = old[k]
      /\ \A k \in 1 .. n : new[Len(old) + k] = units[k]
  <2>1. /\ Len(new) = Len(old) + Len(units)
        /\ \A k \in 1 .. Len(old) : new[k] = old[k]
        /\ \A k \in 1 .. Len(units) : new[Len(old) + k] = units[k]
    BY <1>3, <1>5, UnitsAppended
  <2> QED BY <1>3, <2>1
<1>8. HeaderOf(old, doc, script[c], heard[c]) /\ BodyOf(old, doc)
  <2>1. old # << >>
    BY <1>6, EmptySeq
  <2> QED BY <2>1 DEF Told
<1> HIDE DEF old, new, doc, done
<1>9. HeaderOf(new, doc, script[c], heard[c])
  <2>1. \A k \in 1 .. Len(new) : k <= HeaderLen => new[k] = old[k]
    BY <1>6, <1>7
  <2>2. \A k \in 1 .. Len(new) : k <= HeaderLen => k \in 1 .. Len(old)
    BY <1>6, <1>7
  <2>3. PICK i \in 1 .. heard[c] : \E a \in Named(script[c][i]) :
           /\ \A k \in 1 .. Len(old) : k <= HeaderLen => old[k] = Header(a)[k]
           /\ \E j \in i .. heard[c] : doc \in Named(script[c][j])
    BY <1>8 DEF HeaderOf
  <2>4. PICK a \in Named(script[c][i]) :
           /\ \A k \in 1 .. Len(old) : k <= HeaderLen => old[k] = Header(a)[k]
           /\ \E j \in i .. heard[c] : doc \in Named(script[c][j])
    BY <2>3
  <2>5. \A k \in 1 .. Len(new) : k <= HeaderLen => new[k] = Header(a)[k]
    BY <2>1, <2>2, <2>4
  <2> QED BY <2>4, <2>5 DEF HeaderOf
<1>10. BodyOf(new, doc)
  <2>1. \A k \in 1 .. Len(new) : k > HeaderLen => new[k] = << doc, k - HeaderLen >>
    <3> SUFFICES ASSUME NEW k \in 1 .. Len(new), k > HeaderLen PROVE new[k] = << doc, k - HeaderLen >>
      OBVIOUS
    <3>1. CASE k <= Len(old)
      BY <1>6, <1>7, <1>8, <3>1 DEF BodyOf
    <3>2. CASE k > Len(old)
      <4> DEFINE i == k - Len(old)
      <4>1. i \in 1 .. n /\ k = Len(old) + i /\ k - HeaderLen = done + i
        BY <1>1, <1>6, <1>7, <3>2
      <4> HIDE DEF i
      <4>2. new[k] = units[i]
        BY <1>7, <4>1
      <4> QED BY <1>4, <4>1, <4>2
    <3> QED BY <1>6, <1>7, <3>1, <3>2
  <2>2. Len(Body(doc)) = conn[c].size
    BY <1>1, <1>2, BodyLength
  <2>3. done + n <= conn[c].size
    BY DEF done
  <2>4. Len(new) <= HeaderLen + Len(Body(doc))
    BY <1>1, <1>6, <1>7, <2>2, <2>3
  <2> QED BY <2>1, <2>4 DEF BodyOf
<1> QED BY <1>7, <1>9, <1>10 DEF old, new, doc, done

LEMMA SendStaticTale == ServerInv /\ Fate /\ Tale /\ ~Blind /\ SendStatic => Tale'
<1> SUFFICES ASSUME ServerInv, Fate, Tale, ~Blind, SendStatic PROVE Tale'
  OBVIOUS
<1>1. /\ server = "static" /\ LoopsOn /\ UNCHANGED << clientVars, heard, interest, fds >>
  BY DEF SendStatic
<1>2. PICK c \in Conns : c = rev.conn /\ conn[c].mem = "live" /\ conn[c].file # NotFound
  BY <1>1, TreatedIsThere DEF Sends
<1>3. CASE server' = "exited" /\ UNCHANGED << conn, sent >>
  BY <1>1, <1>3, ElsewhereTale DEF Dead
<1>4. ASSUME NEW n \in 1 .. Min({Space(c), conn[c].size - conn[c].done}),
             sent' = [sent EXCEPT ![c] = @ \o FileUnits(c, conn[c].done, n)],
             conn' = [conn EXCEPT ![c].done = @ + n],
             server' = server
      PROVE  Tale'
  <2>1. conn[c].size \in Int /\ conn[c].done \in Nat
    BY DEF ServerInv, Shapes, Connections
  <2>2. n \in Nat /\ conn[c].done + n <= conn[c].size
    <3>1. conn[c].size - conn[c].done \in Int
      BY <2>1
    <3>2. n \in Nat /\ n <= conn[c].size - conn[c].done
      BY <3>1, <1>4, Amounts
    <3> QED BY <2>1, <3>2
  <2>3. \A d \in Conns \ {c} : sent'[d] = sent[d]
    BY <1>4 DEF ServerInv, Shapes
  <2>4. /\ \A d \in Conns \ {c} : conn'[d] = conn[d]
        /\ conn'[c].mem = conn[c].mem /\ conn'[c].doc = conn[c].doc /\ conn'[c].file = conn[c].file
    BY <1>4, <2>2, DoneGrows
  <2>5. conn'[c].hdr
    <3>1. conn[c].hdr
      BY <1>1, <1>2 DEF Fate, FateOf, Written, At, Dead
    <3>2. conn'[c].hdr <=> conn[c].hdr
      BY <1>4, <2>2, OnlyDoneGrows
    <3> QED BY <3>1, <3>2
  <2>6. ASSUME Undamaged, Told(c) PROVE Told(c)'
    <3>1. Len(sent[c]) = HeaderLen + conn[c].done
      BY <1>1, <1>2 DEF Fate, FateOf, Written, At, Dead
    <3>2. HeaderOf(sent'[c], conn[c].doc, script[c], heard[c]) /\ BodyOf(sent'[c], conn[c].doc)
      BY <1>1, <1>2, <1>4, <2>2, <2>6, <3>1, FileGoesOn
    <3>3. script' = script /\ heard' = heard
      BY <1>1 DEF clientVars
    <3>4. HeaderOf(sent'[c], conn'[c].doc, script'[c], heard'[c]) /\ BodyOf(sent'[c], conn'[c].doc)
      BY <2>4, <3>2, <3>3
    <3>5. ~Unfinished(c)' /\ ~At(c, {"dynamic"})'
      BY <1>1, <1>4, <2>5 DEF Unfinished, At
    <3> QED BY <3>4, <3>5 DEF Told
  <2>7. ~Dead /\ UNCHANGED << clientVars, heard >> /\ LoopsOn
    BY <1>1 DEF Dead
  <2> QED BY <1>2, <2>3, <2>4, <2>6, <2>7, SpokenTale
<1> QED BY <1>2, <1>3, <1>4 DEF SendStatic

(* A document of whole blocks is read in whole blocks.                     *)
LEMMA WholeBlocks ==
    ASSUME NEW size \in Nat \ {0}, NEW block \in Nat \ {0}, NEW read \in {size, block}, read <= size,
           NEW m \in Nat, m * read < size, size > block => size % block = 0
    PROVE  m * read + read <= size
<1>1. CASE read = size
  <2>1. m < 1
    BY <1>1
  <2>2. m = 0
    BY <2>1
  <2> QED BY <1>1, <2>2
<1>2. CASE read = block /\ size > block
  <2> DEFINE q == size \div block
  <2>1. q \in Int /\ size = block * q
    <3>1. q \in Int /\ size % block = size - block * q /\ size % block = 0
      BY <1>2, DivFacts, ModFacts
    <3>2. block * q \in Int
      BY <3>1
    <3> HIDE DEF q
    <3> QED BY <3>1, <3>2
  <2> HIDE DEF q
  <2>2. m < q
    <3> SUFFICES ASSUME q <= m PROVE FALSE
      BY <2>1
    <3>1. block * q <= block * m
      BY <2>1
    <3> QED BY <1>2, <2>1, <3>1
  <2>3. block * (m + 1) <= block * q
    <3>1. m + 1 <= q
      BY <2>1, <2>2
    <3> QED BY <2>1, <3>1
  <2>4. block * (m + 1) = m * block + block
    OBVIOUS
  <2> QED BY <1>2, <2>1, <2>3, <2>4
<1> QED BY <1>1, <1>2

(* The next block of a document that can be sent is there, and fits.       *)
LEMMA BlockFits ==
    ASSUME ServerInv, Fate, Undamaged, ~Blind, Servably(rev.conn), NEW c \in Conns, c = rev.conn,
           server = "dynamic", conn[c].done < conn[c].size, Len(sent[c]) = HeaderLen + conn[c].done
    PROVE  /\ Min({Space(c), ReadSize(c)}) = ReadSize(c)
           /\ conn[c].done + ReadSize(c) <= conn[c].size
<1> DEFINE doc == conn[c].doc
           size == conn[c].size
           read == ReadSize(c)
<1>1. /\ conn[c].mem = "live" /\ doc \in NamedBy(c) /\ doc \in Docs
      /\ conn[c].kind = Kind[doc] /\ size = Size[doc] /\ conn[c].done \in Nat /\ size \in Nat
  BY TreatedDocument
<1>2. conn[c].kind = "dynamic" /\ size > 0 /\ InBlocks(c)
  BY <1>1 DEF Fate, FateOf, Written, At, Dead
<1>3. ~Ragged(doc) /\ ~TooLong(doc)
  BY <1>1, <1>2 DEF Servably, Servable
<1>4. /\ read \in Nat \ {0} /\ read <= size /\ read \in {size, Block}
      /\ Space(c) \in Nat /\ Min({Space(c), read}) \in Nat
      /\ Min({Space(c), read}) <= Space(c) /\ Min({Space(c), read}) <= read
      /\ Min({Space(c), read}) \in {Space(c), read}
  BY <1>2, BlockFacts
<1>5. PICK m \in Nat : conn[c].done = m * read
  BY <1>2 DEF InBlocks
<1>6. size > Block => size % Block = 0
  BY <1>1, <1>2, <1>3 DEF Ragged
<1> HIDE DEF read, size, doc
<1>7. m * read + read <= size
  <2>1. size \in Nat \ {0} /\ Block \in Nat \ {0} /\ m * read < size
    <3>1. conn[c].done < size
      BY DEF size
    <3> QED BY <1>1, <1>2, <1>5, <3>1, Sizes
  <2> QED BY <1>4, <1>6, <2>1, WholeBlocks
<1>8. Space(c) >= read
  <2>1. HeaderLen + size <= SockBuf
    <3>1. Len(Body(doc)) = size
      BY <1>1, <1>2, BodyLength
    <3> QED BY <1>1, <1>3, <3>1, Sizes DEF TooLong
  <2>2. taken[c] \in Nat
    BY DEF ServerInv, Shapes
  <2>3. conn[c].done + read <= size
    BY <1>5, <1>7
  <2>4. read \in Nat /\ size \in Nat /\ conn[c].done \in Nat /\ Len(sent[c]) = HeaderLen + conn[c].done
    BY <1>1, <1>4
  <2>5. SockBuf - (Len(sent[c]) - taken[c]) >= read
    <3> DEFINE h == HeaderLen
               k == conn[c].done
               x == taken[c]
    <3>1. SockBuf \in Int /\ h \in Int
      BY Sizes
    <3>2. /\ k \in Int /\ read \in Int /\ size \in Int /\ x \in Int /\ 0 <= x
          /\ k + read <= size /\ h + size <= SockBuf
      BY <2>1, <2>2, <2>3, <2>4
    <3> HIDE DEF h, k, x
    <3>3. SockBuf - ((h + k) - x) >= read
      BY <3>1, <3>2
    <3>4. Len(sent[c]) = h + k
      BY <2>4 DEF h, k
    <3> QED BY <3>3, <3>4 DEF x
  <2> QED BY <2>5 DEF Space
<1>9. Min({Space(c), read}) = read
  BY <1>4, <1>8
<1> QED BY <1>5, <1>7, <1>9 DEF read, size

LEMMA SendDynamicTale == ServerInv /\ Fate /\ Tale /\ ~Blind /\ SendDynamic => Tale'
<1> SUFFICES ASSUME ServerInv, Fate, Tale, ~Blind, SendDynamic PROVE Tale'
  OBVIOUS
<1>1. /\ server = "dynamic" /\ LoopsOn /\ UNCHANGED << clientVars, heard, interest, fds >>
      /\ ~Dead
  BY DEF SendDynamic, Dead
<1>2. PICK c \in Conns : c = rev.conn /\ conn[c].mem = "live" /\ conn[c].file # NotFound
  BY <1>1, TreatedIsThere DEF Sends
<1> DEFINE n == IF client[c] = "reset" THEN 0 ELSE Min({Space(c), ReadSize(c)})
<1>3. CASE server' \in {"crashed", "exited"} /\ UNCHANGED << conn, sent >>
  BY <1>1, <1>3, ElsewhereTale
<1>4. ASSUME sent' = [sent EXCEPT ![c] = @ \o FileUnits(c, conn[c].done, n)],
             conn' = [conn EXCEPT ![c].done = @ + ReadSize(c)],
             server' \in {"dynamic", "exited"}
      PROVE  Tale'
  <2>1. /\ conn[c].size \in Int /\ conn[c].done \in Nat /\ conn[c].done < conn[c].size
        /\ sent \in [Conns -> Seq(Units)]
    BY <1>2 DEF SendDynamic, ServerInv, Shapes, Connections
  <2>2. conn[c].size > 0 /\ conn[c].hdr
    BY <1>1, <1>2 DEF Fate, FateOf, Written, At, Dead
  <2>3. ReadSize(c) \in Nat
    BY <2>2, BlockFacts
  <2>4. \A d \in Conns \ {c} : sent'[d] = sent[d]
    BY <1>4, <2>1
  <2>5. /\ \A d \in Conns \ {c} : conn'[d] = conn[d]
        /\ conn'[c].mem = conn[c].mem /\ conn'[c].doc = conn[c].doc /\ conn'[c].file = conn[c].file
    BY <1>4, <2>3, DoneGrows
  <2>6. conn'[c].hdr /\ conn'[c].done = conn[c].done + ReadSize(c)
    BY <1>4, <2>2, <2>3, OnlyDoneGrows
  <2>7. /\ script' = script /\ heard' = heard /\ client' = client /\ ~Unfinished(c)'
    BY <1>1, <2>6 DEF clientVars, Unfinished
  <2>8. CASE client[c] = "reset"
    <3> DEFINE units == FileUnits(c, conn[c].done, 0)
    <3>1. sent' = [sent EXCEPT ![c] = @ \o units]
      BY <1>4, <2>8
    <3>2. units = << >>
      BY <1>2, <2>1, FileUnitsAre, EmptySeq
    <3> HIDE DEF units
    <3>3. sent'[c] = sent[c]
      BY <2>1, <3>1, <3>2, ConcatProperties
    <3>4. ASSUME Told(c) PROVE Told(c)'
      BY <2>5, <2>7, <2>8, <3>3, <3>4 DEF Told
    <3> QED BY <1>1, <1>2, <2>4, <2>5, <3>4, SpokenTale
  <2>9. CASE client[c] # "reset"
    <3>1. ASSUME Undamaged, Servably(c), Told(c) PROVE Told(c)'
      <4>1. Len(sent[c]) = HeaderLen + conn[c].done
        BY <1>1, <1>2, <2>9, <3>1 DEF Told, At
      <4>2. n = ReadSize(c) /\ conn[c].done + n <= conn[c].size
        BY <1>1, <1>2, <2>1, <2>9, <3>1, <4>1, BlockFits
      <4> HIDE DEF n
      <4>3. /\ HeaderOf(sent'[c], conn[c].doc, script[c], heard[c]) /\ BodyOf(sent'[c], conn[c].doc)
            /\ Len(sent'[c]) = Len(sent[c]) + n
        BY <1>1, <1>2, <1>4, <2>3, <3>1, <4>1, <4>2, FileGoesOn
      <4>4. Len(sent'[c]) = HeaderLen + conn'[c].done
        BY <2>1, <2>3, <2>6, <4>1, <4>2, <4>3, Sizes
      <4>5. HeaderOf(sent'[c], conn'[c].doc, script'[c], heard'[c]) /\ BodyOf(sent'[c], conn'[c].doc)
        BY <2>5, <2>7, <4>3
      <4> QED BY <2>7, <4>4, <4>5 DEF Told
    <3> QED BY <1>1, <1>2, <2>4, <2>5, <3>1, SpokenTale
  <2> QED BY <2>8, <2>9
<1> QED BY <1>2, <1>3, <1>4 DEF SendDynamic, WriteFails

LEMMA HandleRequestTale == ServerInv /\ Fate /\ Tale /\ ~Blind /\ HandleRequest => Tale'
<1> SUFFICES ASSUME ServerInv, Fate, Tale, ~Blind, HandleRequest PROVE Tale'
  OBVIOUS
<1>1. /\ server = "in" /\ LoopsOn /\ heard[rev.conn] < said[rev.conn]
      /\ heard' = [heard EXCEPT ![rev.conn] = said[rev.conn]]
      /\ server' \in {"wait", "out"}
      /\ UNCHANGED << client, script, said, sent >>
  BY DEF HandleRequest, AfterIn, clientVars
<1>2. PICK c \in Conns : c = rev.conn /\ conn[c].mem = "live"
  BY <1>1, TreatedIsThere
<1>3. PICK path \in PathsIn(Inbox(c)) : IF path = NoPath THEN KeepDocument(c) ELSE OpenDocument(c, path)
  BY <1>2 DEF HandleRequest
<1>4. (\A d \in Conns \ {c} : conn'[d] = conn[d]) /\ conn'[c].mem = "live"
  BY <1>1, <1>2, <1>3, DocumentSet
<1>5. /\ conn'[c].hdr <=> conn[c].hdr
      /\ \/ /\ path = NoPath /\ conn'[c].doc = conn[c].doc /\ conn'[c].file = conn[c].file
         \/ /\ path \in Docs \ {NoPath} /\ conn'[c].doc = path
            /\ conn'[c].file # NotFound => Kind[path] # "missing"
            /\ conn'[c].file = NotFound => Kind[path] = "missing" \/ FreeFds = {}
  BY <1>1, <1>2, <1>3, DocumentTold
<1>6. /\ heard'[c] = said[c] /\ heard[c] < said[c] /\ heard[c] \in Nat /\ said \in [Conns -> Nat]
      /\ \A d \in Conns \ {c} : heard'[d] = heard[d]
  BY <1>1, <1>2 DEF ServerInv, Shapes
<1>7. Undamaged' => Undamaged
  BY <1>2, <1>4 DEF Undamaged
<1>8. \A d \in Conns : ~At(d, {"dynamic"})'
  BY <1>1 DEF At
<1>9. ASSUME NEW d \in Conns, d # c PROVE TaleOf(d)'
  <2>1. /\ TaleOf(d) /\ sent'[d] = sent[d] /\ heard'[d] = heard[d] /\ conn'[d] = conn[d]
        /\ said'[d] \in Nat /\ said[d] <= said'[d] /\ ~Dead
    BY <1>1, <1>4, <1>6, <1>9 DEF Tale, Dead
  <2> QED BY <1>1, <1>7, <1>8, <2>1, SameTale
<1>10. TaleOf(c)'
  <2>1. TaleOf(c)
    BY DEF Tale
  <2>2. Found(c)'
    <3>1. EnoughFds => FreeFds # {}
      BY <1>6, RoomForFile
    <3> QED BY <1>2, <1>5, <2>1, <3>1 DEF TaleOf, Found
  <2>3. Servably(c)' => Servably(c)
    BY <1>1, <1>6, NamesStay
  <2>4. ASSUME Told(c) PROVE Told(c)'
    <3>1. Len(sent[c]) <= HeaderLen /\ (~conn[c].hdr => Len(sent[c]) = 0)
      <4>1. /\ ~conn[c].hdr => conn[c].done = 0 /\ Len(sent[c]) = conn[c].done
            /\ conn[c].hdr => Len(sent[c]) = HeaderLen
        BY <1>1, <1>2 DEF Fate, FateOf, Written, At, Dead
      <4> QED BY <4>1, Sizes
    <3>2. BodyOf(sent'[c], conn'[c].doc)
      <4>1. Len(sent[c]) \in Nat
        BY LenProperties DEF ServerInv, Shapes
      <4> QED BY <1>1, <3>1, <4>1, Sizes DEF BodyOf
    <3>3. Unfinished(c)' => \A k \in 1 .. Len(sent'[c]) : sent'[c][k] = Header(conn'[c].doc)[k]
      <4>1. Unfinished(c)' => Len(sent'[c]) = 0
        BY <1>1, <1>5, <3>1 DEF Unfinished
      <4> QED BY <4>1
    <3>4. ASSUME sent'[c] # << >> PROVE HeaderOf(sent'[c], conn'[c].doc, script'[c], heard'[c])
      <4>1. sent[c] # << >> /\ HeaderOf(sent[c], conn[c].doc, script[c], heard[c])
        BY <1>1, <2>4, <3>4 DEF Told
      <4>2. PICK i \in 1 .. heard[c] : \E a \in Named(script[c][i]) :
               /\ \A k \in 1 .. Len(sent[c]) : k <= HeaderLen => sent[c][k] = Header(a)[k]
               /\ \E j \in i .. heard[c] : conn[c].doc \in Named(script[c][j])
        BY <4>1 DEF HeaderOf
      <4>3. i \in 1 .. heard'[c]
        BY <1>6
      <4>4. \E j \in i .. heard'[c] : conn'[c].doc \in Named(script[c][j])
        <5>1. CASE conn'[c].doc = conn[c].doc
          <6>1. PICK j \in i .. heard[c] : conn[c].doc \in Named(script[c][j])
            BY <4>2
          <6>2. j \in i .. heard'[c]
            BY <1>6
          <6> QED BY <5>1, <6>1, <6>2
        <5>2. CASE path \in Docs \ {NoPath} /\ conn'[c].doc = path
          <6>1. path \in Named(script[c][heard[c] + 1])
            BY <1>6, <5>2, PathsAreNamed
          <6>2. heard[c] + 1 \in i .. heard'[c]
            BY <1>6
          <6> QED BY <5>2, <6>1, <6>2
        <5> QED BY <1>5, <5>1, <5>2
      <4> QED BY <1>1, <4>2, <4>3, <4>4 DEF HeaderOf
    <3> QED BY <1>8, <3>2, <3>3, <3>4 DEF Told
  <2> QED BY <1>7, <2>1, <2>2, <2>3, <2>4 DEF TaleOf
<1> QED BY <1>9, <1>10 DEF Tale

(* Nothing is sent when it ends so.                                        *)
LEMMA WaitFailsTale == ServerInv /\ Tale /\ WaitFails => Tale'
<1> SUFFICES ASSUME ServerInv, Tale, WaitFails PROVE Tale'
  OBVIOUS
<1>1. UNCHANGED << client, script, said, heard, sent, conn, rev >> /\ server = "wait" /\ server' = "exited"
  BY DEF WaitFails, clientVars
<1>2. (Dead => Dead') /\ \A d \in Conns : At(d, {"dynamic"})' => At(d, {"dynamic"})
  BY <1>1 DEF Dead, At
<1>3. \A d \in Conns : said'[d] \in Nat /\ said[d] <= said'[d]
  BY <1>1 DEF ServerInv, Shapes
<1> QED BY <1>1, <1>2, <1>3, QuietTale

LEMMA StepTale == ServerInv /\ Fate /\ Tale /\ ~Blind /\ [Next]_vars => Tale'
<1> SUFFICES ASSUME ServerInv, Fate, Tale, ~Blind, [Next]_vars PROVE Tale'
  OBVIOUS
<1>1. CASE \E c \in Conns : ClientStep(c)
  BY <1>1, ClientStepTale
<1>2. CASE \E c \in Conns : Accept(c)
  BY <1>2, AcceptTale
<1>3. CASE \E c \in Conns : WaitEvent(c)
  BY <1>3, WaitEventTale
<1>4. CASE Start
  BY <1>4, StartTale
<1>5. CASE Handler
  <2>1. \/ WaitFails \/ ReceiveFails \/ HandleRequest \/ SendMessage \/ SendHeader
        \/ HeaderDone \/ SendStatic \/ IocbSetup \/ SendDynamic \/ FileSent
    BY <1>5 DEF Handler
  <2> QED BY <2>1, ReceiveFailsTale, HandleRequestTale, SendMessageTale, SendHeaderTale,
             HeaderDoneTale, SendStaticTale, IocbSetupTale, SendDynamicTale, FileSentTale, WaitFailsTale
<1>6. CASE UNCHANGED vars
  <2>1. UNCHANGED << client, script, said, heard, sent, conn, rev, server >>
    BY <1>6 DEF vars, clientVars
  <2>2. (Dead => Dead') /\ \A d \in Conns : At(d, {"dynamic"})' => At(d, {"dynamic"})
    BY <2>1 DEF Dead, At
  <2>3. \A d \in Conns : said'[d] \in Nat /\ said[d] <= said'[d]
    BY <2>1 DEF ServerInv, Shapes
  <2> QED BY <2>1, <2>2, <2>3, QuietTale
<1> QED BY <1>1, <1>2, <1>3, <1>4, <1>5, <1>6 DEF Next

LEMMA PrefixOf ==
    ASSUME NEW S, NEW s \in Seq(S), NEW t \in Seq(S), Len(s) <= Len(t),
           \A k \in 1 .. Len(s) : s[k] = t[k]
    PROVE  IsPrefix(s, t)
<1> DEFINE n == Len(s)
           u == SubSeq(s, 1, n)
           v == SubSeq(t, 1, n)
<1>1. n \in Nat /\ Len(t) \in Nat /\ n <= Len(t)
  BY LenProperties
<1> HIDE DEF n
<1>2. u \in Seq(S) /\ Len(u) = n /\ \A k \in 1 .. n : u[k] = s[k]
  BY <1>1, SubSeqProperties DEF n
<1>3. v \in Seq(S) /\ Len(v) = n /\ \A k \in 1 .. n : v[k] = t[k]
  BY <1>1, SubSeqProperties
<1> HIDE DEF u, v
<1>4. u = v
  <2>1. \A k \in 1 .. n : u[k] = v[k]
    BY <1>2, <1>3 DEF n
  <2> QED BY <1>2, <1>3, <2>1, SeqEqual
<1> QED BY <1>1, <1>4 DEF IsPrefix, n, u, v

(* What was told is the beginning of an answer.                            *)
LEMMA ToldIsAnswer ==
    ASSUME NEW a, NEW doc \in Docs, NEW units \in Seq(Units), BodyOf(units, doc),
           \A k \in 1 .. Len(units) : k <= HeaderLen => units[k] = Header(a)[k]
    PROVE  IsPrefix(units, Header(a) \o Body(doc))
<1> DEFINE header == Header(a)
           body == Body(doc)
           answer == header \o body
<1>1. header \in Seq(Units) /\ Len(header) = HeaderLen
  BY Sizes DEF Header, Units
<1>2. body \in Seq(Units) /\ \A k \in 1 .. Len(body) : body[k] = << doc, k >>
  <2>1. CASE Kind[doc] \in {"static", "dynamic"}
    <3>1. Size[doc] \in Nat /\ body = [i \in 1 .. Size[doc] |-> << doc, i >>]
      BY <2>1, Sizes DEF Body
    <3>2. \A i \in 1 .. Size[doc] : << doc, i >> \in Units
      BY <3>1 DEF Units
    <3> QED BY <3>1, <3>2
  <2>2. CASE Kind[doc] \notin {"static", "dynamic"}
    BY <2>2 DEF Body
  <2> QED BY <2>1, <2>2
<1> HIDE DEF header, body
<1>3. /\ answer \in Seq(Units) /\ Len(answer) = Len(header) + Len(body)
      /\ \A k \in 1 .. Len(header) : answer[k] = header[k]
      /\ \A k \in 1 .. Len(body) : answer[Len(header) + k] = body[k]
  <2>1. /\ answer \in Seq(Units) /\ Len(answer) = Len(header) + Len(body)
        /\ \A k \in 1 .. Len(header) + Len(body) :
              answer[k] = IF k <= Len(header) THEN header[k] ELSE body[k - Len(header)]
    BY <1>1, <1>2, ConcatProperties
  <2>2. Len(header) \in Nat /\ Len(body) \in Nat
    BY <1>1, <1>2, LenProperties
  <2> HIDE DEF answer
  <2>3. \A k \in 1 .. Len(header) : answer[k] = header[k]
    BY <2>1, <2>2
  <2>4. \A k \in 1 .. Len(body) : answer[Len(header) + k] = body[k]
    BY <2>1, <2>2
  <2> QED BY <2>1, <2>3, <2>4
<1>4. Len(units) \in Nat /\ Len(body) \in Nat /\ HeaderLen \in Nat
  BY <1>1, <1>2, LenProperties
<1>5. Len(units) > HeaderLen => Len(units) <= HeaderLen + Len(body)
  BY DEF BodyOf, body
<1> HIDE DEF answer
<1>6. Len(units) <= Len(answer)
  BY <1>1, <1>3, <1>4, <1>5
<1>7. \A k \in 1 .. Len(units) : units[k] = answer[k]
  <2> SUFFICES ASSUME NEW k \in 1 .. Len(units) PROVE units[k] = answer[k]
    OBVIOUS
  <2>1. CASE k <= HeaderLen
    <3>1. units[k] = header[k]
      BY <2>1 DEF header
    <3>2. k \in 1 .. Len(header)
      BY <1>1, <1>4, <2>1
    <3> QED BY <1>3, <3>1, <3>2
  <2>2. CASE k > HeaderLen
    <3> DEFINE i == k - HeaderLen
    <3>1. i \in 1 .. Len(body) /\ k = Len(header) + i
      BY <1>1, <1>4, <1>5, <2>2
    <3>2. units[k] = << doc, i >>
      BY <2>2 DEF BodyOf
    <3> HIDE DEF i
    <3> QED BY <1>2, <1>3, <3>1, <3>2
  <2> QED BY <1>4, <2>1, <2>2
<1>8. IsPrefix(units, answer)
  BY <1>3, <1>6, <1>7, PrefixOf
<1> QED BY <1>8 DEF answer, header, body

LEMMA TaleIsRight == ServerInv /\ Fate /\ Tale => RightAnswer
<1> SUFFICES ASSUME ServerInv, Fate, Tale, AllHeard, EnoughFds, ~Blind, NEW c \in Conns,
                    sent[c] # << >>, Servably(c)
             PROVE  \E answer \in Answers(c) : IsPrefix(sent[c], answer)
  BY DEF RightAnswer, Servably
<1> DEFINE doc == conn[c].doc
<1>1. Told(c)
  BY HeardIsUndamaged DEF Tale, TaleOf
<1>2. doc # NoPath
  BY DEF Fate, FateOf, Asked, Blind
<1>3. doc \in Docs
  BY <1>2, DocumentsAreNamed
<1>4. sent[c] \in Seq(Units) /\ heard[c] \in Nat /\ said[c] \in Nat /\ heard[c] <= said[c]
  BY DEF ServerInv, TypeOK, Shapes
<1>5. PICK i \in 1 .. heard[c] : \E a \in Named(script[c][i]) :
         /\ \A k \in 1 .. Len(sent[c]) : k <= HeaderLen => sent[c][k] = Header(a)[k]
         /\ \E j \in i .. heard[c] : doc \in Named(script[c][j])
  BY <1>1 DEF Told, HeaderOf
<1>6. PICK a \in Named(script[c][i]) :
         /\ \A k \in 1 .. Len(sent[c]) : k <= HeaderLen => sent[c][k] = Header(a)[k]
         /\ \E j \in i .. heard[c] : doc \in Named(script[c][j])
  BY <1>5
<1>7. IsPrefix(sent[c], Header(a) \o Body(doc))
  <2>1. BodyOf(sent[c], doc)
    BY <1>1 DEF Told
  <2> HIDE DEF doc
  <2> QED BY <1>3, <1>4, <1>6, <2>1, ToldIsAnswer
<1>8. i \in 1 .. said[c]
  BY <1>4
<1>9. doc \in UNION {Named(script[c][j]) : j \in i .. said[c]}
  <2>1. PICK j \in i .. heard[c] : doc \in Named(script[c][j])
    BY <1>6
  <2>2. j \in i .. said[c]
    BY <1>4
  <2> QED BY <2>1, <2>2
<1>10. Header(a) \o Body(doc) \in Answers(c)
  <2> DEFINE As == Named(script[c][i])
             Bs == UNION {Named(script[c][j]) : j \in i .. said[c]}
             Some == {Header(x) \o Body(y) : x \in As, y \in Bs}
  <2>1. a \in As /\ doc \in Bs
    BY <1>6, <1>9
  <2> HIDE DEF doc, As, Bs
  <2>2. Header(a) \o Body(doc) \in Some
    BY <2>1
  <2> HIDE DEF Some
  <2>3. Some \subseteq Answers(c)
    BY <1>8 DEF Answers, As, Bs, Some
  <2> QED BY <2>2, <2>3
<1> QED BY <1>7, <1>10

(* AnswersAreRight: as long as every connection that sent something was    *)
(* given a path, and something was received on those that were removed,    *)
(* what is in a socket is the beginning of an answer to its own client:    *)
(* no unit of another connection's file, none twice, none left out,        *)
(* however the events of the connections are interleaved and however much  *)
(* of a header or a file a send takes (send_message(), send_static_file(), *)
(* send_dynamic_file()).                                                   *)
THEOREM AnswersAreRight == Spec /\ []~Blind => []RightAnswer
<1>1. Init => Tale
  BY InitiallyTold
<1>2. (ServerInv /\ Fate) /\ Tale /\ ~Blind /\ [Next]_vars => Tale'
  BY StepTale
<1>3. (ServerInv /\ Fate) /\ Tale => RightAnswer
  BY TaleIsRight
<1> QED BY <1>1, <1>2, <1>3, FateInvariant, PTL DEF Spec

-----------------------------------------------------------------------------
(* Requests that come with their path.                                     *)

(* The first segment of every client reaches the end of the path.          *)
PathsBegin == NoPath \notin Docs /\ \A doc \in Docs : NoPath \notin Heads[doc]

LEMMA FirstPaths ==
    ASSUME PathsBegin, ServerInv, NEW c \in Conns, heard[c] = 0, heard[c] < said[c]
    PROVE  NoPath \notin PathsIn(Inbox(c))
<1>1. /\ script[c] \in Scripts[c] /\ said[c] \in Nat /\ said[c] <= Len(script[c])
      /\ Len(script[c]) \in Nat /\ DOMAIN script[c] = 1 .. Len(script[c])
  BY ScriptLengths DEF ServerInv, TypeOK, Shapes
<1> DEFINE segment == script[c][1]
<1>2. Inbox(c)[1] = segment
  BY <1>1, SubSeqProperties DEF Inbox
<1>3. PICK doc \in Docs : segment \in {Whole(doc), Posted(doc), HeadOf(doc)}
  <2>1. 1 \in DOMAIN script[c] /\ ~(1 > 1)
    BY <1>1
  <2> QED BY <1>1, <2>1, ScriptsAssumption
<1> HIDE DEF segment
<1>4. segment[2] = doc /\ Whole(doc) # HeadOf(doc) /\ Posted(doc) \notin {Whole(doc), HeadOf(doc)}
  BY <1>3 DEF Whole, Posted, HeadOf
<1>5. CASE segment = Whole(doc)
  <2>1. PathsIn(Inbox(c)) = {doc}
    BY <1>2, <1>4, <1>5, DescriptorsDiffer DEF PathsIn, Whole, Posted, HeadOf, TailOf
  <2> QED BY <2>1 DEF PathsBegin
<1>7. CASE segment = Posted(doc)
  <2>1. PathsIn(Inbox(c)) = {doc} \cup (IF Len(Inbox(c)) > 1 THEN Overlays[doc] ELSE {})
    BY <1>2, <1>4, <1>7 DEF PathsIn, Whole, Posted, HeadOf, TailOf
  <2> QED BY <2>1, SizesAssumption DEF PathsBegin
<1>6. CASE segment = HeadOf(doc)
  <2>1. PathsIn(Inbox(c)) = IF Len(Inbox(c)) > 1 THEN {doc} ELSE Heads[doc]
    BY <1>2, <1>4, <1>6 DEF PathsIn, Whole, Posted, HeadOf, TailOf
  <2> QED BY <2>1 DEF PathsBegin
<1> QED BY <1>3, <1>5, <1>6, <1>7

(* The steps that receive nothing and take no path away.                   *)
LEMMA PathsKept ==
    ASSUME ~Blind, heard' = heard, \A d \in Conns : heard[d] > 0 => conn'[d].doc = conn[d].doc
    PROVE  ~Blind'
  BY DEF Blind

LEMMA NeverBlind == PathsBegin /\ ServerInv /\ ~Blind /\ [Next]_vars => ~Blind'
<1> SUFFICES ASSUME PathsBegin, ServerInv, ~Blind, [Next]_vars PROVE ~Blind'
  OBVIOUS
<1>1. conn \in [Conns -> Connections] /\ heard \in [Conns -> Nat] /\ said \in [Conns -> Nat]
  BY DEF ServerInv, Shapes
<1>2. ASSUME NEW c \in Conns, RemoveConnection(c), heard' = heard PROVE ~Blind'
  <2>1. \A d \in Conns : conn'[d].doc = conn[d].doc
    BY <1>1, <1>2, NoConnIsOne DEF RemoveConnection, Connections
  <2> QED BY <1>2, <2>1, PathsKept
<1>3. ASSUME NEW c \in Conns, NEW n, conn' = [conn EXCEPT ![c].done = @ + n], heard' = heard
      PROVE  ~Blind'
  <2>1. \A d \in Conns : conn'[d].doc = conn[d].doc
    BY <1>1, <1>3 DEF Connections
  <2> QED BY <1>3, <2>1, PathsKept
<1>4. ASSUME conn' = conn, heard' = heard PROVE ~Blind'
  BY <1>4, PathsKept
<1>5. CASE \E c \in Conns : ClientStep(c) \/ WaitEvent(c)
  <2>1. conn' = conn /\ heard' = heard
    BY <1>5 DEF ClientStep, Connect, Request, Read, HalfClose, Reset, WaitEvent
  <2> QED BY <1>4, <2>1
<1>6. ASSUME NEW c \in Conns, Accept(c) PROVE ~Blind'
  <2>1. heard' = heard /\ heard[c] = 0 /\ \A d \in Conns \ {c} : conn'[d] = conn[d]
    BY <1>1, <1>6 DEF Accept, ServerInv, Stages
  <2> QED BY <2>1, PathsKept
<1>7. CASE HandleRequest
  <2>1. PICK c \in Conns : c = rev.conn /\ conn[c].mem = "live"
    BY <1>7, TreatedIsThere DEF HandleRequest
  <2>2. /\ heard[c] < said[c] /\ \A d \in Conns \ {c} : heard'[d] = heard[d]
    BY <1>1, <1>7, <2>1 DEF HandleRequest
  <2>3. PICK path \in PathsIn(Inbox(c)) : IF path = NoPath THEN KeepDocument(c) ELSE OpenDocument(c, path)
    BY <1>7, <2>1 DEF HandleRequest
  <2>4. \A d \in Conns \ {c} : conn'[d] = conn[d]
    BY <2>1, <2>2, <2>3, DocumentSet
  <2>5. \/ path = NoPath /\ conn'[c].doc = conn[c].doc
        \/ path # NoPath /\ conn'[c].doc = path
    BY <2>1, <2>2, <2>3, DocumentTold
  <2>6. heard[c] = 0 => path # NoPath
    BY <2>2, <2>3, FirstPaths
  <2>7. conn'[c].doc # NoPath
    BY <1>1, <2>5, <2>6 DEF Blind
  <2> QED BY <2>2, <2>4, <2>7 DEF Blind
<1>8. CASE Start \/ WaitFails \/ ReceiveFails \/ SendMessage \/ IocbSetup \/ FileSent
  <2>1. heard' = heard
    BY <1>8 DEF Start, WaitFails, ReceiveFails, SendMessage, IocbSetup, FileSent
  <2>2. conn' = conn \/ (rev.conn \in Conns /\ RemoveConnection(rev.conn))
    BY <1>8, TreatedIsThere DEF Start, WaitFails, ReceiveFails, SendMessage, IocbSetup, FileSent
  <2> QED BY <1>2, <1>4, <2>1, <2>2
<1>9. CASE SendHeader \/ SendStatic \/ SendDynamic
  <2>1. heard' = heard /\ rev.conn \in Conns
    BY <1>9, TreatedIsThere DEF SendHeader, SendStatic, SendDynamic
  <2>2. \/ RemoveConnection(rev.conn) \/ conn' = conn
        \/ \E n : conn' = [conn EXCEPT ![rev.conn].done = @ + n]
    BY <1>9 DEF SendHeader, SendStatic, SendDynamic
  <2> QED BY <1>2, <1>3, <1>4, <2>1, <2>2
<1>10. CASE HeaderDone
  <2>1. PICK c \in Conns : c = rev.conn
    BY <1>10, TreatedIsThere DEF HeaderDone
  <2>2. heard' = heard /\ \A d \in Conns : conn'[d].doc = conn[d].doc
    BY <1>10, <2>1, HeaderWritten DEF HeaderDone
  <2> QED BY <2>2, PathsKept
<1>11. CASE UNCHANGED vars
  BY <1>4, <1>11 DEF vars
<1> QED BY <1>5, <1>6, <1>7, <1>8, <1>9, <1>10, <1>11 DEF Next, Handler

(* AnswersToPaths: when the first segment of every client holds its path,  *)
(* the same holds without a condition on the past of the connections.      *)
THEOREM AnswersToPaths ==
    ASSUME PathsBegin
    PROVE  Spec => []RightAnswer
<1>1. Init => ~Blind
  BY DEF Init, Blind
<1>2. ServerInv /\ Fate /\ ~Blind /\ [Next]_vars => ~Blind'
  BY NeverBlind
<1>3. Spec => []~Blind
  BY <1>1, <1>2, FateInvariant, PTL DEF Spec
<1> QED BY <1>3, AnswersAreRight, PTL

-----------------------------------------------------------------------------
(* Clients that neither reset their connection nor close it unasked.       *)

Patient == \A c \in Conns : Habits[c] \cap {"mute", "reset"} = {}

Heeded ==
    /\ AllHeard
    /\ \A c \in Conns : client[c] # "reset" /\ (client[c] = "halfclosed" => said[c] > 0)
    /\ server = "in" => heard[rev.conn] < said[rev.conn] \/ client[rev.conn] = "halfclosed"

LEMMA HeededKept == Patient /\ ServerInv /\ Heeded /\ [Next]_vars => Heeded'
<1> SUFFICES ASSUME Patient, ServerInv, Heeded, [Next]_vars PROVE Heeded'
  OBVIOUS
<1>1. /\ heard \in [Conns -> Nat] /\ said \in [Conns -> Nat]
      /\ client \in [Conns -> {"none", "connecting", "open", "halfclosed", "reset"}]
  BY DEF ServerInv, TypeOK, Shapes
<1>2. ASSUME NEW c \in Conns, ClientStep(c) PROVE Heeded'
  <2>1. UNCHANGED << heard, conn, rev, server >>
    BY <1>2 DEF ClientStep, Connect, Request, Read, HalfClose, Reset
  <2>2. ~Reset(c)
    BY DEF Reset, Patient
  <2>3. CASE Request(c)
    BY <1>1, <2>1, <2>3 DEF Request, Heeded, AllHeard
  <2>4. CASE HalfClose(c)
    <3>1. said[c] # 0
      BY <2>4 DEF HalfClose, Patient
    <3> QED BY <1>1, <2>1, <2>4, <3>1 DEF HalfClose, Heeded, AllHeard
  <2>5. CASE Connect(c)
    <3>1. client' = [client EXCEPT ![c] = "connecting"] /\ said' = said
      BY <2>5 DEF Connect
    <3>2. client[c] = "none"
      BY <2>5 DEF Connect
    <3>3. \A d \in Conns : client'[d] = IF d = c THEN "connecting" ELSE client[d]
      BY <1>1, <3>1
    <3>4. server = "in" => rev.conn # c
      BY <3>2, TreatedIsThere DEF ServerInv, Stages
    <3>5. server = "in" => rev.conn \in Conns
      BY TreatedIsThere
    <3> QED BY <2>1, <3>1, <3>3, <3>4, <3>5 DEF Heeded, AllHeard
  <2>6. CASE Read(c)
    BY <2>1, <2>6 DEF Read, Heeded, AllHeard
  <2> QED BY <1>2, <2>2, <2>3, <2>4, <2>5, <2>6 DEF ClientStep
<1>3. ASSUME UNCHANGED << client, said, heard >>, server' # "in",
             \A d \in Conns : conn'[d].mem = "freed" => conn[d].mem = "freed" \/ heard[d] > 0
      PROVE  Heeded'
  BY <1>3 DEF Heeded, AllHeard
<1>4. ASSUME NEW c \in Conns, RemoveConnection(c)
      PROVE  \A d \in Conns : conn'[d].mem = "freed" => conn[d].mem = "freed" \/ d = c
  BY <1>4 DEF RemoveConnection, ServerInv, Shapes
<1>5. server \in {"header", "static", "setup", "dynamic"} \/ (server = "out" /\ conn[rev.conn].mem = "live")
        => rev.conn \in Conns /\ heard[rev.conn] > 0
  BY TreatedIsThere DEF ServerInv, Requested
<1>6. ASSUME NEW c \in Conns, Accept(c) PROVE Heeded'
  <2>1. UNCHANGED << said, heard, rev >> /\ server = "wait" /\ server' \in {"wait", "exited"}
    BY <1>6 DEF Accept
  <2>2. client' = client \/ client' = [client EXCEPT ![c] = "open"]
    BY <1>6 DEF Accept
  <2>3. \A d \in Conns : conn'[d].mem = "freed" => conn[d].mem = "freed"
    <3>1. conn \in [Conns -> Connections]
      BY DEF ServerInv, Shapes
    <3>2. CASE conn' = conn
      BY <3>2
    <3>3. ASSUME NEW junk, conn' = [conn EXCEPT ![c] = [NoConn EXCEPT !.mem = "live", !.file = junk]]
          PROVE  \A d \in Conns : conn'[d].mem = "freed" => conn[d].mem = "freed"
      BY <3>1, <3>3 DEF NoConn
    <3> QED BY <1>6, <3>2, <3>3 DEF Accept
  <2> QED BY <1>1, <2>1, <2>2, <2>3 DEF Heeded, AllHeard
<1>7. ASSUME NEW c \in Conns, WaitEvent(c) PROVE Heeded'
  <2>1. UNCHANGED << client, said, heard, conn >> /\ rev'.conn = c
    BY <1>7 DEF WaitEvent, clientVars
  <2>2. server' = "in" => Readable(c)
    BY <1>7 DEF WaitEvent
  <2> QED BY <2>1, <2>2 DEF Heeded, AllHeard, Readable
<1>8. CASE Start \/ WaitFails
  BY <1>3, <1>8 DEF Start, WaitFails, clientVars
<1>9. CASE ReceiveFails
  <2>1. /\ rev.conn \in Conns /\ server = "in" /\ heard[rev.conn] = said[rev.conn]
        /\ RemoveConnection(rev.conn) /\ server' # "in" /\ UNCHANGED << client, said, heard >>
    BY <1>9, TreatedIsThere DEF ReceiveFails, AfterIn, clientVars, Heeded
  <2>2. heard[rev.conn] > 0
    BY <1>1, <2>1 DEF Heeded
  <2> QED BY <1>3, <1>4, <2>1, <2>2
<1>10. CASE HandleRequest
  <2>1. /\ rev.conn \in Conns /\ conn[rev.conn].mem = "live" /\ heard[rev.conn] < said[rev.conn]
        /\ heard' = [heard EXCEPT ![rev.conn] = said[rev.conn]]
        /\ server' # "in" /\ UNCHANGED << client, said >>
    BY <1>10, TreatedIsThere DEF HandleRequest, AfterIn, clientVars
  <2>2. PICK path \in PathsIn(Inbox(rev.conn)) :
          IF path = NoPath THEN KeepDocument(rev.conn) ELSE OpenDocument(rev.conn, path)
    BY <1>10 DEF HandleRequest
  <2>3. \A d \in Conns : conn'[d].mem = "freed" => conn[d].mem = "freed"
    <3> DEFINE c == rev.conn
    <3> HIDE DEF c
    <3>1. c \in Conns /\ conn[c].mem = "live" /\ heard[c] < said[c]
          /\ path \in PathsIn(Inbox(c))
          /\ (IF path = NoPath THEN KeepDocument(c) ELSE OpenDocument(c, path))
      BY <2>1, <2>2 DEF c
    <3>2. (\A d \in Conns \ {c} : conn'[d] = conn[d]) /\ conn'[c].mem = "live"
      BY <3>1, DocumentSet
    <3> QED BY <3>2
  <2>4. \A d \in Conns : heard[d] > 0 => heard'[d] > 0
    BY <1>1, <2>1
  <2> QED BY <2>1, <2>3, <2>4 DEF Heeded, AllHeard
<1>11. CASE SendMessage
  <2>1. server = "out" /\ server' # "in" /\ UNCHANGED << client, said, heard >>
    BY <1>11 DEF SendMessage, clientVars
  <2>2. conn' = conn \/ (conn[rev.conn].mem = "live" /\ RemoveConnection(rev.conn))
    BY <1>11 DEF SendMessage
  <2> QED BY <1>3, <1>4, <1>5, <2>1, <2>2
<1>12. CASE SendHeader \/ SendStatic \/ SendDynamic
  <2>1. server \in {"header", "static", "dynamic"} /\ server' # "in" /\ UNCHANGED << client, said, heard >>
    BY <1>12 DEF SendHeader, SendStatic, SendDynamic, WriteFails, clientVars
  <2>2. \/ RemoveConnection(rev.conn) \/ conn' = conn
        \/ \E n : conn' = [conn EXCEPT ![rev.conn].done = @ + n]
    BY <1>12 DEF SendHeader, SendStatic, SendDynamic
  <2>3. ASSUME NEW n, conn' = [conn EXCEPT ![rev.conn].done = @ + n]
        PROVE  \A d \in Conns : conn'[d].mem = "freed" => conn[d].mem = "freed"
    <3>1. conn \in [Conns -> Connections] /\ rev.conn \in Conns
      BY <1>5, <2>1 DEF ServerInv, Shapes
    <3> QED BY <2>3, <3>1 DEF Connections
  <2> QED BY <1>3, <1>4, <1>5, <2>1, <2>2, <2>3
<1>13. CASE HeaderDone
  <2>1. server = "header" /\ server' # "in" /\ UNCHANGED << client, said, heard >>
    BY <1>13 DEF HeaderDone, Sends, clientVars
  <2> QED BY <1>3, <1>5, <1>13, <2>1 DEF HeaderDone, ServerInv, Shapes, Connections
<1>14. CASE IocbSetup
  <2>1. server' # "in" /\ UNCHANGED << client, said, heard, conn >>
    BY <1>14 DEF IocbSetup, clientVars
  <2> QED BY <1>3, <2>1
<1>15. CASE FileSent
  <2>1. /\ server \in {"static", "dynamic"} /\ server' # "in" /\ RemoveConnection(rev.conn)
        /\ UNCHANGED << client, said, heard >>
    BY <1>15 DEF FileSent, clientVars
  <2> QED BY <1>3, <1>4, <1>5, <2>1
<1>16. CASE UNCHANGED vars
  BY <1>16 DEF vars, clientVars, Heeded, AllHeard
<1> QED BY <1>2, <1>6, <1>7, <1>8, <1>9, <1>10, <1>11, <1>12, <1>13, <1>14, <1>15, <1>16
        DEF Next, Handler

LEMMA PatientHeard == Patient => (Spec => []AllHeard)
<1> SUFFICES ASSUME Patient PROVE Spec => []AllHeard
  OBVIOUS
<1>1. Init => ServerInv /\ Heeded
  BY InitiallySound, NoConnIsOne DEF Init, Heeded, AllHeard
<1>2. ServerInv /\ Heeded /\ [Next]_vars => (ServerInv /\ Heeded)'
  BY StepKeeps, HeededKept
<1>3. Heeded => AllHeard
  BY DEF Heeded
<1> QED BY <1>1, <1>2, <1>3, PTL DEF Spec

(* PatientClientsAreHeard: when no client resets its connection or closes  *)
(* it before asking, something was received on every connection that was   *)
(* removed, and connection_remove() closes no number that malloc() left in *)
(* conn->file (receive_message, connection_remove, line 130).              *)
THEOREM PatientClientsAreHeard ==
    ASSUME Patient
    PROVE  Spec => []AllHeard
  BY PatientHeard

(* PatientClientsAreSafe: and when moreover their first segments hold a    *)
(* path, none is used without a path either: the condition of RightAnswer, *)
(* OwnFile, WatchedIsLive and DiesOfClientsOnly always holds.              *)
THEOREM PatientClientsAreSafe ==
    ASSUME Patient, PathsBegin
    PROVE  Spec => [](AllHeard /\ ~Blind)
<1>1. Init => ~Blind
  BY DEF Init, Blind
<1>2. ServerInv /\ Fate /\ ~Blind /\ [Next]_vars => ~Blind'
  BY NeverBlind
<1>3. Spec => []~Blind
  BY <1>1, <1>2, FateInvariant, PTL DEF Spec
<1> QED BY <1>3, PatientHeard, PTL

=============================================================================
