--------------------------- MODULE AsyncWebServer ---------------------------
(***************************************************************************)
(* The web server (aws.c, with w_epoll.h and sock_util.c): one thread that *)
(* waits on epoll for one event at a time and runs a handler to its end.   *)
(*                                                                         *)
(* Clients, sockets, epoll and the descriptor table are modelled from what *)
(* the handlers observe of them.  A client sends requests in segments: a   *)
(* whole one, with or without a body that it announces, the head of one, or*)
(* the tail that follows a head.  recv() takes all that wait.  A response  *)
(* is a sequence of units: HeaderLen of header, then those of the file.    *)
(***************************************************************************)
EXTENDS Integers, Sequences, FiniteSetsExt, SequencesExt

CONSTANTS
    Conns,       \* clients; each connects once
    Docs,        \* documents
    Scripts,     \* for each client, the sequences of segments it may send
    Heads,       \* what the parser may take the head of a request for
    Overlays,    \* what later paths may make of one they are copied over
    Kind,        \* of a document: "static", "dynamic", "other" or "missing"
    Size,        \* its size in units
    Block,       \* BUFSIZ, in units
    HeaderLen,   \* length of a header, in units
    SockBuf,     \* units a socket holds for a client that does not read
    MaxFd,       \* descriptors 0 .. MaxFd - 1, the standard ones as one
    Habits,      \* what each client may do: a subset of {"halfclose", "reset", "mute"}
    Leftovers,   \* what malloc() may leave in conn->file
    None, Junk

(* The segment holds no path.                                              *)
NoPath == None
Whole(doc)  == << "whole", doc >>
Posted(doc) == << "posted", doc >>
HeadOf(doc) == << "head", doc >>
TailOf(doc) == << "tail", doc >>
Segments    == UNION {{Whole(doc), Posted(doc), HeadOf(doc), TailOf(doc)} : doc \in Docs}

ASSUME SizesAssumption ==
    /\ Kind \in [Docs -> {"static", "dynamic", "other", "missing"}]
    /\ Size \in [Docs -> Nat]
    /\ Heads \in [Docs -> SUBSET (Docs \cup {NoPath})]
    /\ Overlays \in [Docs -> SUBSET Docs]
    /\ Leftovers \subseteq Int
    /\ {Block, HeaderLen, SockBuf} \subseteq Nat \ {0} /\ MaxFd \in Nat /\ MaxFd > 2

(* The tail of a request follows its head, and nothing else does.          *)
ASSUME ScriptsAssumption ==
    \A c \in Conns : \A s \in Scripts[c] :
        /\ s \in Seq(Segments) /\ s # << >>
        /\ \A k \in DOMAIN s : \E doc \in Docs :
              \/ s[k] \in {Whole(doc), Posted(doc)}
              \/ s[k] = HeadOf(doc) /\ k < Len(s) /\ s[k + 1] = TailOf(doc)
              \/ s[k] = TailOf(doc) /\ k > 1 /\ s[k - 1] = HeadOf(doc)

VARIABLES
    client,    \* what each client does with its end of the connection
    script,    \* the segments it means to send
    said,      \* how many it has sent
    heard,     \* how many of them recv() has taken
    sent,      \* the units the server put into the socket
    taken,     \* how many of them the client has read
    conn,      \* struct connection of each, with the document path named last
    interest,  \* the events epoll watches its socket for
    fds,       \* the descriptor table
    rev,       \* the event the server treats
    server     \* where the server is

clientVars == << client, script, said, taken >>
vars == << clientVars, heard, sent, conn, interest, fds, rev, server >>

Fds      == 0 .. MaxFd - 1
NotFound == -1
Epoll    == 1   \* the epoll descriptor, created before
Listener == 2   \* the listening socket
Std      == << "server" >>
Free     == << "free" >>
FileOf(c, doc) == << "file", c, doc >>
SockOf(c)  == << "socket", c >>
EventOf(c) == << "event", c >>

NoEvent == [conn |-> None, out |-> FALSE]

(* A structure that was never allocated.                                   *)
NoConn == [mem |-> "none", state |-> "none", doc |-> None, file |-> NotFound, kind |-> "none",
           size |-> 0, len |-> 0, hdr |-> FALSE, done |-> 0]

Init ==
    /\ client = [c \in Conns |-> "none"]
    /\ script \in [Conns -> UNION {Scripts[c] : c \in Conns}]
    /\ \A c \in Conns : script[c] \in Scripts[c]
    /\ said = [c \in Conns |-> 0]
    /\ heard = [c \in Conns |-> 0]
    /\ sent = [c \in Conns |-> << >>]
    /\ taken = [c \in Conns |-> 0]
    /\ conn = [c \in Conns |-> NoConn]
    /\ interest = [c \in Conns |-> {}]
    /\ fds = [fd \in Fds |-> IF fd = 0 THEN Std ELSE Free]
    /\ rev = NoEvent
    /\ server = "start"

Dead == server \in {"exited", "crashed"}

-----------------------------------------------------------------------------
(* Clients                                                                 *)

(* What a client does once the server has removed its connection, or ended,*)
(* reaches nobody, and is left out.                                        *)
Reached(c) == conn[c].mem # "freed" /\ ~Dead

Connect(c) ==
    /\ client[c] = "none" /\ server # "start" /\ ~Dead
    /\ client' = [client EXCEPT ![c] = "connecting"]
    /\ UNCHANGED << script, said, heard, sent, taken, conn, interest, fds, rev, server >>

(* It sends on without waiting for an answer, or stops anywhere.           *)
Request(c) ==
    /\ Reached(c) /\ client[c] = "open" /\ said[c] < Len(script[c])
    /\ said' = [said EXCEPT ![c] = @ + 1]
    /\ UNCHANGED << client, script, heard, sent, taken, conn, interest, fds, rev, server >>

Read(c) ==
    /\ Reached(c)
    /\ client[c] \in {"open", "halfclosed"} /\ taken[c] < Len(sent[c])
    /\ \E n \in taken[c] + 1 .. Len(sent[c]) : taken' = [taken EXCEPT ![c] = n]
    /\ UNCHANGED << client, script, said, heard, sent, conn, interest, fds, rev, server >>

(* The client will send no more, but goes on reading: after its request,   *)
(* or without one.                                                         *)
HalfClose(c) ==
    /\ Reached(c) /\ client[c] = "open"
    /\ IF said[c] = 0 THEN "mute" \in Habits[c]
                      ELSE "halfclose" \in Habits[c] \/ (sent[c] # << >> /\ taken[c] = Len(sent[c]))
    /\ client' = [client EXCEPT ![c] = "halfclosed"]
    /\ UNCHANGED << script, said, heard, sent, taken, conn, interest, fds, rev, server >>

Reset(c) ==
    /\ "reset" \in Habits[c] /\ Reached(c) /\ client[c] \in {"open", "halfclosed"}
    /\ said[c] > 0 \/ "mute" \in Habits[c]
    /\ client' = [client EXCEPT ![c] = "reset"]
    /\ UNCHANGED << script, said, heard, sent, taken, conn, interest, fds, rev, server >>

ClientStep(c) == Connect(c) \/ Request(c) \/ Read(c) \/ HalfClose(c) \/ Reset(c)

-----------------------------------------------------------------------------
(* The kernel's answers                                                    *)

Inbox(c)    == SubSeq(script[c], heard[c] + 1, said[c])
Space(c)    == SockBuf - (Len(sent[c]) - taken[c])
Readable(c) == heard[c] < said[c] \/ client[c] \in {"halfclosed", "reset"}
Writable(c) == Space(c) > 0 \/ client[c] = "reset"
FreeFds     == {fd \in Fds : fds[fd] = Free}
LowestFree  == Min(FreeFds)
HoldsFile(fd) == fd \in Fds /\ Head(fds[fd]) = "file"

(* What epoll watches after w_epoll_add_ptr_in() and the calls like it.    *)
AddPtrIn(c)       == [interest EXCEPT ![c] = {"in"}]
UpdatePtrIn(c)    == [interest EXCEPT ![c] = {"in"}]
UpdatePtrInout(c) == [interest EXCEPT ![c] = {"in", "out"}]
RemovePtr(c)      == [interest EXCEPT ![c] = {}]

(* w_epoll_wait_infinite(): the event of one socket is returned; or        *)
(* connection_remove() has closed the epoll descriptor, and it fails.      *)
WaitEvent(c) ==
    /\ server = "wait" /\ fds[Epoll] = Std
    /\ LET in  == "in" \in interest[c] /\ Readable(c)
           out == "out" \in interest[c] /\ Writable(c)
       IN /\ in \/ out
          /\ rev' = [conn |-> c, out |-> out]
          /\ server' = IF in THEN "in" ELSE "out"
    /\ UNCHANGED << clientVars, heard, sent, conn, interest, fds >>

WaitFails ==
    /\ server = "wait" /\ fds[Epoll] # Std
    /\ server' = "exited"
    /\ UNCHANGED << clientVars, heard, sent, conn, interest, fds, rev >>

-----------------------------------------------------------------------------
(* main() before the loop, handle_new_connection(), connection_remove()    *)

(* tcp_create_listener() and the epoll descriptor: any call may fail, and  *)
(* then the program ends.                                                  *)
Start ==
    /\ server = "start"
    /\ \/ server' = "exited" /\ fds' = fds
       \/ /\ server' = "wait"
          /\ fds' = [fds EXCEPT ![Epoll] = Std, ![Listener] = Std]
    /\ UNCHANGED << clientVars, heard, sent, conn, interest, rev >>

(* accept() takes the lowest free descriptor; without one, DIE().  Nobody  *)
(* calls it any more when the listening socket was closed.                 *)
Accept(c) ==
    /\ server = "wait" /\ fds[Epoll] = Std /\ fds[Listener] = Std /\ client[c] = "connecting"
    /\ IF FreeFds = {}
       THEN server' = "exited" /\ UNCHANGED << client, conn, interest, fds >>
       ELSE /\ \E junk \in Leftovers :
                   conn' = [conn EXCEPT ![c] = [NoConn EXCEPT !.mem = "live", !.file = junk]]
            /\ fds' = [fds EXCEPT ![LowestFree] = SockOf(c)]
            /\ interest' = AddPtrIn(c)
            /\ client' = [client EXCEPT ![c] = "open"]
            /\ server' = server
    /\ UNCHANGED << script, said, heard, sent, taken, rev >>

(* Mutant: the file is not closed.                                         *)
RemoveUnclosed(c) ==
    /\ interest' = [interest EXCEPT ![c] = {}]
    /\ conn' = [conn EXCEPT ![c].mem = "freed", ![c].state = "closed"]
    /\ fds' = fds

(* Mutant: the socket stays in the list of interest.                       *)
RemoveStillWatched(c) ==
    /\ interest' = interest
    /\ conn' = [conn EXCEPT ![c].mem = "freed", ![c].state = "closed"]
    /\ fds' = IF conn[c].file \in Fds THEN [fds EXCEPT ![conn[c].file] = Free] ELSE fds

(* w_epoll_remove_ptr() and connection_remove(): the socket is shut down   *)
(* and stays in the table.  epoll forgets a socket that is closed, which   *)
(* that of another connection is when conn->file has its number.  close()  *)
(* of a number that is no descriptor has no effect.                        *)
RemoveConnection(c) ==
    LET file == conn[c].file  closes == file # NotFound /\ file \in Fds IN
    /\ interest' = [d \in Conns |-> IF closes /\ fds[file] = SockOf(d) THEN {}
                                    ELSE RemovePtr(c)[d]]
    /\ fds' = IF closes THEN [fds EXCEPT ![file] = Free] ELSE fds
    /\ conn' = [conn EXCEPT ![c] = [NoConn EXCEPT !.mem = "freed", !.state = "closed",
                                                  !.doc = conn[c].doc, !.file = file]]

-----------------------------------------------------------------------------
(* handle_client_request()                                                 *)

(* rev is declared in the body of the loop.                                *)
LoopsOn == rev' = IF server' = "wait" THEN NoEvent ELSE rev

AfterIn == IF rev.out THEN "out" ELSE "wait"

(* receive_message() finds the connection closed or broken.                *)
ReceiveFails ==
    LET c == rev.conn IN
    /\ server = "in"
    /\ client[c] = "reset" \/ heard[c] = said[c]
    /\ RemoveConnection(c)
    /\ server' = AfterIn
    /\ LoopsOn /\ UNCHANGED << clientVars, heard, sent >>

(* What a new parser leaves in path, of the segments of one recv().  It    *)
(* refuses the tail of a request.  Behind a request it reads on only if a  *)
(* body was announced (without, all that follows is taken for one): then   *)
(* the next path is copied over the first, and what is left depends on     *)
(* both.                                                                   *)
PathsIn(segments) ==
    LET doc == segments[1][2] IN
    CASE segments[1] = Whole(doc)  -> {doc}
      [] segments[1] = Posted(doc) -> {doc} \cup (IF Len(segments) > 1 THEN Overlays[doc] ELSE {})
      [] segments[1] = HeadOf(doc) -> IF Len(segments) > 1 THEN {doc} ELSE Heads[doc]
      [] segments[1] = TailOf(doc) -> {NoPath}

(* set_connection_path_and_file(): open() and determine_file_type().       *)
Opens(doc) == Kind[doc] # "missing" /\ FreeFds # {}

OpenDocument(c, doc) ==
    /\ conn' = [conn EXCEPT ![c] = [@ EXCEPT !.state = "received", !.len = HeaderLen,
                     !.doc = doc, !.kind = Kind[doc],
                     !.file = IF Opens(doc) THEN LowestFree ELSE NotFound,
                     !.size = IF Opens(doc) THEN Size[doc] ELSE 0]]
    /\ fds' = IF Opens(doc) THEN [fds EXCEPT ![LowestFree] = FileOf(c, doc)] ELSE fds

(* Without a path it returns at once, and the connection keeps the file it *)
(* has, or what malloc() left there.  lseek() fails on anything but files. *)
SizesAt(fd) == CASE fd = NotFound -> {0}
                 [] HoldsFile(fd) -> {Size[fds[fd][3]]}
                 [] OTHER         -> {-1, 0}
KindsLeft(c) == IF conn[c].kind = "none" THEN {"static", "dynamic", "other"} ELSE {conn[c].kind}

KeepDocument(c) ==
    /\ \E size \in SizesAt(conn[c].file), kind \in KindsLeft(c) :
          conn' = [conn EXCEPT ![c] = [@ EXCEPT !.state = "received", !.len = HeaderLen,
                                                !.size = size, !.kind = kind]]
    /\ fds' = fds

(* recv(), the parser, the document, set_connection_send_buffer() and the  *)
(* update to in and out events.                                            *)
HandleRequest ==
    LET c == rev.conn IN
    /\ server = "in" /\ client[c] # "reset" /\ heard[c] < said[c]
    /\ heard' = [heard EXCEPT ![c] = said[c]]
    /\ \E path \in PathsIn(Inbox(c)) :
          IF path = NoPath THEN KeepDocument(c) ELSE OpenDocument(c, path)
    /\ interest' = UpdatePtrInout(c)
    /\ server' = AfterIn
    /\ LoopsOn /\ UNCHANGED << clientVars, sent >>

-----------------------------------------------------------------------------
(* send_message()                                                          *)

(* The structure may be one handle_client_request() has just freed: then   *)
(* its state is read from freed memory, which usually still holds it.      *)
SendMessage ==
    LET c == rev.conn IN
    /\ server = "out"
    /\ \/ /\ conn[c].mem = "freed" /\ server' \in {"wait", "crashed"}
          /\ UNCHANGED << conn, interest, fds >>
       \/ /\ conn[c].mem = "live" /\ client[c] = "reset"
          /\ RemoveConnection(c) /\ server' = "wait"
       \/ /\ conn[c].mem = "live" /\ client[c] # "reset"
          /\ server' = "header"
          /\ UNCHANGED << conn, interest, fds >>
    /\ LoopsOn /\ UNCHANGED << clientVars, heard, sent >>

HeaderUnit(c, i) == << IF conn[c].file # NotFound THEN "200" ELSE "404", i >>

(* Mutant: every send() begins at the start of send_buffer.                *)
HeaderFromStart(c, n) == [i \in 1 .. n |-> HeaderUnit(c, i)]

(* The next n units of send_buffer.                                        *)
HeaderUnits(c, n) == [i \in 1 .. n |-> HeaderUnit(c, conn[c].done + i)]

(* What becomes of the server when a write finds the connection reset: the *)
(* error is returned, or SIGPIPE, which nobody handles, is raised.         *)
WriteFails(goesOn) == {goesOn, "exited"}

(* One send() of the loop.                                                 *)
SendHeader ==
    LET c == rev.conn IN
    /\ server = "header" /\ ~conn[c].hdr /\ conn[c].done < conn[c].len
    /\ \/ /\ client[c] = "reset" \/ Space(c) = 0
          /\ RemoveConnection(c) /\ sent' = sent
          /\ server' \in IF client[c] = "reset" THEN WriteFails("wait") ELSE {"wait"}
       \/ /\ client[c] # "reset"
          /\ \E n \in 1 .. Min({Space(c), conn[c].len - conn[c].done}) :
                /\ sent' = [sent EXCEPT ![c] = @ \o HeaderUnits(c, n)]
                /\ conn' = [conn EXCEPT ![c].done = @ + n]
          /\ UNCHANGED << interest, fds, server >>
    /\ LoopsOn /\ UNCHANGED << clientVars, heard >>

(* Mutant: a file is sent whether there is one or not.                     *)
AlwaysSends(c) == TRUE

(* Whether send_file_by_type() has something to send.                      *)
Sends(c) == conn[c].file # NotFound /\ conn[c].kind \in {"static", "dynamic"}

(* The header is written: send_file_by_type(), or back to in events.       *)
HeaderDone ==
    LET c == rev.conn IN
    /\ server = "header" /\ (conn[c].hdr \/ conn[c].done >= conn[c].len)
    /\ conn' = [conn EXCEPT ![c].hdr = TRUE, ![c].done = 0,
                            ![c].state = IF Sends(c) THEN @ ELSE "sent"]
    /\ interest' = IF Sends(c) THEN interest ELSE UpdatePtrIn(c)
    /\ server' = IF ~Sends(c) THEN "wait"
                 ELSE IF conn[c].kind = "dynamic" THEN "setup" ELSE conn[c].kind
    /\ LoopsOn /\ UNCHANGED << clientVars, heard, sent, fds >>

(* The n units from offset of the file the descriptor refers to, and of    *)
(* memory where there is no file or behind its end.                        *)
FileUnits(c, offset, n) ==
    LET file == conn[c].file IN
    [i \in 1 .. n |-> IF HoldsFile(file) /\ offset + i <= Size[fds[file][3]]
                      THEN << fds[file][3], offset + i >> ELSE Junk]

(* Whether sendfile() or io_submit() may be able to read from a number:    *)
(* never if it is no open descriptor.  From a file they always are.        *)
MayRead(fd) == fd \in Fds /\ fds[fd] # Free

(* One sendfile() of send_static_file(): the socket does not block, and    *)
(* any error is a DIE().                                                   *)
SendStatic ==
    LET c == rev.conn IN
    /\ server = "static" /\ conn[c].done < conn[c].size
    /\ \/ /\ client[c] = "reset" \/ Space(c) = 0 \/ ~HoldsFile(conn[c].file)
          /\ server' = "exited" /\ UNCHANGED << conn, sent >>
       \/ /\ client[c] # "reset" /\ MayRead(conn[c].file)
          /\ \E n \in 1 .. Min({Space(c), conn[c].size - conn[c].done}) :
                /\ sent' = [sent EXCEPT ![c] = @ \o FileUnits(c, conn[c].done, n)]
                /\ conn' = [conn EXCEPT ![c].done = @ + n]
          /\ server' = server
    /\ LoopsOn /\ UNCHANGED << clientVars, heard, interest, fds >>

ReadSize(c) == Min({conn[c].size, Block})

(* Mutant: the last block is not prepared.                                 *)
OneBlockLess(c) == conn[c].size \div ReadSize(c) - 1

(* The blocks iocb_setup() prepares.                                       *)
Blocks(c) == conn[c].size \div ReadSize(c)

(* iocb_setup() opens an eventfd, which nobody closes, and divides by zero *)
(* for an empty file; malloc() has no memory for a size below zero.  Then  *)
(* io_setup() may be refused: the contexts of all processes are limited.   *)
IocbSetup ==
    LET c == rev.conn IN
    /\ server = "setup"
    /\ server' \in IF FreeFds = {} THEN {"exited"}
                   ELSE IF conn[c].size <= 0 THEN {"crashed"} ELSE {"dynamic", "exited"}
    /\ fds' = IF FreeFds = {} THEN fds ELSE [fds EXCEPT ![Min(FreeFds)] = EventOf(c)]
    /\ LoopsOn /\ UNCHANGED << clientVars, heard, sent, conn, interest >>

(* One round of send_dynamic_file(): a block is read and written, and what *)
(* does not fit into the socket is lost.  The pointers of a block that was *)
(* not prepared are whatever malloc() returned.  A read or a write that    *)
(* cannot be submitted is a DIE().                                         *)
SendDynamic ==
    LET c == rev.conn
        n == IF client[c] = "reset" THEN 0 ELSE Min({Space(c), ReadSize(c)})
    IN
    /\ server = "dynamic" /\ conn[c].done < conn[c].size
    /\ \/ /\ conn[c].done \div ReadSize(c) >= Blocks(c)
          /\ server' = "crashed" /\ UNCHANGED << conn, sent >>
       \/ /\ conn[c].done \div ReadSize(c) < Blocks(c) /\ ~HoldsFile(conn[c].file)
          /\ server' = "exited" /\ UNCHANGED << conn, sent >>
       \/ /\ conn[c].done \div ReadSize(c) < Blocks(c) /\ MayRead(conn[c].file)
          /\ sent' = [sent EXCEPT ![c] = @ \o FileUnits(c, conn[c].done, n)]
          /\ conn' = [conn EXCEPT ![c].done = @ + ReadSize(c)]
          /\ server' \in IF client[c] = "reset" THEN WriteFails("dynamic") ELSE {"dynamic"}
    /\ LoopsOn /\ UNCHANGED << clientVars, heard, interest, fds >>

(* The file is sent: the connection is removed.                            *)
FileSent ==
    LET c == rev.conn IN
    /\ server \in {"static", "dynamic"} /\ conn[c].done >= conn[c].size
    /\ RemoveConnection(c)
    /\ server' = "wait"
    /\ LoopsOn /\ UNCHANGED << clientVars, heard, sent >>

-----------------------------------------------------------------------------
Handler == WaitFails \/ ReceiveFails \/ HandleRequest \/ SendMessage \/ SendHeader
           \/ HeaderDone \/ SendStatic \/ IocbSetup \/ SendDynamic \/ FileSent

Next ==
    \/ \E c \in Conns : ClientStep(c) \/ Accept(c) \/ WaitEvent(c)
    \/ Start \/ Handler

(* Handlers never block; epoll_wait() takes the ready descriptors in turn. *)
Fairness ==
    /\ WF_vars(Start) /\ WF_vars(Handler)
    /\ \A c \in Conns : SF_vars(Accept(c)) /\ SF_vars(WaitEvent(c))

Spec == Init /\ [][Next]_vars /\ Fairness

-----------------------------------------------------------------------------
(* Properties                                                              *)

Header(doc) ==
    [i \in 1 .. HeaderLen |-> << IF Kind[doc] = "missing" THEN "404" ELSE "200", i >>]
Body(doc) ==
    IF Kind[doc] \in {"static", "dynamic"} THEN [i \in 1 .. Size[doc] |-> << doc, i >>] ELSE << >>

(* The documents a segment may name, as the parser reads it.               *)
Named(segment) ==
    LET doc == segment[2] IN
    CASE segment = Whole(doc)  -> {doc}
      [] segment = Posted(doc) -> {doc} \cup Overlays[doc]
      [] segment = HeadOf(doc) -> {doc} \cup (Heads[doc] \ {NoPath})
      [] segment = TailOf(doc) -> {}
NamedBy(c) == UNION {Named(script[c][k]) : k \in 1 .. said[c]}

(* What a connection may carry: one header, and one file, of the same or a *)
(* later request.                                                          *)
Answers(c) ==
    UNION {{Header(a) \o Body(b) : a \in Named(script[c][i]),
                                   b \in UNION {Named(script[c][j]) : j \in i .. said[c]}}
           : i \in 1 .. said[c]}

(* A socket and an eventfd for everybody, and a file for every segment.    *)
Needs(c) == {SockOf(c), EventOf(c)}
                \cup UNION {{<< "file", c, k >> : k \in DOMAIN s} : s \in Scripts[c]}
EnoughFds ==
    LET needs == UNION {Needs(c) : c \in Conns}
    IN  IsFiniteSet(needs) /\ MaxFd >= 3 + Cardinality(needs)

(* The first segment of a client ended before the path: conn->file and     *)
(* conn->file_type have no value.                                          *)
Blind == \E c \in Conns : heard[c] > 0 /\ conn[c].doc = NoPath

(* Something was received on every connection that was removed: none left  *)
(* or was reset before the server had read its first segment, so that no   *)
(* conn->file was closed without a value.                                  *)
AllHeard == \A c \in Conns : conn[c].mem = "freed" => heard[c] > 0

(* The documents send_dynamic_file() can send: not empty, a part of a block*)
(* or whole blocks, and small enough for a client that does not read.      *)
Ragged(doc) ==
    Kind[doc] = "dynamic" /\ (Size[doc] = 0 \/ (Size[doc] > Block /\ Size[doc] % Block # 0))
TooLong(doc) == HeaderLen + Len(Body(doc)) > SockBuf
Servable(doc) == Kind[doc] = "dynamic" => ~Ragged(doc) /\ ~TooLong(doc)

TypeOK ==
    /\ client \in [Conns -> {"none", "connecting", "open", "halfclosed", "reset"}]
    /\ \A c \in Conns : said[c] \in 0 .. Len(script[c]) /\ heard[c] \in 0 .. said[c]
    /\ \A c \in Conns : taken[c] \in 0 .. Len(sent[c]) /\ Len(sent[c]) - taken[c] <= SockBuf
    /\ \A c \in Conns : /\ conn[c].mem \in {"none", "live", "freed"}
                        /\ conn[c].file \in Fds \cup {NotFound} \cup Leftovers
    /\ interest \in [Conns -> SUBSET {"in", "out"}]
    /\ \A fd \in Fds : fds[fd] \in {Std, Free} \cup
          UNION {{SockOf(c), EventOf(c)} \cup {FileOf(c, doc) : doc \in Docs} : c \in Conns}
    /\ server \in {"start", "wait", "in", "out", "header", "static", "setup", "dynamic", "exited", "crashed"}

(* RightAnswer: what is in a socket is the beginning of an answer to its   *)
(* own client: the header of one request, then the file of that request or *)
(* of a later one from its first byte, without gaps, whatever the other    *)
(* clients do between two sends and however the requests are cut           *)
(* (send_message(), for the documents send_dynamic_file() can send).       *)
RightAnswer ==
    EnoughFds /\ AllHeard /\ ~Blind => \A c \in Conns :
        sent[c] # << >> /\ (\A doc \in NamedBy(c) : Servable(doc))
            => \E answer \in Answers(c) : IsPrefix(sent[c], answer)

(* WatchedIsLive: epoll hands the pointer it was given back to the loop:   *)
(* no freed structure is watched, and no connection is forgotten while it  *)
(* lives, since nobody else's connection_remove() closes its socket.       *)
WatchedIsLive == AllHeard /\ ~Blind => \A c \in Conns : interest[c] # {} <=> conn[c].mem = "live"

(* OwnFile: as long as no connection was removed before the server had read*)
(* from it or used without a path, the file a connection sends is the one  *)
(* of the last path it was given, open until the connection is removed and *)
(* closed with it; only a client that sent several segments leaves         *)
(* descriptors behind (set_connection_path_and_file, line 431;             *)
(* connection_remove, line 130).                                           *)
OwnFile ==
    AllHeard /\ ~Blind => \A c \in Conns :
        LET file  == conn[c].file
            files == {fd \in Fds : HoldsFile(fd) /\ fds[fd][2] = c}
        IN  /\ conn[c].state \in {"received", "sent"} /\ file # NotFound
                    => fds[file] = FileOf(c, conn[c].doc)
            /\ Cardinality(files) <= heard[c]
            /\ heard[c] = 1 => files \subseteq (IF conn[c].mem = "live" THEN {file} ELSE {})

(* DiesOfClientsOnly: once it listens, and with descriptors for everybody, *)
(* the server ends only when a client resets its connection, gets a static *)
(* file larger than its socket holds (the DIE() of send_static_file), asks *)
(* for a dynamic one that is no number of whole blocks (iocb_setup), or for*)
(* which io_setup() has no context left, leaves before it was answered     *)
(* (send_message() on the structure that was just freed), or left or was   *)
(* used before it had given a path (conn->file).                           *)
DiesOfClientsOnly ==
    Dead /\ EnoughFds /\ AllHeard /\ ~Blind /\ fds[Epoll] = Std => \E c \in Conns :
        \/ client[c] = "reset"
        \/ server = "exited" /\ \E doc \in NamedBy(c) : Kind[doc] = "dynamic"
        \/ \E doc \in NamedBy(c) : TooLong(doc) \/ Ragged(doc)
        \/ client[c] = "halfclosed" /\ ("halfclose" \in Habits[c] \/ said[c] > 1)

(* Answered: the client that asks and stays gets a whole answer, and a     *)
(* connection that stays open owes nobody a file, as long as the server    *)
(* runs (main loop, lines 502-529).  The answer is to what was read as the *)
(* request: a cut one may be answered as another.                          *)
GotAnswer(c) ==
    /\ sent[c] \in Answers(c)
    /\ conn[c].mem = "freed" \/ (heard[c] = said[c] /\ Body(conn[c].doc) = << >>)

Answered ==
    \A c \in Conns :
        (said[c] > 0 /\ client[c] = "open" /\ EnoughFds)
            ~> (GotAnswer(c) \/ Dead \/ ~AllHeard \/ Blind \/ client[c] # "open"
                  \/ \E doc \in NamedBy(c) : ~Servable(doc))

-----------------------------------------------------------------------------
(* What the documentation says, and the code does not do                   *)

(* RequestAnswered: README.md:73 answers a request that was received with  *)
(* one of the two headers: no connection with a request is removed before  *)
(* anything was sent while its client is reading.                          *)
RequestAnswered ==
    [][ \A c \in Conns :
          conn[c].state = "received" /\ conn'[c].mem = "freed" /\ client[c] # "reset"
             => sent[c] # << >> ]_vars

(* FoundIsSaid: README.md:73 sends HTTP_OK_MSG when the path determines a  *)
(* valid file: no content of a file follows HTTP_NOT_FOUND_MSG alone.      *)
FoundIsSaid ==
    \A c \in Conns : (\E u \in ToSet(sent[c]) : u # Junk /\ u[1] \in Docs)
                         => << "200", HeaderLen >> \in ToSet(sent[c])
=============================================================================
