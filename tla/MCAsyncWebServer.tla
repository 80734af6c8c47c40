-------------------------- MODULE MCAsyncWebServer --------------------------
(* Small instances of the web server for TLC.                              *)
EXTENDS AsyncWebServer

CONSTANTS c1, c2

(* "blocks" is two blocks, "ragged" one and a half; "large" does not fit   *)
(* into a socket unless its client reads.                                  *)
FiveDocs == {"blocks", "ragged", "large", "plain", "absent"}
DocKinds == [d \in FiveDocs |-> CASE d \in {"blocks", "ragged"} -> "dynamic"
                                  [] d = "large"  -> "static"
                                  [] d = "plain"  -> "other"
                                  [] d = "absent" -> "missing"]
DocSizes == [d \in FiveDocs |-> CASE d = "blocks" -> 4
                                  [] d = "ragged" -> 3
                                  [] d = "large"  -> 5
                                  [] d = "plain"  -> 1
                                  [] d = "absent" -> 0]

(* The head of a request is taken for one of a document that is not there, *)
(* for the whole path, or, of "ragged", holds no path yet.                 *)
HeadsRead == [d \in FiveDocs |-> IF d = "ragged" THEN {None} ELSE {"absent", d}]

(* A path copied over that of "plain" names "blocks" or nothing.           *)
Overlaid == [d \in FiveDocs |-> IF d = "plain" THEN {"blocks", "absent"} ELSE {}]

(* conn->file may name the epoll descriptor, the socket of the first client*)
(* or, with both connected, the first file that is opened.                 *)
Garbage == {1, 3, 5}

(* One client asks again, or in two segments, and may reset its connection;*)
(* the other asks once.                                                    *)
AskAgain == {<< Whole("absent"), Whole("large") >>,
             << Posted("plain"), Whole("blocks") >>,
             << HeadOf("large"), TailOf("large") >>,
             << HeadOf("ragged"), TailOf("ragged") >>}
AskOnce  == {<< Whole("plain") >>}
TwoClients == [c \in {c1, c2} |-> IF c = c1 THEN AskAgain ELSE AskOnce]

OneResets  == [c \in {c1, c2} |-> IF c = c1 THEN {"reset"} ELSE {}]

Steady     == [c \in {c1} |-> {}]
HalfCloses == [c \in {c1} |-> {"halfclose"}]
AloneOnce  == [c \in {c1} |-> {<< Whole(d) >> : d \in FiveDocs}]
AloneTwice == [c \in {c1} |-> {<< Whole(d), Whole(e) >> : d, e \in FiveDocs}]
=============================================================================
