------------------------- MODULE HttpRequestParser --------------------------
(***************************************************************************)
(* The request parser of the web server, http_parser_execute(), on the     *)
(* request line, the end of the headers and the body, and the way aws.c    *)
(* uses it.                                                                *)
(*                                                                         *)
(* The parser is called with one buffer after the other and keeps its      *)
(* state between the calls.  While it reads an element of the request it   *)
(* remembers where the element begins in the buffer (the marks); at the    *)
(* end of the element, and at the end of the buffer, it hands what lies    *)
(* between the mark and the present position to a callback.  An element    *)
(* may thus arrive in pieces.                                              *)
(*                                                                         *)
(* Its user is either "aws", which initialises the parser for each buffer, *)
(* or "resuming", which relies on the parser to go on where it stopped.    *)
(* The peer chooses every byte and where each buffer ends.                 *)
(*                                                                         *)
(* A character stands for its class.  A method with its space, a version   *)
(* and a header line are words, which no buffer boundary cuts.  The        *)
(* callbacks never fail.  A header cannot exceed HTTP_MAX_HEADER_SIZE: the *)
(* server's buffer is smaller.                                             *)
(***************************************************************************)
EXTENDS Integers, Sequences, FiniteSetsExt, SequencesExt

CONSTANTS
    Users,        \* among "aws" and "resuming"
    Normal,       \* the characters of normal_url_char that are tried
    MaxUrl,       \* bound: characters of a URL, and of the URLs in one buffer
    MaxMessages,  \* bound: messages of one parser
    Announced,    \* the header lines that announce a length, with what each
                  \* says; SizeMax itself is not tried
    MaxBodies,    \* bound: messages, the first of a parser, that may
                  \* announce a body
    UrlOfBody,    \* bound: characters of the URL of such a message
    MaxTail,      \* bound: what follows the headers of a message, chunked,
                  \* besides two digits, one parameter and one trailer each
    MaxData,      \* bound: the same, not chunked
    SizeMax,      \* the largest size_t, more than any size that is tried
    NULL          \* a mark that is not set

ASSUME ParserAssumption ==
    /\ Users \subseteq {"aws", "resuming"}
    /\ Normal \subseteq {"a", "1", ".", "-", "/", ":", "*"}
    /\ MaxUrl \in Nat
    /\ MaxMessages \in Nat
    /\ {MaxBodies, UrlOfBody, MaxTail, MaxData, SizeMax} \subseteq Nat
    /\ SizeMax > 17     \* the largest size of two of the digits

VARIABLES
    user,      \* who calls the parser
    state,     \* parser->state
    version,   \* http_major and http_minor
    flags,     \* parser->flags
    length,    \* parser->content_length
    at,        \* "outside" of http_parser_execute, at its "first" byte,
               \* "inside", behind its "last" byte; or it returned before
               \* the end: "refused" or "upgraded"
    since,     \* for each mark the characters read since, or NULL
    given,     \* for each callback all it got of the present message
    body,      \* what on_body has got of the present message
    path,      \* the global of aws.c, up to its last character
    received,  \* history: the URL of the present message as it was sent
    asked,     \* history: version and connection lines of the message
    framing,   \* history: how its headers announce a body
    tail,      \* history: what was sent behind its headers
    begun      \* history: methods read since the parser was initialised

vars == <<user, state, version, flags, length, at, since, given, body, path,
          received, asked, framing, tail, begun>>
message == <<received, asked, framing, tail, begun>>

-----------------------------------------------------------------------------
(* Characters and words.                                                   *)
Letters == {"a"}
Digits  == {"1"}
Chars   == Normal \cup {"?", "#", "SP", "CR", "LF", "CTL"}

ASSUME MarkAssumption == NULL \notin Seq(Chars)

Versions == {"HTTP/1.0", "HTTP/1.1"}
ConnectionLines == {"close", "keep-alive"}
BodyLines == {"chunked", "upgrade"} \cup DOMAIN Announced
HeaderLines == ConnectionLines \cup BodyLines \cup {"other"}

(* The bytes of a chunk's size line, and those of a body.                  *)
HexDigits == {"0", "1"}
ChunkChars == HexDigits \cup {"SEMI", "CR", "LF"}
Data == {"1", "LF"}
HexValue(ch) == IF ch = "0" THEN 0 ELSE 1

ASSUME AnnouncedAssumption ==
    /\ Announced \in [DOMAIN Announced -> 0..(SizeMax - 1)]
    /\ DOMAIN Announced \cap
           (ConnectionLines \cup {"chunked", "upgrade", "other"} \cup ChunkChars) = {}

(* parser->content_length = -1, in a size_t.                               *)
NoLength == SizeMax
NoBody == [chunked |-> FALSE, length |-> NoLength]

Marks == {"url", "path", "query_string", "fragment"}
NoMarks == [f \in Marks |-> NULL]
NothingGiven == [f \in Marks |-> << >>]

-----------------------------------------------------------------------------
(* A rule: in state "from", a character of "on" leads to state "to", after *)
(* setting marks and making callbacks.                                     *)
Rule(from, on, to, marks, calls) ==
    [from |-> from, on |-> on \cap (Chars \cup ChunkChars), to |-> to,
     marks |-> marks, calls |-> calls]

(* The request line may end right behind a URL, which makes it HTTP/0.9.   *)
UrlEnd(from, calls) ==
    { Rule(from, {"SP"}, "s_req_http_start", {}, calls),
      Rule(from, {"CR"}, "s_req_line_almost_done", {}, calls),
      Rule(from, {"LF"}, "s_header_field_start", {}, calls) }

SchemeRules ==
    { Rule("s_req_spaces_before_url", {"SP"}, "s_req_spaces_before_url", {}, {}),
      Rule("s_req_spaces_before_url", {"/", "*"}, "s_req_path", {"url", "path"}, {}),
      Rule("s_req_spaces_before_url", Letters, "s_req_schema", {"url"}, {}),
      Rule("s_req_schema", Letters, "s_req_schema", {}, {}),
      Rule("s_req_schema", {":"}, "s_req_schema_slash", {}, {}),
      Rule("s_req_schema", Digits \cup {"."}, "s_req_host", {}, {}),
      Rule("s_req_schema_slash", {"/"}, "s_req_schema_slash_slash", {}, {}),
      Rule("s_req_schema_slash_slash", {"/"}, "s_req_host", {}, {}) }

HostRules ==
    { Rule("s_req_host", Letters \cup Digits \cup {".", "-"}, "s_req_host", {}, {}),
      Rule("s_req_host", {":"}, "s_req_port", {}, {}),
      Rule("s_req_host", {"/"}, "s_req_path", {"path"}, {}),
      Rule("s_req_host", {"SP"}, "s_req_http_start", {}, {"url"}),
      Rule("s_req_port", Digits, "s_req_port", {}, {}),
      Rule("s_req_port", {"/"}, "s_req_path", {"path"}, {}),
      Rule("s_req_port", {"SP"}, "s_req_http_start", {}, {"url"}) }

PathRules ==
    { Rule("s_req_path", Normal, "s_req_path", {}, {}),
      Rule("s_req_path", {"?"}, "s_req_query_string_start", {}, {"path"}),
      Rule("s_req_path", {"#"}, "s_req_fragment_start", {}, {"path"}) }
    \cup UrlEnd("s_req_path", {"url", "path"})

(* Mistaken: the callback of the query is not made where a fragment begins. *)
QueryUncalled ==
    { Rule("s_req_query_string_start", Normal, "s_req_query_string", {"query_string"}, {}),
      Rule("s_req_query_string_start", {"?"}, "s_req_query_string_start", {}, {}),
      Rule("s_req_query_string_start", {"#"}, "s_req_fragment_start", {}, {}),
      Rule("s_req_query_string", Normal \cup {"?"}, "s_req_query_string", {}, {}),
      Rule("s_req_query_string", {"#"}, "s_req_fragment_start", {}, {}) }
    \cup UrlEnd("s_req_query_string_start", {"url"})
    \cup UrlEnd("s_req_query_string", {"url", "query_string"})

QueryRules ==
    { Rule("s_req_query_string_start", Normal, "s_req_query_string", {"query_string"}, {}),
      Rule("s_req_query_string_start", {"?"}, "s_req_query_string_start", {}, {}),
      Rule("s_req_query_string_start", {"#"}, "s_req_fragment_start", {}, {}),
      Rule("s_req_query_string", Normal \cup {"?"}, "s_req_query_string", {}, {}),
      Rule("s_req_query_string", {"#"}, "s_req_fragment_start", {}, {"query_string"}) }
    \cup UrlEnd("s_req_query_string_start", {"url"})
    \cup UrlEnd("s_req_query_string", {"url", "query_string"})

(* Mistaken: the question mark that begins a fragment sets no mark.        *)
FragmentUnmarked ==
    { Rule("s_req_fragment_start", Normal, "s_req_fragment", {"fragment"}, {}),
      Rule("s_req_fragment_start", {"?"}, "s_req_fragment", {}, {}),
      Rule("s_req_fragment_start", {"#"}, "s_req_fragment_start", {}, {}),
      Rule("s_req_fragment", Normal \cup {"?", "#"}, "s_req_fragment", {}, {}) }
    \cup UrlEnd("s_req_fragment_start", {"url"})
    \cup UrlEnd("s_req_fragment", {"url", "fragment"})

FragmentRules ==
    { Rule("s_req_fragment_start", Normal \cup {"?"}, "s_req_fragment", {"fragment"}, {}),
      Rule("s_req_fragment_start", {"#"}, "s_req_fragment_start", {}, {}),
      Rule("s_req_fragment", Normal \cup {"?", "#"}, "s_req_fragment", {}, {}) }
    \cup UrlEnd("s_req_fragment_start", {"url"})
    \cup UrlEnd("s_req_fragment", {"url", "fragment"})

UrlRules == SchemeRules \cup HostRules \cup PathRules \cup QueryRules \cup FragmentRules

(* The states between the elements of a request.                           *)
LineRules ==
    { Rule("s_start_req", {"CR", "LF"}, "s_start_req", {}, {}),
      Rule("s_req_http_start", {"SP"}, "s_req_http_start", {}, {}),
      Rule("s_req_http_minor", {"CR"}, "s_req_line_almost_done", {}, {}),
      Rule("s_req_http_minor", {"LF"}, "s_header_field_start", {}, {}),
      Rule("s_req_line_almost_done", {"LF"}, "s_header_field_start", {}, {}),
      Rule("s_header_field_start", {"CR"}, "s_headers_almost_done", {}, {}) }

(* The size line of a chunk.                                               *)
SizeRules ==
    { Rule("s_chunk_size_start", HexDigits, "s_chunk_size", {}, {}),
      Rule("s_chunk_size", HexDigits, "s_chunk_size", {}, {}),
      Rule("s_chunk_size", {"CR"}, "s_chunk_size_almost_done", {}, {}),
      Rule("s_chunk_size", {"SEMI"}, "s_chunk_parameters", {}, {}),
      Rule("s_chunk_parameters", ChunkChars \ {"CR"}, "s_chunk_parameters", {}, {}),
      Rule("s_chunk_parameters", {"CR"}, "s_chunk_size_almost_done", {}, {}),
      Rule("s_chunk_size_almost_done", {"LF"}, "s_chunk_data", {}, {}) }

(* The line end behind the data of a chunk.                                *)
DataEndRules ==
    { Rule("s_chunk_data_almost_done", {"CR"}, "s_chunk_data_done", {}, {}),
      Rule("s_chunk_data_done", {"LF"}, "s_chunk_size_start", {}, {}) }

ChunkRules == SizeRules \cup DataEndRules
Rules == UrlRules \cup LineRules

UrlStates == {r.from : r \in UrlRules} \ {"s_req_spaces_before_url"}
ChunkStates == {r.from : r \in ChunkRules}
States == {r.from : r \in Rules} \cup ChunkStates
    \cup {"s_headers_almost_done", "s_body_identity", "s_chunk_data", "s_dead"}

(* Where a letter or a digit would begin or continue a word, only          *)
(* characters that cannot are sent.                                        *)
Offered ==
    CASE state \in {"s_start_req", "s_req_http_minor", "s_header_field_start"} ->
             {"CR", "LF", "CTL"}
      [] state \in ChunkStates -> ChunkChars
      [] state \in {"s_body_identity", "s_chunk_data"} -> {}
      [] OTHER -> Chars

-----------------------------------------------------------------------------
(* Mistaken: the port is forgotten in the condition of url_mark.           *)
UrlMarkNotInPort ==
    {"s_req_path", "s_req_schema", "s_req_schema_slash",
     "s_req_schema_slash_slash", "s_req_query_string_start",
     "s_req_query_string", "s_req_host", "s_req_fragment_start", "s_req_fragment"}

(* The marks set again when http_parser_execute() is entered.              *)
UrlMark ==
    {"s_req_path", "s_req_schema", "s_req_schema_slash",
     "s_req_schema_slash_slash", "s_req_port", "s_req_query_string_start",
     "s_req_query_string", "s_req_host", "s_req_fragment_start", "s_req_fragment"}

MarkedIn(f) ==
    CASE f = "url" -> UrlMark
      [] f = "path" -> {"s_req_path"}
      [] f = "query_string" -> {"s_req_query_string"}
      [] f = "fragment" -> {"s_req_fragment"}

ResumedMarks == [f \in Marks |-> IF state \in MarkedIn(f) THEN << >> ELSE NULL]

(* CALLBACK(f) for f in calls: those whose mark is set are called.         *)
Told(calls) ==
    [f \in Marks |-> IF f \in calls /\ since[f] # NULL
                     THEN given[f] \o since[f] ELSE given[f]]

(* The callback that on_path_cb becomes: settings is initialised by        *)
(* position, and the fourth field is on_url, whatever its comment says.    *)
PathSlot == "url"

(* memcpy() to the beginning of path, without a terminator.                *)
Overlaid(piece, buffer) == piece \o SubSeq(buffer, Len(piece) + 1, Len(buffer))

OnPathCb(calls) ==
    path' = IF user = "aws" /\ PathSlot \in calls /\ since[PathSlot] # NULL
            THEN Overlaid(since[PathSlot], path) ELSE path

(* http_should_keep_alive().                                               *)
ShouldKeepAlive ==
    IF version = "HTTP/1.1" THEN "close" \notin flags ELSE "keep-alive" \in flags

(* NEW_MESSAGE(), when HTTP_PARSER_STRICT is set.                          *)
NewMessage == IF ShouldKeepAlive THEN "s_start_req" ELSE "s_dead"

Reading == at \in {"first", "inside"}

-----------------------------------------------------------------------------
(* http_parser_init() leaves the version alone.                            *)
HttpParserInit ==
    /\ state' = "s_start_req"
    /\ flags' = {}

Init ==
    /\ user \in Users
    /\ state = "s_start_req"
    /\ version = "none"
    /\ flags = {}
    /\ length = 0
    /\ at = "outside"
    /\ since = NoMarks
    /\ given = NothingGiven
    /\ body = << >>
    /\ path = << >>
    /\ received = << >>
    /\ asked = {}
    /\ framing = NoBody
    /\ tail = << >>
    /\ begun = 0

(* What is recorded of a message begins anew.                              *)
NothingSent ==
    /\ body' = << >>
    /\ received' = << >>
    /\ asked' = {}
    /\ framing' = NoBody
    /\ tail' = << >>

(* handle_client_request(): parser and path are reset for each buffer.     *)
HandleClientRequest ==
    /\ user = "aws"
    /\ at \in {"outside", "refused", "upgraded"}
    /\ HttpParserInit
    /\ at' = "first"
    /\ since' = NoMarks
    /\ given' = NothingGiven
    /\ path' = << >>
    /\ NothingSent
    /\ begun' = 0
    /\ UNCHANGED <<user, version, length>>

(* The next buffer of a user that relies on the kept state.                *)
Resume ==
    /\ user = "resuming"
    /\ at = "outside"
    /\ at' = "first"
    /\ since' = ResumedMarks
    /\ UNCHANGED <<user, state, version, flags, length, given, body, path, message>>

(* One character that the present state accepts.                           *)
Step(r, ch) ==
    /\ r.from = state
    /\ ch \in r.on \cap Offered
    /\ state' = r.to
    /\ since' = [f \in Marks |->
                    CASE f \in r.calls -> NULL
                      [] f \in r.marks -> <<ch>>
                      [] OTHER -> IF since[f] = NULL THEN NULL ELSE Append(since[f], ch)]
    /\ given' = Told(r.calls)
    /\ OnPathCb(r.calls)
    /\ version' = IF r \in UrlRules /\ ch \in {"CR", "LF"} THEN "HTTP/0.9" ELSE version
    /\ received' = IF r.to \in UrlStates THEN Append(received, ch) ELSE received
    /\ r.to \in UrlStates => Len(received') + Len(path) <= MaxUrl

Character ==
    /\ Reading
    /\ \E r \in Rules, ch \in Chars : Step(r, ch)
    /\ at' = "inside"
    /\ UNCHANGED <<user, flags, length, body, asked, framing, tail, begun>>

(* Mistaken: a message keeps the flags of the one before.                  *)
FlagsKept == flags

(* parser->flags = 0 at the first character of a message.                  *)
FlagsOfNewMessage == {}

(* A method and the space behind it.  The message begins.                  *)
Method ==
    /\ Reading
    /\ state = "s_start_req"
    /\ begun < MaxMessages
    /\ flags' = FlagsOfNewMessage
    /\ length' = NoLength
    /\ state' = "s_req_spaces_before_url"
    /\ at' = "inside"
    /\ given' = NothingGiven
    /\ NothingSent
    /\ begun' = begun + 1
    /\ UNCHANGED <<user, version, since, path>>

(* From the H to the last digit.                                           *)
Version ==
    /\ Reading
    /\ state = "s_req_http_start"
    /\ version' \in Versions
    /\ state' = "s_req_http_minor"
    /\ at' = "inside"
    /\ asked' = asked \cup {version'}
    /\ UNCHANGED <<user, flags, length, since, given, body, path, received,
                   framing, tail, begun>>

Trailing == "trailing" \in flags

(* What the headers say of the body; chunks have precedence.               *)
Framed(h) ==
    CASE h = "chunked" -> [framing EXCEPT !.chunked = TRUE]
      [] h \in DOMAIN Announced -> [framing EXCEPT !.length = Announced[h]]
      [] OTHER -> framing

(* A header line with its end, before the body or behind the last chunk.   *)
HeaderLine ==
    /\ Reading
    /\ state = "s_header_field_start"
    /\ \E h \in HeaderLines :
        /\ h \in BodyLines => Len(received) <= UrlOfBody /\ begun <= MaxBodies
        /\ flags' = flags \cup ({h} \cap (ConnectionLines \cup {"chunked", "upgrade"}))
        /\ length' = IF h \in DOMAIN Announced THEN Announced[h] ELSE length
        /\ asked' = asked \cup ({h} \cap ConnectionLines)
        /\ IF Trailing THEN /\ Len(tail) < MaxTail /\ Range(tail) \cap HeaderLines = {}
                           /\ tail' = Append(tail, h) /\ framing' = framing
           ELSE tail' = tail /\ framing' = Framed(h)
    /\ at' = "inside"
    /\ UNCHANGED <<user, state, version, since, given, body, path, received, begun>>

(* The comparison with zero is one of a size_t: a length that was not      *)
(* given is larger.                                                        *)
AfterHeaders ==
    IF "chunked" \in flags THEN "s_chunk_size_start"
    ELSE IF length = 0 THEN NewMessage ELSE "s_body_identity"

(* The line feed of the empty line, with or without a carriage return.     *)
(* message_complete is called where the next state is NewMessage, and      *)
(* before the parser leaves the rest to another protocol.                  *)
HeadersDone ==
    /\ Reading
    /\ state \in {"s_header_field_start", "s_headers_almost_done"}
    /\ IF "upgrade" \in flags /\ ~Trailing
       THEN at' = "upgraded" /\ since' = NoMarks /\ UNCHANGED state
       ELSE /\ at' = "inside" /\ UNCHANGED since
            /\ state' = IF Trailing THEN NewMessage ELSE AfterHeaders
    /\ tail' = IF Trailing THEN Append(tail, "LF") ELSE tail
    /\ UNCHANGED <<user, version, flags, length, given, body, path, received,
                   asked, framing, begun>>

-----------------------------------------------------------------------------
(* The body.                                                               *)

(* Bounds: two digits, and one character as a parameter.                   *)
Within(ch) ==
    /\ state = "s_chunk_size" /\ ch \in HexDigits /\ Len(tail) > 1 =>
          tail[Len(tail) - 1] \notin HexDigits
    /\ state = "s_chunk_parameters" /\ ch # "CR" => Last(tail) = "SEMI"

(* A character of a size line, or of the line end behind the data.         *)
ChunkLine ==
    /\ Reading
    /\ Len(tail) < MaxTail
    /\ \E r \in ChunkRules, ch \in ChunkChars :
        /\ r.from = state /\ ch \in r.on /\ Within(ch)
        /\ state' = IF r.to = "s_chunk_data" /\ length = 0
                    THEN "s_header_field_start" ELSE r.to
        /\ flags' = IF r.to = "s_chunk_data" /\ length = 0
                    THEN flags \cup {"trailing"} ELSE flags
        /\ length' = CASE r.from = "s_chunk_size_start" -> HexValue(ch)
                       [] r.from = "s_chunk_size" /\ ch \in HexDigits ->
                              (16 * length + HexValue(ch)) % (SizeMax + 1)
                       [] OTHER -> length
        /\ tail' = Append(tail, ch)
    /\ at' = "inside"
    /\ UNCHANGED <<user, version, since, given, body, path, received, asked,
                   framing, begun>>

(* Mistaken: the body ends where the buffer does.                          *)
EndsWithBuffer(n, next) == next

(* The state behind n bytes of a body.                                     *)
BehindData(n, next) == IF n = length THEN next ELSE state

(* What is left of the buffer, and no more than is left of the body.       *)
BodyData ==
    /\ Reading
    /\ state \in {"s_body_identity", "s_chunk_data"}
    /\ LET room == (IF state = "s_chunk_data" THEN MaxTail ELSE MaxData) - Len(tail)
       IN  \E n \in 1..Min({length, room}) : \E piece \in [1..n -> Data] :
              /\ body' = body \o piece
              /\ tail' = tail \o piece
              /\ length' = length - n
              /\ at' = IF n < length THEN "last" ELSE "inside"
              /\ state' = BehindData(n, IF state = "s_chunk_data"
                                        THEN "s_chunk_data_almost_done" ELSE NewMessage)
    /\ UNCHANGED <<user, version, flags, since, given, path, received, asked,
                   framing, begun>>

Acceptable ==
    UNION {r.on : r \in {q \in Rules \cup ChunkRules : q.from = state}}
      \cup (IF state \in {"s_header_field_start", "s_headers_almost_done"}
            THEN {"LF"} ELSE {})

(* The label error: no callback, and the marks are lost.  A message that   *)
(* begins with a wrong character has reset the flags before.               *)
Refuse ==
    /\ Reading
    /\ Offered \ Acceptable # {}
    /\ state' = "s_dead"
    /\ at' = "refused"
    /\ flags' = IF state = "s_start_req" THEN FlagsOfNewMessage ELSE flags
    /\ since' = NoMarks
    /\ length' = IF state = "s_start_req" THEN NoLength ELSE length
    /\ UNCHANGED <<user, version, given, body, path, message>>

(* The buffer is used up: the callbacks of all marks, then the state is    *)
(* kept.                                                                   *)
EndOfBuffer ==
    /\ at \in {"inside", "last"}
    /\ at' = "outside"
    /\ given' = Told(Marks)
    /\ OnPathCb(Marks)
    /\ since' = NoMarks
    /\ UNCHANGED <<user, state, version, flags, length, body, message>>

Next ==
    \/ HandleClientRequest \/ Resume
    \/ Character \/ Method \/ Version \/ HeaderLine \/ HeadersDone
    \/ ChunkLine \/ BodyData \/ Refuse \/ EndOfBuffer

Spec == Init /\ [][Next]_vars

-----------------------------------------------------------------------------
(* TypeOK: the parser is in one of its states, a mark is set only where    *)
(* its element is being read, and no mark outlives the call that set it.   *)
(* The states of a chunked body are reached with F_CHUNKED only, as the    *)
(* assertions in them say.                                                 *)
TypeOK ==
    /\ user \in Users
    /\ state \in States
    /\ version \in Versions \cup {"none", "HTTP/0.9"}
    /\ flags \subseteq ConnectionLines \cup {"chunked", "upgrade", "trailing"}
    /\ state \in ChunkStates \cup {"s_chunk_data"} => "chunked" \in flags
    /\ length \in 0..SizeMax
    /\ at \in {"outside", "first", "inside", "last", "refused", "upgraded"}
    /\ DOMAIN since = Marks /\ DOMAIN given = Marks
    /\ \A f \in Marks :
        since[f] # NULL => Reading /\ state \in MarkedIn(f)
    /\ asked \subseteq Versions \cup ConnectionLines
    /\ begun \in 0..MaxMessages

(* What a callback has got, with what lies between the mark and here.      *)
Heard(f) == Told(Marks)[f]

(* UrlWhole: on_url gets every character of the URL exactly once, wherever *)
(* the buffers end, and never more than was sent when the request is       *)
(* refused.                                                                *)
UrlWhole ==
    /\ IsPrefix(Heard("url"), received)
    /\ at # "refused" => Heard("url") = received

(* The parts of a URL by their separators alone: the path from the first   *)
(* slash that is not one of the two behind the scheme up to ? or #, the    *)
(* query up to #, the fragment.  Repeated separators are dropped.          *)
Slice(u, i, j) == SubSeq(u, i, j - 1)
First(u, S) == Min({i \in DOMAIN u : u[i] \in S} \cup {Len(u) + 1})
Without(u, c) == SubSeq(u, First(u, Chars \ {c}), Len(u))
SchemeSlashes(u) ==
    UNION {{i + 1, i + 2} : i \in {j \in DOMAIN u :
                u[j] = ":" /\ \A k \in 1..(j - 1) : u[k] \in Letters}}
PathStart(u) ==
    Min({i \in DOMAIN u : \/ u[i] = "/" /\ i \notin SchemeSlashes(u)
                          \/ u[i] = "*" /\ i = 1} \cup {Len(u) + 1})
PartsOf(u) ==
    LET q == First(u, {"?", "#"})
        h == First(u, {"#"})
    IN  [path         |-> Slice(u, PathStart(u), q),
         query_string |-> Without(Slice(u, q, h), "?"),
         fragment     |-> Without(Slice(u, h, Len(u) + 1), "#")]

(* PartsOfUrl: the callbacks of path, query and fragment get exactly the   *)
(* parts that the separators of the URL mark off, however it was cut.      *)
PartsOfUrl ==
    at # "refused" => \A f \in Marks \ {"url"} : Heard(f) = PartsOf(received)[f]

(* KeptAsAsked: after a message the parser is ready for another one only   *)
(* if this message asked to keep the connection, by its own version and    *)
(* header lines: no flag of an earlier message counts.                     *)
AskedToBeKept ==
    IF "HTTP/1.1" \in asked THEN "close" \notin asked ELSE "keep-alive" \in asked

KeptAsAsked ==
    begun > 0 =>
        /\ state = "s_start_req" => AskedToBeKept
        /\ state = "s_dead" /\ at # "refused" => ~AskedToBeKept

(* A chunked body by its size lines alone: Chunks[i] is what begins at i,  *)
(* the data up to the end of what was sent, and where the chunk of size    *)
(* zero has its size line.                                                 *)
Size(t, i) ==
    LET digits == SubSeq(t, i, First(SubSeq(t, i, Len(t)), {"SEMI", "CR"}) + i - 2)
    IN FoldLeft(LAMBDA v, ch : 16 * v + HexValue(ch), 0, digits)
LineFeeds(t, i) == {j \in i..Len(t) : t[j] = "LF" /\ t[j - 1] = "CR"}
Dechunked(t) ==
    LET Chunks[i \in 1..(Len(t) + 1)] ==
            IF LineFeeds(t, i) = {} THEN [data |-> << >>, zero |-> 0]
            ELSE IF Size(t, i) = 0 THEN [data |-> << >>, zero |-> Min(LineFeeds(t, i))]
            ELSE LET from == Min(LineFeeds(t, i)) + 1
                     to   == from + Size(t, i) - 1
                     rest == Chunks[Min({to + 3, Len(t) + 1})]
                 IN [rest EXCEPT !.data = SubSeq(t, from, Min({to, Len(t)})) \o @]
    IN Chunks[1]

(* BodyWhole: on_body gets every byte of the body that was sent, and only  *)
(* those, however the buffers cut it, and the message ends with the last   *)
(* of them: bytes of a body are not taken for a request, bytes of a request*)
(* not for a body.  Without a length everything that follows is body.      *)
Ended ==
    IF framing.chunked
    THEN Dechunked(tail).zero > 0 /\ Dechunked(tail).zero < Len(tail) /\ Last(tail) = "LF"
    ELSE Len(tail) = framing.length
HeadersRead ==
    \/ Trailing
    \/ state \in ChunkStates \cup {"s_chunk_data", "s_body_identity"}
    \/ state \in {"s_start_req", "s_dead"} /\ at # "refused" /\ begun > 0
BodyWhole ==
    HeadersRead /\ at # "refused" =>
        /\ body = IF framing.chunked THEN Dechunked(tail).data ELSE tail
        /\ state \in {"s_start_req", "s_dead"} <=> Ended

-----------------------------------------------------------------------------
(* What a comment says, and the code does not do                           *)

(* NoBodyUnasked: of a request without Content-Length the parser is to     *)
(* "Assume content-length 0 - read the next" (http_parser.c:1426): nothing *)
(* of what follows is its body.                                            *)
NoBodyUnasked == ~framing.chunked /\ framing.length = NoLength => body = << >>

=============================================================================
