---------------------- MODULE HttpRequestParser_proof -----------------------
(***************************************************************************)
(* What the request parser reports of the URL and of the body, and which   *)
(* flags decide on the next message, for URLs and bodies of any length,    *)
(* any number of chunks and any number of messages.                        *)
(*                                                                         *)
(* For the URL the argument goes through the rules: a character leads into *)
(* the states of the URL where it sets the mark of the URL, and out of     *)
(* them where it makes the callback.  Between the two the mark is set      *)
(* while the parser runs, and set again when it is called anew.            *)
(*                                                                         *)
(* For the body the invariant says of which chunk the parser has read how  *)
(* much, and that the chunks before it hold the data reported before it,   *)
(* whatever bytes follow; so a step is about one chunk only.               *)
(***************************************************************************)
EXTENDS HttpRequestParser, NaturalLemmas, SequenceTheorems, TLAPS

-----------------------------------------------------------------------------
(* The states up to the version, and from there to the end of the headers. *)
BeforeVersion == UrlMark \cup {"s_req_spaces_before_url", "s_req_http_start"}
BehindVersion == {"s_req_http_minor", "s_req_line_almost_done",
                  "s_header_field_start", "s_headers_almost_done"}

(* What a rule does to the marks: an element that goes on keeps its mark,  *)
(* and one that begins gets it in a state where a new buffer sets it again.*)
KeepsMarks(r) ==
    \A f \in Marks :
        f \notin r.calls /\ (f \in r.marks \/ r.from \in MarkedIn(f))
            => r.to \in MarkedIn(f)

(* What a rule does to the URL: it is marked where it begins, and called   *)
(* where it ends.                                                          *)
KeepsUrl(r) ==
    /\ r.from \in UrlMark =>
          /\ "url" \notin r.marks
          /\ "url" \in r.calls <=> r.to \notin UrlMark
    /\ r.from \notin UrlMark =>
          /\ "url" \notin r.calls
          /\ "url" \in r.marks <=> r.to \in UrlMark
    /\ r.from \notin BeforeVersion => r.to \notin UrlMark

(* In which order the states come.                                         *)
KeepsOrder(r) ==
    /\ r.from \in BeforeVersion \cup BehindVersion \cup {"s_start_req"}
    /\ r.to \in BeforeVersion \cup BehindVersion \cup {"s_start_req"}
    /\ r.to \in BeforeVersion => r.from \in BeforeVersion
    /\ r.to = "s_req_spaces_before_url" => r.from = r.to
    /\ r.to = "s_start_req" <=> r.from = "s_start_req"

Fits(r) ==
    /\ r.on \subseteq Chars \cup ChunkChars
    /\ KeepsMarks(r) /\ KeepsUrl(r) /\ KeepsOrder(r)

(* The rules of the URL lead to the end of the request line, or stay ahead *)
(* of the version.                                                         *)
FitsUrl(r) ==
    /\ Fits(r)
    /\ r.from \in UrlMark \cup {"s_req_spaces_before_url"}
    /\ r.to \notin BeforeVersion => r.on \subseteq {"CR", "LF"}

LEMMA MarkStates ==
    /\ Marks = {"url", "path", "query_string", "fragment"}
    /\ MarkedIn("url") = UrlMark
    /\ MarkedIn("path") = {"s_req_path"}
    /\ MarkedIn("query_string") = {"s_req_query_string"}
    /\ MarkedIn("fragment") = {"s_req_fragment"}
    /\ \A f \in Marks : MarkedIn(f) \subseteq UrlMark
  BY DEF Marks, MarkedIn, UrlMark

LEMMA SchemeRulesFit == \A r \in SchemeRules : FitsUrl(r)
<1> SUFFICES ASSUME NEW r \in SchemeRules PROVE FitsUrl(r)
  OBVIOUS
<1>1. KeepsMarks(r)
  BY MarkStates DEF SchemeRules, Rule, KeepsMarks, UrlMark
<1>2. KeepsUrl(r) /\ KeepsOrder(r)
  BY DEF SchemeRules, Rule, KeepsUrl, KeepsOrder, UrlMark, BeforeVersion, BehindVersion
<1>3. /\ r.on \subseteq Chars \cup ChunkChars
      /\ r.from \in UrlMark \cup {"s_req_spaces_before_url"}
      /\ r.to \notin BeforeVersion => r.on \subseteq {"CR", "LF"}
  BY DEF SchemeRules, Rule, UrlMark, BeforeVersion
<1> QED
  BY <1>1, <1>2, <1>3 DEF Fits, FitsUrl

LEMMA HostRulesFit == \A r \in HostRules : FitsUrl(r)
<1> SUFFICES ASSUME NEW r \in HostRules PROVE FitsUrl(r)
  OBVIOUS
<1>1. KeepsMarks(r)
  BY MarkStates DEF HostRules, Rule, KeepsMarks, UrlMark
<1>2. KeepsUrl(r) /\ KeepsOrder(r)
  BY DEF HostRules, Rule, KeepsUrl, KeepsOrder, UrlMark, BeforeVersion, BehindVersion
<1>3. /\ r.on \subseteq Chars \cup ChunkChars
      /\ r.from \in UrlMark \cup {"s_req_spaces_before_url"}
      /\ r.to \notin BeforeVersion => r.on \subseteq {"CR", "LF"}
  BY DEF HostRules, Rule, UrlMark, BeforeVersion
<1> QED
  BY <1>1, <1>2, <1>3 DEF Fits, FitsUrl

LEMMA PathRulesFit == \A r \in PathRules : FitsUrl(r)
<1> SUFFICES ASSUME NEW r \in PathRules PROVE FitsUrl(r)
  OBVIOUS
<1>1. KeepsMarks(r)
  BY MarkStates DEF PathRules, UrlEnd, Rule, KeepsMarks, UrlMark
<1>2. KeepsUrl(r) /\ KeepsOrder(r)
  BY DEF PathRules, UrlEnd, Rule, KeepsUrl, KeepsOrder, UrlMark, BeforeVersion, BehindVersion
<1>3. /\ r.on \subseteq Chars \cup ChunkChars
      /\ r.from \in UrlMark \cup {"s_req_spaces_before_url"}
      /\ r.to \notin BeforeVersion => r.on \subseteq {"CR", "LF"}
  BY DEF PathRules, UrlEnd, Rule, UrlMark, BeforeVersion
<1> QED
  BY <1>1, <1>2, <1>3 DEF Fits, FitsUrl

LEMMA QueryRulesFit == \A r \in QueryRules : FitsUrl(r)
<1> SUFFICES ASSUME NEW r \in QueryRules PROVE FitsUrl(r)
  OBVIOUS
<1>1. KeepsMarks(r)
  BY MarkStates DEF QueryRules, UrlEnd, Rule, KeepsMarks, UrlMark
<1>2. KeepsUrl(r) /\ KeepsOrder(r)
  BY DEF QueryRules, UrlEnd, Rule, KeepsUrl, KeepsOrder, UrlMark, BeforeVersion, BehindVersion
<1>3. /\ r.on \subseteq Chars \cup ChunkChars
      /\ r.from \in UrlMark \cup {"s_req_spaces_before_url"}
      /\ r.to \notin BeforeVersion => r.on \subseteq {"CR", "LF"}
  BY DEF QueryRules, UrlEnd, Rule, UrlMark, BeforeVersion
<1> QED
  BY <1>1, <1>2, <1>3 DEF Fits, FitsUrl

LEMMA FragmentRulesFit == \A r \in FragmentRules : FitsUrl(r)
<1> SUFFICES ASSUME NEW r \in FragmentRules PROVE FitsUrl(r)
  OBVIOUS
<1>1. KeepsMarks(r)
  BY MarkStates DEF FragmentRules, UrlEnd, Rule, KeepsMarks, UrlMark
<1>2. KeepsUrl(r) /\ KeepsOrder(r)
  BY DEF FragmentRules, UrlEnd, Rule, KeepsUrl, KeepsOrder, UrlMark, BeforeVersion, BehindVersion
<1>3. /\ r.on \subseteq Chars \cup ChunkChars
      /\ r.from \in UrlMark \cup {"s_req_spaces_before_url"}
      /\ r.to \notin BeforeVersion => r.on \subseteq {"CR", "LF"}
  BY DEF FragmentRules, UrlEnd, Rule, UrlMark, BeforeVersion
<1> QED
  BY <1>1, <1>2, <1>3 DEF Fits, FitsUrl

LEMMA LineRulesFit ==
    \A r \in LineRules :
        /\ Fits(r)
        /\ r.from \in BehindVersion \cup {"s_start_req", "s_req_http_start"}
        /\ r.to \in BeforeVersion => r.from = "s_req_http_start"
        /\ r.from = "s_req_http_start" => r.to = r.from
<1> SUFFICES ASSUME NEW r \in LineRules
             PROVE  /\ Fits(r)
                    /\ r.from \in BehindVersion \cup {"s_start_req", "s_req_http_start"}
                    /\ r.to \in BeforeVersion => r.from = "s_req_http_start"
                    /\ r.from = "s_req_http_start" => r.to = r.from
  OBVIOUS
<1>1. KeepsMarks(r)
  BY MarkStates DEF LineRules, Rule, KeepsMarks, UrlMark
<1>2. KeepsUrl(r) /\ KeepsOrder(r)
  BY DEF LineRules, Rule, KeepsUrl, KeepsOrder, UrlMark, BeforeVersion, BehindVersion
<1>3. r.on \subseteq Chars \cup ChunkChars
  BY DEF LineRules, Rule
<1> QED
  BY <1>1, <1>2, <1>3 DEF Fits, LineRules, Rule, UrlMark, BeforeVersion, BehindVersion

LEMMA UrlRulesFit == \A r \in UrlRules : FitsUrl(r)
  BY SchemeRulesFit, HostRulesFit, PathRulesFit, QueryRulesFit, FragmentRulesFit
  DEF UrlRules

(* The rules that end in another state of the line than they began with.   *)
LEMMA RulesFit ==
    \A r \in Rules :
        /\ Fits(r)
        /\ r \in UrlRules => FitsUrl(r)
        /\ r.from \in BeforeVersion /\ r.to \notin BeforeVersion =>
              r \in UrlRules /\ r.on \subseteq {"CR", "LF"}
        /\ r.from \notin BeforeVersion => r \notin UrlRules
  BY UrlRulesFit, LineRulesFit DEF Rules, FitsUrl, BeforeVersion, BehindVersion, UrlMark

(* The states that the rules begin in.                                     *)
LEMMA UrlStatesAre ==
    /\ UrlStates = UrlMark
    /\ {r.from : r \in UrlRules} = UrlMark \cup {"s_req_spaces_before_url"}
<1> DEFINE From == {r.from : r \in UrlRules}
<1>1. /\ Rule("s_req_spaces_before_url", {"SP"}, "s_req_spaces_before_url", {}, {}) \in UrlRules
      /\ Rule("s_req_schema", Letters, "s_req_schema", {}, {}) \in UrlRules
      /\ Rule("s_req_schema_slash", {"/"}, "s_req_schema_slash_slash", {}, {}) \in UrlRules
      /\ Rule("s_req_schema_slash_slash", {"/"}, "s_req_host", {}, {}) \in UrlRules
  BY DEF UrlRules, SchemeRules
<1>2. /\ Rule("s_req_host", {":"}, "s_req_port", {}, {}) \in UrlRules
      /\ Rule("s_req_port", Digits, "s_req_port", {}, {}) \in UrlRules
      /\ Rule("s_req_path", Normal, "s_req_path", {}, {}) \in UrlRules
  BY DEF UrlRules, HostRules, PathRules
<1>3. /\ Rule("s_req_query_string_start", {"?"}, "s_req_query_string_start", {}, {}) \in UrlRules
      /\ Rule("s_req_query_string", Normal \cup {"?"}, "s_req_query_string", {}, {}) \in UrlRules
  BY DEF UrlRules, QueryRules
<1>4. /\ Rule("s_req_fragment_start", {"#"}, "s_req_fragment_start", {}, {}) \in UrlRules
      /\ Rule("s_req_fragment", Normal \cup {"?", "#"}, "s_req_fragment", {}, {}) \in UrlRules
  BY DEF UrlRules, FragmentRules
<1>5. \A from, on, to, marks, calls :
         Rule(from, on, to, marks, calls) \in UrlRules => from \in From
  <2> TAKE from, on, to, marks, calls
  <2>1. Rule(from, on, to, marks, calls).from = from
    BY DEF Rule
  <2> QED BY <2>1
<1>6. UrlMark \cup {"s_req_spaces_before_url"} \subseteq From
  <2> HIDE DEF From
  <2> QED BY <1>1, <1>2, <1>3, <1>4, <1>5 DEF UrlMark
<1>7. From \subseteq UrlMark \cup {"s_req_spaces_before_url"}
  BY UrlRulesFit DEF FitsUrl
<1> QED BY <1>6, <1>7 DEF UrlStates, UrlMark

LEMMA ChunkStatesAre ==
    /\ ChunkStates = {"s_chunk_size_start", "s_chunk_size", "s_chunk_parameters",
                      "s_chunk_size_almost_done", "s_chunk_data_almost_done",
                      "s_chunk_data_done"}
    /\ \A r \in ChunkRules : r.to \in ChunkStates \cup {"s_chunk_data"}
<1> DEFINE Six == {"s_chunk_size_start", "s_chunk_size", "s_chunk_parameters",
                   "s_chunk_size_almost_done", "s_chunk_data_almost_done",
                   "s_chunk_data_done"}
<1>1. /\ Rule("s_chunk_size_start", HexDigits, "s_chunk_size", {}, {}) \in ChunkRules
      /\ Rule("s_chunk_size", HexDigits, "s_chunk_size", {}, {}) \in ChunkRules
      /\ Rule("s_chunk_parameters", {"CR"}, "s_chunk_size_almost_done", {}, {}) \in ChunkRules
      /\ Rule("s_chunk_size_almost_done", {"LF"}, "s_chunk_data", {}, {}) \in ChunkRules
  BY DEF ChunkRules, SizeRules
<1>2. /\ Rule("s_chunk_data_almost_done", {"CR"}, "s_chunk_data_done", {}, {}) \in ChunkRules
      /\ Rule("s_chunk_data_done", {"LF"}, "s_chunk_size_start", {}, {}) \in ChunkRules
  BY DEF ChunkRules, DataEndRules
<1>3. \A from, on, to, marks, calls :
         Rule(from, on, to, marks, calls) \in ChunkRules => from \in ChunkStates
  <2> TAKE from, on, to, marks, calls
  <2>1. Rule(from, on, to, marks, calls).from = from
    BY DEF Rule
  <2> QED BY <2>1 DEF ChunkStates
<1>4. Six \subseteq ChunkStates
  BY <1>1, <1>2, <1>3
<1>5. \A r \in ChunkRules : r.from \in Six /\ r.to \in Six \cup {"s_chunk_data"}
  BY DEF ChunkRules, SizeRules, DataEndRules, Rule
<1> QED BY <1>4, <1>5 DEF ChunkStates

LEMMA StatesAre ==
    States = BeforeVersion \cup BehindVersion \cup ChunkStates
                 \cup {"s_start_req", "s_body_identity", "s_chunk_data", "s_dead"}
<1>1. /\ Rule("s_start_req", {"CR", "LF"}, "s_start_req", {}, {}) \in LineRules
      /\ Rule("s_req_http_start", {"SP"}, "s_req_http_start", {}, {}) \in LineRules
      /\ Rule("s_req_http_minor", {"CR"}, "s_req_line_almost_done", {}, {}) \in LineRules
      /\ Rule("s_req_line_almost_done", {"LF"}, "s_header_field_start", {}, {}) \in LineRules
      /\ Rule("s_header_field_start", {"CR"}, "s_headers_almost_done", {}, {}) \in LineRules
  BY DEF LineRules
<1>2. \A from, on, to, marks, calls :
         Rule(from, on, to, marks, calls) \in LineRules => from \in {r.from : r \in Rules}
  <2> TAKE from, on, to, marks, calls
  <2>1. Rule(from, on, to, marks, calls).from = from
    BY DEF Rule
  <2> QED BY <2>1 DEF Rules
<1>3. {"s_start_req", "s_req_http_start", "s_req_http_minor",
       "s_req_line_almost_done", "s_header_field_start"} \subseteq {r.from : r \in Rules}
  BY <1>1, <1>2
<1>4. {r.from : r \in UrlRules} \subseteq {r.from : r \in Rules}
  BY DEF Rules
<1>5. {r.from : r \in Rules} \subseteq BeforeVersion \cup BehindVersion \cup {"s_start_req"}
  BY RulesFit DEF Fits, KeepsOrder
<1> QED
  BY <1>3, <1>4, <1>5, UrlStatesAre DEF States, BeforeVersion, BehindVersion

-----------------------------------------------------------------------------
(* The inductive invariant.                                                *)

Kinds ==
    /\ received \in Seq(Chars)
    /\ path \in Seq(Chars)
    /\ tail \in Seq(ChunkChars \cup HeaderLines)
    /\ since \in [Marks -> Seq(Chars) \cup {NULL}]
    /\ given \in [Marks -> Seq(Chars)]

(* Inside the URL its mark is set while the parser runs.                   *)
UrlMarked == Reading /\ state \in UrlMark => since["url"] # NULL

(* The server's parser makes one callback for the URL of a message, so     *)
(* that it begins at the beginning of path; only what earlier messages of  *)
(* the same buffer left there can follow it.                               *)
PathFilled ==
    user = "aws" =>
        /\ Reading /\ state \in UrlMark \cup {"s_req_spaces_before_url"} =>
              given["url"] = << >>
        /\ begun = 0 => path = << >>
        /\ begun > 0 => IsPrefix(given["url"], path)
        /\ begun = 1 => path = given["url"]

(* The flags are those of this message, and so is the version once the     *)
(* request line has been read.                                             *)
FlagsOfMessage ==
    /\ begun = 0 => state \in {"s_start_req", "s_dead"}
    /\ begun > 0 /\ at # "refused" =>
          flags \cap ConnectionLines = asked \cap ConnectionLines
    /\ state \in BeforeVersion => "HTTP/1.1" \notin asked
    /\ state \notin BeforeVersion \cup {"s_start_req", "s_dead"} =>
          (version = "HTTP/1.1" <=> "HTTP/1.1" \in asked)

ParserInv ==
    /\ TypeOK
    /\ Kinds
    /\ UrlMarked /\ UrlWhole
    /\ PathFilled
    /\ FlagsOfMessage /\ KeptAsAsked

-----------------------------------------------------------------------------
(* Facts about the marks.                                                  *)

LEMMA NoMarksKind == NoMarks \in [Marks -> Seq(Chars) \cup {NULL}]
  BY DEF NoMarks

(* Outside of the URL, and outside of a call, no mark is set.              *)
LEMMA MarksUnset ==
    ASSUME TypeOK, Kinds, ~Reading \/ state \notin UrlMark
    PROVE  since = NoMarks
<1>1. \A f \in Marks : since[f] = NULL
  BY MarkStates DEF TypeOK
<1>2. DOMAIN since = Marks /\ since = [f \in Marks |-> since[f]]
  BY DEF Kinds
<1> QED BY <1>1, <1>2 DEF NoMarks

LEMMA HeardUrl ==
    Heard("url") = IF since["url"] # NULL THEN given["url"] \o since["url"]
                                          ELSE given["url"]
  BY DEF Heard, Told, Marks

LEMMA NoMarksUrl == NoMarks["url"] = NULL /\ "url" \in Marks
  BY DEF NoMarks, Marks

LEMMA ToldKind ==
    ASSUME Kinds, NEW calls
    PROVE  Told(calls) \in [Marks -> Seq(Chars)]
<1>1. \A f \in Marks : since[f] # NULL => given[f] \o since[f] \in Seq(Chars)
  BY ConcatProperties DEF Kinds
<1>2. \A f \in Marks : given[f] \in Seq(Chars)
  BY DEF Kinds
<1> QED BY <1>1, <1>2 DEF Told

(* A sequence is a prefix of itself, and of what it is continued to.       *)
LEMMA PrefixOfConcat ==
    ASSUME NEW S, NEW s \in Seq(S), NEW t \in Seq(S)
    PROVE  IsPrefix(s, s) /\ IsPrefix(s, s \o t)
<1>1. Len(s) \in Nat /\ Len(t) \in Nat /\ Len(s \o t) = Len(s) + Len(t)
  BY ConcatProperties, LenProperties
<1>2. SubSeq(s, 1, Len(s)) = s
  BY SubSeqFull
<1>3. SubSeq(s \o t, 1, Len(s)) = s
  <2>1. CASE Len(s) = 0
    <3>1. s = << >>
      BY <2>1, EmptySeq
    <3>2. SubSeq(s \o t, 1, 0) = << >>
      BY SubSeqEmpty
    <3> QED BY <2>1, <3>1, <3>2
  <2>2. CASE Len(s) # 0
    BY <1>1, <1>2, <2>2, SubSeqOfConcat1
  <2> QED BY <2>1, <2>2
<1> QED BY <1>1, <1>2, <1>3 DEF IsPrefix

LEMMA ConcatAppend ==
    ASSUME NEW s \in Seq(Chars), NEW t \in Seq(Chars), NEW c \in Chars
    PROVE  s \o Append(t, c) = Append(s \o t, c)
<1> DEFINE u == <<c>>
<1>1. u \in Seq(Chars)
  OBVIOUS
<1>2. Append(t, c) = t \o u /\ s \o t \in Seq(Chars)
  BY AppendIsConcat, ConcatProperties
<1>3. Append(s \o t, c) = (s \o t) \o u
  BY <1>2, AppendIsConcat
<1> HIDE DEF u
<1>4. (s \o t) \o u = s \o (t \o u)
  BY <1>1, ConcatAssociative
<1> QED BY <1>2, <1>3, <1>4

(* What is copied to the beginning of path begins it, and is all of it if  *)
(* path was empty.                                                         *)
LEMMA OverlaidPrefix ==
    ASSUME NEW s \in Seq(Chars), NEW b \in Seq(Chars)
    PROVE  /\ Overlaid(s, b) \in Seq(Chars)
           /\ IsPrefix(s, Overlaid(s, b))
           /\ b = << >> => Overlaid(s, b) = s
<1>1. Len(s) \in Nat /\ Len(b) \in Nat
  BY LenProperties
<1>2. \A i \in (Len(s) + 1)..Len(b) : b[i] \in Chars
  <2> TAKE i \in (Len(s) + 1)..Len(b)
  <2>1. i \in 1..Len(b)
    BY <1>1
  <2> QED BY <2>1, ElementOfSeq
<1>3. SubSeq(b, Len(s) + 1, Len(b)) \in Seq(Chars)
  <2>1. Len(s) + 1 \in Int /\ Len(b) \in Int
    BY <1>1
  <2> QED BY <1>2, <2>1, SubSeqProperties
<1>4. b = << >> => SubSeq(b, Len(s) + 1, Len(b)) = << >>
  <2> SUFFICES ASSUME b = << >> PROVE SubSeq(b, Len(s) + 1, Len(b)) = << >>
    OBVIOUS
  <2>1. Len(b) = 0
    BY EmptySeq
  <2>2. Len(s) + 1 \in Int /\ 0 \in Int /\ 0 < Len(s) + 1
    BY <1>1
  <2> QED BY <2>1, <2>2, SubSeqEmpty
<1>5. s \o << >> = s
  BY ConcatEmptySeq
<1> QED BY <1>3, <1>4, <1>5, PrefixOfConcat, ConcatProperties DEF Overlaid

-----------------------------------------------------------------------------
(* The steps.                                                              *)

LEMMA InitParser == Init => ParserInv
<1> SUFFICES ASSUME Init PROVE ParserInv
  OBVIOUS
<1>1. << >> \in Seq(Chars) /\ << >> \in Seq(ChunkChars \cup HeaderLines)
  BY EmptySeq
<1>2. state = "s_start_req" /\ state \in States /\ state \notin ChunkStates
  BY StatesAre, ChunkStatesAre DEF Init
<1>3. TypeOK
  BY <1>2, ParserAssumption
  DEF Init, TypeOK, NoMarks, NothingGiven, Marks
<1>4. Kinds
  BY <1>1, NoMarksKind DEF Init, Kinds, NothingGiven
<1>5. UrlMarked /\ PathFilled
  BY DEF Init, UrlMarked, PathFilled, Reading
<1>6. UrlWhole
  <2>1. Heard("url") = << >>
    BY HeardUrl, NoMarksUrl DEF Init, NothingGiven
  <2> QED BY <1>1, <2>1, PrefixOfConcat DEF Init, UrlWhole
<1>7. FlagsOfMessage /\ KeptAsAsked
  BY DEF Init, FlagsOfMessage, KeptAsAsked, BeforeVersion, UrlMark
<1> QED BY <1>3, <1>4, <1>5, <1>6, <1>7 DEF ParserInv

LEMMA HandleClientRequestStep ==
    ASSUME ParserInv, HandleClientRequest
    PROVE  ParserInv'
<1>1. << >> \in Seq(Chars) /\ << >> \in Seq(ChunkChars \cup HeaderLines)
  BY EmptySeq
<1>2. state' = "s_start_req" /\ state' \in States /\ state' \notin ChunkStates
  BY StatesAre, ChunkStatesAre DEF HandleClientRequest, HttpParserInit
<1>3. TypeOK'
  BY <1>2, ParserAssumption
  DEF HandleClientRequest, HttpParserInit, NothingSent, ParserInv, TypeOK,
      NoMarks, NothingGiven, Marks
<1>4. Kinds'
  BY <1>1, NoMarksKind DEF HandleClientRequest, NothingSent, Kinds, NothingGiven
<1>5. UrlMarked' /\ PathFilled'
  BY <1>2 DEF HandleClientRequest, UrlMarked, PathFilled, UrlMark
<1>6. UrlWhole'
  <2>1. Heard("url")' = << >>
    BY HeardUrl, NoMarksUrl DEF HandleClientRequest, NothingGiven, Heard, Told
  <2> QED BY <1>1, <2>1, PrefixOfConcat DEF HandleClientRequest, NothingSent, UrlWhole
<1>7. FlagsOfMessage' /\ KeptAsAsked'
  BY <1>2 DEF HandleClientRequest, NothingSent, FlagsOfMessage, KeptAsAsked,
              BeforeVersion, UrlMark
<1> QED BY <1>3, <1>4, <1>5, <1>6, <1>7 DEF ParserInv

LEMMA ResumeStep ==
    ASSUME ParserInv, Resume
    PROVE  ParserInv'
<1>0. /\ TypeOK /\ Kinds /\ UrlWhole /\ FlagsOfMessage /\ KeptAsAsked
      /\ UNCHANGED <<user, state, version, flags, length, given, body, path, message>>
      /\ at = "outside" /\ at' = "first" /\ user = "resuming"
      /\ since' = ResumedMarks
  BY DEF ParserInv, Resume
<1>1. << >> \in Seq(Chars)
  BY EmptySeq
<1>2. \A f \in Marks : since'[f] = IF state \in MarkedIn(f) THEN << >> ELSE NULL
  BY <1>0 DEF ResumedMarks
<1>3. TypeOK'
  <2>1. DOMAIN since' = Marks
    BY <1>0 DEF ResumedMarks
  <2>2. \A f \in Marks : since'[f] # NULL => Reading' /\ state' \in MarkedIn(f)
    BY <1>0, <1>2 DEF Reading
  <2> QED BY <1>0, <2>1, <2>2 DEF TypeOK, message
<1>4. Kinds'
  <2>1. since' \in [Marks -> Seq(Chars) \cup {NULL}]
    BY <1>0, <1>1 DEF ResumedMarks
  <2> QED BY <1>0, <2>1 DEF Kinds, message
<1>5. /\ "url" \in Marks /\ MarkedIn("url") = UrlMark /\ << >> # NULL
  BY <1>1, MarkStates, MarkAssumption
<1>6. UrlMarked' /\ PathFilled'
  BY <1>0, <1>2, <1>5 DEF UrlMarked, PathFilled
<1>7. UrlWhole'
  <2>1. since["url"] = NULL
    BY <1>0, MarksUnset, NoMarksUrl DEF Reading
  <2>2. Heard("url") = given["url"] /\ given["url"] \in Seq(Chars)
    BY <1>0, <1>5, <2>1, HeardUrl DEF Kinds
  <2>3. Heard("url")' = IF since'["url"] # NULL THEN given'["url"] \o since'["url"]
                                                ELSE given'["url"]
    BY HeardUrl, <1>5 DEF Heard, Told
  <2>4. Heard("url")' = given["url"]
    BY <1>0, <1>2, <1>5, <2>2, <2>3, ConcatEmptySeq
  <2> QED BY <1>0, <2>2, <2>4 DEF UrlWhole, message
<1>8. FlagsOfMessage' /\ KeptAsAsked'
  BY <1>0 DEF FlagsOfMessage, KeptAsAsked, AskedToBeKept, message
<1> QED BY <1>3, <1>4, <1>6, <1>7, <1>8 DEF ParserInv

(* One character: the rule decides what becomes of the marks.              *)
LEMMA CharacterStep ==
    ASSUME ParserInv, Character
    PROVE  ParserInv'
<1>0. PICK r \in Rules, ch \in Chars : Step(r, ch)
  BY DEF Character
<1>1. /\ TypeOK /\ Kinds /\ UrlMarked /\ UrlWhole /\ PathFilled
      /\ FlagsOfMessage /\ KeptAsAsked
      /\ Reading /\ at' = "inside" /\ Reading'
      /\ UNCHANGED <<user, flags, length, body, asked, framing, tail, begun>>
  BY DEF ParserInv, Character, Reading
<1>2. /\ r.from = state /\ state' = r.to /\ ch \in r.on
      /\ given' = Told(r.calls) /\ OnPathCb(r.calls)
      /\ version' = IF r \in UrlRules /\ ch \in {"CR", "LF"} THEN "HTTP/0.9" ELSE version
      /\ received' = IF r.to \in UrlMark THEN Append(received, ch) ELSE received
  BY <1>0, UrlStatesAre DEF Step
<1>3. /\ DOMAIN since' = Marks
      /\ \A f \in Marks : since'[f] =
            IF f \in r.calls THEN NULL
            ELSE IF f \in r.marks THEN <<ch>>
            ELSE IF since[f] = NULL THEN NULL ELSE Append(since[f], ch)
      /\ since' = [f \in Marks |-> since'[f]]
  <2>1. since' = [f \in Marks |->
                    CASE f \in r.calls -> NULL
                      [] f \in r.marks /\ f \notin r.calls -> <<ch>>
                      [] OTHER -> IF since[f] = NULL THEN NULL ELSE Append(since[f], ch)]
    BY <1>0 DEF Step
  <2> QED BY <2>1
<1>4. /\ KeepsMarks(r) /\ KeepsUrl(r) /\ KeepsOrder(r)
      /\ state' \in BeforeVersion \cup BehindVersion \cup {"s_start_req"}
      /\ state \in BeforeVersion /\ state' \notin BeforeVersion =>
            r \in UrlRules /\ ch \in {"CR", "LF"}
      /\ state \notin BeforeVersion => r \notin UrlRules
  BY <1>2, RulesFit DEF Fits, KeepsOrder
<1>5. "url" \in Marks /\ MarkedIn("url") = UrlMark
  BY MarkStates
<1>6. <<ch>> \in Seq(Chars) /\ <<ch>> # NULL
  <2>1. <<ch>> \in Seq(Chars)
    OBVIOUS
  <2> QED BY <2>1, MarkAssumption
<1>7. \A s \in Seq(Chars) : /\ Append(s, ch) \in Seq(Chars)
                            /\ Append(s, ch) = s \o <<ch>>
                            /\ Append(s, ch) # NULL
  BY AppendProperties, AppendIsConcat, MarkAssumption
<1>8. /\ received \in Seq(Chars) /\ path \in Seq(Chars)
      /\ since["url"] \in Seq(Chars) \cup {NULL} /\ given["url"] \in Seq(Chars)
      /\ \A f \in Marks : since[f] \in Seq(Chars) \cup {NULL}
  BY <1>1, <1>5 DEF Kinds
<1>9. TypeOK'
  <2>1. state' \in States /\ state' \notin ChunkStates \cup {"s_chunk_data"}
    BY <1>4, StatesAre, ChunkStatesAre DEF BeforeVersion, BehindVersion, UrlMark
  <2>2. \A f \in Marks : since'[f] # NULL => state' \in MarkedIn(f)
    BY <1>1, <1>2, <1>3, <1>4 DEF TypeOK, KeepsMarks
  <2>3. version' \in Versions \cup {"none", "HTTP/0.9"}
    BY <1>1, <1>2 DEF TypeOK
  <2>4. DOMAIN given' = Marks
    BY <1>2 DEF Told
  <2> QED BY <1>1, <1>3, <2>1, <2>2, <2>3, <2>4 DEF TypeOK
<1>10. Kinds'
  <2>1. \A f \in Marks : since'[f] \in Seq(Chars) \cup {NULL}
    <3> TAKE f \in Marks
    <3>1. since[f] \in Seq(Chars) \cup {NULL}
      BY <1>8
    <3> QED BY <1>3, <1>6, <1>7, <3>1
  <2>2. since' \in [Marks -> Seq(Chars) \cup {NULL}]
    BY <1>3, <2>1
  <2>3. given' \in [Marks -> Seq(Chars)]
    BY <1>1, <1>2, ToldKind
  <2>4. path' \in Seq(Chars)
    BY <1>2, <1>8, OverlaidPrefix DEF OnPathCb, PathSlot
  <2>5. received' \in Seq(Chars)
    BY <1>2, <1>7, <1>8
  <2> QED BY <1>1, <2>2, <2>3, <2>4, <2>5 DEF Kinds
<1>11. ASSUME state \in UrlMark /\ "url" \in r.calls
       PROVE  UrlMarked' /\ UrlWhole' /\ PathFilled'
  <2>1. /\ state' \notin UrlMark /\ since'["url"] = NULL /\ since["url"] # NULL
        /\ received' = received /\ Heard("url") = received
        /\ given'["url"] = given["url"] \o since["url"]
        /\ path' = IF user = "aws" THEN Overlaid(since["url"], path) ELSE path
    BY <1>1, <1>2, <1>3, <1>4, <1>5, <1>11
    DEF KeepsUrl, UrlMarked, UrlWhole, Told, OnPathCb, PathSlot, Reading
  <2>2. UrlMarked' /\ UrlWhole'
    <3>1. Heard("url")' = given'["url"]
      BY <2>1, <1>5 DEF Heard, Told
    <3>2. Heard("url") = given["url"] \o since["url"]
      BY <2>1, HeardUrl
    <3> QED BY <1>1, <1>8, <2>1, <3>1, <3>2, PrefixOfConcat DEF UrlMarked, UrlWhole
  <2>3. PathFilled'
    <3>1. CASE user = "aws"
      <4>1. /\ given["url"] = << >> /\ begun > 0
            /\ begun = 1 => path = << >>
        BY <1>1, <1>11, <3>1 DEF PathFilled, FlagsOfMessage, UrlMark, TypeOK
      <4>2. given'["url"] = since["url"] /\ since["url"] \in Seq(Chars)
        BY <1>8, <2>1, <4>1, ConcatEmptySeq
      <4>3. path' = Overlaid(since["url"], path)
        BY <2>1, <3>1
      <4>4. state' # "s_req_spaces_before_url"
        BY <1>2, <1>4, <1>11 DEF KeepsOrder, UrlMark
      <4> QED BY <1>1, <1>8, <2>1, <4>1, <4>2, <4>3, <4>4, OverlaidPrefix DEF PathFilled
    <3> QED BY <1>1, <3>1 DEF PathFilled
  <2> QED BY <2>2, <2>3
<1>12. ASSUME ~(state \in UrlMark /\ "url" \in r.calls)
       PROVE  UrlMarked' /\ UrlWhole' /\ PathFilled'
  <2>1. /\ "url" \notin r.calls
        /\ given'["url"] = given["url"] /\ path' = path
    BY <1>2, <1>4, <1>5, <1>12 DEF KeepsUrl, Told, OnPathCb, PathSlot
  <2>2. since'["url"] = IF "url" \in r.marks THEN <<ch>>
                        ELSE IF since["url"] = NULL THEN NULL
                        ELSE Append(since["url"], ch)
    BY <1>3, <1>5, <2>1
  <2>3. CASE state \in UrlMark
    <3>1. /\ state' \in UrlMark /\ since["url"] # NULL
          /\ since'["url"] = Append(since["url"], ch)
          /\ received' = Append(received, ch) /\ Heard("url") = received
      BY <1>1, <1>2, <1>4, <2>1, <2>2, <2>3 DEF KeepsUrl, UrlMarked, UrlWhole, Reading
    <3>2. since["url"] \in Seq(Chars) /\ since'["url"] # NULL
      BY <1>7, <1>8, <3>1
    <3>3. given["url"] \o since["url"] = received
      BY <3>1, HeardUrl
    <3>4. Heard("url")' = given["url"] \o Append(since["url"], ch)
      BY <1>5, <2>1, <3>1, <3>2 DEF Heard, Told
    <3>5. given["url"] \o Append(since["url"], ch) = Append(received, ch)
      BY <1>8, <3>2, <3>3, ConcatAppend
    <3>6. received' \in Seq(Chars)
      BY <1>7, <1>8, <3>1
    <3>7. UrlMarked' /\ UrlWhole'
      BY <3>1, <3>2, <3>4, <3>5, <3>6, PrefixOfConcat DEF UrlMarked, UrlWhole
    <3>8. PathFilled'
      BY <1>1, <2>1, <2>3 DEF PathFilled
    <3> QED BY <3>7, <3>8
  <2>4. CASE state \notin UrlMark
    <3>1. since["url"] = NULL /\ Heard("url") = given["url"]
      BY <1>1, <2>4, MarksUnset, NoMarksUrl, HeardUrl
    <3>2. received = given["url"]
      BY <1>1, <3>1 DEF UrlWhole, Reading
    <3>3. ASSUME "url" \in r.marks
          PROVE  UrlMarked' /\ UrlWhole'
      <4>1. /\ state' \in UrlMark /\ since'["url"] = <<ch>>
            /\ received' = given["url"] \o <<ch>>
        BY <1>2, <1>4, <1>7, <1>8, <2>2, <2>4, <3>2, <3>3 DEF KeepsUrl
      <4>2. Heard("url")' = given["url"] \o <<ch>>
        BY <1>5, <1>6, <2>1, <4>1 DEF Heard, Told
      <4>3. received' \in Seq(Chars)
        BY <1>10 DEF Kinds
      <4>4. IsPrefix(received', received')
        BY <4>3, PrefixOfConcat
      <4> QED BY <1>6, <4>1, <4>2, <4>4 DEF UrlMarked, UrlWhole
    <3>4. ASSUME "url" \notin r.marks
          PROVE  UrlMarked' /\ UrlWhole'
      <4>1. /\ state' \notin UrlMark /\ since'["url"] = NULL /\ received' = given["url"]
        BY <1>2, <1>4, <2>2, <2>4, <3>1, <3>2, <3>4 DEF KeepsUrl
      <4>2. Heard("url")' = given["url"]
        BY <1>5, <2>1, <4>1 DEF Heard, Told
      <4>3. IsPrefix(given["url"], given["url"])
        BY <1>8, PrefixOfConcat
      <4> QED BY <4>1, <4>2, <4>3 DEF UrlMarked, UrlWhole
    <3>5. PathFilled'
      <4>1. state' \in UrlMark \cup {"s_req_spaces_before_url"} =>
                state = "s_req_spaces_before_url"
        <5>1. r \in LineRules \/ r \in UrlRules
          BY DEF Rules
        <5>2. r \in LineRules => state' \notin UrlMark \cup {"s_req_spaces_before_url"}
          BY <1>2, LineRulesFit DEF BeforeVersion, BehindVersion, UrlMark
        <5>3. r \in UrlRules => state \in UrlMark \cup {"s_req_spaces_before_url"}
          BY <1>2, UrlRulesFit DEF FitsUrl
        <5> QED BY <2>4, <5>1, <5>2, <5>3
      <4> QED BY <1>1, <2>1, <4>1 DEF PathFilled
    <3> QED BY <3>3, <3>4, <3>5
  <2> QED BY <2>3, <2>4
<1>13. FlagsOfMessage' /\ KeptAsAsked'
  <2>1. begun = 0 => state' \in {"s_start_req", "s_dead"}
    BY <1>1, <1>2, <1>4 DEF FlagsOfMessage, KeepsOrder, BeforeVersion, BehindVersion, UrlMark
  <2>2. state' \in BeforeVersion => "HTTP/1.1" \notin asked
    BY <1>1, <1>2, <1>4 DEF FlagsOfMessage, KeepsOrder
  <2>3. state' \notin BeforeVersion \cup {"s_start_req", "s_dead"} =>
            (version' = "HTTP/1.1" <=> "HTTP/1.1" \in asked)
    <3>1. state' \notin BeforeVersion \cup {"s_start_req", "s_dead"} =>
              state \notin {"s_start_req", "s_dead"}
      BY <1>2, <1>4 DEF KeepsOrder, BeforeVersion, BehindVersion, UrlMark
    <3> QED BY <1>1, <1>2, <1>4, <3>1 DEF FlagsOfMessage
  <2>4. state' = "s_start_req" => state = "s_start_req"
    BY <1>2, <1>4 DEF KeepsOrder
  <2>5. state' # "s_dead"
    BY <1>4 DEF BeforeVersion, BehindVersion, UrlMark
  <2> QED BY <1>1, <2>1, <2>2, <2>3, <2>4, <2>5
          DEF FlagsOfMessage, KeptAsAsked, AskedToBeKept, Reading
<1> QED BY <1>9, <1>10, <1>11, <1>12, <1>13 DEF ParserInv

LEMMA MethodStep ==
    ASSUME ParserInv, Method
    PROVE  ParserInv'
<1>0. /\ TypeOK /\ Kinds /\ UrlMarked /\ PathFilled
      /\ Reading /\ state = "s_start_req" /\ state' = "s_req_spaces_before_url"
      /\ at' = "inside" /\ Reading'
      /\ flags' = {} /\ length' = NoLength /\ given' = NothingGiven
      /\ received' = << >> /\ asked' = {} /\ tail' = << >>
      /\ begun' = begun + 1 /\ begun \in Nat /\ begun < MaxMessages
      /\ UNCHANGED <<user, version, since, path>>
  BY ParserAssumption
  DEF ParserInv, Method, FlagsOfNewMessage, NothingSent, Reading, TypeOK
<1>1. << >> \in Seq(Chars) /\ << >> \in Seq(ChunkChars \cup HeaderLines)
  BY EmptySeq
<1>2. since = NoMarks
  BY <1>0, MarksUnset DEF UrlMark
<1>3. state' \in States /\ state' \notin ChunkStates \cup {"s_chunk_data"}
  BY <1>0, StatesAre, ChunkStatesAre DEF BeforeVersion
<1>4. TypeOK'
  <2>1. \A f \in Marks : since'[f] = NULL
    BY <1>0, <1>2 DEF NoMarks
  <2>2. begun' \in 0..MaxMessages /\ length' \in 0..SizeMax
    BY <1>0, ParserAssumption DEF NoLength
  <2>3. DOMAIN since' = Marks /\ DOMAIN given' = Marks
    BY <1>0 DEF TypeOK, NothingGiven
  <2> QED BY <1>0, <1>3, <2>1, <2>2, <2>3 DEF TypeOK
<1>5. Kinds'
  <2>1. given' \in [Marks -> Seq(Chars)]
    BY <1>0, <1>1 DEF NothingGiven
  <2> QED BY <1>0, <1>1, <2>1 DEF Kinds
<1>6. UrlMarked' /\ UrlWhole' /\ PathFilled'
  <2>1. given'["url"] = << >> /\ since'["url"] = NULL
    BY <1>0, <1>2, NoMarksUrl DEF NothingGiven
  <2>2. Heard("url")' = << >>
    BY <2>1, NoMarksUrl DEF Heard, Told
  <2>3. IsPrefix(<< >>, << >>)
    BY <1>1, PrefixOfConcat
  <2>4. path \in Seq(Chars) /\ IsPrefix(<< >>, path)
    <3>1. path \in Seq(Chars) /\ << >> \o path = path
      BY <1>0, ConcatEmptySeq DEF Kinds
    <3> QED BY <1>1, <3>1, PrefixOfConcat
  <2>5. UrlMarked' /\ UrlWhole'
    BY <1>0, <2>2, <2>3 DEF UrlMarked, UrlWhole, UrlMark
  <2>6. begun' = 1 => begun = 0
    BY <1>0
  <2>7. begun' # 0
    BY <1>0
  <2> QED BY <1>0, <2>1, <2>4, <2>5, <2>6, <2>7 DEF PathFilled
<1>7. FlagsOfMessage' /\ KeptAsAsked'
  <2>1. begun' # 0
    BY <1>0
  <2>2. state' \in BeforeVersion
    BY <1>0 DEF BeforeVersion
  <2> QED BY <1>0, <2>1, <2>2 DEF FlagsOfMessage, KeptAsAsked
<1> QED BY <1>4, <1>5, <1>6, <1>7 DEF ParserInv

(* Behind the URL its parts are no longer touched.                         *)
BehindUrl ==
    /\ Reading /\ at' # "refused"
    /\ state \notin UrlMark /\ state' \notin UrlMark \cup {"s_req_spaces_before_url"}
    /\ since' \in {since, NoMarks}
    /\ UNCHANGED <<user, given, path, received, begun>>

LEMMA BehindUrlStep ==
    ASSUME ParserInv, BehindUrl
    PROVE  /\ since' = NoMarks
           /\ \A f \in Marks : since'[f] = NULL
           /\ DOMAIN since' = Marks /\ DOMAIN given' = Marks
           /\ since' \in [Marks -> Seq(Chars) \cup {NULL}]
           /\ UrlMarked' /\ UrlWhole' /\ PathFilled'
<1>1. TypeOK /\ Kinds /\ UrlWhole /\ PathFilled
  BY DEF ParserInv
<1>2. since = NoMarks /\ since' = NoMarks
  BY <1>1, MarksUnset DEF BehindUrl
<1>3. UrlWhole'
  <2>1. Heard("url") = given["url"] /\ Heard("url")' = given'["url"]
    BY <1>2, NoMarksUrl DEF Heard, Told
  <2>2. Heard("url") = received /\ IsPrefix(Heard("url"), received)
    BY <1>1 DEF UrlWhole, BehindUrl, Reading
  <2> QED BY <2>1, <2>2 DEF UrlWhole, BehindUrl
<1>4. UrlMarked' /\ PathFilled'
  BY <1>1 DEF UrlMarked, PathFilled, BehindUrl
<1>5. DOMAIN given' = Marks
  BY <1>1 DEF TypeOK, BehindUrl
<1> QED BY <1>2, <1>3, <1>4, <1>5, NoMarksKind DEF NoMarks

(* What the parser knows at the end of a message: whether the peer asked   *)
(* to keep the connection.                                                 *)
LEMMA NewMessageAsAsked ==
    ASSUME ParserInv, Reading,
           state \notin BeforeVersion \cup {"s_start_req", "s_dead"}
    PROVE  /\ NewMessage \in {"s_start_req", "s_dead"}
           /\ NewMessage = "s_start_req" => AskedToBeKept
           /\ NewMessage = "s_dead" => ~AskedToBeKept
           /\ begun > 0
<1>1. TypeOK /\ FlagsOfMessage
  BY DEF ParserInv
<1>2. begun \in Nat /\ begun # 0
  BY <1>1, ParserAssumption DEF FlagsOfMessage, TypeOK
<1>3. /\ flags \cap ConnectionLines = asked \cap ConnectionLines
      /\ version = "HTTP/1.1" <=> "HTTP/1.1" \in asked
  BY <1>1, <1>2 DEF FlagsOfMessage, Reading
<1>4. /\ "close" \in flags <=> "close" \in asked
      /\ "keep-alive" \in flags <=> "keep-alive" \in asked
  BY <1>3 DEF ConnectionLines
<1> QED BY <1>2, <1>3, <1>4 DEF NewMessage, ShouldKeepAlive, AskedToBeKept

LEMMA VersionStep ==
    ASSUME ParserInv, Version
    PROVE  ParserInv'
<1>0. /\ TypeOK /\ Kinds /\ FlagsOfMessage
      /\ Reading /\ at' = "inside" /\ Reading'
      /\ state = "s_req_http_start" /\ state' = "s_req_http_minor"
      /\ version' \in Versions /\ asked' = asked \cup {version'}
      /\ UNCHANGED <<user, flags, length, since, given, body, path, received,
                     framing, tail, begun>>
  BY DEF ParserInv, Version, Reading
<1>1. state' \in States /\ state' \notin ChunkStates \cup {"s_chunk_data"}
  BY <1>0, StatesAre, ChunkStatesAre DEF BehindVersion
<1>2. BehindUrl
  BY <1>0 DEF BehindUrl, UrlMark
<1>3. TypeOK'
  BY <1>0, <1>1, <1>2, BehindUrlStep DEF TypeOK
<1>4. Kinds'
  BY <1>0, <1>2, BehindUrlStep DEF Kinds
<1>5. FlagsOfMessage' /\ KeptAsAsked'
  <2>1. version' \notin ConnectionLines
    BY <1>0 DEF Versions, ConnectionLines
  <2>2. "HTTP/1.1" \notin asked
    BY <1>0 DEF FlagsOfMessage, BeforeVersion
  <2>3. begun # 0
    BY <1>0 DEF FlagsOfMessage
  <2>4. state' \notin BeforeVersion
    BY <1>0 DEF BeforeVersion, UrlMark
  <2>5. begun > 0 => flags \cap ConnectionLines = asked \cap ConnectionLines
    BY <1>0 DEF FlagsOfMessage, Reading
  <2> QED BY <1>0, <2>1, <2>2, <2>3, <2>4, <2>5 DEF FlagsOfMessage, KeptAsAsked
<1> QED BY <1>2, <1>3, <1>4, <1>5, BehindUrlStep DEF ParserInv

LEMMA HeaderLineStep ==
    ASSUME ParserInv, HeaderLine
    PROVE  ParserInv'
<1>0. PICK h \in HeaderLines :
        /\ flags' = flags \cup ({h} \cap (ConnectionLines \cup {"chunked", "upgrade"}))
        /\ length' = IF h \in DOMAIN Announced THEN Announced[h] ELSE length
        /\ asked' = asked \cup ({h} \cap ConnectionLines)
        /\ tail' = Append(tail, h) \/ tail' = tail
  BY DEF HeaderLine
<1>1. /\ TypeOK /\ Kinds /\ FlagsOfMessage
      /\ Reading /\ at' = "inside" /\ Reading'
      /\ state = "s_header_field_start" /\ state' = state
      /\ UNCHANGED <<user, version, since, given, body, path, received, begun>>
  BY DEF ParserInv, HeaderLine, Reading
<1>2. BehindUrl
  BY <1>1 DEF BehindUrl, UrlMark
<1>3. TypeOK'
  <2>1. length' \in 0..SizeMax
    <3>1. h \in DOMAIN Announced => Announced[h] \in 0..(SizeMax - 1)
      BY AnnouncedAssumption
    <3> QED BY <1>0, <1>1, <3>1, ParserAssumption DEF TypeOK
  <2>2. /\ flags' \subseteq ConnectionLines \cup {"chunked", "upgrade", "trailing"}
        /\ asked' \subseteq Versions \cup ConnectionLines
        /\ "chunked" \in flags => "chunked" \in flags'
    BY <1>0, <1>1 DEF TypeOK
  <2> QED BY <1>1, <1>2, <2>1, <2>2, BehindUrlStep DEF TypeOK
<1>4. Kinds'
  <2>1. h \in ChunkChars \cup HeaderLines /\ tail \in Seq(ChunkChars \cup HeaderLines)
    BY <1>1 DEF Kinds
  <2>2. tail' \in Seq(ChunkChars \cup HeaderLines)
    BY <1>0, <2>1, AppendProperties
  <2> QED BY <1>1, <1>2, <2>2, BehindUrlStep DEF Kinds
<1>5. FlagsOfMessage' /\ KeptAsAsked'
  <2>1. begun > 0 => flags' \cap ConnectionLines = asked' \cap ConnectionLines
    <3>1. begun > 0 => flags \cap ConnectionLines = asked \cap ConnectionLines
      BY <1>1 DEF FlagsOfMessage, Reading
    <3> QED BY <1>0, <3>1
  <2>2. "HTTP/1.1" \in asked' <=> "HTTP/1.1" \in asked
    BY <1>0 DEF ConnectionLines
  <2>3. state \notin BeforeVersion \cup {"s_start_req", "s_dead"}
    BY <1>1 DEF BeforeVersion, UrlMark
  <2> QED BY <1>1, <2>1, <2>2, <2>3 DEF FlagsOfMessage, KeptAsAsked
<1> QED BY <1>2, <1>3, <1>4, <1>5, BehindUrlStep DEF ParserInv

(* The end of a message, from a state behind its version.                  *)
LEMMA EndOfMessage ==
    ASSUME ParserInv, Reading, at' # "refused",
           state \notin BeforeVersion \cup {"s_start_req", "s_dead"},
           \/ state' = NewMessage
           \/ state' \notin BeforeVersion \cup {"s_start_req", "s_dead"},
           flags' \cap ConnectionLines = flags \cap ConnectionLines,
           UNCHANGED <<version, asked, begun>>
    PROVE  FlagsOfMessage' /\ KeptAsAsked'
<1>1. /\ NewMessage \in {"s_start_req", "s_dead"}
      /\ NewMessage = "s_start_req" => AskedToBeKept
      /\ NewMessage = "s_dead" => ~AskedToBeKept
      /\ begun > 0 /\ begun # 0
  BY NewMessageAsAsked DEF ParserInv, FlagsOfMessage
<1>2. FlagsOfMessage /\ at # "refused"
  BY DEF ParserInv, Reading
<1>3. AskedToBeKept' <=> AskedToBeKept
  BY DEF AskedToBeKept
<1>4. state' \notin BeforeVersion
  BY <1>1 DEF BeforeVersion, UrlMark
<1>5. FlagsOfMessage'
  BY <1>1, <1>2, <1>4 DEF FlagsOfMessage
<1>6. KeptAsAsked'
  <2>1. state' \in {"s_start_req", "s_dead"} => state' = NewMessage
    OBVIOUS
  <2> QED BY <1>1, <1>3, <2>1 DEF KeptAsAsked
<1> QED BY <1>5, <1>6

LEMMA HeadersDoneStep ==
    ASSUME ParserInv, HeadersDone
    PROVE  ParserInv'
<1>0. /\ TypeOK /\ Kinds
      /\ Reading /\ state \in {"s_header_field_start", "s_headers_almost_done"}
      /\ \/ at' = "upgraded" /\ since' = NoMarks /\ state' = state
         \/ /\ at' = "inside" /\ since' = since
            /\ \/ state' = NewMessage
               \/ state' = "s_chunk_size_start" /\ "chunked" \in flags
               \/ state' = "s_body_identity"
      /\ tail' = Append(tail, "LF") \/ tail' = tail
      /\ UNCHANGED <<user, version, flags, length, given, body, path, received,
                     asked, framing, begun>>
  BY DEF ParserInv, HeadersDone, AfterHeaders
<1>1. /\ NewMessage \in {"s_start_req", "s_dead"}
      /\ state \notin BeforeVersion \cup {"s_start_req", "s_dead"}
  BY <1>0 DEF NewMessage, BeforeVersion, UrlMark
<1>2. /\ \/ state' = NewMessage
         \/ state' \notin BeforeVersion \cup {"s_start_req", "s_dead"}
      /\ state' \in States
      /\ state' \in ChunkStates \cup {"s_chunk_data"} => "chunked" \in flags
      /\ state' \notin UrlMark \cup {"s_req_spaces_before_url"}
  BY <1>0, <1>1, StatesAre, ChunkStatesAre DEF BeforeVersion, BehindVersion, UrlMark
<1>3. BehindUrl
  BY <1>0, <1>1, <1>2 DEF BehindUrl, BeforeVersion
<1>4. TypeOK'
  BY <1>0, <1>2, <1>3, BehindUrlStep DEF TypeOK
<1>5. Kinds'
  <2>1. "LF" \in ChunkChars \cup HeaderLines /\ tail \in Seq(ChunkChars \cup HeaderLines)
    BY <1>0 DEF Kinds, ChunkChars
  <2>2. tail' \in Seq(ChunkChars \cup HeaderLines)
    BY <1>0, <2>1, AppendProperties
  <2> QED BY <1>0, <1>3, <2>2, BehindUrlStep DEF Kinds
<1>6. FlagsOfMessage' /\ KeptAsAsked'
  BY <1>0, <1>1, <1>2, EndOfMessage
<1> QED BY <1>3, <1>4, <1>5, <1>6, BehindUrlStep DEF ParserInv

LEMMA ChunkLineStep ==
    ASSUME ParserInv, ChunkLine
    PROVE  ParserInv'
<1>0. PICK r \in ChunkRules, ch \in ChunkChars :
        /\ r.from = state
        /\ state' = "s_header_field_start" \/ state' = r.to
        /\ flags' = flags \cup {"trailing"} \/ flags' = flags
        /\ \/ length' = HexValue(ch)
           \/ length' = (16 * length + HexValue(ch)) % (SizeMax + 1)
           \/ length' = length
        /\ tail' = Append(tail, ch)
  BY DEF ChunkLine
<1>1. /\ TypeOK /\ Kinds
      /\ Reading /\ at' = "inside" /\ Reading'
      /\ UNCHANGED <<user, version, since, given, body, path, received, asked,
                     framing, begun>>
  BY DEF ParserInv, ChunkLine, Reading
<1>2. /\ state \in ChunkStates
      /\ state' \in ChunkStates \cup {"s_chunk_data", "s_header_field_start"}
  BY <1>0, ChunkStatesAre DEF ChunkStates
<1>3. /\ state \notin BeforeVersion \cup {"s_start_req", "s_dead"}
      /\ state' \notin BeforeVersion \cup {"s_start_req", "s_dead"}
  BY <1>2, ChunkStatesAre DEF BeforeVersion, UrlMark
<1>4. BehindUrl
  BY <1>1, <1>3 DEF BehindUrl, BeforeVersion
<1>5. TypeOK'
  <2>1. length' \in 0..SizeMax
    <3>1. HexValue(ch) \in 0..1 /\ length \in 0..SizeMax /\ SizeMax \in Nat /\ SizeMax >= 2
      BY <1>1, ParserAssumption DEF HexValue, TypeOK
    <3>2. (16 * length + HexValue(ch)) % (SizeMax + 1) \in 0..SizeMax
      BY <3>1
    <3>3. HexValue(ch) \in 0..SizeMax
      BY <3>1
    <3> QED BY <1>0, <3>1, <3>2, <3>3
  <2>2. state' \in States
    BY <1>2, StatesAre DEF BehindVersion
  <2>3. "chunked" \in flags /\ "chunked" \in flags'
    BY <1>0, <1>1, <1>2 DEF TypeOK
  <2>4. flags' \subseteq ConnectionLines \cup {"chunked", "upgrade", "trailing"}
    BY <1>0, <1>1 DEF TypeOK
  <2> QED BY <1>1, <1>4, <2>1, <2>2, <2>3, <2>4, BehindUrlStep DEF TypeOK
<1>6. Kinds'
  <2>1. ch \in ChunkChars \cup HeaderLines /\ tail \in Seq(ChunkChars \cup HeaderLines)
    BY <1>1 DEF Kinds
  <2>2. tail' \in Seq(ChunkChars \cup HeaderLines)
    BY <1>0, <2>1, AppendProperties
  <2> QED BY <1>1, <1>4, <2>2, BehindUrlStep DEF Kinds
<1>7. FlagsOfMessage' /\ KeptAsAsked'
  <2>1. flags' \cap ConnectionLines = flags \cap ConnectionLines
    BY <1>0 DEF ConnectionLines
  <2> QED BY <1>1, <1>3, <2>1, EndOfMessage
<1> QED BY <1>4, <1>5, <1>6, <1>7, BehindUrlStep DEF ParserInv

LEMMA BodyDataStep ==
    ASSUME ParserInv, BodyData
    PROVE  ParserInv'
<1>0. /\ TypeOK /\ Kinds
      /\ Reading /\ state \in {"s_body_identity", "s_chunk_data"}
      /\ UNCHANGED <<user, version, flags, since, given, path, received, asked,
                     framing, begun>>
  BY DEF ParserInv, BodyData
<1> DEFINE room == (IF state = "s_chunk_data" THEN MaxTail ELSE MaxData) - Len(tail)
<1>1. PICK n \in 1..Min({length, room}) : \E piece \in [1..n -> Data] :
        /\ tail' = tail \o piece
        /\ length' = length - n
        /\ at' = IF n < length THEN "last" ELSE "inside"
        /\ state' = BehindData(n, IF state = "s_chunk_data"
                                  THEN "s_chunk_data_almost_done" ELSE NewMessage)
  BY DEF BodyData
<1>2. length \in Nat /\ room \in Int /\ tail \in Seq(ChunkChars \cup HeaderLines)
  BY <1>0, LenProperties, ParserAssumption DEF TypeOK, Kinds
<1> HIDE DEF room
<1>3. Min({length, room}) \in Int /\ Min({length, room}) <= length
  <2>1. \E x \in {length, room} : \A y \in {length, room} : x <= y
    BY <1>2
  <2>2. /\ Min({length, room}) \in {length, room}
        /\ \A y \in {length, room} : Min({length, room}) <= y
    BY <2>1 DEF Min
  <2> QED BY <1>2, <2>2
<1>4. n \in Nat /\ n <= length /\ 1 <= n
  BY <1>2, <1>3
<1>5. /\ NewMessage \in {"s_start_req", "s_dead"}
      /\ state \notin BeforeVersion \cup {"s_start_req", "s_dead"}
      /\ state' \in {state, NewMessage, "s_chunk_data_almost_done"}
      /\ state' = "s_chunk_data_almost_done" => state = "s_chunk_data"
      /\ at' \in {"last", "inside"}
  BY <1>0, <1>1 DEF NewMessage, BeforeVersion, UrlMark, BehindData
<1>6. /\ state' = NewMessage \/ state' \notin BeforeVersion \cup {"s_start_req", "s_dead"}
      /\ state' \in States
      /\ state' \in ChunkStates \cup {"s_chunk_data"} => state = "s_chunk_data"
      /\ state' \notin UrlMark \cup {"s_req_spaces_before_url"}
  BY <1>0, <1>5, StatesAre, ChunkStatesAre DEF BeforeVersion, UrlMark
<1>7. BehindUrl
  BY <1>0, <1>5, <1>6 DEF BehindUrl, BeforeVersion
<1>8. TypeOK'
  <2>1. length' \in 0..SizeMax
    BY <1>0, <1>1, <1>4, ParserAssumption DEF TypeOK
  <2>2. state' \in ChunkStates \cup {"s_chunk_data"} => "chunked" \in flags
    BY <1>0, <1>6 DEF TypeOK
  <2> QED BY <1>0, <1>5, <1>6, <1>7, <2>1, <2>2, BehindUrlStep DEF TypeOK
<1>9. Kinds'
  <2>1. tail' \in Seq(ChunkChars \cup HeaderLines)
    <3>1. PICK piece \in [1..n -> Data] : tail' = tail \o piece
      BY <1>1
    <3>2. piece \in [1..n -> ChunkChars \cup HeaderLines]
      BY DEF Data, ChunkChars, HexDigits
    <3>3. piece \in Seq(ChunkChars \cup HeaderLines)
      BY <1>4, <3>2
    <3> QED BY <1>2, <3>1, <3>3, ConcatProperties
  <2> QED BY <1>0, <1>7, <2>1, BehindUrlStep DEF Kinds
<1>10. FlagsOfMessage' /\ KeptAsAsked'
  BY <1>0, <1>5, <1>6, EndOfMessage
<1> QED BY <1>7, <1>8, <1>9, <1>10, BehindUrlStep DEF ParserInv

LEMMA RefuseStep ==
    ASSUME ParserInv, Refuse
    PROVE  ParserInv'
<1>0. /\ TypeOK /\ Kinds /\ UrlWhole /\ PathFilled /\ FlagsOfMessage
      /\ Reading /\ state' = "s_dead" /\ at' = "refused"
      /\ flags' = {} \/ flags' = flags
      /\ since' = NoMarks
      /\ length' = NoLength \/ length' = length
      /\ UNCHANGED <<user, version, given, body, path, received, asked, framing, tail, begun>>
  BY DEF ParserInv, Refuse, FlagsOfNewMessage, message
<1>1. state' \in States /\ state' \notin ChunkStates \cup {"s_chunk_data"}
  BY <1>0, StatesAre, ChunkStatesAre
<1>2. TypeOK'
  <2>1. DOMAIN since' = Marks /\ \A f \in Marks : since'[f] = NULL
    BY <1>0 DEF NoMarks
  <2>2. length' \in 0..SizeMax
    BY <1>0, ParserAssumption DEF TypeOK, NoLength
  <2>3. flags' \subseteq ConnectionLines \cup {"chunked", "upgrade", "trailing"}
    BY <1>0 DEF TypeOK
  <2> QED BY <1>0, <1>1, <2>1, <2>2, <2>3 DEF TypeOK
<1>3. Kinds'
  BY <1>0, NoMarksKind DEF Kinds
<1>4. UrlMarked' /\ PathFilled'
  BY <1>0 DEF UrlMarked, PathFilled, Reading
<1>5. UrlWhole'
  <2>1. Heard("url")' = given["url"]
    BY <1>0, NoMarksUrl DEF Heard, Told
  <2>2. Heard("url") = received
    BY <1>0 DEF UrlWhole, Reading
  <2>3. given["url"] \in Seq(Chars) /\ since["url"] \in Seq(Chars) \cup {NULL}
    BY <1>0, NoMarksUrl DEF Kinds
  <2>4. IsPrefix(given["url"], Heard("url"))
    BY <2>3, HeardUrl, PrefixOfConcat, EmptySeq
  <2> QED BY <1>0, <2>1, <2>2, <2>4 DEF UrlWhole
<1>6. FlagsOfMessage' /\ KeptAsAsked'
  BY <1>0 DEF FlagsOfMessage, KeptAsAsked, BeforeVersion, UrlMark
<1> QED BY <1>2, <1>3, <1>4, <1>5, <1>6 DEF ParserInv

LEMMA EndOfBufferStep ==
    ASSUME ParserInv, EndOfBuffer
    PROVE  ParserInv'
<1>0. /\ TypeOK /\ Kinds /\ UrlWhole /\ PathFilled /\ FlagsOfMessage /\ KeptAsAsked
      /\ at \in {"inside", "last"} /\ at' = "outside"
      /\ given' = Told(Marks) /\ OnPathCb(Marks) /\ since' = NoMarks
      /\ UNCHANGED <<user, state, version, flags, length, body, received, asked,
                     framing, tail, begun>>
  BY DEF ParserInv, EndOfBuffer, message
<1>1. /\ "url" \in Marks /\ path \in Seq(Chars) /\ given["url"] \in Seq(Chars)
      /\ since["url"] \in Seq(Chars) \cup {NULL}
  BY <1>0, NoMarksUrl DEF Kinds
<1>2. /\ given'["url"] = IF since["url"] # NULL THEN given["url"] \o since["url"]
                                                ELSE given["url"]
      /\ path' = IF user = "aws" /\ since["url"] # NULL
                 THEN Overlaid(since["url"], path) ELSE path
  BY <1>0, <1>1 DEF Told, OnPathCb, PathSlot
<1>3. TypeOK'
  <2>1. DOMAIN since' = Marks /\ DOMAIN given' = Marks /\ \A f \in Marks : since'[f] = NULL
    BY <1>0 DEF NoMarks, Told
  <2> QED BY <1>0, <2>1 DEF TypeOK
<1>4. Kinds'
  <2>1. given' \in [Marks -> Seq(Chars)]
    BY <1>0, ToldKind
  <2>2. path' \in Seq(Chars)
    BY <1>1, <1>2, OverlaidPrefix
  <2> QED BY <1>0, <2>1, <2>2, NoMarksKind DEF Kinds
<1>5. UrlWhole'
  <2>1. Heard("url")' = given'["url"]
    BY <1>0, NoMarksUrl DEF Heard, Told
  <2>2. Heard("url") = Told(Marks)["url"]
    BY DEF Heard
  <2>3. IsPrefix(given'["url"], received) /\ given'["url"] = received
    BY <1>0, <2>2 DEF UrlWhole
  <2> QED BY <1>0, <2>1, <2>3 DEF UrlWhole
<1>6. UrlMarked' /\ PathFilled'
  <2>1. ~Reading'
    BY <1>0 DEF Reading
  <2>2. CASE user = "aws" /\ since["url"] # NULL
    <3>1. state \in UrlMark /\ Reading
      BY <1>0, <1>1, <2>2, MarkStates DEF TypeOK
    <3>2. given["url"] = << >> /\ begun # 0 /\ (begun = 1 => path = << >>)
      BY <1>0, <2>2, <3>1 DEF PathFilled, FlagsOfMessage, UrlMark
    <3>3. since["url"] \in Seq(Chars) /\ given'["url"] = since["url"]
      BY <1>1, <1>2, <2>2, <3>2, ConcatEmptySeq
    <3>4. path' = Overlaid(since["url"], path)
      BY <1>2, <2>2
    <3>5. IsPrefix(given'["url"], path') /\ (begun = 1 => path' = given'["url"])
      BY <1>1, <3>2, <3>3, <3>4, OverlaidPrefix
    <3> QED BY <1>0, <2>1, <3>2, <3>5 DEF UrlMarked, PathFilled
  <2>3. CASE ~(user = "aws" /\ since["url"] # NULL)
    BY <1>0, <1>2, <2>1, <2>3 DEF UrlMarked, PathFilled
  <2> QED BY <2>2, <2>3
<1>7. FlagsOfMessage' /\ KeptAsAsked'
  BY <1>0 DEF FlagsOfMessage, KeptAsAsked, AskedToBeKept
<1> QED BY <1>3, <1>4, <1>5, <1>6, <1>7 DEF ParserInv

(* Every step, and a step of others, keeps the invariant.                  *)
LEMMA NextParser == ParserInv /\ [Next]_vars => ParserInv'
<1> SUFFICES ASSUME ParserInv, [Next]_vars PROVE ParserInv'
  OBVIOUS
<1>1. CASE UNCHANGED vars
  BY <1>1 DEF vars, ParserInv, TypeOK, Kinds, UrlMarked, UrlWhole, PathFilled,
      FlagsOfMessage, KeptAsAsked, AskedToBeKept, Reading, Heard, Told
<1>2. CASE Next
  BY <1>2, HandleClientRequestStep, ResumeStep, CharacterStep, MethodStep,
     VersionStep, HeaderLineStep, HeadersDoneStep, ChunkLineStep, BodyDataStep,
     RefuseStep, EndOfBufferStep DEF Next
<1> QED BY <1>1, <1>2

-----------------------------------------------------------------------------
(* The theorems.                                                           *)

(* The inductive invariant: marks, what was reported, path and flags agree *)
(* with what the peer sent, however the buffers cut it.                    *)
THEOREM ParserInvariant == Spec => []ParserInv
  BY InitParser, NextParser, PTL DEF Spec

(* The parser is in one of its states; a mark is set only inside a call    *)
(* and inside its element; chunks are read with F_CHUNKED only.            *)
THEOREM ParserTypeCorrect == Spec => []TypeOK
<1>1. ParserInv => TypeOK
  BY DEF ParserInv
<1> QED BY <1>1, ParserInvariant, PTL

(* on_url gets every character of a URL of any length exactly once, for    *)
(* any number of buffers that cut it anywhere.                             *)
THEOREM UrlReportedWhole == Spec => []UrlWhole
<1>1. ParserInv => UrlWhole
  BY DEF ParserInv
<1> QED BY <1>1, ParserInvariant, PTL

(* What AsyncWebServer takes a buffer to leave in path (PathsIn): what was *)
(* read of the URL of its only request, or the URL of its last one with    *)
(* the end of what was there.  It is so because on_path_cb sits in the     *)
(* slot of on_url; the comments at aws.c:42 and 54 mean the path alone.    *)
LeftInPath ==
    user = "aws" /\ at \in {"outside", "refused", "upgraded"} /\ begun > 0 =>
        /\ IsPrefix(given.url, path)
        /\ begun = 1 => path = given.url
        /\ at = "outside" => given.url = received

(* handle_client_request() goes on with such a path after each buffer.     *)
THEOREM PathLeftToServer == Spec => []LeftInPath
<1>1. ParserInv => LeftInPath
  <2> SUFFICES ASSUME ParserInv, user = "aws", begun > 0,
                      at \in {"outside", "refused", "upgraded"}
               PROVE  /\ IsPrefix(given["url"], path)
                      /\ begun = 1 => path = given["url"]
                      /\ at = "outside" => given["url"] = received
    BY DEF LeftInPath
  <2>1. IsPrefix(given["url"], path) /\ (begun = 1 => path = given["url"])
    BY DEF ParserInv, PathFilled
  <2>2. since["url"] = NULL
    BY MarksUnset, NoMarksUrl DEF ParserInv, Reading
  <2>3. at = "outside" => given["url"] = received
    BY <2>2, HeardUrl DEF ParserInv, UrlWhole
  <2> QED BY <2>1, <2>3
<1> QED BY <1>1, ParserInvariant, PTL

(* http_should_keep_alive() goes by the flags and the version of the       *)
(* message that ends, never by those of an earlier one.                    *)
THEOREM KeptOnlyAsAsked == Spec => []KeptAsAsked
<1>1. ParserInv => KeptAsAsked
  BY DEF ParserInv
<1> QED BY <1>1, ParserInvariant, PTL
-----------------------------------------------------------------------------
(* The parts of the URL.                                                    *)

(* The parts of PartsOf before repeated separators are dropped.             *)
RawPath(u)  == Slice(u, PathStart(u), First(u, {"?", "#"}))
Query(u)    == Slice(u, First(u, {"?", "#"}), First(u, {"#"}))
Fragment(u) == Slice(u, First(u, {"#"}), Len(u) + 1)

(* No character of S in u; nothing but c in v.                              *)
Lacks(u, S) == First(u, S) > Len(u)
Blank(v, c) == Lacks(v, Chars \ {c})

(* Which part of the URL u ends in.                                        *)
NoPath(u)     == PathStart(u) > Len(u) /\ Lacks(u, {"?", "#"})
InPath(u)     == PathStart(u) <= Len(u) /\ Lacks(u, {"?", "#"})
InQuery(u)    == PathStart(u) <= Len(u) /\ ~Lacks(u, {"?", "#"}) /\ Lacks(u, {"#"})
InFragment(u) == PathStart(u) <= Len(u) /\ ~Lacks(u, {"#"})

(* The colon of a scheme.                                                   *)
SchemeColon(u, j) ==
    /\ j \in 1..Len(u) /\ u[j] = ":"
    /\ \A k \in 1..(j - 1) : u[k] \in Letters

(* What the state of the parser says of the part of the URL it has read: a  *)
(* state for each of the separators that PartsOf goes by.                   *)
Place(st, u) ==
    /\ st = "s_req_spaces_before_url" => u = << >>
    /\ st = "s_req_schema" => u # << >> /\ \A k \in 1..Len(u) : u[k] \in Letters
    /\ st = "s_req_schema_slash" => SchemeColon(u, Len(u))
    /\ st = "s_req_schema_slash_slash" => SchemeColon(u, Len(u) - 1)
    /\ st \in {"s_req_host", "s_req_port"} =>
          /\ SchemeSlashes(u) \subseteq 1..Len(u)
          /\ \E k \in 1..Len(u) : u[k] \notin Letters
    /\ st \in {"s_req_schema", "s_req_schema_slash", "s_req_schema_slash_slash",
               "s_req_host", "s_req_port"} => NoPath(u)
    /\ st = "s_req_path" => InPath(u)
    /\ st = "s_req_query_string_start" => InQuery(u) /\ Blank(Query(u), "?")
    /\ st = "s_req_query_string" => InQuery(u) /\ ~Blank(Query(u), "?")
    /\ st = "s_req_fragment_start" => InFragment(u) /\ Blank(Fragment(u), "#")
    /\ st = "s_req_fragment" => InFragment(u) /\ ~Blank(Fragment(u), "#")

(* Inside its part of the URL each mark is set while the parser runs.       *)
PartsMarked ==
    \A f \in Marks : Reading /\ state \in MarkedIn(f) => since[f] # NULL

-----------------------------------------------------------------------------
(* Sequences and least elements, one character longer.                     *)

(* The least of I, or a bound behind it, when one number is added.         *)
LEMMA LeastStep ==
    ASSUME NEW n \in Nat, NEW I, NEW J, I \subseteq 1..n, J \subseteq 1..(n + 1),
           \A i \in 1..n : i \in J <=> i \in I
    PROVE  /\ Min(I \cup {n + 1}) \in 1..(n + 1)
           /\ Min(I \cup {n + 1}) <= n => Min(I \cup {n + 1}) \in I
           /\ \A i \in I : Min(I \cup {n + 1}) <= i
           /\ Min(J \cup {n + 2}) = IF Min(I \cup {n + 1}) <= n THEN Min(I \cup {n + 1})
                                    ELSE IF n + 1 \in J THEN n + 1 ELSE n + 2
<1> DEFINE A == I \cup {n + 1}
           B == J \cup {n + 2}
           a == Min(A)
           b == Min(B)
<1>1. a \in A /\ \A y \in A : a <= y
  <2>1. A \in SUBSET Nat /\ A # {}
    OBVIOUS
  <2> HIDE DEF A
  <2> QED BY <2>1, MinIsLeast
<1>2. b \in B /\ \A y \in B : b <= y
  <2>1. B \in SUBSET Nat /\ B # {}
    OBVIOUS
  <2> HIDE DEF B
  <2> QED BY <2>1, MinIsLeast
<1> HIDE DEF a, b
<1>3. a \in 1..(n + 1) /\ (a <= n => a \in I) /\ \A i \in I : a <= i
  BY <1>1
<1>4. CASE a <= n
  <2>1. a \in J /\ a \in 1..n
    BY <1>3, <1>4
  <2>2. b <= a /\ b \in Int
    BY <1>2, <2>1
  <2>3. b \in 1..n
    BY <1>2, <1>4, <2>1, <2>2
  <2>4. b \in I
    BY <1>2, <2>3
  <2> QED BY <1>3, <1>4, <2>2, <2>3, <2>4 DEF a, b
<1>5. CASE ~(a <= n)
  <2>1. I = {}
    BY <1>3, <1>5
  <2>2. J \subseteq {n + 1}
    BY <2>1
  <2>3. b = IF n + 1 \in J THEN n + 1 ELSE n + 2
    <3>1. CASE n + 1 \in J
      BY <1>2, <2>2, <3>1
    <3>2. CASE n + 1 \notin J
      BY <1>2, <2>2, <3>2
    <3> QED BY <3>1, <3>2
  <2> QED BY <1>3, <1>5, <2>3 DEF a, b
<1> QED BY <1>4, <1>5

(* A sequence and the one that a character makes of it.                    *)
LEMMA AppendFacts ==
    ASSUME NEW u \in Seq(Chars), NEW c \in Chars
    PROVE  /\ Len(u) \in Nat /\ DOMAIN u = 1..Len(u)
           /\ Append(u, c) \in Seq(Chars)
           /\ Len(Append(u, c)) = Len(u) + 1
           /\ DOMAIN Append(u, c) = 1..(Len(u) + 1)
           /\ \A i \in 1..Len(u) : Append(u, c)[i] = u[i] /\ u[i] \in Chars
           /\ Append(u, c)[Len(u) + 1] = c
<1>1. Append(u, c) \in Seq(Chars)
  BY AppendProperties
<1> QED BY <1>1, LenProperties, AppendProperties, ElementOfSeq

(* Where a separator is found, before and after a character is read.       *)
LEMMA FirstStep ==
    ASSUME NEW u \in Seq(Chars), NEW c \in Chars, NEW S
    PROVE  /\ First(u, S) \in 1..(Len(u) + 1)
           /\ First(u, S) <= Len(u) => u[First(u, S)] \in S
           /\ \A i \in 1..Len(u) : u[i] \in S => First(u, S) <= i
           /\ First(Append(u, c), S) =
                  IF First(u, S) <= Len(u) THEN First(u, S)
                  ELSE IF c \in S THEN Len(u) + 1 ELSE Len(u) + 2
<1> DEFINE n == Len(u)
           v == Append(u, c)
           I == {i \in DOMAIN u : u[i] \in S}
           J == {i \in DOMAIN v : v[i] \in S}
<1>1. /\ n \in Nat /\ DOMAIN u = 1..n /\ DOMAIN v = 1..(n + 1) /\ Len(v) = n + 1
      /\ v[n + 1] = c /\ \A i \in 1..n : v[i] = u[i]
  BY AppendFacts
<1>2. /\ I \subseteq 1..n /\ J \subseteq 1..(n + 1)
      /\ \A i \in 1..n : i \in J <=> i \in I
      /\ n + 1 \in J <=> c \in S
  <2> HIDE DEF n, v
  <2> QED BY <1>1
<1>3. First(u, S) = Min(I \cup {n + 1}) /\ First(v, S) = Min(J \cup {n + 2})
  <2>1. Len(v) + 1 = n + 2
    BY <1>1
  <2> QED BY <2>1 DEF First
<1>4. \A i : i \in I <=> i \in 1..n /\ u[i] \in S
  BY <1>1
<1> HIDE DEF I, J, v, n
<1> DEFINE a == Min(I \cup {n + 1})
<1>5. /\ a \in 1..(n + 1) /\ (a <= n => a \in I) /\ \A i \in I : a <= i
      /\ Min(J \cup {n + 2}) = IF a <= n THEN a ELSE IF n + 1 \in J THEN n + 1 ELSE n + 2
  BY <1>1, <1>2, LeastStep
<1> HIDE DEF a
<1> QED BY <1>1, <1>2, <1>3, <1>4, <1>5 DEF a, n, v

(* A place in a sequence of n elements, and the place in one element more: *)
(* what was not found before the end may be the end again.                 *)
Moves(n, i, k) ==
    /\ i \in 1..(n + 1)
    /\ k = i \/ (i = n + 1 /\ k = i + 1)

(* A part between two places, before and after a character is read.        *)
LEMMA SliceStep ==
    ASSUME NEW u \in Seq(Chars), NEW c \in Chars,
           NEW i, NEW j, NEW k, NEW l, Moves(Len(u), i, k), Moves(Len(u), j, l)
    PROVE  /\ Slice(u, i, j) \in Seq(Chars)
           /\ Slice(Append(u, c), k, l) =
                  IF l = Len(u) + 2 /\ k # Len(u) + 2 THEN Append(Slice(u, i, j), c)
                  ELSE Slice(u, i, j)
<1> DEFINE n == Len(u)
           v == Append(u, c)
           s == Slice(u, i, j)
           t == Slice(v, k, l)
<1>1. /\ n \in Nat /\ v \in Seq(Chars) /\ Len(v) = n + 1 /\ v[n + 1] = c
      /\ \A m \in 1..n : v[m] = u[m] /\ u[m] \in Chars
      /\ \A m \in 1..(n + 1) : v[m] \in Chars
  BY AppendFacts
<1>2. i \in 1..(n + 1) /\ j \in 1..(n + 1)
  BY DEF Moves
<1>3. /\ k = i \/ (i = n + 1 /\ k = n + 2)
      /\ l = j \/ (j = n + 1 /\ l = n + 2)
  BY <1>1 DEF Moves
<1> HIDE DEF n, v
<1>4. /\ s \in Seq(Chars)
      /\ Len(s) = IF i <= j - 1 THEN j - i ELSE 0
      /\ \A m \in 1..(j - i) : s[m] = u[i + m - 1]
  <2>1. \A m \in i..(j - 1) : u[m] \in Chars
    BY <1>1, <1>2
  <2>2. i \in Int /\ j - 1 \in Int
    BY <1>1, <1>2
  <2>3. /\ SubSeq(u, i, j - 1) \in Seq(Chars)
        /\ Len(SubSeq(u, i, j - 1)) = IF i <= j - 1 THEN (j - 1) - i + 1 ELSE 0
        /\ \A m \in 1..((j - 1) - i + 1) : SubSeq(u, i, j - 1)[m] = u[i + m - 1]
    BY <2>1, <2>2, SubSeqProperties
  <2>4. (j - 1) - i + 1 = j - i
    BY <1>1, <1>2
  <2> QED BY <2>3, <2>4 DEF Slice
<1>5. /\ t \in Seq(Chars)
      /\ Len(t) = IF k <= l - 1 THEN l - k ELSE 0
      /\ \A m \in 1..(l - k) : t[m] = v[k + m - 1]
  <2>1. \A m \in k..(l - 1) : v[m] \in Chars
    BY <1>1, <1>2, <1>3
  <2>2. k \in Int /\ l - 1 \in Int
    BY <1>1, <1>2, <1>3
  <2>3. /\ SubSeq(v, k, l - 1) \in Seq(Chars)
        /\ Len(SubSeq(v, k, l - 1)) = IF k <= l - 1 THEN (l - 1) - k + 1 ELSE 0
        /\ \A m \in 1..((l - 1) - k + 1) : SubSeq(v, k, l - 1)[m] = v[k + m - 1]
    BY <2>1, <2>2, SubSeqProperties
  <2>4. (l - 1) - k + 1 = l - k
    BY <1>1, <1>2, <1>3
  <2> QED BY <2>3, <2>4 DEF Slice
<1> HIDE DEF s, t
<1>6. CASE l = n + 2 /\ k # n + 2
  <2>1. k = i /\ j = n + 1
    BY <1>1, <1>2, <1>3, <1>6
  <2>2. /\ Append(s, c) \in Seq(Chars) /\ Len(Append(s, c)) = Len(s) + 1
        /\ Append(s, c)[Len(s) + 1] = c
        /\ \A m \in 1..Len(s) : Append(s, c)[m] = s[m]
    BY <1>4, AppendFacts
  <2>3. Len(s) = n + 1 - i /\ Len(t) = n + 2 - i
    BY <1>1, <1>2, <1>4, <1>5, <1>6, <2>1
  <2>4. \A m \in 1..(n + 1 - i) : t[m] = s[m]
    <3> TAKE m \in 1..(n + 1 - i)
    <3>1. s[m] = u[i + m - 1] /\ t[m] = v[i + m - 1]
      BY <1>1, <1>2, <1>4, <1>5, <1>6, <2>1
    <3>2. i + m - 1 \in 1..n
      BY <1>1, <1>2
    <3> QED BY <1>1, <3>1, <3>2
  <2>5. t[n + 2 - i] = c
    <3>1. PICK m : m = n + 2 - i
      OBVIOUS
    <3>2. m \in 1..(l - k) /\ k + m - 1 = n + 1
      BY <1>1, <1>2, <1>6, <2>1, <3>1
    <3>3. t[m] = v[k + m - 1]
      BY <1>5, <3>2
    <3> QED BY <1>1, <3>1, <3>2, <3>3
  <2>6. t = Append(s, c)
    <3>1. Len(t) = Len(Append(s, c))
      BY <1>1, <1>2, <2>2, <2>3
    <3>2. \A m \in 1..Len(t) : t[m] = Append(s, c)[m]
      <4> TAKE m \in 1..Len(t)
      <4>1. m \in 1..(n + 1 - i) \/ m = n + 2 - i
        BY <1>1, <1>2, <2>3
      <4>2. n + 2 - i = Len(s) + 1
        BY <1>1, <1>2, <2>3
      <4> QED BY <2>2, <2>3, <2>4, <2>5, <4>1, <4>2
    <3> QED BY <1>5, <2>2, <3>1, <3>2, SeqEqual
  <2> QED BY <1>4, <1>6, <2>6 DEF s, t, n, v
<1>7. CASE ~(l = n + 2 /\ k # n + 2)
  <2>1. Len(t) = Len(s)
    <3>1. CASE k = i
      <4>1. l = j \/ (j = n + 1 /\ i = n + 2)
        BY <1>1, <1>3, <1>7, <3>1
      <4>2. l = j
        BY <1>1, <1>2, <4>1
      <4> QED BY <1>4, <1>5, <3>1, <4>2
    <3>2. CASE k # i
      <4>1. i = n + 1 /\ k = n + 2 /\ (l = j \/ l = n + 2)
        BY <1>3, <3>2
      <4>2. ~(k <= l - 1) /\ ~(i <= j - 1)
        BY <1>1, <1>2, <4>1
      <4> QED BY <1>4, <1>5, <4>2
    <3> QED BY <3>1, <3>2
  <2>2. \A m \in 1..Len(t) : t[m] = s[m]
    <3> TAKE m \in 1..Len(t)
    <3>1. /\ k = i /\ l = j /\ m \in 1..(j - i) /\ m \in 1..(l - k)
          /\ i + m - 1 \in 1..n
      BY <1>1, <1>2, <1>3, <1>5, <1>7, <2>1
    <3> QED BY <1>1, <1>4, <1>5, <3>1
  <2>3. t = s
    BY <1>4, <1>5, <2>1, <2>2, SeqEqual
  <2> QED BY <1>4, <1>7, <2>3 DEF s, t, n, v
<1> QED BY <1>6, <1>7

LEMMA SliceToEnd ==
    ASSUME NEW u \in Seq(Chars), NEW c \in Chars, NEW i, NEW k, Moves(Len(u), i, k)
    PROVE  /\ Slice(u, i, Len(u) + 1) \in Seq(Chars)
           /\ Slice(Append(u, c), k, Len(u) + 2) =
                  IF k # Len(u) + 2 THEN Append(Slice(u, i, Len(u) + 1), c)
                  ELSE Slice(u, i, Len(u) + 1)
<1>1. PICK j, l : j = Len(u) + 1 /\ l = Len(u) + 2
  OBVIOUS
<1>2. Moves(Len(u), j, l)
  <2>1. Len(u) \in Nat
    BY LenProperties
  <2> QED BY <1>1, <2>1 DEF Moves
<1>3. /\ Slice(u, i, j) \in Seq(Chars)
      /\ Slice(Append(u, c), k, l) =
             IF l = Len(u) + 2 /\ k # Len(u) + 2 THEN Append(Slice(u, i, j), c)
             ELSE Slice(u, i, j)
  BY <1>2, SliceStep
<1> QED BY <1>1, <1>3

(* What is left when leading separators are dropped.                       *)
LEMMA WithoutStep ==
    ASSUME NEW w \in Seq(Chars), NEW d, NEW c \in Chars
    PROVE  /\ Blank(Append(w, c), d) <=> Blank(w, d) /\ c = d
           /\ Without(Append(w, c), d) = IF Blank(w, d) /\ c = d THEN Without(w, d)
                                         ELSE Append(Without(w, d), c)
<1> DEFINE v == Append(w, c)
           i == First(w, Chars \ {d})
           k == First(v, Chars \ {d})
<1>1. Len(w) \in Nat /\ Len(v) = Len(w) + 1
  BY AppendFacts
<1>2. /\ i \in 1..(Len(w) + 1)
      /\ k = IF i <= Len(w) THEN i ELSE IF c # d THEN Len(w) + 1 ELSE Len(w) + 2
  BY FirstStep
<1>3. /\ Without(w, d) = Slice(w, i, Len(w) + 1)
      /\ Without(v, d) = Slice(v, k, Len(w) + 2)
  <2>1. (Len(w) + 1) - 1 = Len(w) /\ (Len(w) + 2) - 1 = Len(v)
    BY <1>1
  <2> QED BY <2>1 DEF Without, Slice
<1>4. Blank(w, d) <=> i = Len(w) + 1
  BY <1>1, <1>2 DEF Blank, Lacks
<1>5. Blank(v, d) <=> k = Len(w) + 2
  <2>1. Blank(v, d) <=> k > Len(w) + 1
    BY <1>1 DEF Blank, Lacks
  <2> HIDE DEF i, k, v
  <2> QED BY <1>1, <1>2, <2>1
<1>6. k = Len(w) + 2 <=> i = Len(w) + 1 /\ c = d
  <2> HIDE DEF i, k, v
  <2> QED BY <1>1, <1>2
<1>7. Slice(v, k, Len(w) + 2) = IF k # Len(w) + 2 THEN Append(Slice(w, i, Len(w) + 1), c)
                                ELSE Slice(w, i, Len(w) + 1)
  <2>1. Moves(Len(w), i, k)
    <3> HIDE DEF i, k, v
    <3> QED BY <1>1, <1>2 DEF Moves
  <2> HIDE DEF i, k
  <2> QED BY <2>1, SliceToEnd
<1> HIDE DEF i, k, v
<1> QED BY <1>3, <1>4, <1>5, <1>6, <1>7 DEF v

LEMMA WithoutEmpty ==
    ASSUME NEW d
    PROVE  Blank(<< >>, d) /\ Without(<< >>, d) = << >>
<1>1. << >> \in Seq(Chars) /\ Len(<< >>) = 0
  BY EmptySeq
<1>2. First(<< >>, Chars \ {d}) \in 1..(Len(<< >>) + 1)
  <2>1. "SP" \in Chars
    BY DEF Chars
  <2> QED BY <1>1, <2>1, FirstStep
<1>3. First(<< >>, Chars \ {d}) = 1
  BY <1>1, <1>2
<1>4. SubSeq(<< >>, 1, 0) = << >>
  BY SubSeqEmpty
<1> QED BY <1>1, <1>3, <1>4 DEF Blank, Lacks, Without

(* Nothing but separators leaves nothing.                                  *)
LEMMA WithoutOne ==
    ASSUME NEW w, w = << >>, NEW d \in Chars
    PROVE  /\ Blank(Append(w, d), d)
           /\ Without(Append(w, d), d) = Without(w, d)
<1>1. w \in Seq(Chars)
  BY EmptySeq
<1>2. Blank(w, d)
  BY WithoutEmpty
<1> QED BY <1>1, <1>2, WithoutStep

-----------------------------------------------------------------------------
(* The slashes of a scheme, and where the path starts.                     *)

LEMMA SlashesAre ==
    ASSUME NEW u \in Seq(Chars), NEW i
    PROVE  i \in SchemeSlashes(u) <=> \E j : SchemeColon(u, j) /\ i \in {j + 1, j + 2}
<1> DEFINE C == {j \in DOMAIN u : u[j] = ":" /\ \A k \in 1..(j - 1) : u[k] \in Letters}
<1>1. \A j : j \in C <=> SchemeColon(u, j)
  BY LenProperties DEF SchemeColon
<1>2. SchemeSlashes(u) = UNION {{j + 1, j + 2} : j \in C}
  BY DEF SchemeSlashes
<1> HIDE DEF C
<1> QED BY <1>1, <1>2

(* No letter is a colon, so that there is one colon at most.               *)
LEMMA ColonUnique ==
    ASSUME NEW u \in Seq(Chars), NEW i, NEW j, SchemeColon(u, i), SchemeColon(u, j)
    PROVE  i = j
<1>1. Len(u) \in Nat /\ i \in 1..Len(u) /\ j \in 1..Len(u)
  BY LenProperties DEF SchemeColon
<1>2. i < j => u[i] \in Letters
  BY <1>1 DEF SchemeColon
<1>3. j < i => u[j] \in Letters
  BY <1>1 DEF SchemeColon
<1>4. u[i] = ":" /\ u[j] = ":" /\ ":" \notin Letters
  BY DEF SchemeColon, Letters
<1> QED BY <1>1, <1>2, <1>3, <1>4

LEMMA ColonStep ==
    ASSUME NEW u \in Seq(Chars), NEW c \in Chars, NEW j
    PROVE  SchemeColon(Append(u, c), j) <=>
              \/ SchemeColon(u, j)
              \/ j = Len(u) + 1 /\ c = ":" /\ \A k \in 1..Len(u) : u[k] \in Letters
<1> DEFINE n == Len(u)
           v == Append(u, c)
<1>1. /\ n \in Nat /\ Len(v) = n + 1 /\ v[n + 1] = c
      /\ \A i \in 1..n : v[i] = u[i]
  BY AppendFacts
<1> HIDE DEF n, v
<1>2. CASE j \in 1..n
  <2>1. \A k \in 1..(j - 1) : k \in 1..n
    BY <1>1, <1>2
  <2>2. j \in 1..(n + 1) /\ j # n + 1
    BY <1>1, <1>2
  <2>3. SchemeColon(v, j) <=> SchemeColon(u, j)
    BY <1>1, <1>2, <2>1, <2>2 DEF SchemeColon, n
  <2> QED BY <2>2, <2>3 DEF n, v
<1>3. CASE j = n + 1
  <2>1. (n + 1) - 1 = n /\ n + 1 \in 1..(n + 1) /\ n + 1 \notin 1..n
    BY <1>1
  <2>2. SchemeColon(v, n + 1) <=> c = ":" /\ \A k \in 1..n : v[k] \in Letters
    BY <1>1, <2>1 DEF SchemeColon
  <2>3. ~SchemeColon(u, n + 1)
    BY <2>1 DEF SchemeColon, n
  <2> QED BY <1>1, <1>3, <2>2, <2>3 DEF n, v
<1>4. CASE j \notin 1..n /\ j # n + 1
  BY <1>1, <1>4 DEF SchemeColon, n, v
<1> QED BY <1>2, <1>3, <1>4

(* A character that a path starts with, behind u.                          *)
Starts(u, c) ==
    \/ c = "/" /\ Len(u) + 1 \notin SchemeSlashes(u)
    \/ c = "*" /\ u = << >>

LEMMA SlashesStep ==
    ASSUME NEW u \in Seq(Chars), NEW c \in Chars, NEW i \in 1..(Len(u) + 1)
    PROVE  i \in SchemeSlashes(Append(u, c)) <=> i \in SchemeSlashes(u)
<1>1. Len(u) \in Nat /\ Append(u, c) \in Seq(Chars)
  BY AppendFacts
<1>2. \A j : i \in {j + 1, j + 2} => j # Len(u) + 1
  BY <1>1
<1>3. /\ i \in SchemeSlashes(u) <=> \E j : SchemeColon(u, j) /\ i \in {j + 1, j + 2}
      /\ i \in SchemeSlashes(Append(u, c)) <=>
             \E j : SchemeColon(Append(u, c), j) /\ i \in {j + 1, j + 2}
  BY <1>1, SlashesAre
<1>4. \A j : i \in {j + 1, j + 2} =>
          (SchemeColon(Append(u, c), j) <=> SchemeColon(u, j))
  BY <1>2, ColonStep
<1> QED BY <1>3, <1>4

LEMMA PathStartStep ==
    ASSUME NEW u \in Seq(Chars), NEW c \in Chars
    PROVE  /\ PathStart(u) \in 1..(Len(u) + 1)
           /\ PathStart(Append(u, c)) =
                  IF PathStart(u) <= Len(u) THEN PathStart(u)
                  ELSE IF Starts(u, c) THEN Len(u) + 1 ELSE Len(u) + 2
<1> DEFINE n == Len(u)
           v == Append(u, c)
           I == {i \in DOMAIN u :
                    \/ u[i] = "/" /\ i \notin SchemeSlashes(u)
                    \/ u[i] = "*" /\ i = 1}
           J == {i \in DOMAIN v :
                    \/ v[i] = "/" /\ i \notin SchemeSlashes(v)
                    \/ v[i] = "*" /\ i = 1}
<1>1. /\ n \in Nat /\ DOMAIN u = 1..n /\ DOMAIN v = 1..(n + 1) /\ Len(v) = n + 1
      /\ v[n + 1] = c /\ \A i \in 1..n : v[i] = u[i]
      /\ \A i \in 1..(n + 1) : i \in SchemeSlashes(v) <=> i \in SchemeSlashes(u)
  BY AppendFacts, SlashesStep
<1>2. u = << >> <=> n + 1 = 1
  BY <1>1, EmptySeq
<1>3. /\ I \subseteq 1..n /\ J \subseteq 1..(n + 1)
      /\ \A i \in 1..n : i \in J <=> i \in I
      /\ n + 1 \in J <=> Starts(u, c)
  <2>1. n + 1 \in 1..(n + 1) /\ \A i \in 1..n : i \in 1..(n + 1)
    BY <1>1
  <2>2. n + 1 \in J <=> (c = "/" /\ n + 1 \notin SchemeSlashes(u)) \/ (c = "*" /\ n + 1 = 1)
    <3> HIDE DEF n, v
    <3> QED BY <1>1, <2>1
  <2>3. n + 1 \in J <=> Starts(u, c)
    BY <1>2, <2>2 DEF Starts
  <2>4. \A i \in 1..n : i \in J <=> i \in I
    <3> HIDE DEF n, v
    <3> QED BY <1>1, <2>1
  <2> QED BY <1>1, <2>3, <2>4
<1>4. PathStart(u) = Min(I \cup {n + 1}) /\ PathStart(v) = Min(J \cup {n + 2})
  <2>1. Len(v) + 1 = n + 2
    BY <1>1
  <2> QED BY <2>1 DEF PathStart
<1> HIDE DEF I, J, v, n
<1> DEFINE a == Min(I \cup {n + 1})
<1>5. /\ a \in 1..(n + 1)
      /\ Min(J \cup {n + 2}) = IF a <= n THEN a ELSE IF n + 1 \in J THEN n + 1 ELSE n + 2
  BY <1>1, <1>3, LeastStep
<1> HIDE DEF a
<1> QED BY <1>1, <1>3, <1>4, <1>5 DEF a, n, v

-----------------------------------------------------------------------------
(* The parts of a URL that is one character longer.                        *)

LEMMA PartsAre ==
    ASSUME NEW u
    PROVE  /\ PartsOf(u)["path"] = RawPath(u)
           /\ PartsOf(u)["query_string"] = Without(Query(u), "?")
           /\ PartsOf(u)["fragment"] = Without(Fragment(u), "#")
  BY DEF PartsOf, RawPath, Query, Fragment

LEMMA SeparatorsStep ==
    ASSUME NEW u \in Seq(Chars), NEW c \in Chars
    PROVE  /\ First(u, {"?", "#"}) <= First(u, {"#"})
           /\ Lacks(u, {"#"}) <=> First(u, {"#"}) = Len(u) + 1
           /\ Lacks(u, {"?", "#"}) <=> First(u, {"?", "#"}) = Len(u) + 1
           /\ Lacks(u, {"?", "#"}) => Lacks(u, {"#"})
           /\ Lacks(Append(u, c), {"#"}) <=> Lacks(u, {"#"}) /\ c # "#"
           /\ Lacks(Append(u, c), {"?", "#"}) <=>
                  Lacks(u, {"?", "#"}) /\ c \notin {"?", "#"}
<1> DEFINE n == Len(u)
           q == First(u, {"?", "#"})
           h == First(u, {"#"})
<1>1. n \in Nat /\ Len(Append(u, c)) = n + 1
  BY AppendFacts
<1>2. /\ h \in 1..(n + 1) /\ (h <= n => u[h] \in {"#"})
      /\ First(Append(u, c), {"#"}) =
             IF h <= n THEN h ELSE IF c \in {"#"} THEN n + 1 ELSE n + 2
  BY FirstStep
<1>3. /\ q \in 1..(n + 1) /\ \A i \in 1..n : u[i] \in {"?", "#"} => q <= i
      /\ First(Append(u, c), {"?", "#"}) =
             IF q <= n THEN q ELSE IF c \in {"?", "#"} THEN n + 1 ELSE n + 2
  BY FirstStep
<1>4. /\ Lacks(u, {"#"}) <=> h > n
      /\ Lacks(u, {"?", "#"}) <=> q > n
      /\ Lacks(Append(u, c), {"#"}) <=> First(Append(u, c), {"#"}) > n + 1
      /\ Lacks(Append(u, c), {"?", "#"}) <=> First(Append(u, c), {"?", "#"}) > n + 1
  BY <1>1 DEF Lacks
<1> HIDE DEF n, q, h
<1>5. q <= h
  <2>1. CASE h <= n
    <3>1. h \in 1..n
      BY <1>1, <1>2, <2>1
    <3> QED BY <1>2, <1>3, <2>1, <3>1
  <2>2. CASE ~(h <= n)
    BY <1>1, <1>2, <1>3, <2>2
  <2> QED BY <2>1, <2>2
<1>6. /\ Lacks(u, {"#"}) <=> h = n + 1
      /\ Lacks(u, {"?", "#"}) <=> q = n + 1
      /\ Lacks(u, {"?", "#"}) => Lacks(u, {"#"})
  BY <1>1, <1>2, <1>3, <1>4, <1>5
<1>7. Lacks(Append(u, c), {"#"}) <=> Lacks(u, {"#"}) /\ c # "#"
  BY <1>1, <1>2, <1>4
<1>8. Lacks(Append(u, c), {"?", "#"}) <=> Lacks(u, {"?", "#"}) /\ c \notin {"?", "#"}
  BY <1>1, <1>3, <1>4
<1> QED BY <1>5, <1>6, <1>7, <1>8 DEF n, q, h

(* Whether a path has begun.                                               *)
LEMMA PathBegunStep ==
    ASSUME NEW u \in Seq(Chars), NEW c \in Chars
    PROVE  /\ PathStart(u) > Len(u) <=> PathStart(u) = Len(u) + 1
           /\ PathStart(u) > Len(u) <=> ~(PathStart(u) <= Len(u))
           /\ PathStart(Append(u, c)) > Len(Append(u, c)) <=>
                  PathStart(u) > Len(u) /\ ~Starts(u, c)
           /\ PathStart(Append(u, c)) <= Len(Append(u, c)) <=>
                  PathStart(u) <= Len(u) \/ Starts(u, c)
<1>1. Len(u) \in Nat /\ Len(Append(u, c)) = Len(u) + 1
  BY AppendFacts
<1>2. /\ PathStart(u) \in 1..(Len(u) + 1)
      /\ PathStart(Append(u, c)) =
             IF PathStart(u) <= Len(u) THEN PathStart(u)
             ELSE IF Starts(u, c) THEN Len(u) + 1 ELSE Len(u) + 2
  BY PathStartStep
<1> QED BY <1>1, <1>2

LEMMA PathGrows ==
    ASSUME NEW u \in Seq(Chars), NEW c \in Chars
    PROVE  /\ RawPath(u) \in Seq(Chars)
           /\ RawPath(Append(u, c)) =
                  IF /\ Lacks(u, {"?", "#"}) /\ c \notin {"?", "#"}
                     /\ PathStart(u) <= Len(u) \/ Starts(u, c)
                  THEN Append(RawPath(u), c) ELSE RawPath(u)
<1>1. PICK i \in 1..(Len(u) + 1) : i = PathStart(u)
  BY PathStartStep
<1>2. PICK k : k = PathStart(Append(u, c))
  OBVIOUS
<1>3. PICK j \in 1..(Len(u) + 1) : j = First(u, {"?", "#"})
  BY FirstStep
<1>4. PICK l : l = First(Append(u, c), {"?", "#"})
  OBVIOUS
<1>5. Len(u) \in Nat
  BY AppendFacts
<1>6. k = IF i <= Len(u) THEN i ELSE IF Starts(u, c) THEN Len(u) + 1 ELSE Len(u) + 2
  BY <1>1, <1>2, PathStartStep
<1>7. l = IF j <= Len(u) THEN j ELSE IF c \in {"?", "#"} THEN Len(u) + 1 ELSE Len(u) + 2
  BY <1>3, <1>4, FirstStep
<1>8. Moves(Len(u), i, k)
  BY <1>5, <1>6 DEF Moves
<1>9. Moves(Len(u), j, l)
  BY <1>5, <1>7 DEF Moves
<1>10. /\ Slice(u, i, j) \in Seq(Chars)
       /\ Slice(Append(u, c), k, l) =
              IF l = Len(u) + 2 /\ k # Len(u) + 2 THEN Append(Slice(u, i, j), c)
              ELSE Slice(u, i, j)
  BY <1>8, <1>9, SliceStep
<1>11. l = Len(u) + 2 <=> j = Len(u) + 1 /\ c \notin {"?", "#"}
  BY <1>5, <1>7
<1>12. k # Len(u) + 2 <=> i <= Len(u) \/ Starts(u, c)
  BY <1>5, <1>6
<1>13. Lacks(u, {"?", "#"}) <=> j = Len(u) + 1
  BY <1>3, SeparatorsStep
<1>14. RawPath(u) = Slice(u, i, j) /\ RawPath(Append(u, c)) = Slice(Append(u, c), k, l)
  BY <1>1, <1>2, <1>3, <1>4 DEF RawPath
<1> QED BY <1>1, <1>10, <1>11, <1>12, <1>13, <1>14

LEMMA QueryGrows ==
    ASSUME NEW u \in Seq(Chars), NEW c \in Chars
    PROVE  /\ Query(u) \in Seq(Chars)
           /\ Query(Append(u, c)) =
                  IF /\ Lacks(u, {"#"}) /\ c # "#"
                     /\ ~Lacks(u, {"?", "#"}) \/ c = "?"
                  THEN Append(Query(u), c) ELSE Query(u)
<1>1. PICK i \in 1..(Len(u) + 1) : i = First(u, {"?", "#"})
  BY FirstStep
<1>2. PICK k : k = First(Append(u, c), {"?", "#"})
  OBVIOUS
<1>3. PICK j \in 1..(Len(u) + 1) : j = First(u, {"#"})
  BY FirstStep
<1>4. PICK l : l = First(Append(u, c), {"#"})
  OBVIOUS
<1>5. Len(u) \in Nat
  BY AppendFacts
<1>6. k = IF i <= Len(u) THEN i ELSE IF c \in {"?", "#"} THEN Len(u) + 1 ELSE Len(u) + 2
  BY <1>1, <1>2, FirstStep
<1>7. l = IF j <= Len(u) THEN j ELSE IF c \in {"#"} THEN Len(u) + 1 ELSE Len(u) + 2
  BY <1>3, <1>4, FirstStep
<1>8. Moves(Len(u), i, k)
  BY <1>5, <1>6 DEF Moves
<1>9. Moves(Len(u), j, l)
  BY <1>5, <1>7 DEF Moves
<1>10. /\ Slice(u, i, j) \in Seq(Chars)
       /\ Slice(Append(u, c), k, l) =
              IF l = Len(u) + 2 /\ k # Len(u) + 2 THEN Append(Slice(u, i, j), c)
              ELSE Slice(u, i, j)
  BY <1>8, <1>9, SliceStep
<1>11. l = Len(u) + 2 <=> j = Len(u) + 1 /\ c # "#"
  BY <1>5, <1>7
<1>12. k # Len(u) + 2 <=> i # Len(u) + 1 \/ c \in {"?", "#"}
  BY <1>5, <1>6
<1>13. /\ Lacks(u, {"#"}) <=> j = Len(u) + 1
       /\ Lacks(u, {"?", "#"}) <=> i = Len(u) + 1
  BY <1>1, <1>3, SeparatorsStep
<1>14. Query(u) = Slice(u, i, j) /\ Query(Append(u, c)) = Slice(Append(u, c), k, l)
  BY <1>1, <1>2, <1>3, <1>4 DEF Query
<1> QED BY <1>10, <1>11, <1>12, <1>13, <1>14

LEMMA FragmentGrows ==
    ASSUME NEW u \in Seq(Chars), NEW c \in Chars
    PROVE  /\ Fragment(u) \in Seq(Chars)
           /\ Fragment(Append(u, c)) =
                  IF ~Lacks(u, {"#"}) \/ c = "#" THEN Append(Fragment(u), c) ELSE Fragment(u)
<1>1. PICK i : i = First(u, {"#"})
  OBVIOUS
<1>2. PICK k : k = First(Append(u, c), {"#"})
  OBVIOUS
<1>3. Len(u) \in Nat /\ Len(Append(u, c)) + 1 = Len(u) + 2
  BY AppendFacts
<1>4. /\ i \in 1..(Len(u) + 1)
      /\ k = IF i <= Len(u) THEN i ELSE IF c \in {"#"} THEN Len(u) + 1 ELSE Len(u) + 2
  BY <1>1, <1>2, FirstStep
<1>5. Moves(Len(u), i, k)
  BY <1>3, <1>4 DEF Moves
<1>6. /\ Slice(u, i, Len(u) + 1) \in Seq(Chars)
      /\ Slice(Append(u, c), k, Len(u) + 2) =
             IF k # Len(u) + 2 THEN Append(Slice(u, i, Len(u) + 1), c)
             ELSE Slice(u, i, Len(u) + 1)
  BY <1>5, SliceToEnd
<1>7. k # Len(u) + 2 <=> i # Len(u) + 1 \/ c = "#"
  BY <1>3, <1>4
<1>8. Lacks(u, {"#"}) <=> i = Len(u) + 1
  BY <1>1, SeparatorsStep
<1>9. /\ Fragment(u) = Slice(u, i, Len(u) + 1)
      /\ Fragment(Append(u, c)) = Slice(Append(u, c), k, Len(u) + 2)
  BY <1>1, <1>2, <1>3 DEF Fragment
<1> QED BY <1>6, <1>7, <1>8, <1>9

(* The parts that c adds to.                                               *)
Grow(u, c, parts) ==
    \A f \in Marks \ {"url"} :
        PartsOf(Append(u, c))[f] =
            IF f \in parts THEN Append(PartsOf(u)[f], c) ELSE PartsOf(u)[f]

(* A part that has not begun is empty.                                     *)
LEMMA PartsNotBegun ==
    ASSUME NEW u \in Seq(Chars)
    PROVE  /\ Lacks(u, {"?", "#"}) => Query(u) = << >>
           /\ Lacks(u, {"#"}) => Fragment(u) = << >>
           /\ Lacks(u, {"?", "#"}) => Lacks(u, {"#"})
<1>1. /\ First(u, {"?", "#"}) <= First(u, {"#"})
      /\ Lacks(u, {"#"}) <=> First(u, {"#"}) = Len(u) + 1
      /\ Lacks(u, {"?", "#"}) <=> First(u, {"?", "#"}) = Len(u) + 1
      /\ Lacks(u, {"?", "#"}) => Lacks(u, {"#"})
  <2>1. "SP" \in Chars
    BY DEF Chars
  <2> QED BY <2>1, SeparatorsStep
<1>2. Slice(u, Len(u) + 1, Len(u) + 1) = << >>
  <2>1. Len(u) \in Nat
    BY LenProperties
  <2>2. PICK i, k : i = Len(u) + 1 /\ k = (Len(u) + 1) - 1
    OBVIOUS
  <2>3. i \in Int /\ k \in Int /\ k < i
    BY <2>1, <2>2
  <2>4. SubSeq(u, i, k) = << >>
    BY <2>3, SubSeqEmpty
  <2> QED BY <2>2, <2>4 DEF Slice
<1> QED BY <1>1, <1>2 DEF Query, Fragment

LEMMA NoPathStep ==
    ASSUME NEW u \in Seq(Chars), NEW c \in Chars, NoPath(u), c \notin {"?", "#"}
    PROVE  IF Starts(u, c) THEN InPath(Append(u, c)) /\ Grow(u, c, {"path"})
           ELSE NoPath(Append(u, c)) /\ Grow(u, c, {})
<1> DEFINE v == Append(u, c)
<1>1. Lacks(u, {"?", "#"}) /\ PathStart(u) > Len(u)
  BY DEF NoPath
<1>2. Lacks(u, {"#"}) /\ Lacks(v, {"?", "#"}) /\ Lacks(v, {"#"})
  BY <1>1, SeparatorsStep
<1>3. IF Starts(u, c) THEN PathStart(v) <= Len(v) ELSE PathStart(v) > Len(v)
  BY <1>1, PathBegunStep
<1>4. RawPath(v) = IF Starts(u, c) THEN Append(RawPath(u), c) ELSE RawPath(u)
  BY <1>1, PathBegunStep, PathGrows
<1>5. Query(v) = Query(u)
  BY <1>1, QueryGrows
<1>6. Fragment(v) = Fragment(u)
  BY <1>2, FragmentGrows
<1>7. Grow(u, c, IF Starts(u, c) THEN {"path"} ELSE {})
  BY <1>4, <1>5, <1>6, PartsAre DEF Grow, Marks
<1> QED BY <1>2, <1>3, <1>7, <1>1 DEF InPath, NoPath

LEMMA InPathStep ==
    ASSUME NEW u \in Seq(Chars), NEW c \in Chars, InPath(u)
    PROVE  /\ c \notin {"?", "#"} => InPath(Append(u, c)) /\ Grow(u, c, {"path"})
           /\ c = "?" => /\ InQuery(Append(u, c)) /\ Blank(Query(Append(u, c)), "?")
                         /\ Grow(u, c, {})
           /\ c = "#" => /\ InFragment(Append(u, c)) /\ Blank(Fragment(Append(u, c)), "#")
                         /\ Grow(u, c, {})
<1> DEFINE v == Append(u, c)
<1>1. Lacks(u, {"?", "#"}) /\ PathStart(u) <= Len(u)
  BY DEF InPath
<1>2. /\ Lacks(u, {"#"}) /\ (Lacks(v, {"#"}) <=> c # "#")
      /\ Lacks(v, {"?", "#"}) <=> c \notin {"?", "#"}
  BY <1>1, SeparatorsStep
<1>3. PathStart(v) <= Len(v)
  BY <1>1, PathBegunStep
<1>4. Query(u) = << >> /\ Fragment(u) = << >>
  BY <1>1, PartsNotBegun
<1>5. RawPath(v) = IF c \notin {"?", "#"} THEN Append(RawPath(u), c) ELSE RawPath(u)
  BY <1>1, PathGrows
<1>6. Query(v) = IF c = "?" THEN Append(Query(u), c) ELSE Query(u)
  BY <1>1, <1>2, QueryGrows
<1>7. Fragment(v) = IF c = "#" THEN Append(Fragment(u), c) ELSE Fragment(u)
  BY <1>2, FragmentGrows
<1>9. /\ Without(Query(v), "?") = Without(Query(u), "?")
      /\ c = "?" => Blank(Query(v), "?")
  BY <1>4, <1>6, WithoutOne
<1>10. /\ Without(Fragment(v), "#") = Without(Fragment(u), "#")
       /\ c = "#" => Blank(Fragment(v), "#")
  BY <1>4, <1>7, WithoutOne
<1>11. Grow(u, c, IF c \notin {"?", "#"} THEN {"path"} ELSE {})
  BY <1>5, <1>9, <1>10, PartsAre DEF Grow, Marks
<1> QED BY <1>2, <1>3, <1>9, <1>10, <1>11 DEF InPath, InQuery, InFragment

LEMMA InQueryStep ==
    ASSUME NEW u \in Seq(Chars), NEW c \in Chars, InQuery(u)
    PROVE  /\ c # "#" => /\ InQuery(Append(u, c))
                         /\ Blank(Query(Append(u, c)), "?") <=> Blank(Query(u), "?") /\ c = "?"
                         /\ Grow(u, c, IF Blank(Query(u), "?") /\ c = "?" THEN {}
                                       ELSE {"query_string"})
           /\ c = "#" => /\ InFragment(Append(u, c)) /\ Blank(Fragment(Append(u, c)), "#")
                         /\ Grow(u, c, {})
<1> DEFINE v == Append(u, c)
<1>1. ~Lacks(u, {"?", "#"}) /\ Lacks(u, {"#"}) /\ PathStart(u) <= Len(u)
  BY DEF InQuery
<1>2. (Lacks(v, {"#"}) <=> c # "#") /\ ~Lacks(v, {"?", "#"})
  BY <1>1, SeparatorsStep
<1>3. PathStart(v) <= Len(v)
  BY <1>1, PathBegunStep
<1>4. Fragment(u) = << >>
  BY <1>1, PartsNotBegun
<1>5. RawPath(v) = RawPath(u)
  BY <1>1, PathGrows
<1>6. /\ Query(u) \in Seq(Chars)
      /\ Query(v) = IF c # "#" THEN Append(Query(u), c) ELSE Query(u)
  BY <1>1, QueryGrows
<1>7. Fragment(v) = IF c = "#" THEN Append(Fragment(u), c) ELSE Fragment(u)
  BY <1>1, FragmentGrows
<1>9. CASE c # "#"
  <2>1. /\ Blank(Query(v), "?") <=> Blank(Query(u), "?") /\ c = "?"
        /\ Without(Query(v), "?") = IF Blank(Query(u), "?") /\ c = "?"
                                    THEN Without(Query(u), "?")
                                    ELSE Append(Without(Query(u), "?"), c)
    BY <1>6, <1>9, WithoutStep
  <2>2. Fragment(v) = Fragment(u)
    BY <1>7, <1>9
  <2>3. Grow(u, c, IF Blank(Query(u), "?") /\ c = "?" THEN {} ELSE {"query_string"})
    BY <1>5, <2>1, <2>2, PartsAre DEF Grow, Marks
  <2> QED BY <1>2, <1>3, <1>9, <2>1, <2>3 DEF InQuery
<1>10. CASE c = "#"
  <2>1. Blank(Fragment(v), "#") /\ Without(Fragment(v), "#") = Without(Fragment(u), "#")
    BY <1>4, <1>7, <1>10, WithoutOne
  <2>2. Query(v) = Query(u)
    BY <1>6, <1>10
  <2>3. Grow(u, c, {})
    BY <1>5, <2>1, <2>2, PartsAre DEF Grow, Marks
  <2> QED BY <1>2, <1>3, <1>10, <2>1, <2>3 DEF InFragment
<1> QED BY <1>9, <1>10

LEMMA InFragmentStep ==
    ASSUME NEW u \in Seq(Chars), NEW c \in Chars, InFragment(u)
    PROVE  /\ InFragment(Append(u, c))
           /\ Blank(Fragment(Append(u, c)), "#") <=> Blank(Fragment(u), "#") /\ c = "#"
           /\ Grow(u, c, IF Blank(Fragment(u), "#") /\ c = "#" THEN {} ELSE {"fragment"})
<1> DEFINE v == Append(u, c)
<1>1. ~Lacks(u, {"#"}) /\ PathStart(u) <= Len(u)
  BY DEF InFragment
<1>2. ~Lacks(v, {"#"}) /\ ~Lacks(u, {"?", "#"})
  BY <1>1, SeparatorsStep
<1>3. PathStart(v) <= Len(v)
  BY <1>1, PathBegunStep
<1>4. RawPath(v) = RawPath(u)
  BY <1>2, PathGrows
<1>5. Query(v) = Query(u)
  BY <1>1, QueryGrows
<1>6. Fragment(u) \in Seq(Chars) /\ Fragment(v) = Append(Fragment(u), c)
  BY <1>1, FragmentGrows
<1>7. /\ Blank(Fragment(v), "#") <=> Blank(Fragment(u), "#") /\ c = "#"
      /\ Without(Fragment(v), "#") = IF Blank(Fragment(u), "#") /\ c = "#"
                                     THEN Without(Fragment(u), "#")
                                     ELSE Append(Without(Fragment(u), "#"), c)
  BY <1>6, WithoutStep
<1>8. Grow(u, c, IF Blank(Fragment(u), "#") /\ c = "#" THEN {} ELSE {"fragment"})
  BY <1>4, <1>5, <1>7, PartsAre DEF Grow, Marks
<1> QED BY <1>2, <1>3, <1>7, <1>8 DEF InFragment

-----------------------------------------------------------------------------
(* What the rules do to the parts, and where they lead inside of the URL.  *)

(* A mark of a part is set where the part begins, kept while it goes on,   *)
(* and its callback is made where it ends.                                 *)
KeepsParts(r) ==
    \A f \in Marks :
        /\ f \in r.marks => f \notin r.calls /\ r.from \notin MarkedIn(f)
        /\ r.to \in MarkedIn(f) <=>
               f \notin r.calls /\ (f \in r.marks \/ r.from \in MarkedIn(f))

LeadsInScheme(from, c, to) ==
    \/ from = "s_req_spaces_before_url" /\ c \in {"/", "*"} /\ to = "s_req_path"
    \/ from = "s_req_spaces_before_url" /\ c \in Letters /\ to = "s_req_schema"
    \/ from = "s_req_schema" /\ c \in Letters /\ to = "s_req_schema"
    \/ from = "s_req_schema" /\ c = ":" /\ to = "s_req_schema_slash"
    \/ from = "s_req_schema" /\ c \in Digits \cup {"."} /\ to = "s_req_host"
    \/ from = "s_req_schema_slash" /\ c = "/" /\ to = "s_req_schema_slash_slash"
    \/ from = "s_req_schema_slash_slash" /\ c = "/" /\ to = "s_req_host"

LeadsInHost(from, c, to) ==
    /\ from \in {"s_req_host", "s_req_port"}
    /\ \/ c \in Letters \cup Digits \cup {".", "-", ":"} /\ to \in {"s_req_host", "s_req_port"}
       \/ c = "/" /\ to = "s_req_path"

LeadsInPath(from, c, to) ==
    /\ from = "s_req_path"
    /\ \/ c \in Normal /\ to = "s_req_path"
       \/ c = "?" /\ to = "s_req_query_string_start"
       \/ c = "#" /\ to = "s_req_fragment_start"

LeadsInQuery(from, c, to) ==
    /\ from \in {"s_req_query_string_start", "s_req_query_string"}
    /\ \/ c \in Normal /\ to = "s_req_query_string"
       \/ c = "?" /\ to = from
       \/ c = "#" /\ to = "s_req_fragment_start"

LeadsInFragment(from, c, to) ==
    /\ from \in {"s_req_fragment_start", "s_req_fragment"}
    /\ \/ c \in Normal \cup {"?"} /\ to = "s_req_fragment"
       \/ c = "#" /\ to = from

Leads(from, c, to) ==
    \/ LeadsInScheme(from, c, to) \/ LeadsInHost(from, c, to)
    \/ LeadsInPath(from, c, to) \/ LeadsInQuery(from, c, to)
    \/ LeadsInFragment(from, c, to)

LEMMA SchemeRulesLead ==
    \A r \in SchemeRules :
        /\ KeepsParts(r)
        /\ \A c \in r.on : r.to \in UrlMark => LeadsInScheme(r.from, c, r.to)
<1>1. \A r \in SchemeRules : KeepsParts(r)
  BY MarkStates DEF SchemeRules, Rule, KeepsParts, UrlMark
<1>2. \A r \in SchemeRules : \A c \in r.on : r.to \in UrlMark => LeadsInScheme(r.from, c, r.to)
  BY DEF SchemeRules, Rule, LeadsInScheme, UrlMark
<1> QED BY <1>1, <1>2

LEMMA HostRulesLead ==
    \A r \in HostRules :
        /\ KeepsParts(r)
        /\ \A c \in r.on : r.to \in UrlMark => LeadsInHost(r.from, c, r.to)
<1>1. \A r \in HostRules : KeepsParts(r)
  BY MarkStates DEF HostRules, Rule, KeepsParts, UrlMark
<1>2. \A r \in HostRules : \A c \in r.on : r.to \in UrlMark => LeadsInHost(r.from, c, r.to)
  BY DEF HostRules, Rule, LeadsInHost, UrlMark
<1> QED BY <1>1, <1>2

LEMMA PathRulesLead ==
    \A r \in PathRules :
        /\ KeepsParts(r)
        /\ \A c \in r.on : r.to \in UrlMark => LeadsInPath(r.from, c, r.to)
<1>1. \A r \in PathRules : KeepsParts(r)
  BY MarkStates DEF PathRules, UrlEnd, Rule, KeepsParts, UrlMark
<1>2. \A r \in PathRules : \A c \in r.on : r.to \in UrlMark => LeadsInPath(r.from, c, r.to)
  BY DEF PathRules, UrlEnd, Rule, LeadsInPath, UrlMark
<1> QED BY <1>1, <1>2

LEMMA QueryRulesLead ==
    \A r \in QueryRules :
        /\ KeepsParts(r)
        /\ \A c \in r.on : r.to \in UrlMark => LeadsInQuery(r.from, c, r.to)
<1>1. \A r \in QueryRules : KeepsParts(r)
  BY MarkStates DEF QueryRules, UrlEnd, Rule, KeepsParts, UrlMark
<1>2. \A r \in QueryRules : \A c \in r.on : r.to \in UrlMark => LeadsInQuery(r.from, c, r.to)
  BY DEF QueryRules, UrlEnd, Rule, LeadsInQuery, UrlMark
<1> QED BY <1>1, <1>2

LEMMA FragmentRulesLead ==
    \A r \in FragmentRules :
        /\ KeepsParts(r)
        /\ \A c \in r.on : r.to \in UrlMark => LeadsInFragment(r.from, c, r.to)
<1>1. \A r \in FragmentRules : KeepsParts(r)
  BY MarkStates DEF FragmentRules, UrlEnd, Rule, KeepsParts, UrlMark
<1>2. \A r \in FragmentRules : \A c \in r.on : r.to \in UrlMark => LeadsInFragment(r.from, c, r.to)
  BY DEF FragmentRules, UrlEnd, Rule, LeadsInFragment, UrlMark
<1> QED BY <1>1, <1>2

LEMMA RulesLead ==
    \A r \in Rules :
        /\ KeepsParts(r)
        /\ \A c \in r.on : r.to \in UrlMark => Leads(r.from, c, r.to)
<1>1. \A r \in LineRules : KeepsParts(r) /\ r.to \notin UrlMark
  BY MarkStates DEF LineRules, Rule, KeepsParts, UrlMark
<1>2. \A r \in UrlRules :
          /\ KeepsParts(r)
          /\ \A c \in r.on : r.to \in UrlMark => Leads(r.from, c, r.to)
  BY SchemeRulesLead, HostRulesLead, PathRulesLead, QueryRulesLead, FragmentRulesLead
  DEF UrlRules, Leads
<1> QED BY <1>1, <1>2 DEF Rules

-----------------------------------------------------------------------------
(* A character of the URL moves on in it, part by part.                    *)

(* The parts that go on in a state.                                        *)
PartsIn(st) == {f \in Marks : st \in MarkedIn(f)}

Follows(u, c, to) == Place(to, Append(u, c)) /\ Grow(u, c, PartsIn(to))

LEMMA PartsInState ==
    ASSUME NEW f \in Marks \ {"url"}
    PROVE  \A st : f \in PartsIn(st) <=>
              \/ f = "path" /\ st = "s_req_path"
              \/ f = "query_string" /\ st = "s_req_query_string"
              \/ f = "fragment" /\ st = "s_req_fragment"
  BY MarkStates DEF PartsIn

LEMMA GrowIn ==
    ASSUME NEW u, NEW c, NEW st, NEW fs, Grow(u, c, fs),
           fs = IF st = "s_req_path" THEN {"path"}
                ELSE IF st = "s_req_query_string" THEN {"query_string"}
                ELSE IF st = "s_req_fragment" THEN {"fragment"} ELSE {}
    PROVE  Grow(u, c, PartsIn(st))
<1>1. \A f \in Marks \ {"url"} : f \in PartsIn(st) <=> f \in fs
  BY PartsInState DEF Marks
<1> QED BY <1>1 DEF Grow

LEMMA FollowsInPath ==
    ASSUME NEW u \in Seq(Chars), NEW c \in Chars, NEW from, NEW to,
           Place(from, u), LeadsInPath(from, c, to)
    PROVE  Follows(u, c, to)
<1>1. InPath(u)
  BY DEF Place, LeadsInPath
<1>2. Normal \cap {"?", "#"} = {}
  BY ParserAssumption
<1>3. CASE c \in Normal /\ to = "s_req_path"
  <2>1. InPath(Append(u, c)) /\ Grow(u, c, {"path"})
    BY <1>1, <1>2, <1>3, InPathStep
  <2> QED BY <1>3, <2>1, GrowIn DEF Follows, Place
<1>4. CASE c = "?" /\ to = "s_req_query_string_start"
  <2>1. InQuery(Append(u, c)) /\ Blank(Query(Append(u, c)), "?") /\ Grow(u, c, {})
    BY <1>1, <1>4, InPathStep
  <2> QED BY <1>4, <2>1, GrowIn DEF Follows, Place
<1>5. CASE c = "#" /\ to = "s_req_fragment_start"
  <2>1. InFragment(Append(u, c)) /\ Blank(Fragment(Append(u, c)), "#") /\ Grow(u, c, {})
    BY <1>1, <1>5, InPathStep
  <2> QED BY <1>5, <2>1, GrowIn DEF Follows, Place
<1> QED BY <1>3, <1>4, <1>5 DEF LeadsInPath

LEMMA FollowsInQuery ==
    ASSUME NEW u \in Seq(Chars), NEW c \in Chars, NEW from, NEW to,
           Place(from, u), LeadsInQuery(from, c, to)
    PROVE  Follows(u, c, to)
<1>1. InQuery(u) /\ (Blank(Query(u), "?") <=> from = "s_req_query_string_start")
  BY DEF Place, LeadsInQuery
<1>2. Normal \cap {"?", "#"} = {}
  BY ParserAssumption
<1>3. CASE c # "#"
  <2>1. /\ InQuery(Append(u, c))
        /\ Blank(Query(Append(u, c)), "?") <=> from = "s_req_query_string_start" /\ c = "?"
        /\ Grow(u, c, IF from = "s_req_query_string_start" /\ c = "?" THEN {}
                      ELSE {"query_string"})
    BY <1>1, <1>3, InQueryStep
  <2>2. to = IF from = "s_req_query_string_start" /\ c = "?" THEN from
             ELSE "s_req_query_string"
    BY <1>2, <1>3 DEF LeadsInQuery
  <2> QED BY <2>1, <2>2, GrowIn DEF Follows, Place
<1>4. CASE c = "#"
  <2>1. InFragment(Append(u, c)) /\ Blank(Fragment(Append(u, c)), "#") /\ Grow(u, c, {})
    BY <1>1, <1>4, InQueryStep
  <2>2. to = "s_req_fragment_start"
    BY <1>2, <1>4 DEF LeadsInQuery
  <2> QED BY <2>1, <2>2, GrowIn DEF Follows, Place
<1> QED BY <1>3, <1>4

LEMMA FollowsInFragment ==
    ASSUME NEW u \in Seq(Chars), NEW c \in Chars, NEW from, NEW to,
           Place(from, u), LeadsInFragment(from, c, to)
    PROVE  Follows(u, c, to)
<1>1. InFragment(u) /\ (Blank(Fragment(u), "#") <=> from = "s_req_fragment_start")
  BY DEF Place, LeadsInFragment
<1>2. Normal \cap {"?", "#"} = {}
  BY ParserAssumption
<1>3. /\ InFragment(Append(u, c))
      /\ Blank(Fragment(Append(u, c)), "#") <=> from = "s_req_fragment_start" /\ c = "#"
      /\ Grow(u, c, IF from = "s_req_fragment_start" /\ c = "#" THEN {} ELSE {"fragment"})
  BY <1>1, InFragmentStep
<1>4. to = IF from = "s_req_fragment_start" /\ c = "#" THEN from ELSE "s_req_fragment"
  BY <1>2 DEF LeadsInFragment
<1> QED BY <1>3, <1>4, GrowIn DEF Follows, Place

(* Of nothing there are no parts.                                          *)
LEMMA EmptyUrl ==
    ASSUME NEW u, u = << >>
    PROVE  /\ u \in Seq(Chars) /\ Len(u) = 0
           /\ NoPath(u) /\ 1 \notin SchemeSlashes(u)
           /\ \A f \in Marks \ {"url"} : PartsOf(u)[f] = << >>
<1>1. u \in Seq(Chars) /\ Len(u) = 0 /\ "SP" \in Chars
  BY EmptySeq DEF Chars
<1>2. PathStart(u) \in 1..(Len(u) + 1)
  BY <1>1, PathStartStep
<1>3. First(u, {"?", "#"}) \in 1..(Len(u) + 1)
  BY <1>1, FirstStep
<1>4. NoPath(u)
  BY <1>1, <1>2, <1>3 DEF NoPath, Lacks
<1>5. 1 \notin SchemeSlashes(u)
  <2>1. \A j : ~SchemeColon(u, j)
    BY <1>1 DEF SchemeColon
  <2> QED BY <1>1, <2>1, SlashesAre
<1>6. RawPath(u) = << >>
  <2>1. PathStart(u) = 1 /\ First(u, {"?", "#"}) = 1
    BY <1>1, <1>2, <1>3
  <2>2. SubSeq(u, 1, 0) = << >>
    BY SubSeqEmpty
  <2>3. 1 - 1 = 0
    OBVIOUS
  <2> QED BY <2>1, <2>2, <2>3 DEF RawPath, Slice
<1>7. Query(u) = << >> /\ Fragment(u) = << >>
  BY <1>1, <1>4, PartsNotBegun DEF NoPath
<1> QED BY <1>1, <1>4, <1>5, <1>6, <1>7, WithoutEmpty, PartsAre DEF Marks

(* Behind a character that is no letter no scheme can end.                 *)
LEMMA NoNewScheme ==
    ASSUME NEW u \in Seq(Chars), NEW c \in Chars,
           c # ":" \/ \E k \in 1..Len(u) : u[k] \notin Letters
    PROVE  SchemeSlashes(Append(u, c)) = SchemeSlashes(u)
<1>1. \A j : SchemeColon(Append(u, c), j) <=> SchemeColon(u, j)
  BY ColonStep
<1>2. Append(u, c) \in Seq(Chars)
  BY AppendFacts
<1>3. \A i : i \in SchemeSlashes(Append(u, c)) <=> i \in SchemeSlashes(u)
  <2> TAKE i
  <2>1. /\ i \in SchemeSlashes(u) <=> \E j : SchemeColon(u, j) /\ i \in {j + 1, j + 2}
        /\ i \in SchemeSlashes(Append(u, c)) <=>
               \E j : SchemeColon(Append(u, c), j) /\ i \in {j + 1, j + 2}
    BY <1>2, SlashesAre
  <2> QED BY <1>1, <2>1
<1> QED BY <1>3 DEF SchemeSlashes

LEMMA FollowsInHost ==
    ASSUME NEW u \in Seq(Chars), NEW c \in Chars, NEW from, NEW to,
           Place(from, u), LeadsInHost(from, c, to)
    PROVE  Follows(u, c, to)
<1>1. /\ NoPath(u) /\ SchemeSlashes(u) \subseteq 1..Len(u)
      /\ \E k \in 1..Len(u) : u[k] \notin Letters
  BY DEF Place, LeadsInHost
<1>2. /\ Len(u) \in Nat /\ Len(Append(u, c)) = Len(u) + 1
      /\ \A k \in 1..Len(u) : Append(u, c)[k] = u[k]
  BY AppendFacts
<1>3. CASE c # "/"
  <2>1. /\ c \in Letters \cup Digits \cup {".", "-", ":"}
        /\ to \in {"s_req_host", "s_req_port"}
    BY <1>3 DEF LeadsInHost
  <2>2. c \notin {"?", "#", "*"}
    BY <2>1 DEF Letters, Digits
  <2>3. ~Starts(u, c)
    BY <1>3, <2>2 DEF Starts
  <2>4. NoPath(Append(u, c)) /\ Grow(u, c, {})
    BY <1>1, <2>2, <2>3, NoPathStep
  <2>5. SchemeSlashes(Append(u, c)) \subseteq 1..Len(Append(u, c))
    <3>1. SchemeSlashes(Append(u, c)) = SchemeSlashes(u)
      BY <1>1, NoNewScheme
    <3>2. 1..Len(u) \subseteq 1..Len(Append(u, c))
      BY <1>2
    <3> QED BY <1>1, <3>1, <3>2
  <2>6. \E k \in 1..Len(Append(u, c)) : Append(u, c)[k] \notin Letters
    BY <1>1, <1>2
  <2>7. Grow(u, c, PartsIn(to))
    BY <2>1, <2>4, GrowIn
  <2>8. Place(to, Append(u, c))
    BY <2>1, <2>4, <2>5, <2>6 DEF Place
  <2> QED BY <2>7, <2>8 DEF Follows
<1>4. CASE c = "/"
  <2>1. to = "s_req_path"
    BY <1>4 DEF LeadsInHost, Letters, Digits
  <2>2. Len(u) + 1 \notin SchemeSlashes(u)
    BY <1>1, <1>2
  <2>3. InPath(Append(u, c)) /\ Grow(u, c, {"path"})
    BY <1>1, <1>4, <2>2, NoPathStep DEF Starts
  <2> QED BY <2>1, <2>3, GrowIn DEF Follows, Place
<1> QED BY <1>3, <1>4

LEMMA FollowsInScheme ==
    ASSUME NEW u \in Seq(Chars), NEW c \in Chars, NEW from, NEW to,
           Place(from, u), LeadsInScheme(from, c, to)
    PROVE  Follows(u, c, to)
<1> DEFINE n == Len(u)
           v == Append(u, c)
<1>1. /\ n \in Nat /\ Len(v) = n + 1 /\ v \in Seq(Chars) /\ v[n + 1] = c
      /\ \A k \in 1..n : v[k] = u[k]
  BY AppendFacts
<1>2. NoPath(u)
  BY EmptyUrl DEF Place, LeadsInScheme
<1>3. ":" \notin Letters /\ "/" \notin Letters /\ "*" \notin Letters
  BY DEF Letters
<1>4. v # << >>
  BY AppendProperties
<1>5. CASE c \in {"/", "*"} /\ to = "s_req_path"
  <2>1. from = "s_req_spaces_before_url"
    BY <1>3, <1>5 DEF LeadsInScheme
  <2>2. u = << >> /\ n = 0 /\ 1 \notin SchemeSlashes(u)
    BY <2>1, EmptyUrl DEF Place
  <2>3. n + 1 = 1
    BY <2>2
  <2>4. Starts(u, c)
    BY <1>5, <2>2, <2>3 DEF Starts
  <2>5. InPath(v) /\ Grow(u, c, {"path"})
    BY <1>2, <1>5, <2>4, NoPathStep
  <2> QED BY <1>5, <2>5, GrowIn DEF Follows, Place
<1>6. CASE c \in Letters /\ to = "s_req_schema"
  <2>1. \A k \in 1..n : u[k] \in Letters
    <3>1. CASE from = "s_req_spaces_before_url"
      <4>1. n = 0
        BY <3>1, EmptyUrl DEF Place
      <4> QED BY <4>1
    <3>2. CASE from # "s_req_spaces_before_url"
      BY <1>6, <3>2 DEF LeadsInScheme, Place
    <3> QED BY <3>1, <3>2
  <2>2. \A k \in 1..Len(v) : v[k] \in Letters
    <3> HIDE DEF n, v
    <3> QED BY <1>1, <1>6, <2>1
  <2>3. ~Starts(u, c) /\ c \notin {"?", "#"}
    BY <1>6 DEF Starts, Letters
  <2>4. NoPath(v) /\ Grow(u, c, {})
    BY <1>2, <2>3, NoPathStep
  <2>5. Grow(u, c, PartsIn(to))
    BY <1>6, <2>4, GrowIn
  <2>6. Place(to, v)
    BY <1>4, <1>6, <2>2, <2>4 DEF Place
  <2> QED BY <2>5, <2>6 DEF Follows
<1>7. CASE from = "s_req_schema" /\ c = ":" /\ to = "s_req_schema_slash"
  <2>1. \A k \in 1..n : u[k] \in Letters
    BY <1>7 DEF Place
  <2>2. SchemeColon(v, n + 1)
    BY <1>7, <2>1, ColonStep
  <2>3. NoPath(v) /\ Grow(u, c, {})
    BY <1>2, <1>7, NoPathStep DEF Starts
  <2> QED BY <1>1, <1>7, <2>2, <2>3, GrowIn DEF Follows, Place
<1>8. CASE from = "s_req_schema" /\ c \in Digits \cup {"."} /\ to = "s_req_host"
  <2>1. \A k \in 1..n : u[k] \in Letters
    BY <1>8 DEF Place
  <2>2. c \notin Letters \cup {":", "/", "*", "?", "#"}
    BY <1>8 DEF Digits, Letters
  <2>3. NoPath(v) /\ Grow(u, c, {})
    BY <1>2, <2>2, NoPathStep DEF Starts
  <2>4. SchemeSlashes(v) \subseteq 1..Len(v)
    <3>1. \A j : ~SchemeColon(v, j)
      <4>1. \A j : ~SchemeColon(u, j)
        BY <1>3, <2>1 DEF SchemeColon
      <4> QED BY <2>2, <4>1, ColonStep
    <3>2. \A i : i \notin SchemeSlashes(v)
      BY <1>1, <3>1, SlashesAre
    <3> QED BY <3>2
  <2>5. \E k \in 1..Len(v) : v[k] \notin Letters
    <3>1. n + 1 \in 1..Len(v)
      BY <1>1
    <3> QED BY <1>1, <2>2, <3>1
  <2>6. Grow(u, c, PartsIn(to))
    BY <1>8, <2>3, GrowIn
  <2>7. Place(to, v)
    BY <1>8, <2>3, <2>4, <2>5 DEF Place
  <2> QED BY <2>6, <2>7 DEF Follows
<1>9. CASE from = "s_req_schema_slash" /\ c = "/" /\ to = "s_req_schema_slash_slash"
  <2>1. SchemeColon(u, n)
    BY <1>9 DEF Place
  <2>2. n + 1 \in SchemeSlashes(u)
    BY <2>1, SlashesAre
  <2>3. ~Starts(u, c)
    BY <1>9, <2>2 DEF Starts
  <2>4. NoPath(v) /\ Grow(u, c, {})
    BY <1>2, <1>9, <2>3, NoPathStep
  <2>5. SchemeColon(v, Len(v) - 1)
    <3>1. Len(v) - 1 = n
      BY <1>1
    <3> QED BY <2>1, <3>1, ColonStep
  <2> QED BY <1>9, <2>4, <2>5, GrowIn DEF Follows, Place
<1>10. CASE from = "s_req_schema_slash_slash" /\ c = "/" /\ to = "s_req_host"
  <2>1. SchemeColon(u, n - 1)
    BY <1>10 DEF Place
  <2>2. n - 1 \in 1..n /\ u[n - 1] = ":"
    BY <2>1 DEF SchemeColon
  <2>3. n + 1 \in SchemeSlashes(u)
    <3>1. n + 1 = (n - 1) + 2
      BY <1>1
    <3> QED BY <2>1, <3>1, SlashesAre
  <2>4. ~Starts(u, c)
    BY <1>10, <2>3 DEF Starts
  <2>5. NoPath(v) /\ Grow(u, c, {})
    BY <1>2, <1>10, <2>4, NoPathStep
  <2>6. SchemeSlashes(v) \subseteq 1..Len(v)
    <3>1. SUFFICES ASSUME NEW i \in SchemeSlashes(v) PROVE i \in 1..Len(v)
      OBVIOUS
    <3>2. PICK j : SchemeColon(v, j) /\ i \in {j + 1, j + 2}
      BY <1>1, SlashesAre
    <3>3. SchemeColon(u, j)
      BY <1>10, <3>2, ColonStep
    <3>4. j = n - 1
      BY <2>1, <3>3, ColonUnique
    <3> HIDE DEF n, v
    <3> QED BY <1>1, <2>2, <3>2, <3>4
  <2>7. \E k \in 1..Len(v) : v[k] \notin Letters
    <3>1. n + 1 \in 1..Len(v)
      BY <1>1
    <3> QED BY <1>1, <1>3, <1>10, <3>1
  <2>8. Grow(u, c, PartsIn(to))
    BY <1>10, <2>5, GrowIn
  <2>9. Place(to, v)
    BY <1>10, <2>5, <2>6, <2>7 DEF Place
  <2> QED BY <2>8, <2>9 DEF Follows
<1> QED BY <1>5, <1>6, <1>7, <1>8, <1>9, <1>10 DEF LeadsInScheme

LEMMA LeadsFollow ==
    ASSUME NEW u \in Seq(Chars), NEW c \in Chars, NEW from, NEW to,
           Place(from, u), Leads(from, c, to)
    PROVE  Follows(u, c, to)
  BY FollowsInScheme, FollowsInHost, FollowsInPath, FollowsInQuery, FollowsInFragment
  DEF Leads

-----------------------------------------------------------------------------
(* The steps, and what they do to the parts.                               *)

PartsFit == PartsMarked /\ Place(state, received) /\ PartsOfUrl

LEMMA HeardIs ==
    \A f \in Marks : Heard(f) = IF since[f] # NULL THEN given[f] \o since[f] ELSE given[f]
  BY DEF Heard, Told

(* One more character.                                                     *)
LEMMA CharAppended ==
    ASSUME NEW u \in Seq(Chars), NEW ch \in Chars
    PROVE  Append(u, ch) \in Seq(Chars)
  BY AppendProperties

(* What was heard of a part, after a character, in the state it leads to.  *)
LEMMA HeardStep ==
    ASSUME ParserInv, PartsMarked, Reading, NEW r \in Rules, NEW ch \in Chars, Step(r, ch),
           NEW f \in Marks
    PROVE  /\ Heard(f)' = IF f \in PartsIn(r.to) THEN Append(Heard(f), ch) ELSE Heard(f)
           /\ r.to \in MarkedIn(f) => since'[f] # NULL
<1>1. /\ f \in r.marks => f \notin r.calls /\ r.from \notin MarkedIn(f)
      /\ r.to \in MarkedIn(f) <=>
             f \notin r.calls /\ (f \in r.marks \/ r.from \in MarkedIn(f))
  BY RulesLead DEF KeepsParts
<1>2. since[f] # NULL <=> r.from \in MarkedIn(f)
  BY DEF ParserInv, TypeOK, PartsMarked, Step
<1>3. since'[f] = IF f \in r.calls THEN NULL
                  ELSE IF f \in r.marks THEN <<ch>>
                  ELSE IF since[f] = NULL THEN NULL ELSE Append(since[f], ch)
  BY <1>1 DEF Step
<1>4. given'[f] = IF f \in r.calls /\ since[f] # NULL THEN given[f] \o since[f] ELSE given[f]
  BY DEF Step, Told
<1>5. Heard(f) = IF since[f] # NULL THEN given[f] \o since[f] ELSE given[f]
  BY HeardIs
<1>6. Heard(f)' = IF since'[f] # NULL THEN given'[f] \o since'[f] ELSE given'[f]
  BY DEF Heard, Told
<1>7. /\ given[f] \in Seq(Chars) /\ since[f] \in Seq(Chars) \cup {NULL}
      /\ <<ch>> \in Seq(Chars) /\ <<ch>> # NULL
  <2>1. <<ch>> \in Seq(Chars)
    OBVIOUS
  <2> QED BY <2>1, MarkAssumption DEF ParserInv, Kinds
<1>8. f \in PartsIn(r.to) <=> r.to \in MarkedIn(f)
  BY DEF PartsIn
<1>9. CASE f \in r.calls
  BY <1>1, <1>3, <1>4, <1>5, <1>6, <1>8, <1>9
<1>10. CASE f \notin r.calls /\ f \in r.marks
  <2>1. since[f] = NULL /\ since'[f] = <<ch>> /\ given'[f] = given[f] /\ Heard(f) = given[f]
    BY <1>1, <1>2, <1>3, <1>4, <1>5, <1>10
  <2>2. given[f] \o <<ch>> = Append(given[f], ch)
    BY <1>7, AppendIsConcat
  <2> QED BY <1>1, <1>6, <1>7, <1>8, <1>10, <2>1, <2>2
<1>11. CASE f \notin r.calls /\ f \notin r.marks
  <2>1. CASE since[f] = NULL
    BY <1>1, <1>2, <1>3, <1>4, <1>5, <1>6, <1>8, <1>11, <2>1
  <2>2. CASE since[f] # NULL
    <3>1. /\ since[f] \in Seq(Chars) /\ since'[f] = Append(since[f], ch)
          /\ given'[f] = given[f] /\ Heard(f) = given[f] \o since[f]
      BY <1>3, <1>4, <1>5, <1>7, <1>11, <2>2
    <3>2. Append(since[f], ch) \in Seq(Chars) /\ Append(since[f], ch) # NULL
      <4>1. Append(since[f], ch) \in Seq(Chars)
        BY <3>1, CharAppended
      <4> QED BY <4>1, MarkAssumption, Zenon
    <3>3. given[f] \o Append(since[f], ch) = Append(given[f] \o since[f], ch)
      BY <1>7, <3>1, ConcatAppend
    <3> QED BY <1>1, <1>2, <1>6, <1>8, <1>11, <2>2, <3>1, <3>2, <3>3
  <2> QED BY <2>1, <2>2
<1> QED BY <1>9, <1>10, <1>11

LEMMA CharacterFits ==
    ASSUME ParserInv, PartsFit, Character
    PROVE  PartsFit'
<1>0. PICK r \in Rules, ch \in Chars : Step(r, ch)
  BY DEF Character
<1>1. /\ Reading /\ PartsMarked /\ Place(state, received) /\ received \in Seq(Chars)
      /\ at # "refused" /\ at' = "inside"
      /\ r.from = state /\ state' = r.to /\ ch \in r.on
      /\ received' = IF r.to \in UrlMark THEN Append(received, ch) ELSE received
  BY <1>0, UrlStatesAre DEF PartsFit, Character, Reading, ParserInv, Kinds, Step
<1>2. \A f \in Marks :
         /\ Heard(f)' = IF f \in PartsIn(r.to) THEN Append(Heard(f), ch) ELSE Heard(f)
         /\ r.to \in MarkedIn(f) => since'[f] # NULL
  BY <1>0, <1>1, HeardStep
<1>3. PartsMarked'
  BY <1>1, <1>2 DEF PartsMarked, Reading
<1>4. \A f \in Marks \ {"url"} : Heard(f) = PartsOf(received)[f]
  BY <1>1 DEF PartsFit, PartsOfUrl
<1>5. CASE r.to \in UrlMark
  <2>1. Follows(received, ch, r.to)
    BY <1>1, <1>5, RulesLead, LeadsFollow
  <2>2. Place(state', received')
    BY <1>1, <1>5, <2>1 DEF Follows
  <2>3. \A f \in Marks \ {"url"} : Heard(f)' = PartsOf(received')[f]
    BY <1>1, <1>2, <1>4, <1>5, <2>1 DEF Follows, Grow
  <2> QED BY <1>3, <2>2, <2>3 DEF PartsFit, PartsOfUrl
<1>6. CASE r.to \notin UrlMark
  <2>1. r.to = "s_req_spaces_before_url" => r.from = r.to
    BY RulesFit DEF Fits, KeepsOrder
  <2>2. Place(state', received')
    BY <1>1, <1>6, <2>1 DEF Place, UrlMark
  <2>3. \A f \in Marks : f \notin PartsIn(r.to)
    BY <1>6, MarkStates DEF PartsIn
  <2>4. \A f \in Marks \ {"url"} : Heard(f)' = PartsOf(received')[f]
    BY <1>1, <1>2, <1>4, <1>6, <2>3
  <2> QED BY <1>3, <2>2, <2>4 DEF PartsFit, PartsOfUrl
<1> QED BY <1>5, <1>6

(* Where a message is given up or begins, and between the buffers.         *)
LEMMA FreshFits ==
    ASSUME received' = << >>, \A f \in Marks : since'[f] = NULL,
           given' = NothingGiven, state' \notin UrlMark
    PROVE  PartsFit'
<1>1. \A f \in Marks : Heard(f)' = << >>
  BY DEF Heard, Told, NothingGiven
<1>2. \A f \in Marks \ {"url"} : PartsOf(received')[f] = << >>
  BY EmptyUrl
<1>3. PartsMarked'
  BY MarkStates DEF PartsMarked
<1>4. Place(state', received')
  BY DEF Place, UrlMark
<1> QED BY <1>1, <1>2, <1>3, <1>4 DEF PartsFit, PartsOfUrl

LEMMA InitFits == Init => PartsFit
<1> SUFFICES ASSUME Init PROVE PartsFit
  OBVIOUS
<1>1. \A f \in Marks : Heard(f) = << >>
  BY HeardIs DEF Init, NoMarks, NothingGiven
<1>2. \A f \in Marks \ {"url"} : PartsOf(received)[f] = << >>
  BY EmptyUrl DEF Init
<1>3. PartsMarked
  BY DEF PartsMarked, Init, Reading
<1>4. Place(state, received)
  BY DEF Init, Place
<1> QED BY <1>1, <1>2, <1>3, <1>4 DEF PartsFit, PartsOfUrl

LEMMA HandleClientRequestFits ==
    ASSUME HandleClientRequest
    PROVE  PartsFit'
  BY FreshFits DEF HandleClientRequest, HttpParserInit, NothingSent, NoMarks, UrlMark

LEMMA MethodFits ==
    ASSUME ParserInv, Method
    PROVE  PartsFit'
<1>1. since = NoMarks
  BY MarksUnset DEF ParserInv, Method, UrlMark
<1>2. \A f \in Marks : since'[f] = NULL
  BY <1>1 DEF Method, NoMarks
<1> QED BY <1>2, FreshFits DEF Method, NothingSent, UrlMark

LEMMA ResumeFits ==
    ASSUME ParserInv, PartsFit, Resume
    PROVE  PartsFit'
<1>1. /\ at = "outside" /\ at' = "first" /\ since' = ResumedMarks
      /\ state' = state /\ given' = given /\ received' = received
      /\ TypeOK /\ Kinds
  BY DEF Resume, message, ParserInv
<1>2. << >> # NULL
  BY EmptySeq, MarkAssumption
<1>3. PartsMarked'
  BY <1>1, <1>2 DEF PartsMarked, ResumedMarks
<1>4. Place(state', received')
  BY <1>1 DEF PartsFit
<1>5. \A f \in Marks : Heard(f)' = Heard(f)
  <2> TAKE f \in Marks
  <2>1. since[f] = NULL /\ given[f] \in Seq(Chars)
    BY <1>1 DEF TypeOK, Kinds, Reading
  <2>2. Heard(f) = given[f]
    BY <2>1, HeardIs
  <2>3. Heard(f)' = IF since'[f] # NULL THEN given'[f] \o since'[f] ELSE given'[f]
    BY DEF Heard, Told
  <2>4. since'[f] \in {NULL, << >>}
    BY <1>1 DEF ResumedMarks
  <2> QED BY <1>1, <2>1, <2>2, <2>3, <2>4, ConcatEmptySeq
<1> QED BY <1>1, <1>3, <1>4, <1>5 DEF PartsFit, PartsOfUrl

LEMMA EndOfBufferFits ==
    ASSUME ParserInv, PartsFit, EndOfBuffer
    PROVE  PartsFit'
<1>1. /\ at \in {"inside", "last"} /\ at' = "outside"
      /\ given' = Told(Marks) /\ since' = NoMarks
      /\ state' = state /\ received' = received
  BY DEF EndOfBuffer, message
<1>2. PartsMarked' /\ Place(state', received')
  BY <1>1 DEF PartsMarked, PartsFit, Reading
<1>3. \A f \in Marks : Heard(f)' = Heard(f)
  BY <1>1 DEF Heard, Told, NoMarks
<1> QED BY <1>1, <1>2, <1>3 DEF PartsFit, PartsOfUrl

LEMMA RefuseFits ==
    ASSUME Refuse
    PROVE  PartsFit'
  BY DEF Refuse, PartsFit, PartsMarked, PartsOfUrl, Place, Reading

LEMMA BehindUrlFits ==
    ASSUME ParserInv, PartsFit, BehindUrl
    PROVE  PartsFit'
<1>1. since = NoMarks /\ since' = NoMarks
  BY MarksUnset, BehindUrlStep DEF ParserInv, BehindUrl
<1>2. /\ at # "refused" /\ given' = given /\ received' = received
      /\ state' \notin UrlMark \cup {"s_req_spaces_before_url"}
  BY DEF BehindUrl, Reading
<1>3. \A f \in Marks : Heard(f)' = Heard(f)
  BY <1>1, <1>2 DEF Heard, Told
<1>4. PartsMarked' /\ Place(state', received')
  BY <1>2, MarkStates DEF PartsMarked, Place, UrlMark
<1> QED BY <1>2, <1>3, <1>4 DEF PartsFit, PartsOfUrl

LEMMA BehindUrlActions ==
    ASSUME ParserInv, Version \/ HeaderLine \/ HeadersDone \/ ChunkLine \/ BodyData
    PROVE  BehindUrl
<1>1. CASE Version
  BY <1>1 DEF Version, BehindUrl, UrlMark
<1>2. CASE HeaderLine
  BY <1>2 DEF HeaderLine, BehindUrl, UrlMark
<1>3. CASE HeadersDone
  BY <1>3 DEF HeadersDone, BehindUrl, UrlMark, AfterHeaders, NewMessage
<1>4. CASE ChunkLine
  <2>1. PICK r \in ChunkRules : r.from = state /\ state' \in {"s_header_field_start", r.to}
    BY <1>4 DEF ChunkLine
  <2>2. state \notin UrlMark /\ state' \notin UrlMark \cup {"s_req_spaces_before_url"}
    BY <2>1, ChunkStatesAre DEF UrlMark, ChunkStates
  <2> QED BY <1>4, <2>2 DEF ChunkLine, BehindUrl
<1>5. CASE BodyData
  BY <1>5 DEF BodyData, BehindData, BehindUrl, UrlMark, NewMessage
<1> QED BY <1>1, <1>2, <1>3, <1>4, <1>5

LEMMA NextFits == ParserInv /\ PartsFit /\ [Next]_vars => PartsFit'
<1> SUFFICES ASSUME ParserInv, PartsFit, [Next]_vars PROVE PartsFit'
  OBVIOUS
<1>1. CASE UNCHANGED vars
  BY <1>1 DEF vars, PartsFit, PartsMarked, PartsOfUrl, Reading, Heard, Told
<1>2. CASE Next
  BY <1>2, HandleClientRequestFits, ResumeFits, CharacterFits, MethodFits,
     BehindUrlActions, BehindUrlFits, RefuseFits, EndOfBufferFits DEF Next
<1> QED BY <1>1, <1>2

(* The callbacks of path, query and fragment get the parts that the        *)
(* separators mark off, for URLs of any length and however the buffers cut *)
(* them.                                                                   *)
THEOREM PartsReported == Spec => []PartsOfUrl
<1>1. PartsFit => PartsOfUrl
  BY DEF PartsFit
<1> QED BY <1>1, InitFits, NextFits, ParserInvariant, PTL DEF Spec

-----------------------------------------------------------------------------
(* What the digits of a size line spell.                                   *)

Spelled(s) == FoldLeft(LAMBDA v, ch : 16 * v + HexValue(ch), 0, s)

(* The same, digit by digit: the value of the digits in the positions x    *)
(* from that without the last of them.                                     *)
ValueAt(s, f, x) ==
    IF x = {} THEN 0 ELSE 16 * f[x \ {Max(x)}] + HexValue(s[Max(x)])
Values(s) == CHOOSE f : f = [x \in SUBSET DOMAIN s |-> ValueAt(s, f, x)]

(* The value of a string of digits is its recursive function at all of     *)
(* them.                                                                   *)
LEMMA SpelledIs == ASSUME NEW s PROVE Spelled(s) = Values(s)[DOMAIN s]
  BY DEF Spelled, Values, FoldLeft, MapThenFoldSet, ValueAt

(* Size in the terms of its definition.                                    *)
LEMMA SizeIs ==
    ASSUME NEW t, NEW i
    PROVE  Size(t, i) =
             Spelled(SubSeq(t, i, First(SubSeq(t, i, Len(t)), {"SEMI", "CR"}) + i - 2))
  BY DEF Spelled, Size

(* The maximum of a set that has one.                                      *)
LEMMA MaxIsGreatest ==
    ASSUME NEW I, \E m \in I : \A y \in I : m >= y
    PROVE  Max(I) \in I /\ \A y \in I : Max(I) >= y
BY DEF Max

(* The maximum of positions up to m + 1 among which is m + 1.              *)
LEMMA LastOfInitial ==
    ASSUME NEW m \in Nat, NEW x \in SUBSET (1..(m + 1)), m + 1 \in x
    PROVE  Max(x) = m + 1 /\ x \ {Max(x)} \in SUBSET (1..m)
<1>1. \A y \in x : m + 1 >= y
  OBVIOUS
<1>2. Max(x) \in x /\ \A y \in x : Max(x) >= y
  <2>1. \E z \in x : \A y \in x : z >= y
    BY <1>1
  <2> QED BY <2>1, MaxIsGreatest
<1>3. Max(x) = m + 1
  <2>1. Max(x) >= m + 1 /\ Max(x) \in 1..(m + 1)
    BY <1>2
  <2> QED BY <2>1
<1>4. x \ {m + 1} \in SUBSET (1..m)
  OBVIOUS
<1> QED BY <1>3, <1>4

(* The recursion of the definition has a solution: were there none up to   *)
(* some position, one up to the position before would go on.               *)
LEMMA ValuesDefined ==
    ASSUME NEW s, NEW n \in Nat, DOMAIN s = 1..n
    PROVE  Values(s) = [x \in SUBSET DOMAIN s |-> ValueAt(s, Values(s), x)]
<1> DEFINE Solves(f, m) == f = [x \in SUBSET (1..m) |-> ValueAt(s, f, x)]
           unsolved == {m \in Nat : ~\E f : Solves(f, m)}
<1>1. 0 \notin unsolved
  <2> DEFINE f == [x \in SUBSET (1..0) |-> 0]
  <2>1. \A x \in SUBSET (1..0) : x = {}
    OBVIOUS
  <2>2. f = [x \in SUBSET (1..0) |-> ValueAt(s, f, x)]
    <3>1. \A x \in SUBSET (1..0) : ValueAt(s, f, x) = 0
      BY <2>1 DEF ValueAt
    <3> QED BY <3>1
  <2> QED BY <2>2
<1>2. ASSUME NEW m \in Nat, m \notin unsolved
      PROVE  m + 1 \notin unsolved
  <2>1. PICK g : Solves(g, m)
    BY <1>2
  <2> DEFINE f == [x \in SUBSET (1..(m + 1)) |->
                      IF m + 1 \in x THEN ValueAt(s, g, x) ELSE g[x]]
  <2>2. ASSUME NEW x \in SUBSET (1..(m + 1))
        PROVE  f[x] = ValueAt(s, f, x)
    <3>1. CASE m + 1 \in x
      <4>1. Max(x) = m + 1 /\ x \ {Max(x)} \in SUBSET (1..m) /\ x # {}
        BY <3>1, LastOfInitial
      <4>2. x \ {Max(x)} \in SUBSET (1..(m + 1)) /\ m + 1 \notin x \ {Max(x)}
        BY <4>1
      <4>3. f[x \ {Max(x)}] = g[x \ {Max(x)}]
        BY <4>2
      <4>4. f[x] = ValueAt(s, g, x)
        BY <3>1
      <4> QED BY <4>3, <4>4 DEF ValueAt
    <3>2. CASE m + 1 \notin x
      <4>1. x \in SUBSET (1..m)
        BY <3>2
      <4>2. f[x] = g[x] /\ g[x] = ValueAt(s, g, x)
        BY <2>1, <3>2, <4>1
      <4>3. x # {} => x \ {Max(x)} \in SUBSET (1..m) /\ m + 1 \notin x \ {Max(x)}
        BY <3>2, <4>1
      <4>4. x # {} => f[x \ {Max(x)}] = g[x \ {Max(x)}]
        <5>1. SUBSET (1..m) \subseteq SUBSET (1..(m + 1))
          OBVIOUS
        <5> QED BY <4>3, <5>1
      <4> QED BY <4>2, <4>4 DEF ValueAt
    <3> QED BY <3>1, <3>2
  <2>3. f = [x \in SUBSET (1..(m + 1)) |-> ValueAt(s, f, x)]
    BY <2>2
  <2> QED BY <2>3
<1>3. unsolved = {}
  <2> SUFFICES ASSUME unsolved # {} PROVE FALSE
    OBVIOUS
  <2>1. PICK m \in unsolved : \A y \in unsolved : m <= y
    <3>1. unsolved \in SUBSET Nat
      OBVIOUS
    <3> HIDE DEF unsolved
    <3> QED BY <3>1, LeastExists
  <2> HIDE DEF Solves
  <2>2. m \in Nat /\ m # 0
    BY <1>1
  <2>3. m - 1 \in Nat /\ m - 1 \notin unsolved
    BY <2>1, <2>2
  <2>4. (m - 1) + 1 \notin unsolved
    <3> HIDE DEF unsolved
    <3> QED BY <1>2, <2>3
  <2>5. (m - 1) + 1 = m
    BY <2>2
  <2> HIDE DEF unsolved
  <2> QED BY <2>1, <2>4, <2>5
<1>4. \E f : f = [x \in SUBSET DOMAIN s |-> ValueAt(s, f, x)]
  <2>1. \E f : Solves(f, n)
    BY <1>3
  <2> QED BY <2>1
<1> QED BY <1>4 DEF Values

(* The digits of the model are 0 and 1.                                    *)
LEMMA HexValueIs == \A ch : HexValue(ch) \in 0..1
  BY DEF HexValue

(* The value of the first m digits, from that of one digit less.           *)
LEMMA SpelledFirst ==
    ASSUME NEW s, NEW n \in Nat, DOMAIN s = 1..n
    PROVE  /\ Values(s)[{}] = 0
           /\ \A m \in 1..n :
                Values(s)[1..m] = 16 * Values(s)[1..(m - 1)] + HexValue(s[m])
<1> DEFINE v == Values(s)
<1>1. v = [x \in SUBSET DOMAIN s |-> ValueAt(s, v, x)]
  BY ValuesDefined
<1> HIDE DEF v
<1>2. \A x \in SUBSET (1..n) : v[x] = ValueAt(s, v, x)
  BY <1>1
<1>3. v[{}] = 0
  BY <1>2 DEF ValueAt
<1>4. ASSUME NEW m \in 1..n
      PROVE  v[1..m] = 16 * v[1..(m - 1)] + HexValue(s[m])
  <2>1. m - 1 \in Nat /\ (m - 1) + 1 = m
    OBVIOUS
  <2>2. 1..m \in SUBSET (1..((m - 1) + 1)) /\ (m - 1) + 1 \in 1..m
    OBVIOUS
  <2>3. Max(1..m) = m
    BY <2>1, <2>2, LastOfInitial
  <2>4. (1..m) \ {m} = 1..(m - 1) /\ 1..m # {} /\ 1..m \in SUBSET (1..n)
    OBVIOUS
  <2>5. v[1..m] = ValueAt(s, v, 1..m)
    BY <1>2, <2>4
  <2> QED BY <2>3, <2>4, <2>5, Zenon DEF ValueAt
<1> QED BY <1>3, <1>4 DEF v

(* Digits spell a natural number.                                          *)
LEMMA SpelledNat ==
    ASSUME NEW s, NEW n \in Nat, DOMAIN s = 1..n
    PROVE  Spelled(s) \in Nat
<1> DEFINE bad == {m \in 0..n : Values(s)[1..m] \notin Nat}
<1> SUFFICES bad = {}
  <2>1. bad = {} => Values(s)[1..n] \in Nat
    OBVIOUS
  <2> QED BY <2>1, SpelledIs
<1> SUFFICES ASSUME bad # {} PROVE FALSE
  OBVIOUS
<1>1. PICK m \in bad : \A y \in bad : m <= y
  <2>1. bad \in SUBSET Nat
    OBVIOUS
  <2> HIDE DEF bad
  <2> QED BY <2>1, LeastExists
<1>2. m # 0
  <2>1. 1..0 = {}
    OBVIOUS
  <2>2. Values(s)[{}] = 0
    BY SpelledFirst
  <2>3. Values(s)[1..0] \in Nat
    BY <2>1, <2>2
  <2> QED BY <1>1, <2>3
<1>3. m \in 1..n /\ m - 1 \in 0..n /\ m - 1 \notin bad
  BY <1>1, <1>2
<1>4. Values(s)[1..(m - 1)] \in Nat
  BY <1>3
<1>5. Values(s)[1..m] = 16 * Values(s)[1..(m - 1)] + HexValue(s[m])
  BY <1>3, SpelledFirst
<1>6. Values(s)[1..m] \in Nat
  <2>1. HexValue(s[m]) \in Nat
    BY HexValueIs
  <2> DEFINE a == Values(s)[1..(m - 1)]  b == HexValue(s[m])
  <2>2. a \in Nat /\ b \in Nat /\ Values(s)[1..m] = 16 * a + b
    BY <1>4, <1>5, <2>1
  <2> HIDE DEF a, b
  <2> QED BY <2>2
<1> QED BY <1>1, <1>6

(* One digit, and two.                                                     *)
LEMMA SpelledDigits ==
    ASSUME NEW s, NEW n \in 1..2, DOMAIN s = 1..n
    PROVE  /\ n = 1 => Spelled(s) = HexValue(s[1])
           /\ n = 2 => Spelled(s) = 16 * HexValue(s[1]) + HexValue(s[2])
<1> DEFINE v == Values(s)  a == HexValue(s[1])  b == HexValue(s[2])
<1>1. v[{}] = 0 /\ \A m \in 1..n : v[1..m] = 16 * v[1..(m - 1)] + HexValue(s[m])
  BY SpelledFirst
<1>2. Spelled(s) = v[1..n]
  BY SpelledIs
<1>3. a \in Nat /\ b \in Nat
  BY HexValueIs
<1>4. v[1..1] = 16 * v[1..0] + a
  <2>1. 1 \in 1..n /\ 1 - 1 = 0
    OBVIOUS
  <2>2. v[1..1] = 16 * v[1..(1 - 1)] + a
    BY <1>1, <2>1, Zenon
  <2> QED BY <2>1, <2>2, Zenon
<1>5. n = 2 => v[1..2] = 16 * v[1..1] + b
  <2> SUFFICES ASSUME n = 2 PROVE v[1..2] = 16 * v[1..1] + b
    OBVIOUS
  <2>1. 2 \in 1..n /\ 2 - 1 = 1
    OBVIOUS
  <2>2. v[1..2] = 16 * v[1..(2 - 1)] + b
    BY <1>1, <2>1, Zenon
  <2> QED BY <2>1, <2>2, Zenon
<1>6. 1..0 = {}
  OBVIOUS
<1> HIDE DEF v, a, b
<1>7. v[1..1] = a
  BY <1>1, <1>3, <1>4, <1>6
<1>8. /\ n = 1 => Spelled(s) = a
      /\ n = 2 => Spelled(s) = 16 * a + b
  BY <1>2, <1>5, <1>7
<1> QED BY <1>8 DEF a, b
-----------------------------------------------------------------------------
(* Chunks, each from the one behind it.                                    *)

Bytes == ChunkChars \cup HeaderLines

DataFrom(t, i) == Min(LineFeeds(t, i)) + 1
DataEnd(t, i)  == DataFrom(t, i) + Size(t, i) - 1
Beyond(t, i)   == Min({DataEnd(t, i) + 3, Len(t) + 1})
Piece(t, i)    == SubSeq(t, DataFrom(t, i), Min({DataEnd(t, i), Len(t)}))

ChunkAt(t, f, i) ==
    IF LineFeeds(t, i) = {} THEN [data |-> << >>, zero |-> 0]
    ELSE IF Size(t, i) = 0 THEN [data |-> << >>, zero |-> Min(LineFeeds(t, i))]
    ELSE [f[Beyond(t, i)] EXCEPT !.data = Piece(t, i) \o @]

ChunksOf(t) == CHOOSE f : f = [i \in 1..(Len(t) + 1) |-> ChunkAt(t, f, i)]

(* A body is what its chunks from the first byte on are.                   *)
LEMMA DechunkedIs == ASSUME NEW t PROVE Dechunked(t) = ChunksOf(t)[1]
  BY DEF Dechunked, ChunksOf, ChunkAt, Beyond, Piece, DataEnd, DataFrom

(* The minimum of two integers.                                            *)
LEMMA MinOfTwo ==
    ASSUME NEW a \in Int, NEW b \in Int
    PROVE  Min({a, b}) = IF a <= b THEN a ELSE b
<1>1. \E x \in {a, b} : \A y \in {a, b} : x <= y
  OBVIOUS
<1>2. Min({a, b}) \in {a, b} /\ \A y \in {a, b} : Min({a, b}) <= y
  BY <1>1 DEF Min
<1> DEFINE m == Min({a, b})
<1>3. m \in {a, b} /\ m <= a /\ m <= b
  BY <1>2
<1> HIDE DEF m
<1>4. m = IF a <= b THEN a ELSE b
  BY <1>3
<1> QED BY <1>4 DEF m

(* The first position of a byte of S, or the position behind the last.     *)
LEMMA FirstIs ==
    ASSUME NEW u, NEW n \in Nat, DOMAIN u = 1..n, Len(u) = n, NEW S
    PROVE  /\ First(u, S) \in 1..(n + 1)
           /\ First(u, S) <= n => u[First(u, S)] \in S
           /\ \A i \in 1..n : u[i] \in S => First(u, S) <= i
<1> DEFINE I == {i \in DOMAIN u : u[i] \in S} \cup {n + 1}
           m == Min(I)
<1>1. m \in I /\ \A y \in I : m <= y
  <2>1. I \in SUBSET Nat /\ I # {}
    OBVIOUS
  <2> HIDE DEF I
  <2> QED BY <2>1, MinIsLeast
<1>2. First(u, S) = m
  BY DEF First
<1> HIDE DEF m
<1>3. /\ m \in 1..(n + 1)
      /\ m <= n => u[m] \in S
      /\ \A i \in 1..n : u[i] \in S => m <= i
  BY <1>1
<1> QED BY <1>2, <1>3

(* A part of a sequence.                                                   *)
LEMMA PartIs ==
    ASSUME NEW S, NEW t \in Seq(S), NEW i \in 1..(Len(t) + 1), NEW e \in (i - 1)..Len(t)
    PROVE  /\ SubSeq(t, i, e) \in Seq(S)
           /\ Len(SubSeq(t, i, e)) = e - i + 1
           /\ DOMAIN SubSeq(t, i, e) = 1..(e - i + 1)
           /\ \A j \in 1..(e - i + 1) : SubSeq(t, i, e)[j] = t[i + j - 1]
<1>1. Len(t) \in Nat
  BY LenProperties
<1>2. i \in Int /\ e \in Int /\ i >= 1 /\ e <= Len(t) /\ e >= i - 1
  BY <1>1
<1>3. \A j \in i..e : t[j] \in S
  <2> TAKE j \in i..e
  <2>1. j \in 1..Len(t)
    BY <1>1, <1>2
  <2> QED BY <2>1, ElementOfSeq
<1>4. /\ SubSeq(t, i, e) \in Seq(S)
      /\ Len(SubSeq(t, i, e)) = IF i <= e THEN e - i + 1 ELSE 0
      /\ \A j \in 1..(e - i + 1) : SubSeq(t, i, e)[j] = t[i + j - 1]
  BY <1>2, <1>3, SubSeqProperties
<1>5. Len(SubSeq(t, i, e)) = e - i + 1
  BY <1>2, <1>4
<1> QED BY <1>4, <1>5, LenProperties

(* The size of a chunk is a natural number.                                *)
LEMMA SizeNat ==
    ASSUME NEW S, NEW t \in Seq(S), NEW i \in 1..(Len(t) + 1)
    PROVE  Size(t, i) \in Nat
<1> DEFINE n == Len(t) - i + 1
           u == SubSeq(t, i, Len(t))
           k == First(u, {"SEMI", "CR"})
           d == SubSeq(t, i, k + i - 2)
<1>1. Len(t) \in Nat /\ i \in Int /\ n \in Nat
  BY LenProperties
<1>2. Len(u) = n /\ DOMAIN u = 1..n
  <2>1. Len(t) \in (i - 1)..Len(t)
    BY <1>1
  <2> QED BY <2>1, PartIs
<1> HIDE DEF u
<1>3. k \in 1..(n + 1)
  BY <1>1, <1>2, FirstIs
<1> HIDE DEF k
<1>4. k + i - 2 \in (i - 1)..Len(t) /\ (k + i - 2) - i + 1 \in Nat
  BY <1>1, <1>3
<1>5. DOMAIN d = 1..((k + i - 2) - i + 1)
  BY <1>4, PartIs
<1>6. Spelled(d) \in Nat
  BY <1>4, <1>5, SpelledNat
<1> QED BY <1>6, SizeIs DEF k, u

(* The chunk behind the one at i begins behind i.                          *)
LEMMA BeyondIs ==
    ASSUME NEW S, NEW t \in Seq(S), NEW i \in 1..(Len(t) + 1), LineFeeds(t, i) # {}
    PROVE  /\ Min(LineFeeds(t, i)) \in LineFeeds(t, i)
           /\ \A j \in LineFeeds(t, i) : Min(LineFeeds(t, i)) <= j
           /\ Min(LineFeeds(t, i)) \in i..Len(t)
           /\ DataFrom(t, i) \in (i + 1)..(Len(t) + 1)
           /\ DataEnd(t, i) \in Int /\ DataEnd(t, i) = DataFrom(t, i) + Size(t, i) - 1
           /\ DataEnd(t, i) >= DataFrom(t, i) - 1
           /\ Beyond(t, i) \in (i + 1)..(Len(t) + 1)
           /\ Piece(t, i) \in Seq(S)
<1> DEFINE I == LineFeeds(t, i)
           l == Min(I)
           z == Size(t, i)
           n == Len(t)
           e == Min({l + z, n})
           b == Min({l + z + 3, n + 1})
<1>1. n \in Nat /\ i \in Int /\ i >= 1 /\ i <= n + 1
  BY LenProperties
<1>2. I \subseteq i..n
  BY DEF LineFeeds
<1>3. l \in I /\ \A y \in I : l <= y
  <2>1. I \in SUBSET Nat /\ I # {}
    <3> HIDE DEF n
    <3> QED BY <1>1, <1>2
  <2> HIDE DEF I
  <2> QED BY <2>1, MinIsLeast
<1>4. z \in Nat
  BY SizeNat
<1>5. /\ l \in i..n /\ l \in Int
      /\ l + 1 + z - 1 = l + z
  BY <1>1, <1>2, <1>3, <1>4
<1>6. /\ DataFrom(t, i) = l + 1
      /\ DataEnd(t, i) = l + z
      /\ Beyond(t, i) = b
      /\ Piece(t, i) = SubSeq(t, l + 1, e)
  <2>1. DataFrom(t, i) = l + 1 /\ DataEnd(t, i) = l + 1 + z - 1
    BY DEF DataFrom, DataEnd
  <2>2. DataEnd(t, i) = l + z
    BY <1>5, <2>1
  <2> QED BY <2>1, <2>2 DEF Beyond, Piece
<1> HIDE DEF I, l, z
<1>7. b = IF l + z + 3 <= n + 1 THEN l + z + 3 ELSE n + 1
  <2>1. l + z + 3 \in Int /\ n + 1 \in Int
    BY <1>1, <1>4, <1>5
  <2> QED BY <2>1, MinOfTwo
<1>8. e = IF l + z <= n THEN l + z ELSE n
  <2>1. l + z \in Int /\ n \in Int
    BY <1>1, <1>4, <1>5
  <2> QED BY <2>1, MinOfTwo
<1> HIDE DEF b, e
<1>9. l + 1 \in (i + 1)..(n + 1) /\ l + 1 \in 1..(n + 1)
  BY <1>1, <1>5
<1>10. l + z \in Int /\ l + z = (l + 1) + z - 1 /\ l + z >= (l + 1) - 1
  BY <1>4, <1>5
<1>11. b \in (i + 1)..(n + 1)
  BY <1>1, <1>4, <1>5, <1>7
<1>12. e \in ((l + 1) - 1)..n
  BY <1>1, <1>4, <1>5, <1>8
<1>13. SubSeq(t, l + 1, e) \in Seq(S)
  <2> DEFINE a == l + 1
  <2>1. a \in 1..(Len(t) + 1)
    BY <1>9
  <2>2. e \in (a - 1)..Len(t)
    BY <1>12
  <2> HIDE DEF a
  <2>3. SubSeq(t, a, e) \in Seq(S)
    BY <2>1, <2>2, PartIs
  <2> QED BY <2>3 DEF a
<1>14. /\ DataFrom(t, i) \in (i + 1)..(n + 1)
       /\ DataEnd(t, i) \in Int /\ DataEnd(t, i) = DataFrom(t, i) + z - 1
       /\ DataEnd(t, i) >= DataFrom(t, i) - 1
       /\ Beyond(t, i) \in (i + 1)..(n + 1)
       /\ Piece(t, i) \in Seq(S)
  BY <1>6, <1>9, <1>10, <1>11, <1>13
<1>15. l \in I /\ (\A y \in I : l <= y) /\ l \in i..n
  BY <1>3, <1>5
<1> HIDE DEF n
<1> QED BY <1>14, <1>15, Zenon DEF I, l, z, n

(* The recursion of the definition has a solution, from the end backwards. *)
LEMMA ChunksDefined ==
    ASSUME NEW S, NEW t \in Seq(S)
    PROVE  ChunksOf(t) = [i \in 1..(Len(t) + 1) |-> ChunkAt(t, ChunksOf(t), i)]
<1> DEFINE n == Len(t)
           Solves(f, m) == f = [i \in (n + 1 - m)..(n + 1) |-> ChunkAt(t, f, i)]
           unsolved == {m \in 0..n : ~\E f : Solves(f, m)}
<1>0. n \in Nat
  BY LenProperties
<1>1. ASSUME NEW i \in 1..(n + 1), NEW f, NEW g,
             \A k \in (i + 1)..(n + 1) : f[k] = g[k]
      PROVE  ChunkAt(t, f, i) = ChunkAt(t, g, i)
  <2>1. LineFeeds(t, i) # {} => f[Beyond(t, i)] = g[Beyond(t, i)]
    BY <1>1, BeyondIs
  <2> QED BY <2>1 DEF ChunkAt
<1> HIDE DEF n
<1>2. 0 \notin unsolved
  <2> DEFINE f == [i \in (n + 1 - 0)..(n + 1) |-> ChunkAt(t, << >>, i)]
  <2>1. ASSUME NEW i \in (n + 1 - 0)..(n + 1)
        PROVE  ChunkAt(t, << >>, i) = ChunkAt(t, f, i)
    <3>1. i \in 1..(n + 1) /\ \A k \in (i + 1)..(n + 1) : FALSE
      BY <1>0
    <3> HIDE DEF f
    <3>2. \A k \in (i + 1)..(n + 1) : << >>[k] = f[k]
      BY <3>1
    <3> QED BY <1>1, <3>1, <3>2
  <2>2. f = [i \in (n + 1 - 0)..(n + 1) |-> ChunkAt(t, f, i)]
    BY <2>1
  <2>3. \E g : Solves(g, 0)
    BY <2>2
  <2> QED BY <2>3
<1>3. ASSUME NEW m \in 0..(n - 1), m \notin unsolved
      PROVE  m + 1 \notin unsolved
  <2>0. /\ m \in Nat /\ m + 1 <= n
        /\ (n + 1 - (m + 1)) = n - m /\ n - m \in 1..n /\ n + 1 - m = (n - m) + 1
    BY <1>0
  <2>1. PICK g : g = [i \in (n + 1 - m)..(n + 1) |-> ChunkAt(t, g, i)]
    <3>1. m \in 0..n
      BY <1>0, <2>0
    <3> QED BY <1>3, <3>1
  <2> DEFINE f == [i \in (n + 1 - (m + 1))..(n + 1) |->
                      IF i = n - m THEN ChunkAt(t, g, i) ELSE g[i]]
  <2>2. \A k \in ((n - m) + 1)..(n + 1) : f[k] = g[k] /\ g[k] = ChunkAt(t, g, k)
    <3>1. \A k \in (n + 1 - m)..(n + 1) : g[k] = ChunkAt(t, g, k)
      BY <2>1, Zenon
    <3>2. ((n - m) + 1)..(n + 1) = (n + 1 - m)..(n + 1)
      BY <2>0
    <3>3. \A k \in ((n - m) + 1)..(n + 1) : f[k] = g[k]
      BY <1>0, <2>0
    <3> QED BY <3>1, <3>2, <3>3, Zenon
  <2>3. f[n - m] = ChunkAt(t, g, n - m)
    BY <1>0, <2>0
  <2>4. ASSUME NEW i \in (n + 1 - (m + 1))..(n + 1)
        PROVE  f[i] = ChunkAt(t, f, i)
    <3> HIDE DEF f
    <3>1. i \in 1..(n + 1) /\ i \in (n - m)..(n + 1)
      BY <1>0, <2>0
    <3>2. \A k \in (i + 1)..(n + 1) : f[k] = g[k]
      BY <1>0, <2>0, <2>2, <3>1
    <3>3. ChunkAt(t, f, i) = ChunkAt(t, g, i)
      BY <1>1, <3>1, <3>2
    <3>4. i = n - m \/ i \in ((n - m) + 1)..(n + 1)
      BY <1>0, <2>0, <3>1
    <3>5. f[i] = ChunkAt(t, g, i)
      BY <2>2, <2>3, <3>4
    <3> QED BY <3>3, <3>5
  <2>5. f = [i \in (n + 1 - (m + 1))..(n + 1) |-> ChunkAt(t, f, i)]
    BY <2>4
  <2>6. \E h : Solves(h, m + 1)
    BY <2>5
  <2> QED BY <2>6
<1>4. unsolved = {}
  <2> SUFFICES ASSUME unsolved # {} PROVE FALSE
    OBVIOUS
  <2>1. PICK m \in unsolved : \A y \in unsolved : m <= y
    <3>1. unsolved \in SUBSET Nat
      OBVIOUS
    <3> HIDE DEF unsolved
    <3> QED BY <3>1, LeastExists
  <2> HIDE DEF Solves
  <2>2. m \in 0..n /\ m # 0
    BY <1>2, <2>1
  <2>3. m - 1 \in 0..(n - 1) /\ m - 1 < m /\ (m - 1) + 1 = m
    BY <1>0, <2>2
  <2> HIDE DEF unsolved
  <2>4. m - 1 \notin unsolved
    BY <2>1, <2>3, <2>2
  <2>5. (m - 1) + 1 \notin unsolved
    BY <1>3, <2>3, <2>4
  <2> QED BY <2>1, <2>3, <2>5
<1>5. \E f : f = [i \in 1..(Len(t) + 1) |-> ChunkAt(t, f, i)]
  <2>1. n \in 0..n /\ n + 1 - n = 1
    BY <1>0
  <2>2. \E f : Solves(f, n)
    BY <1>4, <2>1
  <2>3. \E f : f = [i \in 1..(n + 1) |-> ChunkAt(t, f, i)]
    BY <2>1, <2>2
  <2> QED BY <2>3 DEF n
<1> QED BY <1>5 DEF ChunksOf

(* What a chunk is, in the terms of its definition.                        *)
LEMMA ChunkIs ==
    ASSUME NEW S, NEW t \in Seq(S), NEW i \in 1..(Len(t) + 1)
    PROVE  ChunksOf(t)[i] = ChunkAt(t, ChunksOf(t), i)
BY ChunksDefined, Zenon

(* Data and position of what begins at any place.                          *)
LEMMA ChunkKind ==
    ASSUME NEW S, NEW t \in Seq(S), NEW i \in 1..(Len(t) + 1)
    PROVE  ChunksOf(t)[i] \in [data : Seq(S), zero : Nat]
<1> DEFINE n == Len(t)
           f == ChunksOf(t)
           kind == [data : Seq(S), zero : Nat]
           bad == {m \in 0..n : f[n + 1 - m] \notin kind}
<1>0. n \in Nat
  BY LenProperties
<1>1. ASSUME NEW k \in 1..(n + 1),
             \A j \in (k + 1)..(n + 1) : f[j] \in kind
      PROVE  f[k] \in kind
  <2>1. f[k] = ChunkAt(t, f, k)
    BY ChunkIs
  <2> HIDE DEF f
  <2>2. CASE LineFeeds(t, k) = {}
    <3>1. f[k] = [data |-> << >>, zero |-> 0]
      BY <2>1, <2>2 DEF ChunkAt
    <3> QED BY <3>1, EmptySeq
  <2>3. CASE LineFeeds(t, k) # {} /\ Size(t, k) = 0
    <3>1. f[k] = [data |-> << >>, zero |-> Min(LineFeeds(t, k))]
      BY <2>1, <2>3 DEF ChunkAt
    <3>2. Min(LineFeeds(t, k)) \in k..n
      BY <2>3, BeyondIs
    <3>3. Min(LineFeeds(t, k)) \in Nat
      BY <1>0, <3>2
    <3> QED BY <3>1, <3>3, EmptySeq
  <2>4. CASE LineFeeds(t, k) # {} /\ Size(t, k) # 0
    <3> DEFINE rest == f[Beyond(t, k)]
    <3>1. f[k] = [rest EXCEPT !.data = Piece(t, k) \o @]
      BY <2>1, <2>4 DEF ChunkAt
    <3>2. rest \in kind /\ Piece(t, k) \in Seq(S)
      BY <1>1, <2>4, BeyondIs
    <3> HIDE DEF rest
    <3>3. Piece(t, k) \o rest.data \in Seq(S)
      BY <3>2, ConcatProperties
    <3> QED BY <3>1, <3>2, <3>3
  <2> QED BY <2>2, <2>3, <2>4
<1> HIDE DEF f, kind, n
<1>2. bad = {}
  <2> SUFFICES ASSUME bad # {} PROVE FALSE
    OBVIOUS
  <2>1. PICK m \in bad : \A y \in bad : m <= y
    <3>1. bad \in SUBSET Nat
      OBVIOUS
    <3> HIDE DEF bad
    <3> QED BY <3>1, LeastExists
  <2>2. m \in 0..n /\ n + 1 - m \in 1..(n + 1)
    BY <1>0, <2>1
  <2>3. ASSUME NEW j \in ((n + 1 - m) + 1)..(n + 1)
        PROVE  f[j] \in kind
    <3>1. n + 1 - j \in 0..n /\ n + 1 - j < m /\ n + 1 - (n + 1 - j) = j
      BY <1>0, <2>2
    <3>2. n + 1 - j \notin bad
      <4> HIDE DEF bad
      <4> QED BY <2>1, <2>2, <3>1
    <3>3. f[n + 1 - (n + 1 - j)] \in kind
      BY <3>1, <3>2
    <3> QED BY <3>1, <3>3, Zenon
  <2>4. f[n + 1 - m] \in kind
    BY <1>1, <2>2, <2>3
  <2> QED BY <2>1, <2>4
<1>3. i \in 1..(n + 1)
  BY DEF n
<1>4. n + 1 - i \in 0..n /\ n + 1 - (n + 1 - i) = i
  BY <1>0, <1>3
<1>5. f[n + 1 - (n + 1 - i)] \in kind
  BY <1>2, <1>4
<1>6. f[i] \in kind
  BY <1>4, <1>5, Zenon
<1> QED BY <1>6 DEF f, kind
-----------------------------------------------------------------------------
(* A size line: digits at c up to k, then a carriage return or a parameter *)
(* without one; its line feed is at l.                                     *)

DigitsAt(t, c, k) ==
    /\ c \in Nat /\ 1 <= c /\ k \in {c + 1, c + 2} /\ k <= Len(t) + 1
    /\ \A j \in c..(k - 1) : t[j] \in HexDigits

(* What they spell.                                                        *)
Number(t, c, k) == Spelled(SubSeq(t, c, k - 1))

Closed(t, c, k, l) ==
    /\ DigitsAt(t, c, k)
    /\ l \in (k + 1)..Len(t)
    /\ t[k] \in {"SEMI", "CR"}
    /\ \A j \in k..(l - 2) : t[j] # "CR"
    /\ t[l - 1] = "CR" /\ t[l] = "LF"

(* u goes on as t does up to m, or further.                                *)
Agree(u, t, m) == Len(u) >= m /\ \A i \in 1..m : u[i] = t[i]

(* The bytes that follow a complete run of digits do not change it.        *)
LEMMA DigitsStay ==
    ASSUME NEW t \in Seq(Bytes), NEW u \in Seq(Bytes), NEW c, NEW k,
           DigitsAt(t, c, k), Agree(u, t, k - 1)
    PROVE  DigitsAt(u, c, k) /\ Number(u, c, k) = Number(t, c, k)
<1>1. Len(t) \in Nat /\ Len(u) \in Nat
  BY LenProperties
<1>2. /\ c \in Nat /\ 1 <= c /\ k \in Nat /\ k - 1 \in (c - 1)..Len(t)
      /\ k - 1 \in (c - 1)..Len(u)
      /\ c \in 1..(Len(t) + 1) /\ c \in 1..(Len(u) + 1)
  BY <1>1 DEF DigitsAt, Agree
<1>3. \A j \in c..(k - 1) : u[j] = t[j]
  BY <1>1, <1>2 DEF Agree
<1>4. DigitsAt(u, c, k)
  <2>1. k <= Len(u) + 1
    BY <1>1, <1>2
  <2> QED BY <1>3, <2>1 DEF DigitsAt
<1> DEFINE a == SubSeq(u, c, k - 1)
           b == SubSeq(t, c, k - 1)
<1>5. /\ a \in Seq(Bytes) /\ Len(a) = k - 1 - c + 1
      /\ \A j \in 1..(k - 1 - c + 1) : a[j] = u[c + j - 1]
  BY <1>2, PartIs
<1>6. /\ b \in Seq(Bytes) /\ Len(b) = k - 1 - c + 1
      /\ \A j \in 1..(k - 1 - c + 1) : b[j] = t[c + j - 1]
  BY <1>2, PartIs
<1>7. \A j \in 1..(k - 1 - c + 1) : c + j - 1 \in c..(k - 1)
  BY <1>2
<1> HIDE DEF a, b
<1>8. \A j \in 1..Len(a) : a[j] = b[j]
  BY <1>3, <1>5, <1>6, <1>7
<1>9. a = b
  BY <1>5, <1>6, <1>8, SeqEqual
<1> QED BY <1>4, <1>9 DEF a, b, Number

(* Nor do they change a size line that has ended.                          *)
LEMMA ClosedStays ==
    ASSUME NEW t \in Seq(Bytes), NEW u \in Seq(Bytes), NEW c, NEW k, NEW l,
           Closed(t, c, k, l), Agree(u, t, l)
    PROVE  Closed(u, c, k, l)
<1>1. Len(t) \in Nat /\ Len(u) \in Nat
  BY LenProperties
<1>2. DigitsAt(t, c, k) /\ c \in Nat /\ 1 <= c /\ k \in Nat /\ c < k /\ l \in Nat /\ k < l
  BY <1>1 DEF Closed, DigitsAt
<1>3. Agree(u, t, k - 1)
  BY <1>1, <1>2 DEF Agree
<1>4. DigitsAt(u, c, k)
  BY <1>2, <1>3, DigitsStay
<1>5. \A j \in k..l : u[j] = t[j]
  BY <1>2 DEF Agree
<1>6. k \in k..l /\ l \in k..l /\ l - 1 \in k..l /\ \A j \in k..(l - 2) : j \in k..l
  BY <1>2
<1>7. l \in (k + 1)..Len(u)
  BY <1>1, <1>2 DEF Agree
<1> QED BY <1>4, <1>5, <1>6, <1>7 DEF Closed

(* The end of the line is the first line feed behind a carriage return,    *)
(* and its digits spell the size.                                          *)
LEMMA ClosedIs ==
    ASSUME NEW t \in Seq(Bytes), NEW c, NEW k, NEW l, Closed(t, c, k, l)
    PROVE  /\ c \in 1..(Len(t) + 1)
           /\ LineFeeds(t, c) # {} /\ Min(LineFeeds(t, c)) = l
           /\ Size(t, c) = Number(t, c, k)
<1>1. /\ Len(t) \in Nat /\ c \in Nat /\ 1 <= c /\ k \in {c + 1, c + 2} /\ k \in Nat
      /\ l \in Nat /\ k < l /\ l <= Len(t)
      /\ \A j \in c..(k - 1) : t[j] \in HexDigits
      /\ t[k] \in {"SEMI", "CR"}
      /\ \A j \in k..(l - 2) : t[j] # "CR"
      /\ t[l - 1] = "CR" /\ t[l] = "LF"
  BY LenProperties DEF Closed, DigitsAt
<1>2. \A j \in c..(k - 1) : t[j] \notin {"SEMI", "CR", "LF"}
  BY <1>1 DEF HexDigits
<1>3. c \in 1..(Len(t) + 1)
  BY <1>1
<1>4. l \in LineFeeds(t, c)
  BY <1>1 DEF LineFeeds
<1>5. ASSUME NEW j \in LineFeeds(t, c), j < l
      PROVE  FALSE
  <2>1. j \in c..(l - 1) /\ t[j] = "LF" /\ t[j - 1] = "CR"
    BY <1>1, <1>5 DEF LineFeeds
  <2>2. j >= k
    BY <1>1, <1>2, <2>1
  <2>3. j # k
    BY <1>1, <2>1
  <2>4. j - 1 \in k..(l - 2)
    BY <1>1, <2>1, <2>2, <2>3
  <2> QED BY <1>1, <2>1, <2>4
<1>6. Min(LineFeeds(t, c)) = l
  <2>1. /\ Min(LineFeeds(t, c)) \in LineFeeds(t, c)
        /\ Min(LineFeeds(t, c)) <= l
        /\ Min(LineFeeds(t, c)) \in c..Len(t)
    BY <1>3, <1>4, BeyondIs
  <2> DEFINE m == Min(LineFeeds(t, c))
  <2>2. m \in LineFeeds(t, c) /\ m <= l /\ m \in Int
    BY <1>1, <2>1
  <2> HIDE DEF m
  <2>3. m = l
    BY <1>1, <1>5, <2>2
  <2> QED BY <2>3 DEF m
<1> DEFINE n == Len(t) - c + 1
           u == SubSeq(t, c, Len(t))
           f == First(u, {"SEMI", "CR"})
<1>7. n \in Nat /\ Len(t) \in (c - 1)..Len(t) /\ k - c + 1 \in 1..n
  BY <1>1
<1>8. /\ Len(u) = n /\ DOMAIN u = 1..n
      /\ \A j \in 1..n : u[j] = t[c + j - 1]
  BY <1>3, <1>7, PartIs
<1> HIDE DEF u, n
<1>9. /\ f \in 1..(n + 1)
      /\ f <= n => u[f] \in {"SEMI", "CR"}
      /\ \A i \in 1..n : u[i] \in {"SEMI", "CR"} => f <= i
  BY <1>7, <1>8, FirstIs
<1> HIDE DEF f
<1>10. f = k - c + 1
  <2>1. u[k - c + 1] = t[k]
    <3>1. c + (k - c + 1) - 1 = k
      BY <1>1
    <3>2. u[k - c + 1] = t[c + (k - c + 1) - 1]
      BY <1>7, <1>8, Zenon
    <3> QED BY <3>1, <3>2, Zenon
  <2>2. f <= k - c + 1
    BY <1>1, <1>7, <1>9, <2>1, Zenon
  <2>3. ~(f < k - c + 1)
    <3> SUFFICES ASSUME f < k - c + 1 PROVE FALSE
      OBVIOUS
    <3>1. f \in 1..n /\ c + f - 1 \in c..(k - 1)
      BY <1>1, <1>7, <1>9
    <3>2. u[f] = t[c + f - 1] /\ u[f] \in {"SEMI", "CR"}
      BY <1>7, <1>8, <1>9, <3>1
    <3> QED BY <1>2, <3>1, <3>2, Zenon
  <2> QED BY <1>1, <1>9, <2>2, <2>3
<1>11. Size(t, c) = Spelled(SubSeq(t, c, f + c - 2))
  BY SizeIs DEF f, u
<1>12. f + c - 2 = k - 1
  BY <1>1, <1>10
<1> QED BY <1>3, <1>4, <1>6, <1>11, <1>12 DEF Number

(* A chunk whose size line has not ended holds nothing.                    *)
LEMMA OpenChunk ==
    ASSUME NEW t \in Seq(Bytes), NEW c \in 1..(Len(t) + 1), LineFeeds(t, c) = {}
    PROVE  ChunksOf(t)[c].data = << >> /\ ChunksOf(t)[c].zero = 0
<1>1. ChunksOf(t)[c] = [data |-> << >>, zero |-> 0]
  BY ChunkIs DEF ChunkAt
<1> QED BY <1>1

(* The chunk of size zero is the last.                                     *)
LEMMA ZeroChunk ==
    ASSUME NEW t \in Seq(Bytes), NEW c \in 1..(Len(t) + 1), LineFeeds(t, c) # {},
           Size(t, c) = 0
    PROVE  /\ ChunksOf(t)[c].data = << >>
           /\ ChunksOf(t)[c].zero = Min(LineFeeds(t, c))
<1>1. ChunksOf(t)[c] = [data |-> << >>, zero |-> Min(LineFeeds(t, c))]
  BY ChunkIs DEF ChunkAt
<1> QED BY <1>1

(* A chunk with data comes before the chunks behind it.                    *)
LEMMA DataChunk ==
    ASSUME NEW t \in Seq(Bytes), NEW c \in 1..(Len(t) + 1), LineFeeds(t, c) # {},
           Size(t, c) # 0
    PROVE  /\ ChunksOf(t)[c].data = Piece(t, c) \o ChunksOf(t)[Beyond(t, c)].data
           /\ ChunksOf(t)[c].zero = ChunksOf(t)[Beyond(t, c)].zero
<1> DEFINE rest == ChunksOf(t)[Beyond(t, c)]
<1>1. ChunksOf(t)[c] = [rest EXCEPT !.data = Piece(t, c) \o @]
  BY ChunkIs DEF ChunkAt
<1>2. Beyond(t, c) \in 1..(Len(t) + 1)
  <2>1. Beyond(t, c) \in (c + 1)..(Len(t) + 1) /\ Len(t) \in Nat
    BY BeyondIs, LenProperties
  <2> QED BY <2>1
<1>3. rest \in [data : Seq(Bytes), zero : Nat]
  BY <1>2, ChunkKind
<1> HIDE DEF rest
<1>4. /\ [rest EXCEPT !.data = Piece(t, c) \o @].data = Piece(t, c) \o rest.data
      /\ [rest EXCEPT !.data = Piece(t, c) \o @].zero = rest.zero
  BY <1>3
<1> QED BY <1>1, <1>4, Zenon DEF rest

(* The chunks up to c hold w, whatever follows them.                       *)
Resumes(t, c, w) ==
    \A u \in Seq(Bytes) : Agree(u, t, c - 1) =>
        /\ Dechunked(u).data = w \o ChunksOf(u)[c].data
        /\ Dechunked(u).zero = ChunksOf(u)[c].zero

(* Bytes joined in either order.                                           *)
Regroups(x, y, z) == (x \o y) \o z = x \o (y \o z)

LEMMA BytesRegrouped ==
    ASSUME NEW x \in Seq(Bytes), NEW y \in Seq(Bytes), NEW z \in Seq(Bytes)
    PROVE  Regroups(x, y, z)
  BY ConcatAssociative DEF Regroups

(* A body agrees with itself.                                              *)
LEMMA AgreeItself ==
    ASSUME NEW t \in Seq(Bytes), NEW m \in Int, m <= Len(t)
    PROVE  Agree(t, t, m)
BY LenProperties DEF Agree

(* Before the first chunk there are no data.                               *)
LEMMA ResumesFirst == ASSUME NEW t PROVE Resumes(t, 1, << >>)
<1> SUFFICES ASSUME NEW u \in Seq(Bytes)
             PROVE  /\ Dechunked(u).data = << >> \o ChunksOf(u)[1].data
                    /\ Dechunked(u).zero = ChunksOf(u)[1].zero
  BY DEF Resumes
<1>1. 1 \in 1..(Len(u) + 1)
  BY LenProperties
<1>2. ChunksOf(u)[1] \in [data : Seq(Bytes), zero : Nat]
  BY <1>1, ChunkKind
<1>3. << >> \o ChunksOf(u)[1].data = ChunksOf(u)[1].data
  <2>1. ChunksOf(u)[1].data \in Seq(Bytes)
    BY <1>2
  <2> QED BY <2>1, ConcatEmptySeq
<1> QED BY <1>3, DechunkedIs

(* What the chunks before c hold is settled by the bytes before c.         *)
LEMMA ResumesStays ==
    ASSUME NEW t \in Seq(Bytes), NEW u \in Seq(Bytes), NEW c \in Nat, NEW w,
           Resumes(t, c, w), Agree(u, t, c - 1)
    PROVE  Resumes(u, c, w)
<1> SUFFICES ASSUME NEW v \in Seq(Bytes), Agree(v, u, c - 1)
             PROVE  Agree(v, t, c - 1)
  BY DEF Resumes
<1> QED BY DEF Agree

(* In particular it is so for the body as it is.                           *)
LEMMA ResumesHere ==
    ASSUME NEW t \in Seq(Bytes), NEW c \in 1..(Len(t) + 1), NEW w, Resumes(t, c, w)
    PROVE  /\ Dechunked(t).data = w \o ChunksOf(t)[c].data
           /\ Dechunked(t).zero = ChunksOf(t)[c].zero
<1>1. c - 1 \in Int /\ c - 1 <= Len(t)
  BY LenProperties
<1>2. Agree(t, t, c - 1)
  BY <1>1, AgreeItself
<1> QED BY <1>2 DEF Resumes

(* The data of a chunk once it is complete.                                *)
LEMMA PieceStays ==
    ASSUME NEW t \in Seq(Bytes), NEW u \in Seq(Bytes), NEW c, NEW k, NEW l,
           Closed(t, c, k, l), Agree(u, t, Len(t))
    PROVE  /\ Closed(u, c, k, l) /\ Size(u, c) = Size(t, c)
           /\ DataEnd(u, c) = DataEnd(t, c)
           /\ DataEnd(t, c) <= Len(t) => Piece(u, c) = Piece(t, c)
<1>1. Len(t) \in Nat /\ Len(u) \in Nat /\ Len(t) <= Len(u) /\ l \in Int /\ l <= Len(t)
      /\ DigitsAt(t, c, k) /\ k - 1 \in Int /\ k - 1 <= Len(t)
  <2>1. Len(t) \in Nat /\ Len(u) \in Nat /\ Len(t) <= Len(u)
    BY LenProperties DEF Agree
  <2>2. DigitsAt(t, c, k) /\ l \in (k + 1)..Len(t)
    BY DEF Closed
  <2>3. k \in Int
    BY <2>2 DEF DigitsAt
  <2> QED BY <2>1, <2>2, <2>3
<1>2. Agree(u, t, l) /\ Agree(u, t, k - 1)
  BY <1>1 DEF Agree
<1>3. Closed(u, c, k, l)
  BY <1>2, ClosedStays
<1>4. Number(u, c, k) = Number(t, c, k)
  BY <1>1, <1>2, DigitsStay
<1>5. /\ c \in 1..(Len(t) + 1) /\ LineFeeds(t, c) # {} /\ Min(LineFeeds(t, c)) = l
      /\ Size(t, c) = Number(t, c, k)
  BY ClosedIs
<1>6. /\ c \in 1..(Len(u) + 1) /\ LineFeeds(u, c) # {} /\ Min(LineFeeds(u, c)) = l
      /\ Size(u, c) = Number(u, c, k)
  BY <1>3, ClosedIs
<1>7. /\ Size(u, c) = Size(t, c)
      /\ DataFrom(u, c) = l + 1 /\ DataFrom(t, c) = l + 1
      /\ DataEnd(u, c) = DataEnd(t, c)
  BY <1>4, <1>5, <1>6 DEF DataFrom, DataEnd
<1>8. ASSUME DataEnd(t, c) <= Len(t)
      PROVE  Piece(u, c) = Piece(t, c)
  <2> DEFINE e == DataEnd(t, c)
  <2>1. e \in Int /\ e >= l
    <3>1. DataEnd(t, c) \in Int /\ DataEnd(t, c) >= DataFrom(t, c) - 1
      BY <1>5, BeyondIs
    <3> QED BY <1>1, <1>7, <3>1
  <2>2. e <= Len(t)
    BY <1>8
  <2>3. Piece(u, c) = SubSeq(u, l + 1, Min({e, Len(u)})) /\ Piece(t, c) = SubSeq(t, l + 1, Min({e, Len(t)}))
    BY <1>7 DEF Piece
  <2> HIDE DEF e
  <2>4. Min({e, Len(u)}) = e /\ Min({e, Len(t)}) = e
    BY <1>1, <2>1, <2>2, MinOfTwo
  <2>5. /\ l + 1 \in 1..(Len(t) + 1) /\ l + 1 \in 1..(Len(u) + 1)
        /\ e \in ((l + 1) - 1)..Len(t) /\ e \in ((l + 1) - 1)..Len(u)
    <3>1. l >= 0
      BY DEF Closed, DigitsAt
    <3> QED BY <1>1, <2>1, <2>2, <3>1
  <2> DEFINE b == l + 1
             x == SubSeq(u, b, e)
             y == SubSeq(t, b, e)
  <2>6. b \in Int /\ b >= 1
    BY <2>5
  <2> HIDE DEF b
  <2>7. /\ x \in Seq(Bytes) /\ Len(x) = e - b + 1
        /\ \A j \in 1..(e - b + 1) : x[j] = u[b + j - 1]
    <3>1. b \in 1..(Len(u) + 1) /\ e \in (b - 1)..Len(u)
      BY <2>5 DEF b
    <3> QED BY <3>1, PartIs
  <2>8. /\ y \in Seq(Bytes) /\ Len(y) = e - b + 1
        /\ \A j \in 1..(e - b + 1) : y[j] = t[b + j - 1]
    <3>1. b \in 1..(Len(t) + 1) /\ e \in (b - 1)..Len(t)
      BY <2>5 DEF b
    <3> QED BY <3>1, PartIs
  <2>9. \A j \in 1..(e - b + 1) : b + j - 1 \in 1..Len(t)
    BY <1>1, <2>1, <2>2, <2>6
  <2> HIDE DEF x, y
  <2>10. \A j \in 1..Len(x) : x[j] = y[j]
    BY <2>7, <2>8, <2>9 DEF Agree
  <2>11. x = y
    BY <2>7, <2>8, <2>10, SeqEqual
  <2> QED BY <2>3, <2>4, <2>11 DEF x, y, b
<1> QED BY <1>3, <1>7, <1>8

(* Behind the line end of its data the next chunk begins.                  *)
LEMMA ResumesBeyond ==
    ASSUME NEW t \in Seq(Bytes), NEW c, NEW k, NEW l, NEW w \in Seq(Bytes),
           Closed(t, c, k, l), Size(t, c) # 0, Resumes(t, c, w),
           Len(t) = DataEnd(t, c) + 2
    PROVE  Resumes(t, Len(t) + 1, w \o Piece(t, c))
<1>0. Len(t) \in Nat /\ c \in 1..(Len(t) + 1)
  BY ClosedIs, LenProperties
<1> SUFFICES ASSUME NEW u \in Seq(Bytes), Agree(u, t, Len(t))
             PROVE  /\ Dechunked(u).data = (w \o Piece(t, c)) \o ChunksOf(u)[Len(t) + 1].data
                    /\ Dechunked(u).zero = ChunksOf(u)[Len(t) + 1].zero
  <2>1. (Len(t) + 1) - 1 = Len(t)
    BY <1>0
  <2> QED BY <2>1 DEF Resumes
<1> DEFINE n == Len(t) + 1
           rest == ChunksOf(u)[n]
           p == Piece(t, c)
<1>1. Len(u) \in Nat /\ Len(u) >= Len(t) /\ n \in 1..(Len(u) + 1) /\ c \in 1..(Len(u) + 1)
  <2>1. Len(u) \in Nat
    BY LenProperties
  <2>2. Len(u) >= Len(t)
    BY DEF Agree
  <2> QED BY <1>0, <2>1, <2>2
<1>2. DataEnd(t, c) \in Int /\ DataEnd(t, c) <= Len(t)
  <2>1. LineFeeds(t, c) # {}
    BY ClosedIs
  <2>2. DataEnd(t, c) \in Int
    BY <1>0, <2>1, BeyondIs
  <2> QED BY <2>2
<1>3. /\ Closed(u, c, k, l) /\ Size(u, c) = Size(t, c)
      /\ DataEnd(u, c) = DataEnd(t, c)
      /\ Piece(u, c) = p
  BY <1>2, PieceStays
<1>4. LineFeeds(u, c) # {}
  BY <1>3, ClosedIs
<1>5. Beyond(u, c) = n
  <2>1. Beyond(u, c) = Min({DataEnd(t, c) + 3, Len(u) + 1})
    BY <1>3 DEF Beyond
  <2> DEFINE a == DataEnd(t, c) + 3
             b == Len(u) + 1
  <2>2. a \in Int /\ b \in Int /\ a = n /\ a <= b
    BY <1>0, <1>1, <1>2
  <2> HIDE DEF a, b
  <2>3. Min({a, b}) = n
    BY <2>2, MinOfTwo
  <2> QED BY <2>1, <2>3 DEF a, b
<1>6. Agree(u, t, c - 1)
  BY <1>0, <1>1 DEF Agree
<1>7. /\ Dechunked(u).data = w \o ChunksOf(u)[c].data
      /\ Dechunked(u).zero = ChunksOf(u)[c].zero
  BY <1>6 DEF Resumes
<1>8. /\ ChunksOf(u)[c].data = p \o rest.data
      /\ ChunksOf(u)[c].zero = rest.zero
  BY <1>1, <1>3, <1>4, <1>5, DataChunk
<1>9. rest \in [data : Seq(Bytes), zero : Nat]
  BY <1>1, ChunkKind
<1>10. p \in Seq(Bytes)
  <2>1. LineFeeds(t, c) # {}
    BY ClosedIs
  <2> QED BY <1>0, <2>1, BeyondIs
<1> HIDE DEF rest, p, n
<1>11. w \o (p \o rest.data) = (w \o p) \o rest.data
  <2> DEFINE d == rest.data
  <2>1. d \in Seq(Bytes)
    BY <1>9
  <2> HIDE DEF d
  <2>2. w \in Seq(Bytes)
    OBVIOUS
  <2>3. Regroups(w, p, d)
    BY <1>10, <2>1, <2>2, BytesRegrouped
  <2> QED BY <2>3 DEF d, Regroups
<1>12. /\ Dechunked(u).data = (w \o p) \o rest.data
       /\ Dechunked(u).zero = rest.zero
  BY <1>7, <1>8, <1>11
<1> QED BY <1>12 DEF rest, p, n

-----------------------------------------------------------------------------
(* Where the parser is in a chunked body.                                  *)

LineStates == {"s_chunk_size", "s_chunk_parameters", "s_chunk_size_almost_done"}
DataStates == {"s_chunk_data", "s_chunk_data_almost_done", "s_chunk_data_done"}

InLine(st, t, c, k) ==
    /\ DigitsAt(t, c, k)
    /\ st = "s_chunk_size" => k = Len(t) + 1
    /\ st = "s_chunk_parameters" =>
          k <= Len(t) /\ t[k] = "SEMI" /\ \A j \in k..Len(t) : t[j] # "CR"
    /\ st = "s_chunk_size_almost_done" =>
          /\ k <= Len(t) /\ t[k] \in {"SEMI", "CR"}
          /\ \A j \in k..(Len(t) - 1) : t[j] # "CR"
          /\ t[Len(t)] = "CR"

InData(st, t, c, len) ==
    /\ Size(t, c) # 0 /\ \E k, l : Closed(t, c, k, l)
    /\ st = "s_chunk_data" => len > 0 /\ Len(t) = DataEnd(t, c) - len
    /\ st = "s_chunk_data_almost_done" => Len(t) = DataEnd(t, c)
    /\ st = "s_chunk_data_done" => Len(t) = DataEnd(t, c) + 1

(* In the chunk at c, before which w was the data.                         *)
AtChunk(st, t, len, b, c, w) ==
    /\ c \in 1..(Len(t) + 1) /\ w \in Seq(Bytes) /\ Resumes(t, c, w)
    /\ st = "s_chunk_size_start" => c = Len(t) + 1
    /\ st \in LineStates => \E k : InLine(st, t, c, k) /\ len = Number(t, c, k)
    /\ st \in LineStates \cup {"s_chunk_size_start"} => b = w
    /\ st \in DataStates => InData(st, t, c, len) /\ b = w \o Piece(t, c)

Chunked(st, t, len, b) == \E c, w : AtChunk(st, t, len, b, c, w)

(* Behind the chunk of size zero, whose line feed is the z-th byte.        *)
Settled(t, b, z) ==
    \A u \in Seq(Bytes) : Agree(u, t, Len(t)) =>
        Dechunked(u).data = b /\ Dechunked(u).zero = z

InTrailer(t, b) ==
    \E z \in 1..Len(t) : Settled(t, b, z) /\ \A j \in (z + 1)..Len(t) : t[j] \in HeaderLines

(* In a size line no line has ended.                                       *)
LEMMA LineIsOpen ==
    ASSUME NEW t \in Seq(Bytes), NEW st \in LineStates, NEW c, NEW k, InLine(st, t, c, k)
    PROVE  LineFeeds(t, c) = {}
<1>1. /\ Len(t) \in Nat /\ c \in Nat /\ 1 <= c /\ k \in {c + 1, c + 2} /\ k \in Nat
      /\ k <= Len(t) + 1
      /\ \A j \in c..(k - 1) : t[j] \in HexDigits
  BY LenProperties DEF InLine, DigitsAt
<1>2. \A j \in c..(k - 1) : t[j] \notin {"SEMI", "CR", "LF"}
  BY <1>1 DEF HexDigits
<1> SUFFICES ASSUME NEW j \in LineFeeds(t, c) PROVE FALSE
  OBVIOUS
<1>3. j \in c..Len(t) /\ t[j] = "LF" /\ t[j - 1] = "CR"
  BY DEF LineFeeds
<1>4. j >= k
  BY <1>1, <1>2, <1>3
<1>5. k <= Len(t)
  BY <1>1, <1>3, <1>4
<1>6. t[k] \in {"SEMI", "CR"} /\ \A i \in k..(Len(t) - 1) : t[i] # "CR"
  <2>1. st # "s_chunk_size"
    BY <1>1, <1>5 DEF InLine
  <2>2. \A i \in k..(Len(t) - 1) : i \in k..Len(t)
    BY <1>1
  <2> QED BY <2>1, <2>2 DEF InLine, LineStates
<1>7. j # k
  BY <1>3, <1>6
<1>8. j - 1 \in k..(Len(t) - 1)
  BY <1>1, <1>3, <1>4, <1>7
<1> QED BY <1>3, <1>6, <1>8

(* As long as the chunks go on, the data so far are those of the body so   *)
(* far, and no chunk of size zero has been seen.                           *)
LEMMA ChunkedIs ==
    ASSUME NEW t \in Seq(Bytes), NEW len \in Nat, NEW b,
           NEW st \in LineStates \cup DataStates \cup {"s_chunk_size_start"},
           Chunked(st, t, len, b)
    PROVE  Dechunked(t).data = b /\ Dechunked(t).zero = 0
<1>1. PICK c, w : AtChunk(st, t, len, b, c, w)
  BY DEF Chunked
<1>2. Len(t) \in Nat /\ c \in 1..(Len(t) + 1) /\ w \in Seq(Bytes) /\ Resumes(t, c, w)
  BY <1>1, LenProperties DEF AtChunk
<1>3. /\ Dechunked(t).data = w \o ChunksOf(t)[c].data
      /\ Dechunked(t).zero = ChunksOf(t)[c].zero
  BY <1>2, ResumesHere
<1>4. w \o << >> = w
  BY <1>2, ConcatEmptySeq
<1>5. CASE st \in LineStates \cup {"s_chunk_size_start"}
  <2>1. LineFeeds(t, c) = {}
    <3>1. CASE st \in LineStates
      BY <1>1, <3>1, LineIsOpen DEF AtChunk
    <3>2. CASE st = "s_chunk_size_start"
      <4>1. c = Len(t) + 1
        BY <1>1, <3>2 DEF AtChunk
      <4> QED BY <1>2, <4>1 DEF LineFeeds
    <3> QED BY <1>5, <3>1, <3>2
  <2>2. b = w
    BY <1>1, <1>5 DEF AtChunk
  <2> QED BY <1>2, <1>3, <1>4, <2>1, <2>2, OpenChunk
<1>6. CASE st \in DataStates
  <2>1. InData(st, t, c, len) /\ b = w \o Piece(t, c)
    BY <1>1, <1>6 DEF AtChunk
  <2>2. LineFeeds(t, c) # {} /\ Size(t, c) # 0
    <3>1. PICK k, l : Closed(t, c, k, l)
      BY <2>1 DEF InData
    <3> QED BY <2>1, <3>1, ClosedIs DEF InData
  <2>3. DataEnd(t, c) \in Int /\ Piece(t, c) \in Seq(Bytes)
    BY <1>2, <2>2, BeyondIs
  <2>4. Beyond(t, c) = Len(t) + 1
    <3> DEFINE x == DataEnd(t, c) + 3
               y == Len(t) + 1
    <3>1. x \in Int /\ y \in Int
      BY <1>2, <2>3
    <3>2. ~(x <= y)
      <4>1. \/ len > 0 /\ Len(t) = DataEnd(t, c) - len
            \/ Len(t) = DataEnd(t, c)
            \/ Len(t) = DataEnd(t, c) + 1
        BY <1>6, <2>1 DEF InData, DataStates
      <4>2. CASE len > 0 /\ Len(t) = DataEnd(t, c) - len
        BY <1>2, <2>3, <4>2
      <4>3. CASE Len(t) = DataEnd(t, c) \/ Len(t) = DataEnd(t, c) + 1
        BY <1>2, <2>3, <4>3
      <4> QED BY <4>1, <4>2, <4>3
    <3> HIDE DEF x, y
    <3>3. Min({x, y}) = y
      BY <3>1, <3>2, MinOfTwo
    <3> QED BY <3>3 DEF x, y, Beyond
  <2>5. LineFeeds(t, Len(t) + 1) = {} /\ Len(t) + 1 \in 1..(Len(t) + 1)
    BY <1>2 DEF LineFeeds
  <2>6. ChunksOf(t)[Len(t) + 1].data = << >> /\ ChunksOf(t)[Len(t) + 1].zero = 0
    BY <2>5, OpenChunk
  <2>7. ChunksOf(t)[c].data = Piece(t, c) /\ ChunksOf(t)[c].zero = 0
    <3>1. Piece(t, c) \o << >> = Piece(t, c)
      BY <2>3, ConcatEmptySeq
    <3>2. /\ ChunksOf(t)[c].data = Piece(t, c) \o ChunksOf(t)[Beyond(t, c)].data
          /\ ChunksOf(t)[c].zero = ChunksOf(t)[Beyond(t, c)].zero
      BY <1>2, <2>2, DataChunk
    <3> QED BY <2>4, <2>6, <3>1, <3>2
  <2> QED BY <1>3, <2>1, <2>7
<1> QED BY <1>5, <1>6
-----------------------------------------------------------------------------
(* The steps through a size line.                                          *)

(* One more byte.                                                          *)
LEMMA ByteAppended ==
    ASSUME NEW t \in Seq(Bytes), NEW ch \in Bytes
    PROVE  /\ Len(t) \in Nat
           /\ Append(t, ch) \in Seq(Bytes) /\ Len(Append(t, ch)) = Len(t) + 1
           /\ Agree(Append(t, ch), t, Len(t))
           /\ Append(t, ch)[Len(t) + 1] = ch
<1>1. /\ Len(t) \in Nat
      /\ Append(t, ch) \in Seq(Bytes) /\ Len(Append(t, ch)) = Len(t) + 1
      /\ \A i \in 1..Len(t) : Append(t, ch)[i] = t[i]
      /\ Append(t, ch)[Len(t) + 1] = ch
  BY LenProperties, AppendProperties
<1> DEFINE u == Append(t, ch)
<1> HIDE DEF u
<1>2. Agree(u, t, Len(t))
  BY <1>1 DEF Agree, u
<1> QED BY <1>1, <1>2 DEF u

(* Bodies that agree up to n agree up to any m before n.                   *)
LEMMA AgreeLess ==
    ASSUME NEW u \in Seq(Bytes), NEW t, NEW n \in Int, NEW m \in Int, m <= n, Agree(u, t, n)
    PROVE  Agree(u, t, m)
BY LenProperties DEF Agree

(* The chunk the parser is in stays when bytes follow.                     *)
LEMMA AtChunkStays ==
    ASSUME NEW t \in Seq(Bytes), NEW u \in Seq(Bytes), Agree(u, t, Len(t)),
           NEW st, NEW len, NEW b, NEW c, NEW w, AtChunk(st, t, len, b, c, w)
    PROVE  c \in 1..(Len(u) + 1) /\ w \in Seq(Bytes) /\ Resumes(u, c, w)
<1>1. Len(t) \in Nat /\ Len(u) \in Nat /\ Len(t) <= Len(u)
  BY LenProperties DEF Agree
<1>2. c \in 1..(Len(t) + 1) /\ w \in Seq(Bytes) /\ Resumes(t, c, w)
  BY DEF AtChunk
<1>3. c \in Nat /\ c - 1 \in Int /\ c - 1 <= Len(t)
  BY <1>1, <1>2
<1>4. Agree(u, t, c - 1)
  BY <1>1, <1>3, AgreeLess
<1> QED BY <1>1, <1>2, <1>3, <1>4, ResumesStays

(* The number of one digit, and of two.                                    *)
LEMMA NumberIs ==
    ASSUME NEW t \in Seq(Bytes), NEW c \in 1..Len(t)
    PROVE  /\ Number(t, c, c + 1) = HexValue(t[c])
           /\ c + 1 <= Len(t) =>
                Number(t, c, c + 2) = 16 * HexValue(t[c]) + HexValue(t[c + 1])
<1>0. Len(t) \in Nat /\ c \in Nat /\ 1 <= c /\ c <= Len(t) /\ c \in 1..(Len(t) + 1)
  BY LenProperties
<1>1. Number(t, c, c + 1) = HexValue(t[c])
  <2> DEFINE s == SubSeq(t, c, c)
  <2>1. c \in (c - 1)..Len(t) /\ c - c + 1 = 1 /\ c + 1 - 1 = c
    BY <1>0
  <2>2. DOMAIN s = 1..(c - c + 1) /\ \A j \in 1..(c - c + 1) : s[j] = t[c + j - 1]
    BY <1>0, <2>1, PartIs
  <2> HIDE DEF s
  <2>3. DOMAIN s = 1..1 /\ s[1] = t[c]
    BY <2>1, <2>2
  <2>4. Spelled(s) = HexValue(s[1])
    BY <2>3, SpelledDigits
  <2>5. Number(t, c, c + 1) = Spelled(s)
    BY <2>1 DEF Number, s
  <2> QED BY <2>3, <2>4, <2>5
<1>2. ASSUME c + 1 <= Len(t)
      PROVE  Number(t, c, c + 2) = 16 * HexValue(t[c]) + HexValue(t[c + 1])
  <2> DEFINE e == c + 1
             s == SubSeq(t, c, e)
  <2>1. e \in (c - 1)..Len(t) /\ e - c + 1 = 2 /\ c + 2 - 1 = e
    BY <1>0, <1>2
  <2> HIDE DEF e
  <2>2. DOMAIN s = 1..(e - c + 1) /\ \A j \in 1..(e - c + 1) : s[j] = t[c + j - 1]
    BY <1>0, <2>1, PartIs
  <2> HIDE DEF s
  <2>3. DOMAIN s = 1..2 /\ s[1] = t[c] /\ s[2] = t[c + 1]
    <3>1. c + 1 - 1 = c /\ c + 2 - 1 = c + 1 /\ 1 \in 1..2 /\ 2 \in 1..2
      BY <1>0
    <3>2. s[1] = t[c + 1 - 1] /\ s[2] = t[c + 2 - 1]
      BY <2>1, <2>2, <3>1, Zenon
    <3> QED BY <2>1, <2>2, <3>1, <3>2, Zenon
  <2>4. Spelled(s) = 16 * HexValue(s[1]) + HexValue(s[2])
    BY <2>3, SpelledDigits
  <2>5. Number(t, c, c + 2) = Spelled(s)
    BY <2>1 DEF Number, s
  <2> QED BY <2>3, <2>4, <2>5
<1> QED BY <1>1, <1>2

(* The first digit opens the size line and sets the length.                *)
LEMMA FirstDigit ==
    ASSUME NEW t \in Seq(Bytes), NEW len, NEW b, NEW ch \in HexDigits,
           Chunked("s_chunk_size_start", t, len, b)
    PROVE  Chunked("s_chunk_size", Append(t, ch), HexValue(ch), b)
<1> DEFINE u == Append(t, ch)
<1>1. PICK c, w : AtChunk("s_chunk_size_start", t, len, b, c, w)
  BY DEF Chunked
<1>2. /\ Len(t) \in Nat /\ u \in Seq(Bytes) /\ Len(u) = Len(t) + 1
      /\ Agree(u, t, Len(t)) /\ u[Len(t) + 1] = ch
  <2>1. ch \in Bytes
    BY DEF Bytes, ChunkChars
  <2> QED BY <2>1, ByteAppended
<1> HIDE DEF u
<1>3. c \in 1..(Len(u) + 1) /\ w \in Seq(Bytes) /\ Resumes(u, c, w)
  BY <1>1, <1>2, AtChunkStays
<1>4. c = Len(t) + 1 /\ b = w
  BY <1>1 DEF AtChunk
<1>5. DigitsAt(u, c, c + 1)
  <2>1. \A j \in c..(c + 1 - 1) : j = Len(t) + 1
    BY <1>2, <1>4
  <2>2. \A j \in c..(c + 1 - 1) : u[j] \in HexDigits
    BY <1>2, <2>1
  <2> QED BY <1>2, <1>4, <2>2 DEF DigitsAt
<1>6. InLine("s_chunk_size", u, c, c + 1)
  BY <1>2, <1>4, <1>5 DEF InLine
<1>7. Number(u, c, c + 1) = HexValue(ch)
  <2>1. c \in 1..Len(u) /\ u[c] = ch
    BY <1>2, <1>4
  <2> QED BY <1>2, <2>1, NumberIs
<1>8. AtChunk("s_chunk_size", u, HexValue(ch), b, c, w)
  <2>1. \E k : InLine("s_chunk_size", u, c, k) /\ HexValue(ch) = Number(u, c, k)
    BY <1>6, <1>7
  <2> QED BY <1>3, <1>4, <2>1 DEF AtChunk, LineStates, DataStates
<1> QED BY <1>8 DEF Chunked, u

(* The second digit goes on with both.                                     *)
LEMMA NextDigit ==
    ASSUME NEW t \in Seq(Bytes), NEW len, NEW b, NEW ch \in HexDigits,
           Chunked("s_chunk_size", t, len, b),
           Len(t) > 1 => t[Len(t) - 1] \notin HexDigits
    PROVE  /\ Chunked("s_chunk_size", Append(t, ch), 16 * len + HexValue(ch), b)
           /\ 16 * len + HexValue(ch) \in 0..17
<1> DEFINE u == Append(t, ch)
           x == 16 * len + HexValue(ch)
<1>1. PICK c, w : AtChunk("s_chunk_size", t, len, b, c, w)
  BY DEF Chunked
<1>2. /\ Len(t) \in Nat /\ u \in Seq(Bytes) /\ Len(u) = Len(t) + 1
      /\ Agree(u, t, Len(t)) /\ u[Len(t) + 1] = ch
  <2>1. ch \in Bytes
    BY DEF Bytes, ChunkChars
  <2> QED BY <2>1, ByteAppended
<1> HIDE DEF u
<1>3. c \in 1..(Len(u) + 1) /\ w \in Seq(Bytes) /\ Resumes(u, c, w)
  BY <1>1, <1>2, AtChunkStays
<1>4. b = w
  BY <1>1 DEF AtChunk, LineStates
<1>5. PICK k : InLine("s_chunk_size", t, c, k) /\ len = Number(t, c, k)
  BY <1>1 DEF AtChunk, LineStates
<1>6. /\ c \in Nat /\ 1 <= c /\ k \in {c + 1, c + 2} /\ k = Len(t) + 1
      /\ \A j \in c..(k - 1) : t[j] \in HexDigits
  BY <1>5 DEF InLine, DigitsAt
<1>7. k = c + 1
  <2> SUFFICES ASSUME k = c + 2 PROVE FALSE
    BY <1>6
  <2>1. Len(t) > 1 /\ Len(t) - 1 = c /\ c \in c..(k - 1)
    BY <1>2, <1>6
  <2> QED BY <1>6, <2>1
<1>8. c = Len(t) /\ c \in 1..Len(t) /\ c \in 1..Len(u) /\ c + 1 <= Len(u) /\ u[c] = t[c]
      /\ u[c + 1] = ch
  BY <1>2, <1>6, <1>7 DEF Agree
<1>9. len = HexValue(t[c])
  BY <1>5, <1>7, <1>8, NumberIs
<1>10. Number(u, c, c + 2) = x
  BY <1>2, <1>8, <1>9, NumberIs
<1>11. x \in 0..17
  <2> DEFINE h == HexValue(ch)
  <2>1. len \in 0..1 /\ h \in 0..1
    BY <1>9, HexValueIs
  <2> HIDE DEF h
  <2>2. 16 * len + h \in 0..17
    BY <2>1
  <2> QED BY <2>2 DEF h
<1> HIDE DEF x
<1>12. DigitsAt(u, c, c + 2)
  <2>1. \A j \in c..(c + 2 - 1) : j = c \/ j = c + 1
    BY <1>6
  <2>2. t[c] \in HexDigits
    BY <1>6, <1>7
  <2>3. \A j \in c..(c + 2 - 1) : u[j] \in HexDigits
    BY <1>8, <2>1, <2>2
  <2> QED BY <1>2, <1>6, <1>8, <2>3 DEF DigitsAt
<1>13. InLine("s_chunk_size", u, c, c + 2)
  BY <1>2, <1>8, <1>12 DEF InLine
<1>14. AtChunk("s_chunk_size", u, x, b, c, w)
  <2>1. \E i : InLine("s_chunk_size", u, c, i) /\ x = Number(u, c, i)
    BY <1>10, <1>13
  <2> QED BY <1>3, <1>4, <2>1 DEF AtChunk, LineStates, DataStates
<1>15. Chunked("s_chunk_size", u, x, b)
  BY <1>14 DEF Chunked
<1> QED BY <1>11, <1>15 DEF u, x

(* Which byte leads on from the digits, and from a parameter.              *)
GoesOn(st, ch, to) ==
    \/ st = "s_chunk_size" /\ ch = "SEMI" /\ to = "s_chunk_parameters"
    \/ st = "s_chunk_parameters" /\ ch # "CR" /\ to = "s_chunk_parameters"
    \/ /\ st \in {"s_chunk_size", "s_chunk_parameters"} /\ ch = "CR"
       /\ to = "s_chunk_size_almost_done"

(* A byte that neither is a digit nor ends the line changes no length.     *)
LEMMA LineGoesOn ==
    ASSUME NEW t \in Seq(Bytes), NEW len, NEW b, NEW ch \in Bytes, NEW st, NEW to,
           Chunked(st, t, len, b), GoesOn(st, ch, to)
    PROVE  Chunked(to, Append(t, ch), len, b)
<1> DEFINE u == Append(t, ch)
<1>1. PICK c, w : AtChunk(st, t, len, b, c, w)
  BY DEF Chunked
<1>2. /\ Len(t) \in Nat /\ u \in Seq(Bytes) /\ Len(u) = Len(t) + 1
      /\ Agree(u, t, Len(t)) /\ u[Len(t) + 1] = ch
  BY ByteAppended
<1> HIDE DEF u
<1>3. c \in 1..(Len(u) + 1) /\ w \in Seq(Bytes) /\ Resumes(u, c, w)
  BY <1>1, <1>2, AtChunkStays
<1>4. st \in LineStates /\ to \in {"s_chunk_parameters", "s_chunk_size_almost_done"}
  BY DEF GoesOn, LineStates
<1>5. b = w
  BY <1>1, <1>4 DEF AtChunk
<1>6. PICK k : InLine(st, t, c, k) /\ len = Number(t, c, k)
  BY <1>1, <1>4 DEF AtChunk
<1>7. /\ DigitsAt(t, c, k) /\ k \in Nat /\ 1 <= k /\ k <= Len(t) + 1
  BY <1>6 DEF InLine, DigitsAt
<1>8. Agree(u, t, k - 1) /\ k - 1 \in Int
  <2>1. k - 1 \in Int /\ k - 1 <= Len(t)
    BY <1>2, <1>7
  <2> QED BY <1>2, <2>1, AgreeLess
<1>9. DigitsAt(u, c, k) /\ Number(u, c, k) = Number(t, c, k)
  BY <1>2, <1>7, <1>8, DigitsStay
<1>10. \A j \in k..Len(t) : u[j] = t[j]
  BY <1>2, <1>7 DEF Agree
<1>11. InLine(to, u, c, k)
  <2>1. CASE st = "s_chunk_size"
    <3>1. k = Len(u) /\ u[k] = ch
      BY <1>2, <1>6, <2>1 DEF InLine
    <3>2. \/ ch = "SEMI" /\ to = "s_chunk_parameters"
          \/ ch = "CR" /\ to = "s_chunk_size_almost_done"
      BY <2>1 DEF GoesOn
    <3>3. (\A j \in k..Len(u) : j = k) /\ \A j \in k..(Len(u) - 1) : FALSE
      BY <1>2, <3>1
    <3> QED BY <1>2, <1>7, <1>9, <3>1, <3>2, <3>3 DEF InLine
  <2>2. CASE st = "s_chunk_parameters"
    <3>1. k <= Len(t) /\ t[k] = "SEMI" /\ \A j \in k..Len(t) : t[j] # "CR"
      BY <1>6, <2>2 DEF InLine
    <3>2. k <= Len(u) /\ u[k] = "SEMI" /\ \A j \in k..Len(t) : u[j] # "CR"
      BY <1>2, <1>7, <1>10, <3>1
    <3>3. \A j \in k..Len(u) : j \in k..Len(t) \/ j = Len(t) + 1
      BY <1>2, <1>7
    <3>4. Len(u) - 1 = Len(t) /\ u[Len(u)] = ch
      BY <1>2
    <3>5. \/ ch # "CR" /\ to = "s_chunk_parameters"
          \/ ch = "CR" /\ to = "s_chunk_size_almost_done"
      BY <2>2 DEF GoesOn
    <3> QED BY <1>2, <1>9, <3>2, <3>3, <3>4, <3>5 DEF InLine
  <2> QED BY <2>1, <2>2 DEF GoesOn
<1>12. AtChunk(to, u, len, b, c, w)
  <2>1. \E i : InLine(to, u, c, i) /\ len = Number(u, c, i)
    BY <1>6, <1>9, <1>11
  <2> QED BY <1>3, <1>4, <1>5, <2>1 DEF AtChunk, DataStates
<1> QED BY <1>12 DEF Chunked, u

(* The line feed ends a size line: data follow, or after the size zero the *)
(* trailer.                                                                *)
LEMMA LineEnds ==
    ASSUME NEW t \in Seq(Bytes), NEW len \in Nat, NEW b,
           Chunked("s_chunk_size_almost_done", t, len, b)
    PROVE  /\ len # 0 => Chunked("s_chunk_data", Append(t, "LF"), len, b)
           /\ len = 0 => InTrailer(Append(t, "LF"), b)
<1> DEFINE u == Append(t, "LF")
           st == "s_chunk_size_almost_done"
<1>1. PICK c, w : AtChunk(st, t, len, b, c, w)
  BY DEF Chunked
<1>2. /\ Len(t) \in Nat /\ u \in Seq(Bytes) /\ Len(u) = Len(t) + 1
      /\ Agree(u, t, Len(t)) /\ u[Len(t) + 1] = "LF"
  <2>1. "LF" \in Bytes
    BY DEF Bytes, ChunkChars
  <2> QED BY <2>1, ByteAppended
<1> HIDE DEF u
<1>3. c \in 1..(Len(u) + 1) /\ w \in Seq(Bytes) /\ Resumes(u, c, w)
  BY <1>1, <1>2, AtChunkStays
<1>4. b = w
  BY <1>1 DEF AtChunk, LineStates
<1>5. PICK k : InLine(st, t, c, k) /\ len = Number(t, c, k)
  BY <1>1 DEF AtChunk, LineStates
<1>6. /\ DigitsAt(t, c, k) /\ k \in Nat /\ 1 <= k /\ k <= Len(t) /\ c \in Nat /\ c < k
      /\ t[k] \in {"SEMI", "CR"}
      /\ \A j \in k..(Len(t) - 1) : t[j] # "CR"
      /\ t[Len(t)] = "CR"
  BY <1>5 DEF InLine, DigitsAt
<1>7. Agree(u, t, k - 1) /\ k - 1 \in Int
  <2>1. k - 1 \in Int /\ k - 1 <= Len(t)
    BY <1>2, <1>6
  <2> QED BY <1>2, <2>1, AgreeLess
<1>8. DigitsAt(u, c, k) /\ Number(u, c, k) = len
  BY <1>2, <1>5, <1>6, <1>7, DigitsStay
<1>9. Closed(u, c, k, Len(u))
  <2>1. \A j \in k..Len(t) : u[j] = t[j]
    BY <1>2, <1>6 DEF Agree
  <2>2. /\ Len(u) - 2 = Len(t) - 1 /\ Len(u) - 1 = Len(t) /\ Len(u) \in (k + 1)..Len(u)
        /\ k \in k..Len(t) /\ Len(t) \in k..Len(t)
        /\ \A j \in k..(Len(t) - 1) : j \in k..Len(t)
    BY <1>2, <1>6
  <2> QED BY <1>2, <1>6, <1>8, <2>1, <2>2 DEF Closed
<1>10. /\ LineFeeds(u, c) # {} /\ Min(LineFeeds(u, c)) = Len(u)
       /\ Size(u, c) = len
  BY <1>2, <1>8, <1>9, ClosedIs
<1>11. DataFrom(u, c) = Len(u) + 1 /\ DataEnd(u, c) = Len(u) + len
  <2>1. DataFrom(u, c) = Len(u) + 1 /\ DataEnd(u, c) = Len(u) + 1 + len - 1
    BY <1>10 DEF DataFrom, DataEnd
  <2> QED BY <1>2, <2>1
<1>12. ASSUME len # 0
       PROVE  Chunked("s_chunk_data", u, len, b)
  <2>1. InData("s_chunk_data", u, c, len)
    <3>1. len > 0 /\ Len(u) = DataEnd(u, c) - len
      BY <1>2, <1>11, <1>12
    <3>2. \E i, j : Closed(u, c, i, j)
      BY <1>9
    <3> QED BY <1>10, <1>12, <3>1, <3>2 DEF InData
  <2>2. Piece(u, c) = << >>
    <3> DEFINE e == Min({Len(u) + len, Len(u)})
               a == Len(u) + 1
    <3>1. e = Len(u)
      <4> DEFINE x == Len(u) + len
                 y == Len(u)
      <4>1. x \in Int /\ y \in Int /\ ~(x <= y)
        BY <1>2, <1>12
      <4> HIDE DEF x, y
      <4>2. Min({x, y}) = y
        BY <4>1, MinOfTwo
      <4> QED BY <4>2 DEF x, y
    <3>2. a \in Int /\ e \in Int /\ e < a
      BY <1>2, <3>1
    <3>3. Piece(u, c) = SubSeq(u, a, e)
      BY <1>11 DEF Piece
    <3> HIDE DEF a, e
    <3> QED BY <3>2, <3>3, SubSeqEmpty
  <2>3. b = w \o Piece(u, c)
    BY <1>3, <1>4, <2>2, ConcatEmptySeq
  <2>4. AtChunk("s_chunk_data", u, len, b, c, w)
    BY <1>3, <2>1, <2>3 DEF AtChunk, LineStates, DataStates
  <2> QED BY <2>4 DEF Chunked
<1>13. ASSUME len = 0
       PROVE  InTrailer(u, b)
  <2>1. ASSUME NEW v \in Seq(Bytes), Agree(v, u, Len(u))
        PROVE  Dechunked(v).data = b /\ Dechunked(v).zero = Len(u)
    <3>1. Len(v) \in Nat /\ Len(v) >= Len(u)
      BY <2>1, LenProperties DEF Agree
    <3>2. Closed(v, c, k, Len(u)) /\ Size(v, c) = 0
      BY <1>2, <1>9, <1>10, <1>13, <2>1, PieceStays
    <3>3. c \in 1..(Len(v) + 1) /\ LineFeeds(v, c) # {} /\ Min(LineFeeds(v, c)) = Len(u)
      BY <3>2, ClosedIs
    <3>4. ChunksOf(v)[c].data = << >> /\ ChunksOf(v)[c].zero = Len(u)
      BY <3>2, <3>3, ZeroChunk
    <3>5. Agree(v, u, c - 1)
      <4>1. c - 1 \in Int /\ Len(u) \in Int /\ c - 1 <= Len(u)
        BY <1>2, <1>3
      <4> QED BY <2>1, <4>1, AgreeLess
    <3>6. /\ Dechunked(v).data = w \o ChunksOf(v)[c].data
          /\ Dechunked(v).zero = ChunksOf(v)[c].zero
      BY <1>3, <3>5 DEF Resumes
    <3> QED BY <1>3, <1>4, <3>4, <3>6, ConcatEmptySeq
  <2>2. Settled(u, b, Len(u))
    BY <2>1 DEF Settled
  <2>3. Len(u) \in 1..Len(u) /\ \A j \in (Len(u) + 1)..Len(u) : FALSE
    BY <1>2
  <2> QED BY <2>2, <2>3 DEF InTrailer
<1> QED BY <1>12, <1>13 DEF u
-----------------------------------------------------------------------------
(* The steps through the data of a chunk.                                  *)

(* Several more bytes.                                                     *)
LEMMA BytesAppended ==
    ASSUME NEW t \in Seq(Bytes), NEW p \in Seq(Bytes)
    PROVE  /\ Len(t) \in Nat /\ Len(p) \in Nat
           /\ t \o p \in Seq(Bytes) /\ Len(t \o p) = Len(t) + Len(p)
           /\ Agree(t \o p, t, Len(t))
           /\ \A i \in 1..Len(p) : (t \o p)[Len(t) + i] = p[i]
<1> DEFINE u == t \o p
<1>1. /\ Len(t) \in Nat /\ Len(p) \in Nat
      /\ u \in Seq(Bytes) /\ Len(u) = Len(t) + Len(p)
      /\ \A i \in 1..(Len(t) + Len(p)) : u[i] = IF i <= Len(t) THEN t[i] ELSE p[i - Len(t)]
  BY LenProperties, ConcatProperties
<1> HIDE DEF u
<1>2. Agree(u, t, Len(t))
  BY <1>1 DEF Agree
<1>3. ASSUME NEW i \in 1..Len(p)
      PROVE  u[Len(t) + i] = p[i]
  <2>1. /\ Len(t) + i \in 1..(Len(t) + Len(p)) /\ ~(Len(t) + i <= Len(t))
        /\ (Len(t) + i) - Len(t) = i
    BY <1>1
  <2>2. u[Len(t) + i] = p[(Len(t) + i) - Len(t)]
    BY <1>1, <2>1
  <2> QED BY <2>1, <2>2, Zenon
<1> QED BY <1>1, <1>2, <1>3 DEF u

(* The data of a chunk that is not complete go up to the end.              *)
LEMMA PieceOpen ==
    ASSUME NEW t \in Seq(Bytes), NEW c, NEW k, NEW l, Closed(t, c, k, l),
           DataEnd(t, c) >= Len(t)
    PROVE  /\ DataEnd(t, c) \in Int
           /\ l \in 1..Len(t)
           /\ Piece(t, c) \in Seq(Bytes)
           /\ Len(Piece(t, c)) = Len(t) - l
           /\ \A i \in 1..(Len(t) - l) : Piece(t, c)[i] = t[l + i]
<1>1. Len(t) \in Nat /\ l \in 1..Len(t)
  BY LenProperties DEF Closed, DigitsAt
<1>2. /\ c \in 1..(Len(t) + 1) /\ LineFeeds(t, c) # {} /\ DataFrom(t, c) = l + 1
  BY ClosedIs DEF DataFrom
<1>3. DataEnd(t, c) \in Int
  BY <1>2, BeyondIs
<1> DEFINE e == DataEnd(t, c)
           n == Len(t)
           a == l + 1
<1>4. Piece(t, c) = SubSeq(t, a, Min({e, n}))
  BY <1>2 DEF Piece
<1>5. e \in Int /\ n \in Int /\ e >= n
  BY <1>1, <1>3
<1>6. a \in 1..(Len(t) + 1) /\ n \in (a - 1)..Len(t) /\ n - a + 1 = Len(t) - l
      /\ \A i \in 1..(Len(t) - l) : a + i - 1 = l + i
  BY <1>1
<1> HIDE DEF e, n, a
<1>7. Min({e, n}) = n
  BY <1>5, MinOfTwo
<1> DEFINE p == SubSeq(t, a, n)
<1>8. p \in Seq(Bytes) /\ Len(p) = n - a + 1 /\ \A i \in 1..(n - a + 1) : p[i] = t[a + i - 1]
  BY <1>6, PartIs
<1> HIDE DEF p
<1>9. Len(p) = Len(t) - l /\ \A i \in 1..(Len(t) - l) : p[i] = t[l + i]
  BY <1>6, <1>8
<1>10. Piece(t, c) = p
  BY <1>4, <1>7 DEF p
<1> QED BY <1>1, <1>3, <1>8, <1>9, <1>10

(* A piece of the data is a piece of the body, up to the last byte of the  *)
(* chunk.                                                                  *)
LEMMA DataGrows ==
    ASSUME NEW t \in Seq(Bytes), NEW len \in Nat, NEW b, NEW n \in 1..len,
           NEW p \in Seq(Bytes), Len(p) = n,
           Chunked("s_chunk_data", t, len, b)
    PROVE  /\ n < len => Chunked("s_chunk_data", t \o p, len - n, b \o p)
           /\ n = len => Chunked("s_chunk_data_almost_done", t \o p, len - n, b \o p)
<1> DEFINE u == t \o p
           to == IF n < len THEN "s_chunk_data" ELSE "s_chunk_data_almost_done"
<1>1. PICK c, w : AtChunk("s_chunk_data", t, len, b, c, w)
  BY DEF Chunked
<1>2. /\ Len(t) \in Nat /\ u \in Seq(Bytes) /\ Len(u) = Len(t) + n
      /\ Agree(u, t, Len(t)) /\ \A i \in 1..n : u[Len(t) + i] = p[i]
  BY BytesAppended
<1> HIDE DEF u
<1>3. c \in 1..(Len(u) + 1) /\ w \in Seq(Bytes) /\ Resumes(u, c, w)
  BY <1>1, <1>2, AtChunkStays
<1>4. InData("s_chunk_data", t, c, len) /\ b = w \o Piece(t, c)
  BY <1>1 DEF AtChunk, DataStates
<1>5. PICK k, l : Closed(t, c, k, l)
  BY <1>4 DEF InData
<1>6. Size(t, c) # 0 /\ Len(t) = DataEnd(t, c) - len
  BY <1>4 DEF InData
<1>7. Closed(u, c, k, l) /\ Size(u, c) = Size(t, c) /\ DataEnd(u, c) = DataEnd(t, c)
  BY <1>2, <1>5, PieceStays
<1>8. DataEnd(t, c) \in Int
  <2>1. c \in 1..(Len(t) + 1) /\ LineFeeds(t, c) # {}
    BY <1>5, ClosedIs
  <2> QED BY <2>1, BeyondIs
<1>9. DataEnd(t, c) >= Len(t) /\ DataEnd(u, c) >= Len(u) /\ Len(u) = DataEnd(u, c) - (len - n)
  BY <1>2, <1>6, <1>7, <1>8
<1>10. /\ l \in 1..Len(t)
       /\ Piece(t, c) \in Seq(Bytes) /\ Len(Piece(t, c)) = Len(t) - l
       /\ \A i \in 1..(Len(t) - l) : Piece(t, c)[i] = t[l + i]
  BY <1>5, <1>9, PieceOpen
<1>11. /\ Piece(u, c) \in Seq(Bytes) /\ Len(Piece(u, c)) = Len(u) - l
       /\ \A i \in 1..(Len(u) - l) : Piece(u, c)[i] = u[l + i]
  <2>1. u \in Seq(Bytes) /\ Closed(u, c, k, l) /\ DataEnd(u, c) >= Len(u)
    BY <1>2, <1>7, <1>9
  <2> QED BY <2>1, PieceOpen
<1>12. Piece(u, c) = Piece(t, c) \o p
  <2> DEFINE x == Piece(u, c)
             q == Piece(t, c)
             y == q \o p
             m == Len(t) - l
  <2>1. /\ x \in Seq(Bytes) /\ Len(x) = m + n /\ \A i \in 1..(m + n) : x[i] = u[l + i]
        /\ m \in Nat /\ l + m = Len(t)
    <3>1. Len(u) - l = m + n /\ m \in Nat /\ l + m = Len(t)
      BY <1>2, <1>10
    <3> QED BY <1>11, <3>1
  <2>2. q \in Seq(Bytes) /\ Len(q) = m /\ \A i \in 1..m : q[i] = t[l + i]
    BY <1>10
  <2> HIDE DEF x, q, m
  <2>3. y \in Seq(Bytes) /\ Len(y) = m + n
        /\ \A i \in 1..(m + n) : y[i] = IF i <= m THEN q[i] ELSE p[i - m]
    BY <2>2, ConcatProperties
  <2> HIDE DEF y
  <2>4. ASSUME NEW i \in 1..(m + n)
        PROVE  x[i] = y[i]
    <3>1. CASE i <= m
      <4>1. i \in 1..m /\ l + i \in 1..Len(t)
        BY <1>10, <2>1, <3>1
      <4> QED BY <1>2, <2>1, <2>2, <2>3, <3>1, <4>1 DEF Agree
    <3>2. CASE ~(i <= m)
      <4>1. i - m \in 1..n /\ Len(t) + (i - m) = l + i
        <5>1. i \in Int /\ l \in Int /\ m \in Int /\ n \in Int
          BY <1>10, <2>1
        <5>2. m < i /\ i <= m + n /\ Len(t) = l + m
          BY <2>1, <3>2, <5>1
        <5> QED BY <5>1, <5>2
      <4>2. u[l + i] = p[i - m]
        BY <1>2, <4>1
      <4> QED BY <2>1, <2>3, <3>2, <4>2
    <3> QED BY <3>1, <3>2
  <2>5. x = y
    BY <2>1, <2>3, <2>4, SeqEqual
  <2> QED BY <2>5 DEF x, y, q
<1>13. b \o p = w \o Piece(u, c)
  <2> DEFINE q == Piece(t, c)
  <2>1. q \in Seq(Bytes) /\ b = w \o q /\ Piece(u, c) = q \o p
    BY <1>4, <1>10, <1>12
  <2> HIDE DEF q
  <2>2. w \in Seq(Bytes)
    BY <1>3
  <2>3. Regroups(w, q, p)
    BY <2>1, <2>2, BytesRegrouped
  <2>4. b \o p = w \o (q \o p)
    BY <2>1, <2>3, Zenon DEF Regroups
  <2> QED BY <2>1, <2>4, Zenon
<1>14. InData(to, u, c, len - n)
  <2>1. Size(u, c) # 0 /\ \E i, j : Closed(u, c, i, j)
    BY <1>6, <1>7
  <2>2. n < len => len - n > 0
    OBVIOUS
  <2>3. ~(n < len) => Len(u) = DataEnd(u, c)
    BY <1>2, <1>7, <1>8, <1>9
  <2> QED BY <1>9, <2>1, <2>2, <2>3 DEF InData
<1>15. AtChunk(to, u, len - n, b \o p, c, w)
  <2>1. to \in DataStates /\ to \notin LineStates \cup {"s_chunk_size_start"}
    BY DEF DataStates, LineStates
  <2> HIDE DEF to
  <2> QED BY <1>3, <1>13, <1>14, <2>1 DEF AtChunk
<1>16. Chunked(to, u, len - n, b \o p)
  BY <1>15 DEF Chunked
<1> QED BY <1>16 DEF u

(* The carriage return behind the data.                                    *)
LEMMA DataEnds ==
    ASSUME NEW t \in Seq(Bytes), NEW len, NEW b,
           Chunked("s_chunk_data_almost_done", t, len, b)
    PROVE  Chunked("s_chunk_data_done", Append(t, "CR"), len, b)
<1> DEFINE u == Append(t, "CR")
           st == "s_chunk_data_almost_done"
           to == "s_chunk_data_done"
<1>1. PICK c, w : AtChunk(st, t, len, b, c, w)
  BY DEF Chunked
<1>2. /\ Len(t) \in Nat /\ u \in Seq(Bytes) /\ Len(u) = Len(t) + 1 /\ Agree(u, t, Len(t))
  <2>1. "CR" \in Bytes
    BY DEF Bytes, ChunkChars
  <2> QED BY <2>1, ByteAppended
<1> HIDE DEF u
<1>3. c \in 1..(Len(u) + 1) /\ w \in Seq(Bytes) /\ Resumes(u, c, w)
  BY <1>1, <1>2, AtChunkStays
<1>4. /\ InData(st, t, c, len) /\ b = w \o Piece(t, c)
      /\ Size(t, c) # 0 /\ Len(t) = DataEnd(t, c)
  BY <1>1 DEF AtChunk, DataStates, InData
<1>5. PICK k, l : Closed(t, c, k, l)
  BY <1>4 DEF InData
<1>6. /\ Closed(u, c, k, l) /\ Size(u, c) # 0 /\ Len(u) = DataEnd(u, c) + 1
      /\ b = w \o Piece(u, c)
  <2>1. DataEnd(t, c) <= Len(t)
    BY <1>2, <1>4
  <2> QED BY <1>2, <1>4, <1>5, <2>1, PieceStays
<1>7. InData(to, u, c, len)
  BY <1>6 DEF InData
<1>8. AtChunk(to, u, len, b, c, w)
  BY <1>3, <1>6, <1>7 DEF AtChunk, DataStates, LineStates
<1> QED BY <1>8 DEF Chunked, u

(* The line feed behind it: the chunk is before the next one.              *)
LEMMA ChunkEnds ==
    ASSUME NEW t \in Seq(Bytes), NEW len, NEW b,
           Chunked("s_chunk_data_done", t, len, b)
    PROVE  Chunked("s_chunk_size_start", Append(t, "LF"), len, b)
<1> DEFINE u == Append(t, "LF")
           st == "s_chunk_data_done"
           n == Len(u) + 1
<1>1. PICK c, w : AtChunk(st, t, len, b, c, w)
  BY DEF Chunked
<1>2. /\ Len(t) \in Nat /\ u \in Seq(Bytes) /\ Len(u) = Len(t) + 1 /\ Agree(u, t, Len(t))
  <2>1. "LF" \in Bytes
    BY DEF Bytes, ChunkChars
  <2> QED BY <2>1, ByteAppended
<1> HIDE DEF u
<1>3. c \in 1..(Len(u) + 1) /\ w \in Seq(Bytes) /\ Resumes(u, c, w)
  BY <1>1, <1>2, AtChunkStays
<1>4. /\ InData(st, t, c, len) /\ b = w \o Piece(t, c)
      /\ Size(t, c) # 0 /\ Len(t) = DataEnd(t, c) + 1
  BY <1>1 DEF AtChunk, DataStates, InData
<1>5. PICK k, l : Closed(t, c, k, l)
  BY <1>4 DEF InData
<1>6. DataEnd(t, c) \in Int /\ DataEnd(t, c) <= Len(t)
  <2>1. c \in 1..(Len(t) + 1) /\ LineFeeds(t, c) # {}
    BY <1>5, ClosedIs
  <2>2. DataEnd(t, c) \in Int
    BY <2>1, BeyondIs
  <2> QED BY <1>2, <1>4, <2>2
<1>7. /\ Closed(u, c, k, l) /\ Size(u, c) # 0 /\ Len(u) = DataEnd(u, c) + 2
      /\ b = w \o Piece(u, c)
  BY <1>2, <1>4, <1>5, <1>6, PieceStays
<1>8. Resumes(u, n, b)
  BY <1>2, <1>3, <1>7, ResumesBeyond
<1>9. b \in Seq(Bytes)
  <2>1. LineFeeds(u, c) # {}
    BY <1>2, <1>7, ClosedIs
  <2>2. Piece(u, c) \in Seq(Bytes)
    BY <1>2, <1>3, <2>1, BeyondIs
  <2> QED BY <1>3, <1>7, <2>2, ConcatProperties
<1>10. n = Len(u) + 1 /\ n \in 1..(Len(u) + 1)
  BY <1>2
<1> HIDE DEF n
<1>11. AtChunk("s_chunk_size_start", u, len, b, n, b)
  BY <1>8, <1>9, <1>10 DEF AtChunk, LineStates, DataStates
<1> QED BY <1>11 DEF Chunked, u

(* The headers announce chunks, and nothing of them has come.              *)
LEMMA NoChunkYet ==
    ASSUME NEW len
    PROVE  Chunked("s_chunk_size_start", << >>, len, << >>)
<1>1. << >> \in Seq(Bytes) /\ Len(<< >>) = 0
  BY EmptySeq
<1>2. 1 \in 1..(Len(<< >>) + 1) /\ 1 = Len(<< >>) + 1
  BY <1>1
<1>3. Resumes(<< >>, 1, << >>)
  BY ResumesFirst
<1>4. AtChunk("s_chunk_size_start", << >>, len, << >>, 1, << >>)
  BY <1>1, <1>2, <1>3 DEF AtChunk, LineStates, DataStates
<1> QED BY <1>4 DEF Chunked
-----------------------------------------------------------------------------
(* The inductive invariant of the body.                                    *)

(* Flags and length are those of the headers.                              *)
AsAnnounced ==
    /\ framing \in [chunked : BOOLEAN, length : Nat]
    /\ "chunked" \in flags <=> framing.chunked
    /\ state \in BeforeVersion \cup BehindVersion /\ ~Trailing =>
          tail = << >> /\ body = << >> /\ length = framing.length

(* The trailer belongs to a chunked body, which has ended.                 *)
Trails ==
    Trailing =>
        /\ framing.chunked /\ begun > 0
        /\ state \notin BeforeVersion
        /\ state \in BehindVersion => InTrailer(tail, body)

InChunks ==
    state \in ChunkStates \cup {"s_chunk_data"} =>
        ~Trailing /\ Chunked(state, tail, length, body)

InIdentity ==
    state = "s_body_identity" =>
        ~framing.chunked /\ body = tail /\ length > 0 /\ Len(tail) = framing.length - length

Complete ==
    state \in {"s_start_req", "s_dead"} /\ begun > 0 =>
        Ended /\ body = IF framing.chunked THEN Dechunked(tail).data ELSE tail

BodyFits == AsAnnounced /\ Trails /\ InChunks /\ InIdentity /\ Complete
BodyFit == at # "refused" => BodyFits

(* The states in chunks, by where in the chunk they are.                   *)
LEMMA ChunkedStates ==
    ChunkStates \cup {"s_chunk_data"} = LineStates \cup DataStates \cup {"s_chunk_size_start"}
  BY ChunkStatesAre DEF LineStates, DataStates

(* In the trailer all data are known, and the last line is a header line.  *)
LEMMA TrailerIs ==
    ASSUME NEW t \in Seq(Bytes), NEW b, InTrailer(t, b)
    PROVE  /\ Dechunked(t).data = b /\ Dechunked(t).zero \in 1..Len(t)
           /\ ~(Dechunked(t).zero < Len(t) /\ Last(t) = "LF")
<1>1. PICK z \in 1..Len(t) : Settled(t, b, z) /\ \A j \in (z + 1)..Len(t) : t[j] \in HeaderLines
  BY DEF InTrailer
<1>2. Len(t) \in Nat
  BY LenProperties
<1>3. Agree(t, t, Len(t))
  BY <1>2, AgreeItself
<1>4. Dechunked(t).data = b /\ Dechunked(t).zero = z
  BY <1>1, <1>3 DEF Settled
<1>5. ~(z < Len(t) /\ Last(t) = "LF")
  <2> SUFFICES ASSUME z < Len(t), Last(t) = "LF" PROVE FALSE
    OBVIOUS
  <2>1. Len(t) \in (z + 1)..Len(t)
    BY <1>2
  <2>2. t[Len(t)] \in HeaderLines /\ t[Len(t)] = "LF"
    BY <1>1, <2>1 DEF Last
  <2> QED BY <2>2, AnnouncedAssumption DEF HeaderLines, ConnectionLines, BodyLines, ChunkChars
<1> QED BY <1>4, <1>5

(* The invariant is strong enough.                                         *)
LEMMA BodyFitsWhole ==
    ASSUME ParserInv, BodyFit
    PROVE  BodyWhole
<1> SUFFICES ASSUME HeadersRead, at # "refused"
             PROVE  /\ body = IF framing.chunked THEN Dechunked(tail).data ELSE tail
                    /\ state \in {"s_start_req", "s_dead"} <=> Ended
  BY DEF BodyWhole
<1>1. BodyFits /\ TypeOK /\ tail \in Seq(Bytes) /\ Len(tail) \in Nat /\ length \in Nat
  <2>1. tail \in Seq(Bytes) /\ TypeOK
    BY DEF ParserInv, Kinds, Bytes
  <2> QED BY <2>1, LenProperties, ParserAssumption DEF BodyFit, TypeOK
<1>2. CASE state \in ChunkStates \cup {"s_chunk_data"}
  <2>1. framing.chunked
    BY <1>1, <1>2 DEF TypeOK, BodyFits, AsAnnounced
  <2>2. Chunked(state, tail, length, body)
    BY <1>1, <1>2 DEF BodyFits, InChunks
  <2>3. Dechunked(tail).data = body /\ Dechunked(tail).zero = 0
    BY <1>1, <1>2, <2>2, ChunkedStates, ChunkedIs
  <2>4. state \notin {"s_start_req", "s_dead"}
    BY <1>2, ChunkStatesAre
  <2> QED BY <2>1, <2>3, <2>4 DEF Ended
<1>3. CASE state = "s_body_identity"
  BY <1>1, <1>3 DEF BodyFits, AsAnnounced, InIdentity, Ended
<1>4. CASE state \in {"s_start_req", "s_dead"}
  <2>1. begun > 0
    BY <1>1, <1>4, ChunkStatesAre DEF HeadersRead, BodyFits, Trails
  <2> QED BY <1>1, <1>4, <2>1 DEF BodyFits, Complete
<1>5. CASE state \in BeforeVersion \cup BehindVersion
  <2>1. state \notin {"s_start_req", "s_dead", "s_body_identity", "s_chunk_data"} \cup ChunkStates
    BY <1>5, ChunkStatesAre DEF BeforeVersion, BehindVersion, UrlMark
  <2>2. Trailing
    BY <2>1 DEF HeadersRead
  <2>3. framing.chunked /\ InTrailer(tail, body)
    BY <1>1, <1>5, <2>2 DEF BodyFits, Trails
  <2>4. Dechunked(tail).data = body /\ ~(Dechunked(tail).zero < Len(tail) /\ Last(tail) = "LF")
    BY <1>1, <2>3, TrailerIs
  <2> QED BY <2>1, <2>3, <2>4 DEF Ended
<1> QED BY <1>1, <1>2, <1>3, <1>4, <1>5, StatesAre DEF TypeOK

-----------------------------------------------------------------------------
(* The steps that leave the body alone.                                    *)

BodyKept ==
    /\ UNCHANGED <<flags, length, body, framing, tail, begun>>
    /\ \/ state' = state
       \/ /\ {state, state'} \subseteq BeforeVersion \cup BehindVersion
          /\ state' \in BeforeVersion => state \in BeforeVersion

(* A step that leaves the body alone keeps the invariant.                  *)
LEMMA BodyKeptStep ==
    ASSUME BodyFits, BodyKept
    PROVE  BodyFits'
<1>1. CASE state' = state
  BY <1>1 DEF BodyKept, BodyFits, AsAnnounced, Trails, InChunks, InIdentity,
     Complete, Trailing, Ended
<1>2. CASE /\ {state, state'} \subseteq BeforeVersion \cup BehindVersion
           /\ state' \in BeforeVersion => state \in BeforeVersion
  <2>1. state' \notin {"s_start_req", "s_dead", "s_body_identity", "s_chunk_data"} \cup ChunkStates
    BY <1>2, ChunkStatesAre DEF BeforeVersion, BehindVersion, UrlMark
  <2>2. Trailing' = Trailing
    BY DEF BodyKept, Trailing
  <2>3. Trails' /\ AsAnnounced'
    BY <1>2, <2>1, <2>2 DEF BodyKept, BodyFits, Trails, AsAnnounced
  <2> QED BY <2>1, <2>3 DEF BodyFits, InChunks, InIdentity, Complete
<1> QED BY <1>1, <1>2 DEF BodyKept

(* A message that has just begun, and a parser that has just been reset.   *)
LEMMA BodyFreshStep ==
    ASSUME flags' = {}, NothingSent,
           \/ state' = "s_start_req" /\ begun' = 0
           \/ state' = "s_req_spaces_before_url" /\ length' = NoLength
    PROVE  BodyFits'
<1>1. /\ tail' = << >> /\ body' = << >> /\ framing' = NoBody
      /\ framing'.chunked = FALSE /\ framing'.length = NoLength
      /\ framing' \in [chunked : BOOLEAN, length : Nat]
  BY ParserAssumption DEF NothingSent, NoBody, NoLength
<1>2. ~Trailing'
  BY DEF Trailing
<1>3. state' \notin ChunkStates \cup {"s_chunk_data", "s_body_identity"}
  BY ChunkStatesAre
<1>4. state' = "s_start_req" => state' \notin BeforeVersion \cup BehindVersion
  BY DEF BeforeVersion, BehindVersion, UrlMark
<1>5. AsAnnounced'
  BY <1>1, <1>2, <1>4 DEF AsAnnounced
<1> QED BY <1>2, <1>3, <1>5 DEF BodyFits, Trails, InChunks, InIdentity, Complete

(* The invariant holds at the start.                                       *)
LEMMA InitBody == Init => BodyFit
<1> SUFFICES ASSUME Init PROVE BodyFits
  BY DEF BodyFit
<1>1. /\ framing = NoBody /\ framing \in [chunked : BOOLEAN, length : Nat]
      /\ framing.chunked = FALSE /\ flags = {} /\ state = "s_start_req" /\ begun = 0
  BY ParserAssumption DEF Init, NoBody, NoLength
<1>2. state \notin BeforeVersion \cup BehindVersion \cup ChunkStates
  BY <1>1, ChunkStatesAre DEF BeforeVersion, BehindVersion, UrlMark
<1> QED BY <1>1, <1>2 DEF BodyFits, AsAnnounced, Trails, InChunks, InIdentity,
           Complete, Trailing

(* A character of the URL or of the request line leaves the body alone.    *)
LEMMA CharacterBody ==
    ASSUME Character
    PROVE  BodyKept
<1>1. PICK r \in Rules, ch \in Chars : Step(r, ch)
  BY DEF Character
<1>2. r.from = state /\ r.to = state'
  BY <1>1 DEF Step
<1>3. KeepsOrder(r)
  BY RulesFit DEF Fits
<1>4. \/ state' = state
      \/ /\ {state, state'} \subseteq BeforeVersion \cup BehindVersion
         /\ state' \in BeforeVersion => state \in BeforeVersion
  BY <1>2, <1>3 DEF KeepsOrder
<1> QED BY <1>4 DEF Character, BodyKept

(* So do the version, a call of http_parser_execute and the end of a       *)
(* buffer.                                                                 *)
LEMMA OtherBody ==
    ASSUME Version \/ Resume \/ EndOfBuffer
    PROVE  BodyKept /\ at # "refused"
<1>1. CASE Version
  <2>1. state = "s_req_http_start" /\ state' = "s_req_http_minor"
    BY <1>1 DEF Version
  <2>2. state \in BeforeVersion /\ state' \in BehindVersion
    BY <2>1 DEF BeforeVersion, BehindVersion
  <2> QED BY <1>1, <2>2 DEF Version, BodyKept, Reading
<1>2. CASE Resume
  BY <1>2 DEF Resume, BodyKept, message
<1>3. CASE EndOfBuffer
  BY <1>3 DEF EndOfBuffer, BodyKept, message
<1> QED BY <1>1, <1>2, <1>3

-----------------------------------------------------------------------------
(* The steps that do not.                                                  *)

(* A line of the trailer leaves the data as they are.                      *)
LEMMA TrailerGrows ==
    ASSUME NEW t \in Seq(Bytes), NEW b, NEW h \in HeaderLines, InTrailer(t, b)
    PROVE  InTrailer(Append(t, h), b)
<1> DEFINE u == Append(t, h)
<1>1. PICK z \in 1..Len(t) : Settled(t, b, z) /\ \A j \in (z + 1)..Len(t) : t[j] \in HeaderLines
  BY DEF InTrailer
<1>2. /\ Len(t) \in Nat /\ u \in Seq(Bytes) /\ Len(u) = Len(t) + 1
      /\ Agree(u, t, Len(t)) /\ u[Len(t) + 1] = h
  <2>1. h \in Bytes
    BY DEF Bytes
  <2> QED BY <2>1, ByteAppended
<1> HIDE DEF u
<1>3. Settled(u, b, z)
  <2> SUFFICES ASSUME NEW v \in Seq(Bytes), Agree(v, u, Len(u))
               PROVE  Agree(v, t, Len(t))
    BY <1>1 DEF Settled
  <2> QED BY <1>2, LenProperties DEF Agree
<1>4. \A j \in (z + 1)..Len(u) : u[j] \in HeaderLines
  <2> TAKE j \in (z + 1)..Len(u)
  <2>1. CASE j = Len(t) + 1
    BY <1>2, <2>1
  <2>2. CASE j # Len(t) + 1
    <3>1. j \in (z + 1)..Len(t) /\ j \in 1..Len(t)
      BY <1>2, <2>2
    <3> QED BY <1>1, <1>2, <3>1 DEF Agree
  <2> QED BY <2>1, <2>2
<1>5. z \in 1..Len(u)
  BY <1>2
<1>6. InTrailer(u, b)
  BY <1>3, <1>4, <1>5 DEF InTrailer
<1> QED BY <1>6 DEF u

(* A line of the headers, or of the trailer.                               *)
LEMMA HeaderLineBody ==
    ASSUME ParserInv, BodyFits, HeaderLine
    PROVE  BodyFits'
<1>0. PICK h \in HeaderLines :
        /\ flags' = flags \cup ({h} \cap (ConnectionLines \cup {"chunked", "upgrade"}))
        /\ length' = IF h \in DOMAIN Announced THEN Announced[h] ELSE length
        /\ IF Trailing THEN tail' = Append(tail, h) /\ framing' = framing
           ELSE tail' = tail /\ framing' = Framed(h)
  BY DEF HeaderLine
<1>1. /\ state = "s_header_field_start" /\ state' = state
      /\ UNCHANGED <<body, begun>>
  BY DEF HeaderLine
<1>2. tail \in Seq(Bytes)
  BY DEF ParserInv, Kinds, Bytes
<1>3. /\ state \in BehindVersion /\ state \notin BeforeVersion
      /\ state' \notin {"s_start_req", "s_dead", "s_body_identity", "s_chunk_data"} \cup ChunkStates
  BY <1>1, ChunkStatesAre DEF BeforeVersion, BehindVersion, UrlMark
<1>4. Trailing' <=> Trailing
  BY <1>0 DEF Trailing, HeaderLines, ConnectionLines, BodyLines
<1>5. "chunked" \in flags' <=> "chunked" \in flags \/ h = "chunked"
  BY <1>0 DEF ConnectionLines
<1>6. InChunks' /\ InIdentity' /\ Complete'
  BY <1>3 DEF InChunks, InIdentity, Complete
<1>7. CASE Trailing
  <2>1. framing.chunked /\ begun > 0 /\ InTrailer(tail, body)
    BY <1>3, <1>7 DEF BodyFits, Trails
  <2>2. InTrailer(tail', body')
    BY <1>0, <1>1, <1>2, <1>7, <2>1, TrailerGrows
  <2>3. Trails'
    BY <1>0, <1>1, <1>3, <1>7, <2>1, <2>2 DEF Trails
  <2>4. AsAnnounced'
    BY <1>0, <1>4, <1>5, <1>7, <2>1 DEF BodyFits, AsAnnounced
  <2> QED BY <1>6, <2>3, <2>4 DEF BodyFits
<1>8. CASE ~Trailing
  <2>1. /\ tail' = << >> /\ body' = << >> /\ length = framing.length
        /\ framing \in [chunked : BOOLEAN, length : Nat]
        /\ "chunked" \in flags <=> framing.chunked
    BY <1>0, <1>1, <1>3, <1>8 DEF BodyFits, AsAnnounced
  <2>2. /\ framing' \in [chunked : BOOLEAN, length : Nat]
        /\ framing'.chunked <=> framing.chunked \/ h = "chunked"
        /\ length' = framing'.length
    <3>1. framing' = Framed(h)
      BY <1>0, <1>8
    <3>2. h \in DOMAIN Announced => h # "chunked" /\ Announced[h] \in Nat
      BY AnnouncedAssumption
    <3>3. CASE h = "chunked"
      <4>1. framing' = [framing EXCEPT !.chunked = TRUE] /\ length' = length
        BY <1>0, <3>1, <3>2, <3>3 DEF Framed
      <4> QED BY <2>1, <3>3, <4>1
    <3>4. CASE h \in DOMAIN Announced
      <4>1. framing' = [framing EXCEPT !.length = Announced[h]] /\ length' = Announced[h]
        BY <1>0, <3>1, <3>2, <3>4 DEF Framed
      <4> QED BY <2>1, <3>2, <3>4, <4>1
    <3>5. CASE h # "chunked" /\ h \notin DOMAIN Announced
      <4>1. framing' = framing /\ length' = length
        BY <1>0, <3>1, <3>5 DEF Framed
      <4> QED BY <2>1, <3>5, <4>1
    <3> QED BY <3>3, <3>4, <3>5
  <2>3. AsAnnounced'
    BY <1>5, <2>1, <2>2 DEF AsAnnounced
  <2>4. Trails'
    BY <1>4, <1>8 DEF Trails
  <2> QED BY <1>6, <2>3, <2>4 DEF BodyFits
<1> QED BY <1>7, <1>8

(* The empty line: a body begins, or the message is complete.              *)
LEMMA HeadersDoneBody ==
    ASSUME ParserInv, BodyFits, HeadersDone
    PROVE  BodyFits'
<1>0. /\ Reading /\ state \in {"s_header_field_start", "s_headers_almost_done"}
      /\ UNCHANGED <<flags, length, body, framing, begun>>
      /\ tail' = IF Trailing THEN Append(tail, "LF") ELSE tail
  BY DEF HeadersDone
<1>1. /\ state \in BehindVersion
      /\ state \notin BeforeVersion \cup {"s_start_req", "s_dead"}
  BY <1>0 DEF BeforeVersion, BehindVersion, UrlMark
<1>2. tail \in Seq(Bytes) /\ length \in Nat /\ Len(tail) \in Nat
  <2>1. tail \in Seq(Bytes) /\ length \in Nat
    BY ParserAssumption DEF ParserInv, Kinds, Bytes, TypeOK
  <2> QED BY <2>1, LenProperties
<1>3. NewMessage \in {"s_start_req", "s_dead"} /\ begun > 0
  BY <1>0, <1>1, NewMessageAsAsked
<1>4. CASE "upgrade" \in flags /\ ~Trailing
  <2>1. state' = state
    BY <1>4 DEF HeadersDone
  <2>2. tail' = tail
    BY <1>0, <1>4
  <2> QED BY <1>0, <2>1, <2>2, BodyKeptStep DEF BodyKept
<1>5. CASE Trailing
  <2> DEFINE t == Append(tail, "LF")
  <2>1. state' = NewMessage /\ tail' = t
    BY <1>0, <1>5 DEF HeadersDone
  <2>2. framing.chunked /\ InTrailer(tail, body)
    BY <1>1, <1>5 DEF BodyFits, Trails
  <2>3. PICK z \in 1..Len(tail) : Settled(tail, body, z)
    BY <2>2 DEF InTrailer
  <2>4. /\ t \in Seq(Bytes) /\ Len(t) = Len(tail) + 1 /\ Agree(t, tail, Len(tail))
        /\ t[Len(tail) + 1] = "LF"
    <3>1. "LF" \in Bytes
      BY DEF Bytes, ChunkChars
    <3> QED BY <1>2, <3>1, ByteAppended
  <2> HIDE DEF t
  <2>5. Dechunked(t).data = body /\ Dechunked(t).zero = z
    BY <2>3, <2>4 DEF Settled
  <2>6. z > 0 /\ z < Len(t) /\ Last(t) = "LF"
    BY <1>2, <2>4 DEF Last
  <2>7. Complete'
    BY <1>0, <2>1, <2>2, <2>5, <2>6 DEF Complete, Ended
  <2>8. state' \notin BeforeVersion \cup BehindVersion \cup ChunkStates \cup {"s_chunk_data", "s_body_identity"}
    BY <1>3, <2>1, ChunkStatesAre DEF BeforeVersion, BehindVersion, UrlMark
  <2>9. AsAnnounced' /\ Trails' /\ InChunks' /\ InIdentity'
    BY <1>0, <1>3, <2>2, <2>8 DEF BodyFits, AsAnnounced, Trails, InChunks, InIdentity
  <2> QED BY <2>7, <2>9 DEF BodyFits
<1>6. CASE ~Trailing /\ "upgrade" \notin flags
  <2>1. /\ state' = AfterHeaders /\ tail' = << >> /\ body' = << >> /\ body = << >> /\ tail = << >>
        /\ length = framing.length /\ ("chunked" \in flags <=> framing.chunked)
        /\ Len(tail) = 0
    <3>1. state' = AfterHeaders /\ tail' = tail
      BY <1>0, <1>6 DEF HeadersDone
    <3>2. tail = << >> /\ body = << >> /\ length = framing.length /\ ("chunked" \in flags <=> framing.chunked)
      BY <1>1, <1>6 DEF BodyFits, AsAnnounced
    <3> QED BY <1>0, <3>1, <3>2, EmptySeq
  <2>2. ~Trailing' /\ Trails'
    BY <1>0, <1>6 DEF Trailing, Trails
  <2>3. state' \notin BeforeVersion \cup BehindVersion
    BY <1>3, <2>1 DEF AfterHeaders, BeforeVersion, BehindVersion, UrlMark
  <2>4. AsAnnounced'
    BY <1>0, <2>3 DEF BodyFits, AsAnnounced
  <2>5. CASE "chunked" \in flags
    <3>1. state' = "s_chunk_size_start"
      BY <2>1, <2>5 DEF AfterHeaders
    <3>2. Chunked(state', tail', length', body')
      BY <2>1, <3>1, NoChunkYet
    <3> QED BY <2>2, <2>4, <3>1, <3>2 DEF BodyFits, InChunks, InIdentity, Complete
  <2>6. CASE "chunked" \notin flags /\ length = 0
    <3>1. state' = NewMessage
      BY <2>1, <2>6 DEF AfterHeaders
    <3>2. state' \notin ChunkStates \cup {"s_chunk_data", "s_body_identity"}
      BY <1>3, <3>1, ChunkStatesAre
    <3>3. Complete'
      BY <1>0, <2>1, <2>6 DEF Complete, Ended
    <3> QED BY <2>2, <2>4, <3>2, <3>3 DEF BodyFits, InChunks, InIdentity
  <2>7. CASE "chunked" \notin flags /\ length # 0
    <3>1. state' = "s_body_identity"
      BY <2>1, <2>7 DEF AfterHeaders
    <3>2. state' \notin ChunkStates \cup {"s_chunk_data", "s_start_req", "s_dead"}
      BY <3>1, ChunkStatesAre
    <3>3. length > 0 /\ Len(tail') = framing.length - length
      BY <1>2, <2>1, <2>7
    <3>4. InIdentity'
      BY <1>0, <2>1, <2>7, <3>3 DEF InIdentity
    <3> QED BY <2>2, <2>4, <3>2, <3>4 DEF BodyFits, InChunks, Complete
  <2> QED BY <2>5, <2>6, <2>7
<1> QED BY <1>4, <1>5, <1>6

(* What the rules of a chunk lead to.                                      *)
ChunkLeads(from, ch, to) ==
    \/ /\ from \in {"s_chunk_size_start", "s_chunk_size"} /\ ch \in HexDigits
       /\ to = "s_chunk_size"
    \/ GoesOn(from, ch, to)
    \/ from = "s_chunk_size_almost_done" /\ ch = "LF" /\ to = "s_chunk_data"
    \/ from = "s_chunk_data_almost_done" /\ ch = "CR" /\ to = "s_chunk_data_done"
    \/ from = "s_chunk_data_done" /\ ch = "LF" /\ to = "s_chunk_size_start"

(* The rules of the chunks, one by one.                                    *)
LEMMA ChunkRulesLead ==
    \A r \in ChunkRules : \A ch \in r.on : ChunkLeads(r.from, ch, r.to)
<1>1. \A r \in SizeRules : \A ch \in r.on : ChunkLeads(r.from, ch, r.to)
  BY DEF SizeRules, Rule, ChunkLeads, GoesOn, HexDigits
<1>2. \A r \in DataEndRules : \A ch \in r.on : ChunkLeads(r.from, ch, r.to)
  BY DEF DataEndRules, Rule, ChunkLeads
<1> QED BY <1>1, <1>2 DEF ChunkRules

(* A byte of a size line, or of the line ends around the data.             *)
LEMMA ChunkLineBody ==
    ASSUME ParserInv, BodyFits, ChunkLine
    PROVE  BodyFits'
<1>0. PICK r \in ChunkRules, ch \in ChunkChars :
        /\ r.from = state /\ ch \in r.on /\ Within(ch)
        /\ state' = IF r.to = "s_chunk_data" /\ length = 0
                    THEN "s_header_field_start" ELSE r.to
        /\ flags' = IF r.to = "s_chunk_data" /\ length = 0
                    THEN flags \cup {"trailing"} ELSE flags
        /\ length' = CASE r.from = "s_chunk_size_start" -> HexValue(ch)
                       [] r.from = "s_chunk_size" /\ ch \in HexDigits ->
                              (16 * length + HexValue(ch)) % (SizeMax + 1)
                       [] OTHER -> length
        /\ tail' = Append(tail, ch)
  BY DEF ChunkLine
<1> DEFINE to == r.to
<1>1. ChunkLeads(state, ch, to) /\ state \in ChunkStates /\ to \in ChunkStates \cup {"s_chunk_data"}
  BY <1>0, ChunkRulesLead, ChunkStatesAre DEF ChunkStates
<1>2. /\ state' = IF to = "s_chunk_data" /\ length = 0 THEN "s_header_field_start" ELSE to
      /\ flags' = IF to = "s_chunk_data" /\ length = 0 THEN flags \cup {"trailing"} ELSE flags
      /\ UNCHANGED <<body, framing, begun>>
  BY <1>0 DEF ChunkLine
<1>3. length' = CASE state = "s_chunk_size_start" -> HexValue(ch)
                  [] state = "s_chunk_size" /\ ch \in HexDigits ->
                         (16 * length + HexValue(ch)) % (SizeMax + 1)
                  [] OTHER -> length
  BY <1>0
<1> HIDE DEF to
<1>4. /\ tail \in Seq(Bytes) /\ ch \in Bytes /\ length \in Nat /\ begun > 0 /\ "chunked" \in flags
      /\ ~Trailing /\ framing.chunked /\ Chunked(state, tail, length, body)
  <2>1. TypeOK /\ Kinds /\ Reading
    BY DEF ParserInv, ChunkLine
  <2>2. tail \in Seq(Bytes) /\ ch \in Bytes /\ length \in Nat /\ "chunked" \in flags
    BY <1>1, <2>1, ParserAssumption DEF Kinds, Bytes, TypeOK
  <2>3. state \notin BeforeVersion \cup {"s_start_req", "s_dead"}
    BY <1>1, ChunkStatesAre DEF BeforeVersion, UrlMark
  <2>4. begun > 0
    BY <2>1, <2>3, NewMessageAsAsked
  <2> QED BY <1>1, <2>2, <2>4 DEF BodyFits, AsAnnounced, InChunks
<1>5. "chunked" \in flags' /\ framing' = framing
  BY <1>2, <1>4
<1>6. CASE to = "s_chunk_data" /\ length = 0
  <2>1. state' = "s_header_field_start" /\ Trailing' /\ length' = 0
    BY <1>1, <1>2, <1>3, <1>6 DEF Trailing, ChunkLeads, GoesOn
  <2>2. state = "s_chunk_size_almost_done" /\ ch = "LF"
    BY <1>1, <1>6 DEF ChunkLeads, GoesOn
  <2>3. InTrailer(tail', body')
    BY <1>0, <1>2, <1>4, <1>6, <2>2, LineEnds
  <2>4. /\ state' \notin {"s_start_req", "s_dead", "s_body_identity", "s_chunk_data"} \cup ChunkStates
        /\ state' \notin BeforeVersion
    BY <2>1, ChunkStatesAre DEF BeforeVersion, UrlMark
  <2>5. Trails' /\ AsAnnounced'
    BY <1>2, <1>4, <1>5, <2>1, <2>3, <2>4 DEF Trails, AsAnnounced, BodyFits
  <2> QED BY <2>4, <2>5 DEF BodyFits, InChunks, InIdentity, Complete
<1>7. CASE ~(to = "s_chunk_data" /\ length = 0)
  <2>1. state' = to /\ flags' = flags /\ ~Trailing'
    BY <1>2, <1>4, <1>7 DEF Trailing
  <2>2. Chunked(to, Append(tail, ch), length', body)
    <3>1. CASE state = "s_chunk_size_start"
      <4>1. ch \in HexDigits /\ to = "s_chunk_size" /\ length' = HexValue(ch)
        BY <1>1, <1>3, <3>1 DEF ChunkLeads, GoesOn
      <4> QED BY <1>4, <3>1, <4>1, FirstDigit
    <3>2. CASE state = "s_chunk_size" /\ ch \in HexDigits
      <4>1. to = "s_chunk_size" /\ length' = (16 * length + HexValue(ch)) % (SizeMax + 1)
        BY <1>1, <1>3, <3>2 DEF ChunkLeads, GoesOn, HexDigits
      <4>2. Len(tail) > 1 => tail[Len(tail) - 1] \notin HexDigits
        BY <1>0, <3>2 DEF Within
      <4> DEFINE x == 16 * length + HexValue(ch)
      <4>3. Chunked("s_chunk_size", Append(tail, ch), x, body) /\ x \in 0..17
        BY <1>4, <3>2, <4>2, NextDigit
      <4>4. length' = x % (SizeMax + 1)
        BY <4>1
      <4> HIDE DEF x
      <4>5. x % (SizeMax + 1) = x
        <5>1. SizeMax \in Nat /\ SizeMax > 17
          BY ParserAssumption
        <5> QED BY <4>3, <5>1
      <4> QED BY <4>1, <4>3, <4>4, <4>5
    <3>3. CASE GoesOn(state, ch, to)
      <4>1. length' = length
        BY <1>3, <3>3 DEF GoesOn, HexDigits
      <4> QED BY <1>4, <3>3, <4>1, LineGoesOn
    <3>4. CASE state = "s_chunk_size_almost_done" /\ ch = "LF" /\ to = "s_chunk_data"
      <4>1. length' = length /\ length # 0
        BY <1>3, <1>7, <3>4
      <4> QED BY <1>4, <3>4, <4>1, LineEnds
    <3>5. CASE state = "s_chunk_data_almost_done" /\ ch = "CR" /\ to = "s_chunk_data_done"
      <4>1. length' = length
        BY <1>3, <3>5
      <4> QED BY <1>4, <3>5, <4>1, DataEnds
    <3>6. CASE state = "s_chunk_data_done" /\ ch = "LF" /\ to = "s_chunk_size_start"
      <4>1. length' = length
        BY <1>3, <3>6
      <4> QED BY <1>4, <3>6, <4>1, ChunkEnds
    <3> QED BY <1>1, <3>1, <3>2, <3>3, <3>4, <3>5, <3>6 DEF ChunkLeads
  <2>3. Chunked(state', tail', length', body')
    BY <1>0, <1>2, <2>1, <2>2
  <2>4. /\ state' \notin {"s_start_req", "s_dead", "s_body_identity"}
        /\ state' \notin BeforeVersion \cup BehindVersion
    BY <1>1, <2>1, ChunkStatesAre DEF BeforeVersion, BehindVersion, UrlMark
  <2>5. Trails' /\ AsAnnounced'
    BY <1>2, <1>4, <1>5, <2>1, <2>4 DEF Trails, AsAnnounced, BodyFits
  <2> QED BY <2>1, <2>3, <2>4, <2>5 DEF BodyFits, InChunks, InIdentity, Complete
<1> QED BY <1>6, <1>7

(* A piece of the data, of a chunk or of a body of announced length.       *)
LEMMA BodyDataBody ==
    ASSUME ParserInv, BodyFits, BodyData
    PROVE  BodyFits'
<1> DEFINE room == (IF state = "s_chunk_data" THEN MaxTail ELSE MaxData) - Len(tail)
<1>1. PICK n \in 1..Min({length, room}) : \E piece \in [1..n -> Data] :
        /\ body' = body \o piece
        /\ tail' = tail \o piece
        /\ length' = length - n
        /\ state' = BehindData(n, IF state = "s_chunk_data"
                                  THEN "s_chunk_data_almost_done" ELSE NewMessage)
  BY DEF BodyData
<1>2. PICK p \in [1..n -> Data] :
        /\ body' = body \o p
        /\ tail' = tail \o p
        /\ length' = length - n
        /\ state' = BehindData(n, IF state = "s_chunk_data"
                                  THEN "s_chunk_data_almost_done" ELSE NewMessage)
  BY <1>1
<1>3. /\ Reading /\ state \in {"s_body_identity", "s_chunk_data"}
      /\ UNCHANGED <<flags, framing, begun>>
  BY DEF BodyData
<1>4. tail \in Seq(Bytes) /\ Len(tail) \in Nat /\ length \in Nat /\ room \in Int
  <2>1. tail \in Seq(Bytes) /\ length \in Nat /\ MaxTail \in Nat /\ MaxData \in Nat
    BY ParserAssumption DEF ParserInv, Kinds, Bytes, TypeOK
  <2>2. Len(tail) \in Nat
    BY <2>1, LenProperties
  <2> QED BY <2>1, <2>2
<1> HIDE DEF room
<1>5. n \in Nat /\ n \in 1..length
  <2>1. Min({length, room}) = IF length <= room THEN length ELSE room
    BY <1>4, MinOfTwo
  <2>2. Min({length, room}) \in Int /\ Min({length, room}) <= length
    BY <1>4, <2>1
  <2> QED BY <1>4, <2>2
<1>6. p \in Seq(Bytes) /\ Len(p) = n
  <2>1. p \in [1..n -> Bytes]
    BY DEF Data, Bytes, ChunkChars, HexDigits
  <2> QED BY <1>5, <2>1
<1>7. Len(tail') = Len(tail) + n
  BY <1>2, <1>4, <1>6, BytesAppended
<1>8. NewMessage \in {"s_start_req", "s_dead"} /\ begun > 0
  <2>1. state \notin BeforeVersion \cup {"s_start_req", "s_dead"}
    BY <1>3 DEF BeforeVersion, UrlMark
  <2> QED BY <1>3, <2>1, NewMessageAsAsked
<1>9. CASE state = "s_chunk_data"
  <2>1. ~Trailing /\ Chunked("s_chunk_data", tail, length, body)
    BY <1>9 DEF BodyFits, InChunks
  <2>2. state' = IF n = length THEN "s_chunk_data_almost_done" ELSE "s_chunk_data"
    BY <1>2, <1>9 DEF BehindData
  <2>3. Chunked(state', tail', length', body')
    <3>1. CASE n = length
      <4>1. Chunked("s_chunk_data_almost_done", tail \o p, length - n, body \o p)
        BY <1>4, <1>5, <1>6, <2>1, <3>1, DataGrows
      <4> QED BY <1>2, <2>2, <3>1, <4>1
    <3>2. CASE n # length
      <4>1. n < length
        BY <1>4, <1>5, <3>2
      <4>2. Chunked("s_chunk_data", tail \o p, length - n, body \o p)
        BY <1>4, <1>5, <1>6, <2>1, <4>1, DataGrows
      <4> QED BY <1>2, <2>2, <3>2, <4>2
    <3> QED BY <3>1, <3>2
  <2>4. state' \notin BeforeVersion \cup BehindVersion \cup {"s_start_req", "s_dead", "s_body_identity"}
    BY <2>2 DEF BeforeVersion, BehindVersion, UrlMark
  <2>5. ~Trailing'
    BY <1>3, <2>1 DEF Trailing
  <2>6. AsAnnounced' /\ Trails'
    BY <1>3, <2>4, <2>5 DEF BodyFits, AsAnnounced, Trails
  <2> QED BY <2>3, <2>4, <2>5, <2>6 DEF BodyFits, InChunks, InIdentity, Complete
<1>10. CASE state = "s_body_identity"
  <2>1. ~framing.chunked /\ body = tail /\ length > 0 /\ Len(tail) = framing.length - length
        /\ framing.length \in Nat
    BY <1>10 DEF BodyFits, InIdentity, AsAnnounced
  <2>2. state' = IF n = length THEN NewMessage ELSE "s_body_identity"
    BY <1>2, <1>10 DEF BehindData
  <2>3. body' = tail' /\ Len(tail') = framing'.length - length'
    <3>1. body' = tail'
      BY <1>2, <2>1
    <3>2. framing'.length = framing.length
      BY <1>3
    <3>3. Len(tail) + n = framing.length - (length - n)
      BY <1>4, <1>5, <2>1
    <3> QED BY <1>2, <1>7, <3>1, <3>2, <3>3
  <2>4. state' \notin BeforeVersion \cup BehindVersion \cup ChunkStates \cup {"s_chunk_data"}
    BY <1>8, <2>2, ChunkStatesAre DEF BeforeVersion, BehindVersion, UrlMark
  <2>5. ~Trailing /\ ~Trailing'
    BY <1>3, <2>1 DEF BodyFits, Trails, Trailing
  <2>6. AsAnnounced' /\ Trails' /\ InChunks'
    BY <1>3, <2>4, <2>5 DEF BodyFits, AsAnnounced, Trails, InChunks
  <2>7. InIdentity'
    <3>1. state' = "s_body_identity" => n # length
      BY <1>8, <2>2
    <3>2. n # length => length' > 0
      BY <1>2, <1>4, <1>5
    <3> QED BY <1>3, <2>1, <2>3, <3>1, <3>2 DEF InIdentity
  <2>8. Complete'
    <3>1. state' \in {"s_start_req", "s_dead"} => n = length
      BY <2>2
    <3>2. n = length => Len(tail') = framing'.length
      BY <1>2, <1>3, <1>4, <1>5, <1>7, <2>1
    <3> QED BY <1>3, <2>1, <2>3, <3>1, <3>2 DEF Complete, Ended
  <2> QED BY <2>6, <2>7, <2>8 DEF BodyFits
<1> QED BY <1>3, <1>9, <1>10

(* Every step keeps the invariant.                                         *)
LEMMA NextBody == ParserInv /\ BodyFit /\ [Next]_vars => BodyFit'
<1> SUFFICES ASSUME ParserInv, BodyFit, [Next]_vars, at' # "refused" PROVE BodyFits'
  BY DEF BodyFit
<1>1. CASE UNCHANGED vars
  BY <1>1, BodyKeptStep DEF vars, BodyFit, BodyKept
<1>2. CASE HandleClientRequest
  BY <1>2, BodyFreshStep DEF HandleClientRequest, HttpParserInit
<1>3. CASE Method
  BY <1>3, BodyFreshStep DEF Method, FlagsOfNewMessage
<1>4. CASE Character
  BY <1>4, CharacterBody, BodyKeptStep DEF BodyFit, Character, Reading
<1>5. CASE Version \/ Resume \/ EndOfBuffer
  BY <1>5, OtherBody, BodyKeptStep DEF BodyFit
<1>6. CASE HeaderLine
  BY <1>6, HeaderLineBody DEF BodyFit, HeaderLine, Reading
<1>7. CASE HeadersDone
  BY <1>7, HeadersDoneBody DEF BodyFit, HeadersDone, Reading
<1>8. CASE ChunkLine
  BY <1>8, ChunkLineBody DEF BodyFit, ChunkLine, Reading
<1>9. CASE BodyData
  BY <1>9, BodyDataBody DEF BodyFit, BodyData, Reading
<1>10. CASE Refuse
  BY <1>10 DEF Refuse
<1> QED BY <1>1, <1>2, <1>3, <1>4, <1>5, <1>6, <1>7, <1>8, <1>9, <1>10 DEF Next

(* http_parser_execute() hands on_body the bytes of the body and no others,*)
(* announced by length or in chunks, for bodies of any length and any      *)
(* number of chunks, however the buffers cut them; and it leaves the       *)
(* message with the last of them (s_body_identity and the chunk states).   *)
THEOREM BodyReportedWhole == Spec => []BodyWhole
<1>1. ParserInv /\ BodyFit => BodyWhole
  BY BodyFitsWhole
<1> QED BY <1>1, InitBody, NextBody, ParserInvariant, PTL DEF Spec

=============================================================================
