------------------------ MODULE MCHttpRequestParser -------------------------
(* Small instances of HttpRequestParser for TLC.                            *)
EXTENDS HttpRequestParser

Lengths == [h \in {"length-0", "length-2", "length-3"} |->
                CASE h = "length-0" -> 0
                  [] h = "length-2" -> 2
                  [] h = "length-3" -> 3]
=============================================================================
