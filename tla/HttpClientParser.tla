-------------------------- MODULE HttpClientParser --------------------------
(***************************************************************************)
(* The response parser of src/src/Http/httpclient_parser.cpp (generated    *)
(* from httpclient_parser.rl), as a table in the form of HttpBytes.  It    *)
(* recognises three headers itself, without regard to case: the length,    *)
(* "Connection: close" and "Transfer-Encoding: chunked".  The last state,  *)
(* 120, is "done"; <<"folded_done", w>> are the states 121 - 123, which    *)
(* ragel counts as final but httpclient_parser_is_finished() does not.     *)
(***************************************************************************)
EXTENDS HttpBytes

Capital == [c |-> "C", o |-> "O", n |-> "N", t |-> "T", e |-> "E", l |-> "L",
            g |-> "G", h |-> "H", i |-> "I", r |-> "R", a |-> "A", s |-> "S",
            f |-> "F", d |-> "D", u |-> "U", k |-> "K"]
AnyCase(b) == IF b = "-" THEN {"-"} ELSE {b, Capital[b]}

RToken == Alpha \cup Digit \cup {"!", "#", "%", "+", "-", ".", "^", "|"}
Space == {"SP", "TAB", "VT"}
AnySpace == Space \cup {"CR", "LF"}
Line == At("line")          \* where a header line starts
Name == At("name")          \* any other header name
Value == At("value")

ChunkHeader ==                                                    \* 1 - 3
  LET size == {At("chunk")}
  IN  Row({At("start")}, XDigit, At("chunk"), <<"mark">>)
        \cup Row({At("start")}, {"H"}, <<"version", 1>>, <<"mark">>)
        \cup Go(size, XDigit, At("chunk"))
        \cup Row(size, {";"}, <<"ext", 1>>, <<"chunk_size">>)
        \cup Row(size, {"CR"}, At("last_cr"), <<"chunk_size">>)
        \cup Row(size, {"LF"}, At("done"), <<"chunk_size", "done">>)
        \cup Row({At("last_cr")}, {"LF"}, At("done"), <<"done">>)

\* ;name=value, each passed on as a header.
ChunkExtension ==                                                 \* 4 - 7
  LET ends(s, pre) ==
        Row({s}, {";"}, <<"ext", 1>>, pre \o <<"http_field">>)
          \cup Row({s}, {"CR"}, At("last_cr"), pre \o <<"http_field">>)
          \cup Row({s}, {"LF"}, At("done"), pre \o <<"http_field", "done">>)
  IN  Row({<<"ext", 1>>}, RToken, <<"ext", 2>>, <<"field_start">>)
        \cup Go({<<"ext", 2>>}, RToken, <<"ext", 2>>)
        \cup Row({<<"ext", 2>>}, {"="}, <<"ext", 3>>, <<"field_len", "mark">>)
        \cup ends(<<"ext", 2>>, <<"field_len", "mark">>)
        \cup Row({<<"ext", 3>>}, RToken, <<"ext", 4>>, <<"mark">>)
        \cup Go({<<"ext", 4>>}, RToken, <<"ext", 4>>)
        \cup ends(<<"ext", 4>>, <<>>)

VersionText ==                                                   \* 8 - 15
  LET text == <<"H", "T", "T", "P", "/">>
  IN  UNION {Go({<<"version", k>>}, {text[k + 1]}, <<"version", k + 1>>) : k \in 1 .. 4}
        \cup Go({<<"version", 5>>, <<"version", 6>>}, Digit, <<"version", 6>>)
        \cup Go({<<"version", 6>>}, {"."}, <<"version", 7>>)
        \cup Go({<<"version", 7>>, <<"version", 8>>}, Digit, <<"version", 8>>)
        \cup Row({<<"version", 8>>}, {"SP"}, <<"status", 0>>, <<"http_version">>)

StatusAndReason ==                                              \* 16 - 19
  Row({<<"status", 0>>}, Digit, <<"status", 1>>, <<"mark">>)
    \cup Go({<<"status", 1>>}, Digit, <<"status", 1>>)
    \cup Row({<<"status", 1>>}, {"SP"}, <<"reason", 0>>, <<"status_code">>)
    \cup Row({<<"reason", 0>>}, Byte \ {"LF"}, <<"reason", 1>>, <<"mark">>)
    \cup Go({<<"reason", 1>>}, Byte \ {"LF", "CR"}, <<"reason", 1>>)
    \cup Row({<<"reason", 1>>}, {"LF"}, Line, <<"reason_phrase">>)
    \cup Row({<<"reason", 1>>}, {"CR"}, At("cr"), <<"reason_phrase">>)

\* The start of a header line, in any of the states S that may be one; pre is
\* what is done on leaving S.  Names that begin with one of the three stay open.
LineStart(S, pre) ==
  Row(S, {"CR"}, At("last_cr"), pre) \cup Row(S, {"LF"}, At("done"), pre \o <<"done">>)

NameStart(S, pre, except) ==
  LET do == pre \o <<"field_start">>
  IN  Row(S, AnyCase("c") \ except, <<"con", 1>>, do)
        \cup Row(S, AnyCase("t") \ except, <<"transfer", 1>>, do)
        \cup Row(S, RToken \ (AnyCase("c") \cup AnyCase("t") \cup except), Name, do)

Header ==                                                       \* 20 - 24
  LET first == {<<"value", 0, "first">>}
  IN  LineStart({Line}, <<>>) \cup NameStart({Line}, <<>>, {})
        \cup Go({Name}, RToken, Name)
        \cup Row({Name}, {":"}, <<"value", 0, "first">>, <<"field_len">>)
        \cup Row(first, Space, <<"value", 0, "first">>, <<"mark">>)
        \cup Row(first, Byte \ AnySpace, Value, <<"mark">>)
        \cup Row(first, {"LF"}, Line, <<"mark", "http_field">>)
        \cup Row(first, {"CR"}, At("cr"), <<"mark", "http_field">>)
        \cup Go({Value}, Byte \ {"CR", "LF"}, Value)
        \cup Row({Value}, {"LF"}, Line, <<"http_field">>)
        \cup Row({Value}, {"CR"}, At("cr"), <<"http_field">>)
        \cup Go({At("cr")}, {"LF"}, Line)

\* A name followed letter by letter: <<w, k>> has read k letters of text, the
\* whole of it leads to after, and any other byte of a name makes it a name like
\* the others.
Letters(w, text, after) ==
  UNION {LET here == {<<w, k>>}
             next == AnyCase(text[k + 1])
         IN  Go(here, next, IF k + 1 = Len(text) THEN after ELSE <<w, k + 1>>)
               \cup Go(here, RToken \ next, Name)
               \cup Row(here, {":"}, <<"value", 0, "first">>, <<"field_len">>) :
           k \in 1 .. Len(text) - 1}

\* The whole word: a further letter makes it another name.
Known(w) ==
  Go({<<"known", w>>}, RToken, Name)
    \cup Row({<<"known", w>>}, {":"}, <<"blank", w>>, <<"field_len">>)

ConnectionName ==                                                \* 25 - 34
  Letters("con", <<"c", "o", "n">>, <<"con", 3>>)
    \cup Go({<<"con", 3>>}, AnyCase("n"), <<"nection", 1>>)
    \cup Go({<<"con", 3>>}, AnyCase("t"), <<"tent-length", 1>>)
    \cup Go({<<"con", 3>>}, RToken \ (AnyCase("n") \cup AnyCase("t")), Name)
    \cup Row({<<"con", 3>>}, {":"}, <<"value", 0, "first">>, <<"field_len">>)
    \cup Letters("nection", <<"n", "e", "c", "t", "i", "o", "n">>, <<"known", "connection">>)
    \cup Known("connection")

TransferName ==                                                  \* 44 - 60
  Letters("transfer", <<"t", "r", "a", "n", "s", "f", "e", "r", "-", "e", "n", "c",
                        "o", "d", "i", "n", "g">>, <<"known", "transfer">>)
    \cup Known("transfer")

LengthName ==                                                  \* 101 - 111
  Letters("tent-length", <<"t", "e", "n", "t", "-", "l", "e", "n", "g", "t", "h">>,
          <<"known", "length">>)
    \cup Known("length")

(***************************************************************************)
(* After one of the three names: space* may run over line ends, so a line  *)
(* end leaves open whether the next line continues the value ("pure"), is  *)
(* another header, or both as long as it spells the value ("either").      *)
(* first is what the value begins with, pre what is done there.            *)
(***************************************************************************)
Blanks(w, first, pre) ==
  LET blank == {<<"blank", w>>}
      line == {<<"folded", w>>}
      pure == {<<"pure", w>>, <<"folded_last", w>>, <<"folded_cr", w>>, <<"folded_done", w>>}
  IN  Row(blank, Space, <<"blank", w>>, <<"mark">>)
        \cup Row(blank, {"LF"}, <<"folded", w>>, <<"mark", "http_field">>)
        \cup Row(blank, {"CR"}, <<"folded_cr", w>>, <<"mark", "http_field">>)
        \cup Row(blank, first, <<"in", w, 1>>, <<"mark">>)
        \cup Row(blank, Byte \ (AnySpace \cup first), Value, <<"mark">>)
        \cup Go(line, Space, <<"pure", w>>)
        \cup Row(line, {"LF"}, <<"folded_done", w>>, <<"done">>)
        \cup Go(line, {"CR"}, <<"folded_last", w>>)
        \cup Row(line, first, <<"either", w, 1>>, pre \o <<"field_start">>)
        \cup NameStart(line, <<>>, first)
        \cup Go(pure, Space \cup {"CR"}, <<"pure", w>>)
        \cup Row(pure, first, <<"only", w, 1>>, pre)
        \cup Go({<<"pure", w>>, <<"folded_done", w>>}, {"LF"}, <<"pure", w>>)
        \cup Row({<<"folded_last", w>>}, {"LF"}, <<"folded_done", w>>, <<"done">>)
        \cup Go({<<"folded_cr", w>>}, {"LF"}, <<"folded", w>>)

\* The value text, spelt in a value that may be any, on a continued line, or at
\* the start of a line; a shorter spelling in a value is a value all the same.
Spelling(w, text) ==
  UNION {LET next == AnyCase(text[k + 1])
             in == {<<"in", w, k>>}
             either == {<<"either", w, k>>}
             con == IF k = 1 THEN AnyCase("o") ELSE {}
         IN  Go(in, next, <<"in", w, k + 1>>)
               \cup Go(in, Byte \ ({"CR", "LF"} \cup next), Value)
               \cup Row(in, {"LF"}, Line, <<"http_field">>)
               \cup Row(in, {"CR"}, At("cr"), <<"http_field">>)
               \cup Go({<<"only", w, k>>}, next, <<"only", w, k + 1>>)
               \cup Go(either, next, <<"either", w, k + 1>>)
               \cup Go(either, con, <<"con", 2>>)
               \cup Go(either, RToken \ (next \cup con), Name)
               \cup Row(either, {":"}, <<"value", 0, "first">>, <<"field_len">>) :
           k \in 1 .. Len(text) - 1}
    \cup Go({<<"in", w, Len(text)>>}, Byte \ {"CR", "LF"}, Value)
    \cup Go({<<"either", w, Len(text)>>}, RToken, Name)
    \cup Row({<<"either", w, Len(text)>>}, {":"}, <<"value", 0, "first">>, <<"field_len">>)

\* "Connection:" and what follows it; only a value of its own line is passed on.
ConnectionValue == Blanks("connection", AnyCase("c"), <<>>)          \* 35 - 41

Close ==                                              \* 42, 43, 88, 90 - 100
  LET all(K) == {<<kind, "connection", 5>> : kind \in K}
  IN  Spelling("connection", <<"c", "l", "o", "s", "e">>)
        \cup Go(all({"only", "either"}), {"LF"}, At("closing"))
        \cup Go(all({"only", "either"}), {"CR"}, At("closing_cr"))
        \cup Row(all({"in"}), {"LF"}, At("closing"), <<"http_field">>)
        \cup Row(all({"in"}), {"CR"}, At("closing_cr"), <<"http_field">>)
        \cup Go({At("closing_cr")}, {"LF"}, At("closing"))
        \cup LineStart({At("closing")}, <<"close">>)
        \cup NameStart({At("closing")}, <<"close">>, {})

TransferValue == Blanks("transfer", AnyCase("c"), <<"mark">>)        \* 61 - 72, 80

Chunked ==                                            \* 70, 71, 73 - 79, 81 - 87
  LET all == {<<kind, "transfer", 7>> : kind \in {"in", "only", "either"}}
  IN  Spelling("transfer", <<"c", "h", "u", "n", "k", "e", "d">>)
        \cup Row(all, {"LF"}, Line, <<"http_field", "chunked">>)
        \cup Row(all, {"CR"}, At("chunked_cr"), <<"http_field">>)
        \cup Row({At("chunked_cr")}, {"LF"}, Line, <<"chunked">>)

LengthValue ==                                                \* 112 - 119, 123
  LET all == {<<kind, "length", 1>> : kind \in {"in", "only", "either"}}
      either == {<<"either", "length", 1>>}
  IN  Blanks("length", Digit, <<"mark">>)
        \cup UNION {Go({s}, Digit, s) : s \in all}
        \cup Row(all, {"LF"}, Line, <<"content_len", "http_field">>)
        \cup Row(all, {"CR"}, At("cr"), <<"content_len", "http_field">>)
        \cup Go({<<"in", "length", 1>>}, Byte \ (Digit \cup {"CR", "LF"}), Value)
        \cup Go(either, RToken \ Digit, Name)
        \cup Row(either, {":"}, <<"value", 0, "first">>, <<"field_len">>)

ResponseRows ==
  UNION {ChunkHeader, ChunkExtension, VersionText, StatusAndReason, Header,
         ConnectionName, TransferName, LengthName, ConnectionValue, Close,
         TransferValue, Chunked, LengthValue}

ResponseTable == Compile(ResponseRows)
=============================================================================
