---------------------------- MODULE Http11Parser ----------------------------
(***************************************************************************)
(* The request parser of src/src/Http/http11_parser.cpp, the automaton     *)
(* that ragel generated from http11_parser.rl, as a table: one row for the *)
(* bytes that take a state to the same state with the same actions.  The   *)
(* states of the C++ code carry numbers; here they are named after the     *)
(* part of the request they read, the number being in the comments.        *)
(*                                                                         *)
(* "mark", "field_start" and "query_start" store the position of the byte  *)
(* (MARK), "field_len" the length of the field name; the other members of  *)
(* do are the callbacks, which get the text between a mark and the byte.   *)
(* rx is uri_relaxed, which http_parser_init() leaves uninitialised.       *)
(***************************************************************************)
EXTENDS HttpBytes

\* The classes of the URI grammar.
SubDelims(rx) == {"!", "(", ";", "=", "+"} \cup (IF rx THEN {"{", "}", "^"} ELSE {})
Unreserved == Alpha \cup Digit \cup {"-", ".", "!"}
RegName(rx) == Unreserved \cup SubDelims(rx)
PChar(rx) == RegName(rx) \cup {":", "@"}

\* HTTP_CTL = (0 - 31) | 127 is the difference of two one-byte languages, so a
\* token may hold control characters, CR and LF among them, and 127 is excluded.
Token == Alpha \cup Digit \cup Control \cup {"LF", "VT", "CR", "!", "+", "-", ".",
                                             "#", "%", "^", "|"}
ValueByte == Byte \ {"NUL", "DEL", "CR", "LF"}

\* "%" and two hexadecimal digits, in the state called name.
Escaped(name, from) ==
  Go(from, {"%"}, <<name, 1>>) \cup Go({<<name, 1>>}, XDigit, <<name, 2>>)
    \cup Go({<<name, 2>>}, XDigit, At(name))

\* The bytes that end the path and with it the request URI.
PathEnds(S, pre) ==
  Row(S, {"SP"}, <<"version", 0>>, pre \o <<"request_path", "request_uri">>)
    \cup Row(S, {"#"}, <<"fragment", 0, "first">>, pre \o <<"request_path", "request_uri">>)
    \cup Row(S, {"?"}, <<"query", 0, "first">>, pre \o <<"request_path">>)

Start ==                                                              \* 1
  Row({At("start")}, Upper \cup Digit, <<"method", 1>>, <<"mark">>)
    \cup Row({At("start")}, {"<"}, At("xml"), <<"mark">>)
    \cup Row({At("start")}, {"@"}, At("json"), <<"mark">>)

Method ==                                                    \* 2, 175 - 193
  UNION {Go({<<"method", k>>}, Upper \cup Digit, <<"method", k + 1>>) : k \in 1 .. 19}
    \cup Row({<<"method", k>> : k \in 1 .. 20}, {"SP"}, At("uri"), <<"request_method">>)

UriStart(rx) ==                                                       \* 3
  PathEnds({At("uri")}, <<"mark">>)
    \cup Row({At("uri")}, Alpha, At("scheme"), <<"mark">>)
    \cup Row({At("uri")}, (RegName(rx) \cup {"@"}) \ Alpha, At("noscheme"), <<"mark">>)
    \cup Row({At("uri")}, {"%"}, <<"noscheme", 1>>, <<"mark">>)
    \cup Row({At("uri")}, {"/"}, At("slash"), <<"mark">>)

\* "HTTP/1." and 0 or 1, then the end of the line.
Version ==                                                         \* 4 - 12
  LET text == <<"H", "T", "T", "P", "/", "1", ".">>
  IN  Row({<<"version", 0>>}, {"H"}, <<"version", 1>>, <<"mark">>)
        \cup UNION {Go({<<"version", k>>}, {text[k + 1]}, <<"version", k + 1>>) : k \in 1 .. 6}
        \cup Go({<<"version", 7>>}, {"0", "1"}, <<"version", 8>>)
        \cup Row({<<"version", 8>>}, {"CR"}, At("cr"), <<"http_version">>)
        \cup Row({<<"version", 8>>}, {"LF"}, At("line"), <<"http_version">>)

\* The line after the last header ends the request, also after a lone LF.
HeaderLine ==                                                        \* 13
  Row({At("line")}, {"LF"}, At("done"), <<"field_start", "done">>)
    \cup Row({At("line")}, {"CR"}, At("last_cr"), <<"field_start">>)
    \cup Row({At("line")}, Token \ {"CR", "LF"}, At("name"), <<"field_start">>)

FieldName ==                                                         \* 14
  Go({At("name")}, Token, At("name"))
    \cup Row({At("name")}, {":"}, <<"value", 0, "first">>, <<"field_len">>)

FieldValue ==                                                    \* 15, 16
  LET first == {<<"value", 0, "first">>}
      rest == {At("value")}
  IN  Row(first, Blank, <<"value", 0, "first">>, <<"mark">>)
        \cup Row(first, ValueByte \ Blank, At("value"), <<"mark">>)
        \cup Row(first, {"CR"}, At("cr"), <<"mark", "http_field">>)
        \cup Row(first, {"LF"}, At("line"), <<"mark", "http_field">>)
        \cup Go(rest, ValueByte, At("value"))
        \cup Row(rest, {"CR"}, At("cr"), <<"http_field">>)
        \cup Row(rest, {"LF"}, At("line"), <<"http_field">>)

LineEnd ==                                                       \* 17, 18
  Go({At("cr")}, {"LF"}, At("line"))
    \cup Row({At("last_cr")}, {"LF"}, At("done"), <<"done">>)
    \cup Go({At("last_cr")}, Token \ {"LF"}, At("name"))
    \cup Row({At("last_cr")}, {":"}, <<"value", 0, "first">>, <<"field_len">>)

\* A path without a leading slash, before its first slash.
NoScheme(rx) ==                                             \* 19, 24, 25
  PathEnds({At("noscheme")}, <<>>) \cup Escaped("noscheme", {At("noscheme")})
    \cup Go({At("noscheme")}, RegName(rx) \cup {"@"}, At("noscheme"))
    \cup Go({At("noscheme")}, {"/"}, At("path"))

Fragment(rx) ==                                                  \* 20 - 23
  LET first == {<<"fragment", 0, "first">>}
  IN  Row(first, {"SP"}, <<"version", 0>>, <<"mark", "fragment">>)
        \cup Row(first, PChar(rx) \cup {"/", "?"}, At("fragment"), <<"mark">>)
        \cup Row(first, {"%"}, <<"fragment", 1>>, <<"mark">>)
        \cup Row({At("fragment")}, {"SP"}, <<"version", 0>>, <<"fragment">>)
        \cup Go({At("fragment")}, PChar(rx) \cup {"/", "?"}, At("fragment"))
        \cup Escaped("fragment", {At("fragment")})

Path(rx) ==                                                      \* 26 - 28
  PathEnds({At("path")}, <<>>) \cup Escaped("path", {At("path")})
    \cup Go({At("path")}, PChar(rx) \cup {"/"}, At("path"))

Query(rx) ==                                                     \* 29 - 32
  LET first == {<<"query", 0, "first">>}
      ends(S, pre) ==
        Row(S, {"SP"}, <<"version", 0>>, pre \o <<"query_string", "request_uri">>)
          \cup Row(S, {"#"}, <<"fragment", 0, "first">>,
                   pre \o <<"query_string", "request_uri">>)
  IN  ends(first, <<"query_start">>) \cup ends({At("query")}, <<>>)
        \cup Row(first, PChar(rx) \cup {"/", "?"}, At("query"), <<"query_start">>)
        \cup Row(first, {"%"}, <<"query", 1>>, <<"query_start">>)
        \cup Go({At("query")}, PChar(rx) \cup {"/", "?"}, At("query"))
        \cup Escaped("query", {At("query")})

\* The first slash: a second one starts an authority.
Slash(rx) ==                                                         \* 33
  PathEnds({At("slash")}, <<>>)
    \cup Go({At("slash")}, PChar(rx), At("path"))
    \cup Go({At("slash")}, {"%"}, <<"path", 1>>)
    \cup Go({At("slash")}, {"/"}, <<"authority", 0, "uri">>)

\* The authority is read in two contexts: p is "uri" in a request URI, and "json"
\* in the address of a JSON message, whose states are a copy of the others.
AuthorityEnds(S, p) ==
  IF p = "uri" THEN PathEnds(S, <<>>) \cup Go(S, {"/"}, At("path"))
  ELSE Row(S, {"SP"}, <<"json_data", 0>>, <<"request_path">>)
         \cup Go(S, {"/"}, At("json_path"))

\* user:password or host or port: only an "@" decides.
Authority(rx, p) ==                                                  \* 34
  LET here == {<<"authority", 0, p>>}
  IN  AuthorityEnds(here, p)
        \cup Go(here, RegName(rx), <<"regname", 0, p>>)
        \cup Go(here, {"%"}, <<"regname", 1, p>>)
        \cup Go(here, {":"}, <<"userport", 0, p>>)
        \cup Go(here, {"@"}, <<"host", 0, p, "first">>)
        \cup Go(here, {"["}, <<"literal", p>>)

\* "%" and two digits in a state of the authority.
EscapedIn(name, from, p) ==
  Go(from, {"%"}, <<name, 1, p>>) \cup Go({<<name, 1, p>>}, XDigit, <<name, 2, p>>)
    \cup Go({<<name, 2, p>>}, XDigit, <<name, 0, p>>)

RegNameOrUser(rx, p) ==                                         \* 35 - 37
  LET here == {<<"regname", 0, p>>}
  IN  AuthorityEnds(here, p) \cup EscapedIn("regname", here, p)
        \cup Go(here, RegName(rx), <<"regname", 0, p>>)
        \cup Go(here, {":"}, <<"userport", 0, p>>)
        \cup Go(here, {"@"}, <<"host", 0, p, "first">>)

\* After the first ":", digits may still be a port.
PortOrPassword(rx, p) ==                                             \* 38
  LET here == {<<"userport", 0, p>>}
  IN  AuthorityEnds(here, p)
        \cup Go(here, Digit, <<"userport", 0, p>>)
        \cup Go(here, (RegName(rx) \cup {":"}) \ Digit, <<"userinfo", 0, p>>)
        \cup Go(here, {"%"}, <<"userinfo", 1, p>>)
        \cup Go(here, {"@"}, <<"host", 0, p, "first">>)

UserInfo(rx, p) ==                                              \* 39 - 41
  LET here == {<<"userinfo", 0, p>>}
  IN  EscapedIn("userinfo", here, p)
        \cup Go(here, RegName(rx) \cup {":"}, <<"userinfo", 0, p>>)
        \cup Go(here, {"@"}, <<"host", 0, p, "first">>)

Host(rx, p) ==                                                  \* 42 - 45
  LET first == {<<"host", 0, p, "first">>}
      here == first \cup {<<"host", 0, p>>}
  IN  AuthorityEnds(here, p) \cup EscapedIn("host", here, p)
        \cup Go(here, RegName(rx), <<"host", 0, p>>)
        \cup Go(here, {":"}, <<"port", 0, p>>)
        \cup Go(first, {"["}, <<"literal", p>>)

Port(p) ==                                                           \* 46
  AuthorityEnds({<<"port", 0, p>>}, p)
    \cup Go({<<"port", 0, p>>}, Digit, <<"port", 0, p>>)

(***************************************************************************)
(* The address between "[" and "]".  The grammar writes 6( h16 ":" ) for   *)
(* six groups, which ragel reads as the byte 06 and one group; the counts  *)
(* 5 to 2 are bytes as well.  ("1"-"9") and ("0"-"4") are differences, so  *)
(* an octet of an IPv4 address is 0 - 19, 2, 3 - 9, 100 - 199, 200 - 209   *)
(* or 250.                                                                 *)
(***************************************************************************)
OctetStep == {<<"none", Digit \ {"1", "2"}, "full">>, <<"none", {"1"}, "one">>,
              <<"none", {"2"}, "two">>, <<"one", Digit, "teen">>,
              <<"teen", Digit, "full">>, <<"two", {"0"}, "20">>,
              <<"two", {"5"}, "25">>, <<"20", Digit, "full">>, <<"25", {"0"}, "full">>}
OctetDone == {"one", "teen", "two", "full"}
OctetAfter(o, b) ==
  LET match == {t \in OctetStep : t[1] = o /\ b \in t[2]}
  IN  IF match = {} THEN "no" ELSE (CHOOSE t \in match : TRUE)[3]

LiteralStart(p) ==                                          \* 47, 61, 167
  LET here == {<<"literal", p>>}
  IN  Go(here, {"x06"}, <<"single", 0, p>>)
        \cup Go(here, XDigit, <<"h16", 1, 1, p>>)
        \cup Go(here, {":"}, <<"colon", p>>)
        \cup Go(here, {"v"}, <<"future", 0, p>>)
        \cup Go({<<"colon", p>>}, {":"}, <<"elided", 0, p>>)
        \cup AuthorityEnds({<<"closed", p>>}, p)
        \cup Go({<<"closed", p>>}, {":"}, <<"port", 0, p>>)

\* The group after a count byte, then the last 32 bits.
SingleGroup(p) ==                                               \* 48 - 52
  UNION {Go({<<"single", i, p>>}, XDigit, <<"single", i + 1, p>>) : i \in 0 .. 3}
    \cup Go({<<"single", i, p>> : i \in 1 .. 4}, {":"}, <<"ls32", p>>)

\* Octets two to four of an IPv4 address.
Octets(p) ==                                                    \* 55 - 76
  UNION {Go({<<"octet", j, t[1], p>>}, t[2], <<"octet", j, t[3], p>>) :
           t \in OctetStep, j \in 2 .. 4}
    \cup UNION {Go({<<"octet", j, o, p>> : o \in OctetDone}, {"."},
                   <<"octet", j + 1, "none", p>>) : j \in 2 .. 3}
    \cup Go({<<"octet", 4, o, p>> : o \in OctetDone}, {"]"}, <<"closed", p>>)

LastGroup(p) ==                                                 \* 80 - 83
  UNION {Go({<<"last", i, p>>}, XDigit, <<"last", i + 1, p>>) : i \in 0 .. 3}
    \cup Go({<<"last", i, p>> : i \in 1 .. 4}, {"]"}, <<"closed", p>>)

\* A group that may turn out to be the first octet of an IPv4 address: g names
\* it, colon is where ":" leads, and close tells whether "]" may follow.
GroupOrOctet(start, g, p, colon, close) ==
  LET Octet == OctetDone \cup {"20", "25", "no"}
      State == {<<g, i, o, p>> : i \in 1 .. 4, o \in Octet}
      to(o, t) == {b \in XDigit : OctetAfter(o, b) = t}
  IN  UNION {Go(start, to("none", t), <<g, 1, t, p>>) : t \in Octet}
        \cup UNION {Go({<<g, i, o, p>>}, to(o, t), <<g, i + 1, t, p>>) :
                       i \in 1 .. 3, o \in Octet, t \in Octet}
        \cup Go(State, {":"}, colon)
        \cup Go({s \in State : s[3] \in OctetDone}, {"."}, <<"octet", 2, "none", p>>)
        \cup (IF close THEN Go(State, {"]"}, <<"closed", p>>) ELSE {})

LastThirtyTwoBits(p) ==                             \* 53, 54, 77 - 79, 84 - 90
  GroupOrOctet({<<"ls32", p>>}, "first_of_two", p, <<"last", 0, p>>, FALSE)

\* Groups before a "::", any number from the seventh on.
LeadingGroups(p) ==                                            \* 91 - 125
  LET After(g) == {<<"after", g, p>>}
      Digits(g) == {<<"h16", g, i, p>> : i \in 1 .. 4}
  IN  UNION {Go({<<"h16", g, i, p>>}, XDigit, <<"h16", g, i + 1, p>>) :
               g \in 1 .. 7, i \in 1 .. 3}
        \cup UNION {Go(Digits(g), {":"}, <<"after", g, p>>)
                      \cup Go(After(g), {":"}, <<"elided", g, p>>)
                      \cup Go(After(g), XDigit, <<"h16", IF g = 7 THEN 7 ELSE g + 1, 1, p>>) :
                     g \in 1 .. 7}

\* After "::": a count byte, or the groups that the number of groups before allows.
Elided(p) ==                                            \* 163 - 166, 168
  LET After(G) == {<<"elided", g, p>> : g \in G}
      count(G, on) == Go(After(G), on, <<"single", 0, p>>)
  IN  count({0}, {"x02", "x03", "x04", "x05"}) \cup count({1}, {"x04"})
        \cup count({2}, {"x03"}) \cup count(3 .. 7, {"x02", "x03"})
        \cup Go(After({4}), XDigit, <<"single", 1, p>>)
        \cup Go(After({0, 7}), {"]"}, <<"closed", p>>)

ElidedGroups(p) ==                                \* 126 - 130, 143 - 150
  GroupOrOctet({<<"elided", g, p>> : g \in {0, 6, 7}}, "after_elision", p,
               <<"second", p>>, TRUE)

ElidedSecond(p) ==                                            \* 131 - 142
  GroupOrOctet({<<"second", p>>}, "second_group", p, <<"last", 0, p>>, TRUE)

ElidedAfterFive(p) ==                                         \* 151 - 162
  GroupOrOctet({<<"elided", 5, p>>}, "after_five", p, <<"second", p>>, FALSE)

FutureAddress(rx, p) ==                                       \* 169 - 172
  LET text == RegName(rx) \cup {":"}
  IN  Go({<<"future", 0, p>>, <<"future", 1, p>>}, XDigit, <<"future", 1, p>>)
        \cup Go({<<"future", 1, p>>}, {"."}, <<"future", 2, p>>)
        \cup Go({<<"future", 2, p>>, <<"future", 3, p>>}, text, <<"future", 3, p>>)
        \cup Go({<<"future", 3, p>>}, {"]"}, <<"closed", p>>)

\* scheme ":", or the start of a path after all.
Scheme(rx) ==                                                 \* 173, 174
  LET here == {At("scheme")}
      inner == Alpha \cup Digit \cup {"+", "-", "."}
      hier == {At("hier")}
  IN  PathEnds(here, <<>>)
        \cup Go(here, inner, At("scheme"))
        \cup Go(here, (RegName(rx) \cup {"@"}) \ inner, At("noscheme"))
        \cup Go(here, {"%"}, <<"noscheme", 1>>)
        \cup Go(here, {"/"}, At("path")) \cup Go(here, {":"}, At("hier"))
        \cup PathEnds(hier, <<"mark">>)
        \cup Row(hier, PChar(rx), At("path"), <<"mark">>)
        \cup Row(hier, {"%"}, <<"path", 1>>, <<"mark">>)
        \cup Row(hier, {"/"}, At("slash"), <<"mark">>)

\* "<" name ... ">" NUL.
Xml ==                                                        \* 194 - 197
  LET name == Alpha \cup Digit \cup {"-", "."}
  IN  Go({At("xml"), <<"xml", 1>>}, name, <<"xml", 1>>)
        \cup Row({<<"xml", 1>>}, Blank \cup {"LF", "VT", "CR", "/", ">"}, <<"xml", 2>>,
                 <<"request_path">>)
        \cup Go({<<"xml", 2>>}, Byte \ {">"}, <<"xml", 2>>)
        \cup Go({<<"xml", 2>>, <<"xml", 3>>}, {">"}, <<"xml", 3>>)
        \cup Go({<<"xml", 3>>}, Byte \ {">", "NUL"}, <<"xml", 2>>)
        \cup Row({<<"xml", 3>>}, {"NUL"}, At("done"), <<"xml", "done">>)

\* "@" path " {" ... "}" NUL.
JsonData ==                                                   \* 199 - 201
  Row({<<"json_data", 0>>}, {"{"}, <<"json_data", 1>>, <<"mark">>)
    \cup Go({<<"json_data", 1>>}, Byte \ {"}"}, <<"json_data", 1>>)
    \cup Go({<<"json_data", 1>>, <<"json_data", 2>>}, {"}"}, <<"json_data", 2>>)
    \cup Go({<<"json_data", 2>>}, Byte \ {"}", "NUL"}, <<"json_data", 1>>)
    \cup Row({<<"json_data", 2>>}, {"NUL"}, At("done"), <<"json", "done">>)

JsonPath(rx) ==                                          \* 198, 202 - 208
  LET ends(S) == Row(S, {"SP"}, <<"json_data", 0>>, <<"request_path">>)
      start == {At("json")}
      bare == {At("json_noscheme")}
      first == {At("json_slash")}
      path == {At("json_path")}
  IN  ends(start \cup bare \cup first \cup path)
        \cup Go(start \cup bare, RegName(rx) \cup {"@"}, At("json_noscheme"))
        \cup Escaped("json_noscheme", start \cup bare)
        \cup Go(start, {"/"}, At("json_slash")) \cup Go(bare, {"/"}, At("json_path"))
        \cup Go(first, PChar(rx), At("json_path")) \cup Go(path, PChar(rx) \cup {"/"}, At("json_path"))
        \cup Escaped("json_path", first \cup path)
        \cup Go(first, {"/"}, <<"authority", 0, "json">>)

AuthorityRows(rx, p) ==
  UNION {Authority(rx, p), RegNameOrUser(rx, p), PortOrPassword(rx, p),
         UserInfo(rx, p), Host(rx, p), Port(p)}

LiteralRows(rx, p) ==
  UNION {LiteralStart(p), SingleGroup(p), Octets(p), LastGroup(p),
         LastThirtyTwoBits(p), LeadingGroups(p), Elided(p), ElidedGroups(p),
         ElidedSecond(p), ElidedAfterFive(p), FutureAddress(rx, p)}

\* The copies of the authority and of the address for JSON messages.
JsonAuthority(rx) ==                                          \* 209 - 216
  Authority(rx, "json") \cup RegNameOrUser(rx, "json") \cup PortOrPassword(rx, "json")
    \cup UserInfo(rx, "json")
JsonHost(rx) == Host(rx, "json") \cup Port("json")            \* 217 - 221
JsonSingleGroup == SingleGroup("json") \cup LastThirtyTwoBits("json") \* 223 - 229, 252 - 265
JsonOctets == Octets("json")                                  \* 230 - 251
JsonLastGroup == LastGroup("json")                            \* 255 - 258
JsonLeadingGroups == LeadingGroups("json")                    \* 266 - 300
JsonElidedGroups == ElidedGroups("json")                      \* 301 - 305, 318 - 325
JsonElidedSecond == ElidedSecond("json")                      \* 306 - 317
JsonElidedAfterFive == ElidedAfterFive("json")                \* 326 - 337
JsonElided == LiteralStart("json") \cup Elided("json")        \* 222, 338 - 343
JsonFutureAddress(rx) == FutureAddress(rx, "json")            \* 344 - 347

JsonRows(rx) ==
  UNION {JsonAuthority(rx), JsonHost(rx), JsonSingleGroup, JsonOctets, JsonLastGroup,
         JsonLeadingGroups, JsonElidedGroups, JsonElidedSecond, JsonElidedAfterFive,
         JsonElided, JsonFutureAddress(rx)}

RequestRows(rx) ==
  UNION {Start, Method, UriStart(rx), Version, HeaderLine, FieldName, FieldValue,
         LineEnd, NoScheme(rx), Fragment(rx), Path(rx), Query(rx), Slash(rx),
         AuthorityRows(rx, "uri"), LiteralRows(rx, "uri"), Scheme(rx), Xml, JsonData,
         JsonPath(rx), JsonRows(rx)}

RequestTable == [rx \in BOOLEAN |-> Compile(RequestRows(rx))]
=============================================================================
