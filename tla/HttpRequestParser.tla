------------------------- MODULE HttpRequestParser -------------------------
(***************************************************************************)
(* HttpRequestParser of src/src/Http/http_parser.cpp: the automaton of     *)
(* Http11Parser run over a buffer, and the callbacks that fill a request.  *)
(* A parser is a record of what outlives a call of execute():              *)
(*   cs, query_start   of http_parser                                      *)
(*   rx                uri_relaxed, which nothing initialises              *)
(*   error             m_error                                             *)
(*   threw             a callback threw: the text has a negative length    *)
(*   request           m_request                                           *)
(* Texts are sequences of bytes; a position counts from 0 as in the code.  *)
(***************************************************************************)
EXTENDS Http11Parser, TLC

CONSTANT Methods          \* the texts of HTTP_METHOD_MAP that occur

ContentLength == <<"c", "o", "n", "t", "e", "n", "t", "-", "l", "e", "n", "g", "t", "h">>
Connection == <<"c", "o", "n", "n", "e", "c", "t", "i", "o", "n">>
KeepAlive == <<"k", "e", "e", "p", "-", "a", "l", "i", "v", "e">>
HTTP11 == <<"H", "T", "T", "P", "/", "1", ".", "1">>
HTTP10 == <<"H", "T", "T", "P", "/", "1", ".", "0">>

DigitValue == [d \in Digit |-> CHOOSE n \in 0 .. 9 : d = ToString(n)]
IsNumber(text) == text # <<>> /\ \A i \in DOMAIN text : text[i] \in Digit
NumberOf(text) ==
  LET value[i \in 0 .. Len(text)] == IF i = 0 THEN 0 ELSE 10 * value[i - 1] + DigitValue[text[i]]
  IN  value[Len(text)]
StartsWith(text, prefix) ==
  Len(prefix) <= Len(text) /\ SubSeq(text, 1, Len(prefix)) = prefix

NoHeaders == [n \in {} |-> <<>>]
EmptyRequest ==
  [method |-> <<"G", "E", "T">>, path |-> <<"/">>, query |-> <<>>, fragment |-> <<>>,
   version |-> HTTP11, headers |-> NoHeaders, close |-> TRUE, body |-> <<>>]

NewParser(rx) ==
  [cs |-> At("start"), query_start |-> 0, rx |-> rx, error |-> FALSE, threw |-> FALSE,
   request |-> EmptyRequest]

\* The callbacks: x is the parser during a call of execute(), text what they get.
OnMethod(x, text) ==
  IF \E m \in Methods : StartsWith(text, m)
  THEN [x EXCEPT !.request.method = CHOOSE m \in Methods : StartsWith(text, m)]
  ELSE [x EXCEPT !.error = TRUE]

OnField(x, name, value) ==
  IF name = <<>> THEN [x EXCEPT !.error = TRUE]
  ELSE [x EXCEPT !.request.headers = (name :> value) @@ @]

\* strncmp() over the length of the text: an empty one equals "HTTP/1.1".
OnVersion(x, text) ==
  IF StartsWith(HTTP11, text) THEN [x EXCEPT !.request.version = HTTP11]
  ELSE IF StartsWith(HTTP10, text) THEN [x EXCEPT !.request.version = HTTP10]
  ELSE [x EXCEPT !.error = TRUE]

OnFragment(x, text) == [x EXCEPT !.request.fragment = text]
OnPath(x, text) == [x EXCEPT !.request.path = text]
OnQuery(x, text) == [x EXCEPT !.request.query = text]

\* One action of a transition, at position at of buf.
Act(x, a, buf, at) ==
  LET text(from, len) == SubSeq(buf, from + 1, from + len)
      marked == text(x.mark, at - x.mark)
  IN  CASE a = "mark" -> [x EXCEPT !.mark = at]
        [] a = "field_start" -> [x EXCEPT !.field_start = at]
        [] a = "query_start" -> [x EXCEPT !.query_start = at]
        [] a = "field_len" -> [x EXCEPT !.field_len = at - x.field_start]
        [] a = "http_field" -> OnField(x, text(x.field_start, x.field_len), marked)
        [] a = "request_method" -> OnMethod(x, marked)
        [] a = "request_path" -> OnPath(x, marked)
        [] a = "query_string" -> IF at < x.query_start THEN [x EXCEPT !.threw = TRUE]
                                 ELSE OnQuery(x, text(x.query_start, at - x.query_start))
        [] a = "fragment" -> OnFragment(x, marked)
        [] a = "http_version" -> OnVersion(x, marked)
        [] OTHER -> x          \* on_request_uri(), on_header_request_done(), body_start

\* http_parser_execute(): mark, field_start and field_len begin at 0, query_start
\* does not; the loop ends at the end of buf, on an error and when it is done.
Execute(parser, buf) ==
  LET table == RequestTable[parser.rx]
      Start0 == [cs |-> parser.cs, query_start |-> parser.query_start, rx |-> parser.rx,
                 error |-> parser.error, threw |-> FALSE, request |-> parser.request,
                 mark |-> 0, field_start |-> 0, field_len |-> 0, nread |-> 0]
      byte[i \in 0 .. Len(buf)] ==
        IF i = 0 THEN Start0
        ELSE LET x == byte[i - 1]
                 step == table[x.cs][buf[i]]
                 act[k \in 0 .. Len(step.do)] ==
                   IF k = 0 THEN x ELSE Act(act[k - 1], step.do[k], buf, i - 1)
             IN  IF x.threw \/ x.cs \in {At("done"), At("error")} THEN x
                 ELSE [act[Len(step.do)] EXCEPT
                         !.cs = step.to, !.nread = IF step.to = At("error") THEN i - 1 ELSE i]
  IN  byte[Len(buf)]

HasError(x) == x.error \/ x.cs = At("error")
IsFinished(x) == x.cs = At("done")

\* getContentLength(): a text that is no number counts as 0.
LengthOf(request) ==
  IF ContentLength \in DOMAIN request.headers /\ IsNumber(request.headers[ContentLength])
  THEN NumberOf(request.headers[ContentLength]) ELSE 0

\* HttpRequest::init(): keep the connection only when asked to.
InitClose(request) ==
  IF Connection \in DOMAIN request.headers /\ request.headers[Connection] # <<>>
  THEN [request EXCEPT !.close = request.headers[Connection] # KeepAlive]
  ELSE request
=============================================================================
