---------------------------- MODULE HttpResponse ----------------------------
(***************************************************************************)
(* HttpResponse of src/src/Http/http.cpp as the bytes that dump() prints,  *)
(* and HttpResponseParser of http_parser.cpp, which reads them back with   *)
(* the automaton of HttpClientParser.  A response is a record of version,  *)
(* status, reason (empty for the one HttpStatusToString() knows), headers, *)
(* close and body.                                                         *)
(***************************************************************************)
EXTENDS HttpClientParser, Integers, SequencesExt

CONSTANT StatusText       \* HTTP_STATUS_MAP for the codes that occur: code -> reason

CRLF == <<"CR", "LF">>
Word == [http |-> <<"H", "T", "T", "P", "/", "1", ".">>,
         connection |-> <<"c", "o", "n", "n", "e", "c", "t", "i", "o", "n">>,
         keep |-> <<"k", "e", "e", "p", "-", "a", "l", "i", "v", "e">>,
         close |-> <<"c", "l", "o", "s", "e">>,
         length |-> <<"c", "o", "n", "t", "e", "n", "t", "-", "l", "e", "n", "g", "t", "h">>]

DigitsOf(n) ==
  LET digit(d) == CHOOSE b \in Digit : b = ToString(d)
      text[m \in 0 .. n] == IF m < 10 THEN <<digit(m)>> ELSE Append(text[m \div 10], digit(m % 10))
  IN  text[n]
HeaderBytes(name, value) == name \o <<":", "SP">> \o value \o CRLF

(* Mutant of Dump: the length is printed for the responses that need none. *)
DumpNoLength(r) ==
  LET names == SetToSeq(DOMAIN r.headers \ {Word.connection})
      headers == FlattenSeq([i \in DOMAIN names |-> HeaderBytes(names[i], r.headers[names[i]])])
  IN  Word.http \o <<r.version[8], "SP">> \o DigitsOf(r.status) \o <<"SP">>
        \o (IF r.reason = <<>> THEN StatusText[r.status] ELSE r.reason) \o CRLF
        \o headers
        \o HeaderBytes(Word.connection, IF r.close THEN Word.close ELSE Word.keep)
        \o (IF r.body = <<>> THEN HeaderBytes(Word.length, DigitsOf(Len(r.body))) ELSE <<>>)
        \o CRLF \o r.body

\* HttpResponse::dump(): a "connection" header of the handler's is skipped, and the
\* length is printed only with a body.
Dump(r) ==
  LET names == SetToSeq(DOMAIN r.headers \ {Word.connection})
      headers == FlattenSeq([i \in DOMAIN names |-> HeaderBytes(names[i], r.headers[names[i]])])
  IN  Word.http \o <<r.version[8], "SP">> \o DigitsOf(r.status) \o <<"SP">>
        \o (IF r.reason = <<>> THEN StatusText[r.status] ELSE r.reason) \o CRLF
        \o headers
        \o HeaderBytes(Word.connection, IF r.close THEN Word.close ELSE Word.keep)
        \o (IF r.body # <<>> THEN HeaderBytes(Word.length, DigitsOf(Len(r.body))) ELSE <<>>)
        \o CRLF \o r.body

\* httpclient_parser_init().
NewResponseParser ==
  [cs |-> At("start"), mark |-> 0, field_start |-> 0, field_len |-> 0, nread |-> 0,
   content_len |-> -1, chunked |-> FALSE, close |-> FALSE, body_start |-> 0,
   stopped |-> FALSE, status |-> 0, reason |-> <<>>, version |-> <<>>, headers |-> [n \in {} |-> <<>>]]

\* strtol() and atoi(): the digits at from, whatever ends them.
NumberAt(buf, from) ==
  LET value[i \in 0 .. Len(buf)] ==
        IF i = from THEN <<0, TRUE>>
        ELSE LET v == value[i - 1]
             IN  IF v[2] /\ buf[i] \in Digit
                 THEN <<10 * v[1] + (CHOOSE n \in 0 .. 9 : buf[i] = ToString(n)), TRUE>>
                 ELSE <<v[1], FALSE>>
  IN  value[Len(buf)][1]

\* One action of a transition, at position at of buf.  A chunk size is read as
\* decimal digits here.
ClientAct(x, a, buf, at) ==
  LET text(from, len) == SubSeq(buf, from + 1, from + len)
      marked == text(x.mark, at - x.mark)
  IN  CASE a = "mark" -> [x EXCEPT !.mark = at]
        [] a = "field_start" -> [x EXCEPT !.field_start = at]
        [] a = "field_len" -> [x EXCEPT !.field_len = at - x.field_start]
        [] a = "http_field" ->
             [x EXCEPT !.headers = (text(x.field_start, x.field_len) :> marked) @@ @]
        [] a = "content_len" -> [x EXCEPT !.content_len = NumberAt(buf, x.mark)]
        [] a = "close" -> [x EXCEPT !.close = TRUE]
        [] a = "chunked" -> [x EXCEPT !.chunked = TRUE]
        [] a = "chunk_size" -> [x EXCEPT !.chunked = TRUE, !.content_len = NumberAt(buf, x.mark)]
        [] a = "status_code" -> [x EXCEPT !.status = NumberAt(buf, x.mark)]
        [] a = "reason_phrase" -> [x EXCEPT !.reason = marked]
        [] a = "http_version" -> [x EXCEPT !.version = marked]
        [] a = "done" -> [x EXCEPT !.body_start = at + 1, !.stopped = TRUE]

\* httpclient_parser_execute(): the count of the bytes read is one too high when
\* the head of the response was complete.
ClientExecute(parser, buf) ==
  LET byte[i \in 0 .. Len(buf)] ==
        IF i = 0 THEN [parser EXCEPT !.stopped = FALSE]
        ELSE LET x == byte[i - 1]
                 step == ResponseTable[x.cs][buf[i]]
                 act[k \in 0 .. Len(step.do)] ==
                   IF k = 0 THEN x ELSE ClientAct(act[k - 1], step.do[k], buf, i - 1)
             IN  IF x.stopped \/ x.cs = At("error") THEN x
                 ELSE [act[Len(step.do)] EXCEPT
                         !.cs = step.to,
                         !.nread = IF step.to = At("error") THEN @ ELSE @ + 1]
      x == byte[Len(buf)]
  IN  IF x.body_start # 0 THEN [x EXCEPT !.nread = @ + 1] ELSE x
=============================================================================
