---------------------------- MODULE HttpSession ----------------------------
(***************************************************************************)
(* One connection of the HTTP server: HttpServer::handleClient() around    *)
(* HttpSession::recvRequest() and sendResponse() (src/src/Http), over the  *)
(* fixed-size reads of src/src/Stream.  The bytes on the way to the server *)
(* are wire; every read of the server may return any part of them, an end  *)
(* of file or a failure (the receive timeout).                             *)
(*                                                                         *)
(* The client is external: it writes requests, whole or in the middle of   *)
(* one when it gives up, possibly before the last one was answered.        *)
(***************************************************************************)
EXTENDS HttpRequestParser, Integers, SequencesExt

CONSTANTS
  Requests,        \* the requests the client may write
  Eol,             \* how it ends its lines
  Outcomes,        \* what servlets may make of a request: status, headers and body
  KeepaliveServer, \* m_isKeepalive
  BufferSize,      \* http.request.buffer_size
  StatusText,
  Relaxed,         \* what the memory of a new parser may hold for uri_relaxed
  MaxRequests,     \* bound: requests written on the connection
  Stops,           \* bound: how much of a request it may have written when it gives up
  MaxReads         \* bound: reads of the head of one request

ASSUME SessionAssumption == Relaxed \subseteq BOOLEAN /\ Stops \subseteq Nat

R == INSTANCE HttpResponse

VARIABLES
  written,   \* the requests the client has written, in order
  wire,      \* bytes written and not yet read
  open,      \* the client still writes
  srv,       \* the coroutine of handleClient()
  handed,    \* the requests that were given to a servlet
  answers,   \* the responses sent
  cut,       \* a read of a head ended inside a token
  ahead,     \* a request was written before the last one was answered
  short      \* a read of a body ended before its length

vars == <<written, wire, open, srv, handed, answers, cut, ahead, short>>

\* The bytes of a request.
HeaderLines(headers) ==
  LET names == SetToSeq(DOMAIN headers)
  IN  FlattenSeq([i \in DOMAIN names |-> names[i] \o <<":">> \o headers[names[i]] \o Eol])
HeadBytes(r) ==
  r.method \o <<"SP">> \o r.path \o (IF r.query = <<>> THEN <<>> ELSE <<"?">> \o r.query)
    \o <<"SP">> \o r.version \o Eol \o HeaderLines(r.headers) \o Eol

\* recvRequest() starts with a new parser, in memory that holds anything.
Receiving(rx) ==
  [pc |-> "head", parser |-> NewParser(rx), reads |-> 0, request |-> EmptyRequest,
   cap |-> 0, npos |-> 0]
Closed == [Receiving(FALSE) EXCEPT !.pc = "closed"]

Init ==
  /\ written = <<>> /\ wire = <<>> /\ open = TRUE
  /\ \E rx \in Relaxed : srv = Receiving(rx)
  /\ handed = <<>> /\ answers = <<>>
  /\ cut = FALSE /\ ahead = FALSE /\ short = FALSE

(***************************************************************************)
(* The client.                                                             *)
(***************************************************************************)
Write(r) ==
  /\ open /\ Len(written) < MaxRequests
  /\ written' = Append(written, r)
  /\ wire' = wire \o HeadBytes(r) \o r.body
  /\ ahead' = (ahead \/ Len(answers) < Len(written))
  /\ UNCHANGED <<open, srv, handed, answers, cut, short>>

\* It gives up, in the middle of a request or between two.
GiveUp(r, k) ==
  /\ open /\ open' = FALSE
  /\ k < Len(HeadBytes(r) \o r.body)
  /\ k > 0 => Len(written) < MaxRequests
  /\ wire' = wire \o SubSeq(HeadBytes(r) \o r.body, 1, k)
  /\ ahead' = (ahead \/ (k > 0 /\ Len(answers) < Len(written)))
  /\ UNCHANGED <<written, srv, handed, answers, cut, short>>

(***************************************************************************)
(* recvRequest(): the head, read and parsed piece by piece.                *)
(***************************************************************************)
\* States of the automaton in which no mark is pending.
Between == {At("start"), At("uri"), <<"version", 0>>, At("line"), At("cr"), At("last_cr"),
            <<"fragment", 0, "first">>, <<"query", 0, "first">>}

\* size_t wraps at 2^64; any number that no body reaches will do.
SizeMax == 1000

\* cap bytes of the body are still to be read.
Continue(request, cap) ==
  IF cap > 0 THEN [srv EXCEPT !.pc = "body", !.request = request, !.cap = cap, !.npos = 0]
  ELSE [srv EXCEPT !.pc = "handle", !.request = InitClose(request)]
Left(length, offset) == IF length = 0 THEN 0 ELSE (length + SizeMax - offset) % SizeMax
Copied(rest, length) == SubSeq(rest, 1, IF length < Len(rest) THEN length ELSE Len(rest))

(* Mutant of WithHead: the bytes that came with the head are dropped. *)
WithHeadForgets(x, rest) == Continue(x.request, Left(LengthOf(x.request), Len(rest)))

(* Mutant of WithHead: the branches of the copy are swapped. *)
WithHeadSwapped(x, rest) ==
  LET length == LengthOf(x.request)
      body == [i \in 1 .. length |-> IF i <= Len(rest) THEN rest[i] ELSE "NUL"]
  IN  Continue([x.request EXCEPT !.body = body], Left(length, Len(rest)))

(* Mutant of WithHead: the length is not reduced by what was read with the head. *)
WithHeadWaits(x, rest) ==
  LET length == LengthOf(x.request)
  IN  Continue([x.request EXCEPT !.body = Copied(rest, length)], length)

\* What follows the head in the buffer is the start of the body; length -= offset
\* wraps when it is more than the body.
WithHead(x, rest) ==
  LET length == LengthOf(x.request)
  IN  Continue([x.request EXCEPT !.body = Copied(rest, length)], Left(length, Len(rest)))

\* What a parser keeps between two calls of execute().
Kept(x) == [f \in DOMAIN NewParser(x.rx) |-> x[f]]

ReadHead(n) ==
  /\ srv.pc = "head" /\ n \in 1 .. Len(wire) /\ n <= BufferSize
  /\ srv.reads < MaxReads \/ n = Len(wire) \/ n = BufferSize
  /\ LET x == Execute(srv.parser, SubSeq(wire, 1, n))
     IN  /\ srv' = IF x.threw \/ HasError(x) THEN Closed
                   ELSE IF IsFinished(x) THEN WithHead(x, SubSeq(wire, x.nread + 1, n))
                   ELSE [srv EXCEPT !.parser = Kept(x),
                                    !.reads = IF @ < MaxReads THEN @ + 1 ELSE @]
         /\ cut' = (cut \/ (~IsFinished(x) /\ x.cs \notin Between))
  /\ wire' = SubSeq(wire, n + 1, Len(wire))
  /\ UNCHANGED <<written, open, handed, answers, ahead, short>>

\* The end of the stream, or the receive timeout.
Outcome == {rt \in {0, 1} : wire = <<>> /\ (rt = 0 => ~open)}   \* 1 stands for -1

FailHead ==
  /\ srv.pc = "head" /\ Outcome # {}
  /\ srv' = Closed
  /\ UNCHANGED <<written, wire, open, handed, answers, cut, ahead, short>>

(***************************************************************************)
(* readFixSize(): the rest of the body.  A read that fails after npos      *)
(* bytes returns npos + rt, which recvRequest() takes for success when it  *)
(* is positive; the bytes that are missing stay 0.                         *)
(***************************************************************************)
BodyLength == LengthOf(srv.request)

ReadBody(n) ==
  /\ srv.pc = "body" /\ n \in 1 .. Len(wire) /\ n <= srv.cap
  /\ LET request == [srv.request EXCEPT !.body = @ \o SubSeq(wire, 1, n)]
     IN  srv' = IF Len(request.body) > BodyLength THEN [srv EXCEPT !.pc = "overrun"]
                ELSE IF n = srv.cap
                THEN [srv EXCEPT !.pc = "handle", !.request = InitClose(request)]
                ELSE [srv EXCEPT !.request = request, !.cap = @ - n, !.npos = @ + n]
  /\ wire' = SubSeq(wire, n + 1, Len(wire))
  /\ UNCHANGED <<written, open, handed, answers, cut, ahead, short>>

FailBody(rt) ==
  /\ srv.pc = "body" /\ rt \in Outcome
  /\ IF srv.npos - rt <= 0 THEN srv' = Closed /\ UNCHANGED short
     ELSE LET zeros == [i \in 1 .. BodyLength - Len(srv.request.body) |-> "NUL"]
              request == [srv.request EXCEPT !.body = @ \o zeros]
          IN  /\ srv' = [srv EXCEPT !.pc = "handle", !.request = InitClose(request)]
              /\ short' = TRUE
  /\ UNCHANGED <<written, wire, open, handed, answers, cut, ahead>>

(***************************************************************************)
(* handleClient(): a servlet fills the response, which is sent whatever    *)
(* becomes of it, and the loop goes on: also after "connection: close".    *)
(***************************************************************************)
Handle(o) ==
  /\ srv.pc = "handle"
  /\ handed' = Append(handed, srv.request)
  /\ answers' = Append(answers, [version |-> srv.request.version, status |-> o.status,
                                 reason |-> <<>>, headers |-> o.headers,
                                 close |-> srv.request.close \/ ~KeepaliveServer,
                                 body |-> o.body])
  /\ \E rx \in Relaxed : srv' = Receiving(rx)
  /\ UNCHANGED <<written, wire, open, cut, ahead, short>>

ReadsHead == \E n \in 1 .. Len(wire) : ReadHead(n)
ReadsBody == \E n \in 1 .. Len(wire) : ReadBody(n)
Handles == \E o \in Outcomes : Handle(o)

\* The connection is over; after a write beyond the body anything may happen.
Over ==
  /\ srv.pc \in {"closed", "overrun"}
  /\ UNCHANGED vars

Next ==
  \/ \E r \in Requests : Write(r)
  \/ \E r \in Requests : \E k \in Stops : GiveUp(r, k)
  \/ ReadsHead \/ FailHead \/ ReadsBody
  \/ \E rt \in {0, 1} : FailBody(rt)
  \/ Handles \/ Over

\* The scheduler runs a coroutine whose descriptor is readable, and that coroutine
\* takes something from the wire.
Takes ==
  /\ srv.pc \in {"head", "body"}
  /\ \E n \in 1 .. Len(wire) : wire' = SubSeq(wire, n + 1, Len(wire))

Spec == Init /\ [][Next]_vars /\ WF_wire(Takes) /\ WF_vars(Handles)

-----------------------------------------------------------------------------
TypeOK ==
  /\ written \in Seq(Requests) /\ Len(written) <= MaxRequests
  /\ wire \in Seq(Byte)
  /\ srv.pc \in {"head", "body", "handle", "closed", "overrun"}
  /\ srv.pc = "body" => /\ srv.cap \in 1 .. SizeMax - 1
                        /\ Len(srv.request.body) <= BodyLength
  /\ Len(handed) = Len(answers)
  /\ {open, cut, ahead, short} \subseteq BOOLEAN

\* What a servlet gets is what the client wrote, in the order it was written,
\* however the bytes were divided over reads: unless a read of a head ended
\* inside a token, the client wrote ahead or it gave up in a body.  That last
\* exception is not what readFixSize() says ("does not return before it has read",
\* stream.cpp:6): it counts an end of file after a byte of the body as success.
Same(got, r) ==
  /\ got.method = r.method /\ got.path = r.path /\ got.query = r.query
  /\ got.version = r.version /\ got.headers = r.headers /\ got.body = r.body

HandedOverIntact ==
  ~cut /\ ~ahead /\ ~short =>
    Len(handed) <= Len(written) /\ \A i \in DOMAIN handed : Same(handed[i], written[i])

\* The length of recvRequest() wraps, and the body is written beyond its end, only
\* for a client that writes ahead, or after a read that ended inside a token (it may
\* lose the length, and what is then taken for the next request is the body).
OverrunHasCause == srv.pc = "overrun" => ahead \/ cut

(***************************************************************************)
(* What the two properties above take from the parser: of each request it  *)
(* makes what the client meant, wherever the reads of the head end, as     *)
(* long as they end in a state of Between.                                 *)
(***************************************************************************)
Headed(r) ==
  [EmptyRequest EXCEPT !.method = r.method, !.path = r.path, !.query = r.query,
                       !.version = r.version, !.headers = r.headers]

\* The parsers that may have read the first p bytes of r's head: query_start was set
\* in any of the buffers, or not at all.
Reached(r, p) ==
  UNION {LET x == Execute(NewParser(rx), SubSeq(HeadBytes(r), 1, p))
         IN  IF x.cs \in Between
             THEN {[Kept(x) EXCEPT !.query_start = at] : at \in 0 .. p} ELSE {} : rx \in Relaxed}

\* A read of n bytes: it ends behind the head when the parser says so, which then has
\* the request, or before.
Understands(r, p, n, parser) ==
  LET bytes == HeadBytes(r) \o r.body
      x == Execute(parser, SubSeq(bytes, p + 1, p + n))
  IN  ~x.threw /\ ~HasError(x) =>
        IF IsFinished(x)
        THEN /\ x.nread \in 0 .. n /\ p + x.nread = Len(HeadBytes(r))
             /\ x.request = Headed(r)
        ELSE x.cs \in Between => p + n < Len(HeadBytes(r)) /\ Kept(x) \in Reached(r, p + n)

ASSUME ParserAssumption ==
  \A r \in Requests :
    /\ HeadBytes(r) \in Seq(Byte) \ {<<>>} /\ r.body \in Seq(Byte)
    /\ LengthOf(Headed(r)) = Len(r.body) /\ Len(r.body) < SizeMax
    /\ \A rx \in Relaxed : NewParser(rx) \in Reached(r, 0)
    /\ \A p \in 0 .. Len(HeadBytes(r)) - 1 :
         \A n \in 1 .. Len(HeadBytes(r) \o r.body) - p :
           \A parser \in Reached(r, p) : Understands(r, p, n, parser)

\* The response parser of this repository understands whatever dump() prints: status,
\* connection, length and where the body begins.
Understood(a) ==
  LET bytes == R!Dump(a)
      x == R!ClientExecute(R!NewResponseParser, bytes)
  IN  /\ x.cs = At("done") /\ x.status = a.status /\ x.version = a.version
      /\ x.close = a.close /\ ~x.chunked
      /\ x.content_len = IF a.body = <<>> THEN -1 ELSE Len(a.body)
      /\ x.body_start = Len(bytes) - Len(a.body)
ResponseUnderstood == [][answers' # answers => Understood(Last(answers'))]_vars

\* A request that was written completely is answered, or the connection is
\* closed: as long as the client waits for its answers.
AnsweredOrClosed ==
  \A i \in 1 .. MaxRequests :
    Len(written) >= i ~> Len(answers) >= i \/ srv.pc \in {"closed", "overrun"} \/ ahead
=============================================================================
